\* A log of three bytes followed beside the connection's; one health check of
\* each kind and a registry with one instance; two writers of
\* the manifest beside a write by hand.
SPECIFICATION BesideSpec
CONSTANTS
  Named <- MCNamed
  Connection = "connection"
  Watched = "api"
  Selections <- MCSelections
  LineLimit = 1
  ReadChunk = 2
  SnapshotBytes = 4
  InitialLines = 2
  ChannelSize = 1
  MaxBytes <- MCBytes
  Checks <- MCChecks
  Observed = TRUE
  Registered = TRUE
  Mode = "loopback"
  Instances = {"i"}
  Patience = 1
  Duration = 2
  Grace = 2
  Writers <- MCWriters
  Roles <- MCRoles
  MaxByHand = 1
INVARIANTS
  NothingSkippedOrRepeated
  NoEditLost
PROPERTIES
  NoFollowerLeaks
  FollowingIsTailing
  VerificationIsEarned
  VerificationEnds
CHECK_DEADLOCK FALSE
