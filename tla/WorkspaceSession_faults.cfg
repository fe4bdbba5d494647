\* Two services, one started after the other.  Commands fail and groups survive
\* SIGKILL; or session.json cannot be written and services exit; or commands are
\* killed; or sources change and builds are skipped.
SPECIFICATION BoundedSpec
CONSTANTS
    h1 = h1
    h2 = h2
    Service = {"a", "b"}
    Rank <- InOrder
    GroupOf <- InOrder
    Persistent = {"a"}
    Slots = 3
    Watcher = {h1, h2}
    MaxVersion = 1
    MaxOrphans = 1
    Cli = Cli
    None = None
    FaultSets = {{"commandFails", "stopFails"}, {"commandFails", "saveFails", "dies"},
                 {"crash"}, {"edit", "skipBuild"}}
SYMMETRY WatcherSymmetry
INVARIANTS
    NoLostService SingleInstance NoStaleFingerprint
PROPERTIES
    RestartSpares StartAllOrNothing
