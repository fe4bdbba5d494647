------------------------ MODULE MCWorkspaceSession --------------------------
(* Small instances of WorkspaceSession: a service a and a service b that    *)
(* starts after it.                                                         *)
EXTENDS WorkspaceSession, TLC

CONSTANTS h1, h2

InOrder == [s \in {"a", "b"} |-> IF s = "a" THEN 1 ELSE 2]

\* Bound: when commands fail and groups survive SIGKILL nothing is restarted.
StopsAndStarts == faults = {"commandFails", "stopFails"} => kind # "restart"

BoundedSpec == Init /\ [][Next /\ StopsAndStarts']_vars

WatcherSymmetry == Permutations(Watcher)
=============================================================================
