\* Two workspaces share one ktctl configuration and two generations of its
\* process; every fault but a crash of Conven.
SPECIFICATION Spec
CONSTANTS
    w1 = w1
    w2 = w2
    f1 = f1
    f2 = f2
    p1 = p1
    p2 = p2
    p3 = p3
    x1 = x1
    x2 = x2
    None = None
    Workspace = {w1, w2}
    Fingerprint = {f1}
    Ktctl = {f1}
    Proc = {p1, p2}
    FingerprintOf <- OneConfiguration
    Path = {x1}
    Executable <- OneExecutable
    ExecutableOf <- RunsIt
    Faults = {"connectionDies", "pidReuse", "servicesDie", "stopFails", "saveFails"}
SYMMETRY WorkspaceSymmetry
INVARIANTS
    UsersKeepConnection
    NoLostConnection
    NoLeaseWithoutSession
PROPERTIES
    UnverifiedNeedsForce
