\* Two workspaces ask for two ktctl configurations, for one of which they find
\* different executables; commands are killed.
SPECIFICATION Spec
CONSTANTS
    w1 = w1
    w2 = w2
    f1 = f1
    f2 = f2
    p1 = p1
    p2 = p2
    p3 = p3
    x1 = x1
    x2 = x2
    None = None
    Workspace = {w1, w2}
    Fingerprint = {f1, f2}
    Ktctl = {f1, f2}
    Proc = {p1, p2, p3}
    FingerprintOf <- ThreeProcesses
    Path = {x1, x2}
    Executable <- TwoExecutables
    ExecutableOf <- RunsItOrTheOther
    Faults = {"crash"}
INVARIANTS
    OneKtctl
