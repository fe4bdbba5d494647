\* One shared configuration and nothing goes wrong: a restart in one workspace
\* while the other releases its lease.
SPECIFICATION Spec
CONSTANTS
    w1 = w1
    w2 = w2
    f1 = f1
    f2 = f2
    p1 = p1
    p2 = p2
    p3 = p3
    x1 = x1
    x2 = x2
    None = None
    Workspace = {w1, w2}
    Fingerprint = {f1}
    Ktctl = {f1}
    Proc = {p1, p2}
    FingerprintOf <- OneConfiguration
    Path = {x1}
    Executable <- OneExecutable
    ExecutableOf <- RunsIt
    Faults = {}
INVARIANT
    LiveServicesKeepConnection
