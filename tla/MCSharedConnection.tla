------------------------ MODULE MCSharedConnection ------------------------
(* Small instances of SharedConnection: two workspaces, one or two         *)
(* configurations and two or three connection processes.                   *)
EXTENDS SharedConnectionInvariant, TLC

CONSTANTS w1, w2, f1, f2, p1, p2, p3, x1, x2

OneConfiguration == [p \in {p1, p2} |-> f1]
TwoConfigurations == (p1 :> f1) @@ (p2 :> f2)

(* Every workspace finds one executable for every configuration; or w2     *)
(* finds another one than w1 for f2.                                       *)
OneExecutable == [w \in Workspace |-> [f \in Fingerprint |-> x1]]
RunsIt == [p \in Proc |-> x1]

ThreeProcesses == (p1 :> f1) @@ (p2 :> f2) @@ (p3 :> f2)
TwoExecutables == (w1 :> [f \in Fingerprint |-> x1]) @@ (w2 :> (f1 :> x1 @@ f2 :> x2))
RunsItOrTheOther == (p1 :> x1) @@ (p2 :> x1) @@ (p3 :> x2)

WorkspaceSymmetry == Permutations(Workspace)
=============================================================================
