---------------------------- MODULE MCBesideOthers ----------------------------
(***************************************************************************)
(* Parts that meet, in files and ports, others they do not control: the    *)
(* followers of the logs, the verification of a service, the writers of    *)
(* the manifest.  They share no state, so one of them moves and the others *)
(* stay where they began.  What a part owes under fairness, it owes when   *)
(* it moves.                                                               *)
(***************************************************************************)
EXTENDS LogStream, ServiceVerification, WorkspaceManifest, TLC

VARIABLE part  \* the part that moves

MCNamed == <<"api">>
MCSelections == {<<>>, <<"api">>}
MCBytes == [l \in Logs |-> IF l = "api" THEN 3 ELSE 1]
MCChecks == <<"process", "tcp">>

\* Any two kinds of writers; which of two is which is all the same.
MCWriters == {"a", "b"}
MCKinds ==
  <<"edit", "import", "import edit", "reset", "migrate", "init", "bindings", "listeners",
    "discover", "page">>
MCRoles ==
  {("a" :> MCKinds[p[1]]) @@ ("b" :> MCKinds[p[2]]) :
     p \in {q \in (1 .. 10) \X (1 .. 10) : q[1] <= q[2]}}

BesideInit ==
  /\ part \in {"stream", "verify", "manifest"}
  /\ StreamInit /\ VerifyInit /\ ManifestInit
  /\ part = "verify" \/ (port = "nobody" /\ entries = Nowhere)
  /\ part = "manifest" \/ (Missing /\ does = [w \in Writers |-> "edit"])

BesideNext ==
  /\ UNCHANGED part
  /\ \/ part = "stream" /\ StreamNext /\ UNCHANGED <<verifyVars, manifestVars>>
     \/ part = "verify" /\ VerifyNext /\ UNCHANGED <<streamVars, manifestVars>>
     \/ part = "manifest" /\ ManifestNext /\ UNCHANGED <<streamVars, verifyVars>>

BesideSpec ==
  /\ BesideInit /\ [][BesideNext]_<<part, streamVars, verifyVars, manifestVars>>
  /\ \A l \in Logs : WF_streamVars(part = "stream" /\ FollowerStep(l))
  /\ WF_streamVars(part = "stream" /\ ReaderStep)
  /\ WF_verifyVars(part = "verify" /\ CommandStep)
  /\ WF_verifyVars(part = "verify" /\ Tick)
=============================================================================
