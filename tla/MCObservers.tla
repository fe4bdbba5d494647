----------------------------- MODULE MCObservers -----------------------------
(***************************************************************************)
(* The parts that watch a workspace, side by side.  They share no state,   *)
(* so one of them moves and the others stay where they began; the run      *)
(* explores the sum of their behaviours.                                   *)
(***************************************************************************)
EXTENDS LogCapture, WebLogs, WebViewer, WebHealth, StartupRecord, LogDashboard, DashboardInput

VARIABLE part  \* the part that moves

MCSources == <<"a", "b">>
MCRequests == {<<>>, <<"a">>}
MCFilters == {{"text", "redacted"}, {"redacted"}}
MCLogLines ==
  <<[cells |-> <<1, 1>>, hits |-> {1}], [cells |-> <<1, 2, 1>>, hits |-> {}],
    [cells |-> <<1>>, hits |-> {0}], [cells |-> <<2, 1>>, hits |-> {}]>>
MCSizes == <<[width |-> 2, rows |-> 2], [width |-> 3, rows |-> 3]>>
MCPlaces == {<<2, 1>>, <<1, 3>>}
MCBytes ==
  <<[s \in Names |-> IF s = "a" THEN 4 ELSE 1], [s \in Names |-> IF s = "a" THEN 1 ELSE 0]>>

\* Bound: there is no query while something is selected.
QueryOrSelection == ~(dashView.query /\ dashView.sel.valid)

ObserversInit ==
  /\ part \in {"capture", "pages", "viewer", "health", "record", "dashboard", "input"}
  /\ CaptureInit /\ PageInit /\ ViewerInit /\ HealthInit /\ RecordInit /\ DashInit /\ InputInit
  /\ part = "pages" \/ filter = {"redacted"}

ObserversNext ==
  /\ UNCHANGED part
  /\ \/ /\ part = "capture" /\ CaptureNext
        /\ UNCHANGED <<pageVars, viewerVars, healthVars, recordVars, dashVars, inputVars>>
     \/ /\ part = "pages" /\ PageNext
        /\ UNCHANGED <<captureVars, viewerVars, healthVars, recordVars, dashVars, inputVars>>
     \/ /\ part = "viewer" /\ ViewerNext
        /\ UNCHANGED <<captureVars, pageVars, healthVars, recordVars, dashVars, inputVars>>
     \/ /\ part = "health" /\ HealthNext
        /\ UNCHANGED <<captureVars, pageVars, viewerVars, recordVars, dashVars, inputVars>>
     \/ /\ part = "record" /\ RecordNext
        /\ UNCHANGED <<captureVars, pageVars, viewerVars, healthVars, dashVars, inputVars>>
     \/ /\ part = "dashboard" /\ DashNext /\ QueryOrSelection'
        /\ UNCHANGED <<captureVars, pageVars, viewerVars, healthVars, recordVars, inputVars>>
     \/ /\ part = "input" /\ InputNext
        /\ UNCHANGED <<captureVars, pageVars, viewerVars, healthVars, recordVars, dashVars>>

observersVars ==
  <<part, captureVars, pageVars, viewerVars, healthVars, recordVars, dashVars, inputVars>>

ObserversSpec == ObserversInit /\ [][ObserversNext]_observersVars
=============================================================================
