--------------------------- MODULE Observers_proofs ---------------------------
(***************************************************************************)
(* Proofs about the parts that watch a workspace, for any commands,        *)
(* viewers, services and bounds.  The parts share no state, and each has a *)
(* section of its own: its inductive invariant, the steps that keep it,    *)
(* and the theorem about its specification.                                *)
(***************************************************************************)
EXTENDS WebViewer, WebHealth, StartupRecord, FiniteSetTheorems, TLAPS

-----------------------------------------------------------------------------
(* WebViewer                                                                 *)

\* The viewers that have the lock of the workspace's Web dashboard
Holding == {"locked", "serving", "expiring", "closing", "removed"}

ViewerTypeOK ==
  /\ opener \in [Openers -> [pc : {"asked", "waiting", "open", "failed"},
                             found : Viewers \cup {NoOne}]]
  /\ viewer \in [Viewers -> Holding \cup {"unborn", "born", "gone"}]
  /\ webLock \in Viewers \cup {NoOne} /\ record \in Viewers \cup {NoOne}
  /\ stopper \in [pc : {"idle", "asking", "waiting", "stopped", "refused"},
                  of : Viewers \cup {NoOne}]
  /\ action \in [Viewers -> {"none", "running", "done", "cut"}]
  /\ told \subseteq Viewers

\* The lock is with the viewer that got it until that one exits or is killed ...
OneHolds == \A v \in Viewers : viewer[v] \in Holding <=> webLock = v

\* ... so the record, which only the holder writes and removes, names the viewer
\* that serves.
RecordNamesServing == \A v \in Viewers : viewer[v] \in {"serving", "expiring"} => record = v

\* A viewer that was told to stop serves no more, and had nothing to do.
ToldStop ==
  \A v \in told : viewer[v] \in {"closing", "removed", "gone"} /\ action[v] # "running"

\* A stopper waits for a viewer it told.
StopperTold ==
  stopper.pc \in {"waiting", "stopped"} /\ stopper.of # NoOne => stopper.of \in told

ViewerInv ==
  /\ ViewerTypeOK /\ OneHolds /\ RecordNamesServing /\ ToldStop /\ StopperTold

LEMMA ViewerInvInit == ViewerInit => ViewerInv
  BY ViewerAssumption
     DEF ViewerInit, ViewerInv, ViewerTypeOK, OneHolds, RecordNamesServing, ToldStop,
         StopperTold, Holding

(* Every step of a command or of a viewer keeps the invariant. *)
LEMMA ViewerInvStep ==
  ASSUME ViewerInv, [ViewerNext]_viewerVars
  PROVE  ViewerInv'
  <1> USE ViewerAssumption
          DEF ViewerInv, ViewerTypeOK, OneHolds, RecordNamesServing, ToldStop, StopperTold,
              Holding, Answers, Alive
  <1>1. ASSUME NEW o \in Openers, Reuse(o) PROVE ViewerInv'
    BY <1>1 DEF Reuse
  <1>2. ASSUME NEW o \in Openers, Launch(o) PROVE ViewerInv'
    BY <1>2 DEF Launch
  <1>3. ASSUME NEW o \in Openers, GiveUp(o) PROVE ViewerInv'
    BY <1>3 DEF GiveUp
  <1>4. ASSUME NEW v \in Viewers, Lock(v) PROVE ViewerInv'
    BY <1>4 DEF Lock
  <1>5. ASSUME NEW v \in Viewers, Publish(v) PROVE ViewerInv'
    BY <1>5 DEF Publish
  <1>6. ASSUME NEW v \in Viewers, Act(v) PROVE ViewerInv'
    BY <1>6 DEF Act
  <1>7. ASSUME NEW v \in Viewers, ActDone(v) PROVE ViewerInv'
    BY <1>7 DEF ActDone
  <1>8. ASSUME NEW v \in Viewers, Shutdown(v) PROVE ViewerInv'
    BY <1>8 DEF Shutdown
  <1>9. ASSUME NEW v \in Viewers, Idle(v) PROVE ViewerInv'
    BY <1>9 DEF Idle
  <1>10. ASSUME NEW v \in Viewers, Expire(v) PROVE ViewerInv'
    BY <1>10 DEF Expire
  <1>11. ASSUME NEW v \in Viewers, Terminate(v) PROVE ViewerInv'
    BY <1>11 DEF Terminate
  <1>12. ASSUME NEW v \in Viewers, RemoveRecord(v) PROVE ViewerInv'
    BY <1>12 DEF RemoveRecord
  <1>13. ASSUME NEW v \in Viewers, Exit(v) PROVE ViewerInv'
    BY <1>13 DEF Exit
  <1>14. ASSUME NEW v \in Viewers, Kill(v) PROVE ViewerInv'
    BY <1>14 DEF Kill
  <1>15. CASE Stop
    BY <1>15 DEF Stop
  <1>16. CASE StopCallFails
    BY <1>16 DEF StopCallFails
  <1>17. CASE Stopped
    BY <1>17 DEF Stopped
  <1>18. CASE StopTimesOut
    BY <1>18 DEF StopTimesOut
  <1>19. CASE UNCHANGED viewerVars
    BY <1>19 DEF viewerVars
  <1>. HIDE DEF ViewerInv, ViewerTypeOK, OneHolds, RecordNamesServing, ToldStop, StopperTold
  <1>. QED
    BY <1>1, <1>2, <1>3, <1>4, <1>5, <1>6, <1>7, <1>8, <1>9, <1>10, <1>11, <1>12, <1>13, <1>14,
       <1>15, <1>16, <1>17, <1>18, <1>19 DEF ViewerNext

\* The state of the viewers, of their lock and of their record has its type and is
\* what the invariant says, whoever opens, stops or kills them (web.go).
THEOREM ViewerInvariance == ViewerSpec => []ViewerInv
  <1>. QED
    BY ViewerInvInit, ViewerInvStep, PTL DEF ViewerSpec

\* The viewer that serves is the one the record names and the only one with the lock;
\* who was told that a viewer has stopped does not find it serving; and no viewer cuts
\* off an action after it agreed to stop (OpenWebDashboard, StopWebDashboard).
THEOREM ViewerFound == ViewerSpec => []OneViewerIsFound
  <1>1. ViewerInv => OneViewerIsFound
    BY DEF ViewerInv, OneHolds, RecordNamesServing, ToldStop, StopperTold, Holding,
           OneViewerIsFound, Answers
  <1>. QED
    BY <1>1, ViewerInvariance, PTL
-----------------------------------------------------------------------------
(* WebHealth                                                                 *)

Statuses == {"unknown", "healthy", "stale", "unhealthy"}
Entries == [token : Nat, status : Statuses, failures : Nat, backoff : BOOLEAN, old : BOOLEAN]
Outcomes == {"none", "skipped", "unknown", "passed", "failed"}
Refreshing ==
  [pc : {"idle", "probing", "storing"}, token : Nat, result : [Services -> Outcomes]]

HealthTypeOK ==
  /\ token \in Nat
  /\ running \in [Services -> BOOLEAN] /\ answering \in [Services -> BOOLEAN]
  /\ cache \in [Services -> Entries]
  /\ refresher \in [Refreshers -> Refreshing]
  /\ seen \in [Services -> Statuses \cup {"none", "stopped"}]
  /\ probes \in [Services -> Seq({"passed", "failed"})]
  /\ overlapped \in BOOLEAN

\* No evidence is of a session to come.
TokensKnown ==
  token # 0 => /\ \A r \in Refreshers : refresher[r].token <= token
               /\ \A s \in Services : cache[s].token <= token

\* The refreshers that look at the present session: one, unless they overlapped
Busy(r) == refresher[r].pc # "idle" /\ refresher[r].token = token

OneAtATime ==
  token # 0 /\ ~overlapped => \A q, r \in Refreshers : Busy(q) /\ Busy(r) => q = r

\* What a refresher found and what the cache says of this session, its probes bear out.
HasPass(s) == \E i \in DOMAIN probes[s] : probes[s][i] = "passed"

PassesKnown ==
  token # 0 => \A s \in Services :
    /\ cache[s].token = token /\ cache[s].status \in {"healthy", "stale"} => HasPass(s)
    /\ \A r \in Refreshers : Busy(r) /\ refresher[r].result[s] = "passed" => HasPass(s)

\* The failures the cache counts, and those still to be stored, are as many probes
\* that failed ...
Counted(s) == IF cache[s].token = token THEN cache[s].failures ELSE 0
ToCount(r, s) == IF Busy(r) /\ refresher[r].result[s] = "failed" THEN 1 ELSE 0

FailuresKnown ==
  token # 0 => \A s \in Services :
    Counted(s) + ToCount("ticker", s) + ToCount("action", s) <= Cardinality(Failures(s))

\* ... and, as long as none overlaps, the last ones before the one to be stored.
Pending(s) == \E r \in Refreshers : Busy(r) /\ refresher[r].result[s] \in {"passed", "failed"}
Settled(s) == IF Pending(s) THEN Len(probes[s]) - 1 ELSE Len(probes[s])

LastOnesFailed ==
  token # 0 /\ ~overlapped => \A s \in Services :
    /\ Counted(s) <= Settled(s)
    /\ (Settled(s) - Counted(s) + 1) .. Settled(s) \subseteq Failures(s)
    /\ \A r \in Refreshers : Busy(r) /\ refresher[r].result[s] = "failed" =>
         Len(probes[s]) \in Failures(s)

\* An unhealthy service has failed often enough.
UnhealthyCounted ==
  \A s \in Services : cache[s].status = "unhealthy" => cache[s].failures >= Threshold

HealthInv ==
  /\ HealthTypeOK /\ TokensKnown /\ OneAtATime /\ PassesKnown /\ FailuresKnown
  /\ LastOnesFailed /\ UnhealthyCounted

(* What a refresh stores of an outcome *)
LEMMA EvidenceStored ==
  ASSUME HealthTypeOK, NEW before \in Entries, NEW of \in Nat, NEW outcome \in Outcomes
  PROVE  LET after == Evidence(before, of, outcome)
             same  == before.token = of
         IN  /\ after \in Entries /\ after.token = of
             /\ \/ outcome = "skipped" /\ same /\ after = before
                \/ /\ outcome = "failed"
                   /\ after.failures = IF same THEN before.failures + 1 ELSE 1
                   /\ after.status \in {"healthy", "stale"} =>
                        same /\ before.status \in {"healthy", "stale"}
                   /\ after.status = "unhealthy" => after.failures >= Threshold
                \/ /\ outcome \notin {"failed"} /\ (outcome = "skipped" => ~same)
                   /\ after.failures = 0
                   /\ after.status = IF outcome = "passed" THEN "healthy" ELSE "unknown"
  <1> DEFINE same     == before.token = of
             failures == IF same THEN before.failures + 1 ELSE 1
             status   == IF failures >= Threshold THEN "unhealthy"
                         ELSE IF same /\ before.status \in {"healthy", "stale"}
                           THEN "stale" ELSE "unknown"
             failed   == [token |-> of, failures |-> failures, backoff |-> TRUE, old |-> FALSE,
                          status |-> status]
             settled  == [Unknown EXCEPT !.token = of,
                                         !.status = IF outcome = "passed" THEN "healthy" ELSE @]
  <1>1. Evidence(before, of, outcome) = IF outcome = "skipped" /\ same THEN before
                                        ELSE IF outcome = "failed" THEN failed ELSE settled
    BY DEF Evidence
  <1>2. failures \in Nat /\ status \in Statuses
    BY DEF Entries, Statuses
  <1>3. /\ failed \in Entries /\ failed.token = of /\ failed.failures = failures
        /\ failed.status = status
    <2> HIDE DEF failures, status, same
    <2>. QED
      BY <1>2 DEF Entries
  <1>4. /\ settled \in Entries /\ settled.token = of /\ settled.failures = 0
        /\ settled.status = IF outcome = "passed" THEN "healthy" ELSE "unknown"
    BY DEF Unknown, Entries, Statuses
  <1>5. /\ status \in {"healthy", "stale"} => same /\ before.status \in {"healthy", "stale"}
        /\ status = "unhealthy" => failures >= Threshold
    OBVIOUS
  <1>6. CASE outcome = "skipped" /\ same
    BY <1>1, <1>6
  <1>7. CASE outcome = "failed"
    <2>1. Evidence(before, of, outcome) = failed
      BY <1>1, <1>7
    <2> HIDE DEF failed, status
    <2>. QED
      BY <1>3, <1>5, <1>7, <2>1
  <1>8. CASE outcome # "failed" /\ ~(outcome = "skipped" /\ same)
    <2>1. Evidence(before, of, outcome) = settled
      BY <1>1, <1>8
    <2> HIDE DEF settled
    <2>. QED
      BY <1>4, <1>8, <2>1
  <1>. QED
    BY <1>6, <1>7, <1>8

LEMMA HealthInvInit ==
  ASSUME HealthInit
  PROVE  HealthInv
  <1>1. /\ token = 1 /\ overlapped = FALSE
        /\ \A r \in Refreshers : ~Busy(r) /\ refresher[r].token = 0
        /\ \A s \in Services : /\ cache[s].token = 0 /\ cache[s].status = "unknown"
                               /\ probes[s] = <<>>
    BY DEF HealthInit, Busy, Resting, Unknown
  <1>2. HealthTypeOK
    <2>1. token \in Nat /\ overlapped \in BOOLEAN
      BY <1>1
    <2>2. running \in [Services -> BOOLEAN] /\ answering \in [Services -> BOOLEAN]
      BY DEF HealthInit
    <2>3. cache \in [Services -> Entries]
      BY DEF HealthInit, Unknown, Entries, Statuses
    <2>4. refresher \in [Refreshers -> Refreshing]
      BY DEF HealthInit, Resting, Refreshing, Outcomes
    <2>5. seen \in [Services -> Statuses \cup {"none", "stopped"}]
      BY DEF HealthInit
    <2>6. probes \in [Services -> Seq({"passed", "failed"})]
      BY DEF HealthInit
    <2>. QED
      BY <2>1, <2>2, <2>3, <2>4, <2>5, <2>6 DEF HealthTypeOK
  <1>3. TokensKnown /\ OneAtATime /\ PassesKnown /\ UnhealthyCounted
    BY <1>1 DEF TokensKnown, OneAtATime, PassesKnown, UnhealthyCounted
  <1>4. ASSUME NEW s \in Services
        PROVE  /\ Counted(s) = 0 /\ ToCount("ticker", s) = 0 /\ ToCount("action", s) = 0
               /\ Settled(s) = 0 /\ Failures(s) = {}
    BY <1>1 DEF Counted, ToCount, Settled, Pending, Failures, Refreshers
  <1>5. FailuresKnown /\ LastOnesFailed
    BY <1>1, <1>4, FS_EmptySet DEF FailuresKnown, LastOnesFailed
  <1>. QED
    BY <1>2, <1>3, <1>5 DEF HealthInv

(* Every action keeps HealthTypeOK. *)
LEMMA HealthTypeStep ==
  ASSUME HealthTypeOK, [HealthNext]_healthVars
  PROVE  HealthTypeOK'
  <1>1. \A s \in Services : Shown(s) \in Statuses
    BY DEF Shown, HealthTypeOK, Entries, Statuses
  <1>2. \A r \in Refreshers : /\ refresher[r].token \in Nat
                              /\ \A s \in Services : refresher[r].result[s] \in Outcomes
    BY DEF HealthTypeOK, Refreshing
  <1>3. /\ Unknown \in Entries /\ Resting \in Refreshing
        /\ \A t \in Nat : [Resting EXCEPT !.pc = "probing", !.token = t] \in Refreshing
    BY DEF Unknown, Entries, Statuses, Resting, Refreshing, Outcomes
  <1>4. \A x \in Refreshing : [x EXCEPT !.pc = "storing"] \in Refreshing
    BY DEF Refreshing
  <1>5. ASSUME NEW r \in Refreshers, Begin(r) PROVE HealthTypeOK'
    <2>1. token' \in Nat
      BY <1>1, <1>5 DEF Begin, HealthTypeOK
    <2>2. running' \in [Services -> BOOLEAN] /\ answering' \in [Services -> BOOLEAN]
      BY <1>1, <1>5 DEF Begin, HealthTypeOK
    <2>3. cache' \in [Services -> Entries]
      BY <1>3, <1>5 DEF Begin, HealthTypeOK
    <2>4. refresher' \in [Refreshers -> Refreshing]
      <3>1. refresher' \in {refresher, [refresher EXCEPT ![r] = [Resting EXCEPT !.pc = "probing",
                                                                           !.token = token]]}
        BY <1>5 DEF Begin
      <3>. QED
        BY <1>3, <3>1 DEF HealthTypeOK
    <2>5. seen' \in [Services -> Statuses \cup {"none", "stopped"}]
      BY <1>1, <1>5 DEF Begin, HealthTypeOK
    <2>6. probes' \in [Services -> Seq({"passed", "failed"})]
      BY <1>1, <1>5 DEF Begin, HealthTypeOK
    <2>7. overlapped' \in BOOLEAN
      BY <1>1, <1>5 DEF Begin, HealthTypeOK
    <2>. QED
      BY <2>1, <2>2, <2>3, <2>4, <2>5, <2>6, <2>7 DEF HealthTypeOK
  <1>6. ASSUME NEW r \in Refreshers, Verify(r) PROVE HealthTypeOK'
    <2>1. token' \in Nat
      BY <1>1, <1>6 DEF Verify, HealthTypeOK
    <2>2. running' \in [Services -> BOOLEAN] /\ answering' \in [Services -> BOOLEAN]
      BY <1>1, <1>6 DEF Verify, HealthTypeOK
    <2>3. cache' \in [Services -> Entries]
      BY <1>1, <1>6 DEF Verify, HealthTypeOK, Unknown, Entries, Statuses
    <2>4. refresher' \in [Refreshers -> Refreshing]
      <3>1. \/ refresher' = [refresher EXCEPT ![r].pc = "storing"]
            \/ refresher' = [refresher EXCEPT ![r] = Resting]
        BY <1>6 DEF Verify
      <3>2. [refresher[r] EXCEPT !.pc = "storing"] \in Refreshing
        BY <1>4 DEF HealthTypeOK
      <3>. QED
        BY <1>3, <3>1, <3>2 DEF HealthTypeOK
    <2>5. seen' \in [Services -> Statuses \cup {"none", "stopped"}]
      BY <1>1, <1>6 DEF Verify, HealthTypeOK
    <2>6. probes' \in [Services -> Seq({"passed", "failed"})]
      BY <1>1, <1>6 DEF Verify, HealthTypeOK
    <2>7. overlapped' \in BOOLEAN
      BY <1>1, <1>6 DEF Verify, HealthTypeOK
    <2>. QED
      BY <2>1, <2>2, <2>3, <2>4, <2>5, <2>6, <2>7 DEF HealthTypeOK
  <1>7. ASSUME NEW r \in Refreshers, Store(r) PROVE HealthTypeOK'
    <2>1. token' \in Nat
      BY <1>1, <1>7 DEF Store, HealthTypeOK
    <2>2. running' \in [Services -> BOOLEAN] /\ answering' \in [Services -> BOOLEAN]
      BY <1>1, <1>7 DEF Store, HealthTypeOK
    <2>3. cache' \in [Services -> Entries]
      BY <1>2, <1>7, EvidenceStored DEF Store, HealthTypeOK
    <2>4. refresher' \in [Refreshers -> Refreshing]
      BY <1>3, <1>7 DEF Store, HealthTypeOK
    <2>5. seen' \in [Services -> Statuses \cup {"none", "stopped"}]
      BY <1>1, <1>7 DEF Store, HealthTypeOK
    <2>6. probes' \in [Services -> Seq({"passed", "failed"})]
      BY <1>1, <1>7 DEF Store, HealthTypeOK
    <2>7. overlapped' \in BOOLEAN
      BY <1>1, <1>7 DEF Store, HealthTypeOK
    <2>. QED
      BY <2>1, <2>2, <2>3, <2>4, <2>5, <2>6, <2>7 DEF HealthTypeOK
  <1>8. ASSUME NEW r \in Refreshers, NEW s \in Services, Probe(r, s) PROVE HealthTypeOK'
    <2>1. token' \in Nat
      BY <1>1, <1>8 DEF Probe, HealthTypeOK
    <2>2. running' \in [Services -> BOOLEAN] /\ answering' \in [Services -> BOOLEAN]
      BY <1>1, <1>8 DEF Probe, HealthTypeOK
    <2>3. cache' \in [Services -> Entries]
      BY <1>1, <1>8 DEF Probe, HealthTypeOK, Unknown, Entries, Statuses
    <2>4. refresher' \in [Refreshers -> Refreshing]
      <3>1. PICK outcome \in {"skipped", "unknown", "passed", "failed"} :
              refresher' = [refresher EXCEPT ![r].result[s] = outcome]
        BY <1>8 DEF Probe
      <3>2. [refresher[r] EXCEPT !.result[s] = outcome] \in Refreshing
        BY ZenonT(60) DEF HealthTypeOK, Refreshing, Outcomes
      <3>. QED
        BY <3>1, <3>2 DEF HealthTypeOK
    <2>5. seen' \in [Services -> Statuses \cup {"none", "stopped"}]
      BY <1>1, <1>8 DEF Probe, HealthTypeOK
    <2>6. probes' \in [Services -> Seq({"passed", "failed"})]
      <3>1. \/ UNCHANGED probes
            \/ \E outcome \in {"passed", "failed"} : probes' = [probes EXCEPT ![s] = Append(@, outcome)]
        BY <1>8 DEF Probe
      <3>2. \A outcome \in {"passed", "failed"} : Append(probes[s], outcome) \in Seq({"passed", "failed"})
        BY DEF HealthTypeOK
      <3>. QED
        BY <3>1, <3>2 DEF HealthTypeOK
    <2>7. overlapped' \in BOOLEAN
      BY <1>1, <1>8 DEF Probe, HealthTypeOK
    <2>. QED
      BY <2>1, <2>2, <2>3, <2>4, <2>5, <2>6, <2>7 DEF HealthTypeOK
  <1>9. ASSUME NEW s \in Services, Observe(s) PROVE HealthTypeOK'
    <2>1. token' \in Nat
      BY <1>1, <1>9 DEF Observe, HealthTypeOK
    <2>2. running' \in [Services -> BOOLEAN] /\ answering' \in [Services -> BOOLEAN]
      BY <1>1, <1>9 DEF Observe, HealthTypeOK
    <2>3. cache' \in [Services -> Entries]
      BY <1>1, <1>9 DEF Observe, HealthTypeOK, Unknown, Entries, Statuses
    <2>4. refresher' \in [Refreshers -> Refreshing]
      BY <1>1, <1>9 DEF Observe, HealthTypeOK
    <2>5. seen' \in [Services -> Statuses \cup {"none", "stopped"}]
      BY <1>1, <1>9 DEF Observe, HealthTypeOK
    <2>6. probes' \in [Services -> Seq({"passed", "failed"})]
      BY <1>1, <1>9 DEF Observe, HealthTypeOK
    <2>7. overlapped' \in BOOLEAN
      BY <1>1, <1>9 DEF Observe, HealthTypeOK
    <2>. QED
      BY <2>1, <2>2, <2>3, <2>4, <2>5, <2>6, <2>7 DEF HealthTypeOK
  <1>10. ASSUME NEW s \in Services, TimePasses(s) PROVE HealthTypeOK'
    <2>1. token' \in Nat
      BY <1>1, <1>10 DEF TimePasses, HealthTypeOK
    <2>2. running' \in [Services -> BOOLEAN] /\ answering' \in [Services -> BOOLEAN]
      BY <1>1, <1>10 DEF TimePasses, HealthTypeOK
    <2>3. cache' \in [Services -> Entries]
      <3>1. [cache[s] EXCEPT !.backoff = FALSE, !.old = TRUE] \in Entries
        BY DEF HealthTypeOK, Entries
      <3>2. cache' = [cache EXCEPT ![s] = [cache[s] EXCEPT !.backoff = FALSE, !.old = TRUE]]
        BY <1>10 DEF TimePasses, HealthTypeOK
      <3>. QED
        BY <3>1, <3>2 DEF HealthTypeOK
    <2>4. refresher' \in [Refreshers -> Refreshing]
      BY <1>1, <1>10 DEF TimePasses, HealthTypeOK
    <2>5. seen' \in [Services -> Statuses \cup {"none", "stopped"}]
      BY <1>1, <1>10 DEF TimePasses, HealthTypeOK
    <2>6. probes' \in [Services -> Seq({"passed", "failed"})]
      BY <1>1, <1>10 DEF TimePasses, HealthTypeOK
    <2>7. overlapped' \in BOOLEAN
      BY <1>1, <1>10 DEF TimePasses, HealthTypeOK
    <2>. QED
      BY <2>1, <2>2, <2>3, <2>4, <2>5, <2>6, <2>7 DEF HealthTypeOK
  <1>11. ASSUME NEW s \in Services, Turn(s) PROVE HealthTypeOK'
    <2>1. token' \in Nat
      BY <1>1, <1>11 DEF Turn, HealthTypeOK
    <2>2. running' \in [Services -> BOOLEAN] /\ answering' \in [Services -> BOOLEAN]
      BY <1>1, <1>11 DEF Turn, HealthTypeOK
    <2>3. cache' \in [Services -> Entries]
      BY <1>1, <1>11 DEF Turn, HealthTypeOK, Unknown, Entries, Statuses
    <2>4. refresher' \in [Refreshers -> Refreshing]
      BY <1>1, <1>11 DEF Turn, HealthTypeOK
    <2>5. seen' \in [Services -> Statuses \cup {"none", "stopped"}]
      BY <1>1, <1>11 DEF Turn, HealthTypeOK
    <2>6. probes' \in [Services -> Seq({"passed", "failed"})]
      BY <1>1, <1>11 DEF Turn, HealthTypeOK
    <2>7. overlapped' \in BOOLEAN
      BY <1>1, <1>11 DEF Turn, HealthTypeOK
    <2>. QED
      BY <2>1, <2>2, <2>3, <2>4, <2>5, <2>6, <2>7 DEF HealthTypeOK
  <1>12. CASE Renew
    <2>1. token' \in Nat
      BY <1>1, <1>12 DEF Renew, HealthTypeOK
    <2>2. running' \in [Services -> BOOLEAN] /\ answering' \in [Services -> BOOLEAN]
      BY <1>1, <1>12 DEF Renew, HealthTypeOK
    <2>3. cache' \in [Services -> Entries]
      BY <1>1, <1>12 DEF Renew, HealthTypeOK, Unknown, Entries, Statuses
    <2>4. refresher' \in [Refreshers -> Refreshing]
      BY <1>1, <1>12 DEF Renew, HealthTypeOK
    <2>5. seen' \in [Services -> Statuses \cup {"none", "stopped"}]
      BY <1>1, <1>12 DEF Renew, HealthTypeOK
    <2>6. probes' \in [Services -> Seq({"passed", "failed"})]
      BY <1>1, <1>12 DEF Renew, HealthTypeOK
    <2>7. overlapped' \in BOOLEAN
      BY <1>1, <1>12 DEF Renew, HealthTypeOK
    <2>. QED
      BY <2>1, <2>2, <2>3, <2>4, <2>5, <2>6, <2>7 DEF HealthTypeOK
  <1>13. CASE SessionEnds
    <2>1. token' \in Nat
      BY <1>1, <1>13 DEF SessionEnds, HealthTypeOK
    <2>2. running' \in [Services -> BOOLEAN] /\ answering' \in [Services -> BOOLEAN]
      BY <1>1, <1>13 DEF SessionEnds, HealthTypeOK
    <2>3. cache' \in [Services -> Entries]
      BY <1>1, <1>13 DEF SessionEnds, HealthTypeOK, Unknown, Entries, Statuses
    <2>4. refresher' \in [Refreshers -> Refreshing]
      BY <1>1, <1>13 DEF SessionEnds, HealthTypeOK
    <2>5. seen' \in [Services -> Statuses \cup {"none", "stopped"}]
      BY <1>1, <1>13 DEF SessionEnds, HealthTypeOK
    <2>6. probes' \in [Services -> Seq({"passed", "failed"})]
      BY <1>1, <1>13 DEF SessionEnds, HealthTypeOK
    <2>7. overlapped' \in BOOLEAN
      BY <1>1, <1>13 DEF SessionEnds, HealthTypeOK
    <2>. QED
      BY <2>1, <2>2, <2>3, <2>4, <2>5, <2>6, <2>7 DEF HealthTypeOK
  <1>14. CASE UNCHANGED healthVars
    BY <1>14 DEF healthVars, HealthTypeOK
  <1>. QED
    BY <1>5, <1>6, <1>7, <1>8, <1>9, <1>10, <1>11, <1>12, <1>13, <1>14 DEF HealthNext

(* What a step does to the refreshers of the session, to the cache and to the  *)
(* probes                                                                      *)
LEMMA StoreEffect ==
  ASSUME HealthTypeOK, NEW r \in Refreshers, Store(r)
  PROVE  /\ refresher[r].pc = "storing"
         /\ \A q \in Refreshers : Busy(q)' <=> Busy(q) /\ q # r
         /\ \A q \in Refreshers \ {r} : refresher'[q] = refresher[q]
         /\ refresher'[r].token = 0
         /\ \A s \in Services : cache'[s] = Evidence(cache[s], refresher[r].token,
                                                     refresher[r].result[s])
         /\ \A s \in Services : cache[s] \in Entries /\ refresher[r].result[s] \in Outcomes
         /\ refresher[r].token \in Nat
         /\ UNCHANGED <<token, probes, overlapped>>
  <1>1. /\ refresher[r].pc = "storing" /\ refresher' = [refresher EXCEPT ![r] = Resting]
        /\ cache' = [s \in Services |-> Evidence(cache[s], refresher[r].token,
                                                 refresher[r].result[s])]
        /\ UNCHANGED <<token, probes, overlapped>>
    BY DEF Store
  <1>2. /\ refresher'[r].pc = "idle" /\ refresher'[r].token = 0
        /\ \A q \in Refreshers \ {r} : refresher'[q] = refresher[q]
    BY <1>1 DEF HealthTypeOK, Resting
  <1>3. \A q \in Refreshers : Busy(q)' <=> Busy(q) /\ q # r
    BY <1>1, <1>2 DEF Busy
  <1>4. /\ \A s \in Services : cache[s] \in Entries /\ refresher[r].result[s] \in Outcomes
        /\ refresher[r].token \in Nat
    BY DEF HealthTypeOK, Refreshing
  <1>. QED
    BY <1>1, <1>2, <1>3, <1>4

LEMMA ProbeEffect ==
  ASSUME HealthTypeOK, NEW r \in Refreshers, NEW s \in Services, Probe(r, s)
  PROVE  /\ UNCHANGED <<token, cache, overlapped>>
         /\ refresher[r].pc = "probing" /\ refresher[r].result[s] = "none"
         /\ refresher'[r].result[s] \in {"skipped", "unknown", "passed", "failed"}
         /\ \A q \in Refreshers : /\ refresher'[q].pc = refresher[q].pc
                                  /\ refresher'[q].token = refresher[q].token
                                  /\ \A t \in Services : q # r \/ t # s =>
                                       refresher'[q].result[t] = refresher[q].result[t]
         /\ \A q \in Refreshers : Busy(q)' <=> Busy(q)
         /\ \A t \in Services : t # s => probes'[t] = probes[t]
         /\ IF refresher'[r].result[s] \in {"passed", "failed"} /\ token = refresher[r].token
              THEN probes'[s] = Append(probes[s], refresher'[r].result[s])
              ELSE probes'[s] = probes[s]
  <1>1. PICK outcome \in {"skipped", "unknown", "passed", "failed"} :
          /\ refresher' = [refresher EXCEPT ![r].result[s] = outcome]
          /\ IF outcome \in {"passed", "failed"} /\ token = refresher[r].token
               THEN probes' = [probes EXCEPT ![s] = Append(@, outcome)]
               ELSE UNCHANGED probes
    BY DEF Probe
  <1>2. /\ refresher'[r].result[s] = outcome
        /\ \A q \in Refreshers : /\ refresher'[q].pc = refresher[q].pc
                                 /\ refresher'[q].token = refresher[q].token
                                 /\ \A t \in Services : q # r \/ t # s =>
                                      refresher'[q].result[t] = refresher[q].result[t]
    BY <1>1 DEF HealthTypeOK, Refreshing
  <1>3. UNCHANGED <<token, cache, overlapped>> /\ refresher[r].pc = "probing"
        /\ refresher[r].result[s] = "none"
    BY DEF Probe
  <1>4. \A q \in Refreshers : Busy(q)' <=> Busy(q)
    BY <1>2, <1>3 DEF Busy
  <1>. QED
    BY <1>1, <1>2, <1>3, <1>4 DEF HealthTypeOK

(* A refresher that begins has found nothing yet; one that has looked again is *)
(* as it was, or has forgotten what it found.                                  *)
LEMMA BeginEffect ==
  ASSUME HealthTypeOK, NEW r \in Refreshers, Begin(r), token # 0
  PROVE  /\ UNCHANGED <<token, cache, probes>> /\ ~Busy(r) /\ Busy(r)'
         /\ refresher'[r].token = token
         /\ \A s \in Services : refresher'[r].result[s] = "none"
         /\ \A q \in Refreshers \ {r} : refresher'[q] = refresher[q] /\ (Busy(q)' <=> Busy(q))
         /\ ~overlapped' => ~overlapped /\ \A q \in Refreshers : ~Busy(q)
  <1>1. /\ refresher[r].pc = "idle" /\ UNCHANGED <<token, cache, probes>>
        /\ refresher' = [refresher EXCEPT ![r] = [Resting EXCEPT !.pc = "probing", !.token = token]]
        /\ overlapped' = (overlapped \/ \E q \in Refreshers : refresher[q].pc # "idle")
    BY DEF Begin
  <1>2. /\ refresher'[r].pc = "probing" /\ refresher'[r].token = token
        /\ \A s \in Services : refresher'[r].result[s] = "none"
        /\ \A q \in Refreshers \ {r} : refresher'[q] = refresher[q]
    BY <1>1 DEF HealthTypeOK, Resting
  <1>3. ~overlapped' => ~overlapped /\ \A q \in Refreshers : ~Busy(q)
    BY <1>1 DEF Busy
  <1>. QED
    BY <1>1, <1>2, <1>3 DEF Busy

LEMMA VerifyEffect ==
  ASSUME HealthTypeOK, NEW r \in Refreshers, Verify(r)
  PROVE  /\ UNCHANGED <<token, cache, probes>>
         /\ \A q \in Refreshers \ {r} : refresher'[q] = refresher[q] /\ (Busy(q)' <=> Busy(q))
         /\ ~overlapped' => ~overlapped
         /\ \/ ~Busy(r)' /\ refresher'[r].token = 0 /\ (~overlapped' => ~Busy(r))
            \/ /\ refresher'[r].result = refresher[r].result /\ Busy(r)' /\ Busy(r)
               /\ refresher'[r].token = refresher[r].token
  <1>1. /\ UNCHANGED <<token, cache, probes>> /\ refresher[r].pc = "probing"
        /\ \/ /\ token = refresher[r].token /\ UNCHANGED overlapped
              /\ refresher' = [refresher EXCEPT ![r].pc = "storing"]
           \/ /\ refresher' = [refresher EXCEPT ![r] = Resting]
              /\ overlapped' = (overlapped \/ token = refresher[r].token)
    BY DEF Verify
  <1>2. \A q \in Refreshers \ {r} : refresher'[q] = refresher[q] /\ (Busy(q)' <=> Busy(q))
    BY <1>1 DEF HealthTypeOK, Busy
  <1>3. CASE /\ token = refresher[r].token /\ UNCHANGED overlapped
             /\ refresher' = [refresher EXCEPT ![r].pc = "storing"]
    <2>1. /\ refresher'[r].pc = "storing" /\ refresher'[r].token = refresher[r].token
          /\ refresher'[r].result = refresher[r].result
      BY <1>3 DEF HealthTypeOK, Refreshing
    <2>. QED
      BY <1>1, <1>2, <1>3, <2>1 DEF Busy
  <1>4. CASE /\ refresher' = [refresher EXCEPT ![r] = Resting]
             /\ overlapped' = (overlapped \/ token = refresher[r].token)
    <2>1. refresher'[r].pc = "idle" /\ refresher'[r].token = 0
      BY <1>4 DEF HealthTypeOK, Resting
    <2>2. ~overlapped' => ~overlapped /\ token # refresher[r].token
      BY <1>4
    <2>. QED
      BY <1>1, <1>2, <2>1, <2>2 DEF Busy
  <1>. QED
    BY <1>1, <1>3, <1>4

(* Time leaves what the cache says of failures; nobody else touches it.        *)
LEMMA QuietEffect ==
  ASSUME HealthTypeOK,
         \/ \E s \in Services : Observe(s) \/ TimePasses(s) \/ Turn(s)
         \/ UNCHANGED healthVars
  PROVE  /\ UNCHANGED <<token, refresher, probes, overlapped>>
         /\ \A r \in Refreshers : Busy(r)' <=> Busy(r)
         /\ \A s \in Services : /\ cache'[s].token = cache[s].token
                                /\ cache'[s].status = cache[s].status
                                /\ cache'[s].failures = cache[s].failures
  <1>1. ASSUME NEW s \in Services, TimePasses(s)
        PROVE  /\ UNCHANGED <<token, refresher, probes, overlapped>>
               /\ \A t \in Services : /\ cache'[t].token = cache[t].token
                                      /\ cache'[t].status = cache[t].status
                                      /\ cache'[t].failures = cache[t].failures
    BY <1>1 DEF TimePasses, HealthTypeOK, Entries
  <1>. QED
    BY <1>1 DEF Observe, Turn, healthVars, Busy

(* Another session has no probes, and no evidence or refresher is of it.       *)
LEMMA RenewEffect ==
  ASSUME HealthTypeOK, TokensKnown, Renew
  PROVE  /\ token' # 0 /\ UNCHANGED <<cache, refresher>>
         /\ \A r \in Refreshers : ~Busy(r)' /\ refresher'[r].token <= token'
         /\ \A s \in Services : /\ cache'[s].token < token'
                                /\ probes'[s] = <<>>
  <1>1. token \in Nat /\ token >= 1 /\ token' = token + 1 /\ UNCHANGED <<cache, refresher>>
    BY HealthAssumption DEF Renew, HealthTypeOK
  <1>2. /\ \A r \in Refreshers : refresher[r].token \in Nat /\ refresher[r].token <= token
        /\ \A s \in Services : cache[s].token \in Nat /\ cache[s].token <= token
    BY <1>1 DEF HealthTypeOK, Refreshing, Entries, TokensKnown
  <1>3. \A r \in Refreshers : ~Busy(r)' /\ refresher'[r].token <= token'
    BY <1>1, <1>2 DEF Busy
  <1>4. \A s \in Services : cache'[s].token < token' /\ probes'[s] = <<>>
    BY <1>1, <1>2 DEF Renew
  <1>. QED
    BY <1>1, <1>3, <1>4

(* Every action keeps TokensKnown. *)
LEMMA TokensKnownStep ==
  ASSUME HealthInv, [HealthNext]_healthVars
  PROVE  TokensKnown'
  <1> USE DEF HealthInv
  <1>1. Len(<<>>) = 0 /\ token \in Nat
    BY DEF HealthTypeOK
  <1>2. /\ \A r \in Refreshers : refresher[r].token \in Nat
        /\ \A s \in Services : cache[s].token \in Nat
    BY DEF HealthTypeOK, Refreshing, Entries
  <1>3. ASSUME NEW r \in Refreshers, Begin(r) PROVE TokensKnown'
    <2>1. CASE token # 0
      <3>1. /\ UNCHANGED <<token, cache>> /\ refresher'[r].token = token
            /\ \A q \in Refreshers \ {r} : refresher'[q] = refresher[q]
        BY <1>3, <2>1, BeginEffect
      <3>. QED
        BY <1>1, <2>1, <3>1 DEF TokensKnown
    <2>2. CASE token = 0
      BY <1>3, <2>2 DEF Begin, TokensKnown
    <2>. QED
      BY <2>1, <2>2
  <1>4. ASSUME NEW r \in Refreshers, Verify(r) PROVE TokensKnown'
    BY <1>2, <1>1, <1>4, VerifyEffect DEF TokensKnown
  <1>5. ASSUME NEW r \in Refreshers, Store(r) PROVE TokensKnown'
    <2>1. /\ UNCHANGED token /\ refresher'[r].token = 0
          /\ \A q \in Refreshers \ {r} : refresher'[q] = refresher[q]
          /\ \A s \in Services : cache'[s].token = refresher[r].token
      BY <1>5, StoreEffect, EvidenceStored
    <2>. QED
      BY <1>1, <2>1 DEF TokensKnown
  <1>6. ASSUME NEW r \in Refreshers, NEW s \in Services, Probe(r, s) PROVE TokensKnown'
    BY <1>2, <1>6, ProbeEffect DEF TokensKnown
  <1>7. ASSUME NEW s \in Services, Observe(s) PROVE TokensKnown'
    BY <1>2, <1>7, QuietEffect DEF TokensKnown
  <1>8. ASSUME NEW s \in Services, TimePasses(s) PROVE TokensKnown'
    BY <1>2, <1>8, QuietEffect DEF TokensKnown
  <1>9. ASSUME NEW s \in Services, Turn(s) PROVE TokensKnown'
    BY <1>2, <1>9, QuietEffect DEF TokensKnown
  <1>10. CASE Renew
    <2>1. /\ token' = token + 1 /\ cache' = cache
          /\ \A r \in Refreshers : refresher'[r].token <= token'
          /\ \A s \in Services : cache'[s].token < token'
      BY <1>10, RenewEffect DEF Renew
    <2>. QED
      BY <1>1, <1>2, <2>1 DEF TokensKnown
  <1>11. CASE SessionEnds
    BY <1>2, <1>11 DEF SessionEnds, TokensKnown
  <1>12. CASE UNCHANGED healthVars
    BY <1>2, <1>12, QuietEffect DEF TokensKnown
  <1>. QED
    BY <1>3, <1>4, <1>5, <1>6, <1>7, <1>8, <1>9, <1>10, <1>11, <1>12 DEF HealthNext

(* Every action keeps OneAtATime. *)
LEMMA OneAtATimeStep ==
  ASSUME HealthInv, [HealthNext]_healthVars
  PROVE  OneAtATime'
  <1> USE DEF HealthInv
  <1>1. Len(<<>>) = 0 /\ token \in Nat
    BY DEF HealthTypeOK
  <1>2. ASSUME NEW r \in Refreshers, Begin(r) PROVE OneAtATime'
    <2>1. CASE token # 0
      BY <1>2, <2>1, BeginEffect DEF OneAtATime
    <2>2. CASE token = 0
      BY <1>2, <2>2 DEF Begin, OneAtATime, Unknown
    <2>. QED
      BY <2>1, <2>2
  <1>3. ASSUME NEW r \in Refreshers, Verify(r) PROVE OneAtATime'
    BY <1>1, <1>3, VerifyEffect DEF OneAtATime
  <1>4. ASSUME NEW r \in Refreshers, Store(r) PROVE OneAtATime'
    BY <1>1, <1>4, StoreEffect, EvidenceStored DEF OneAtATime
  <1>5. ASSUME NEW r \in Refreshers, NEW s \in Services, Probe(r, s) PROVE OneAtATime'
    BY <1>5, ProbeEffect DEF OneAtATime
  <1>6. ASSUME NEW s \in Services, Observe(s) PROVE OneAtATime'
    BY <1>6, QuietEffect DEF OneAtATime
  <1>7. ASSUME NEW s \in Services, TimePasses(s) PROVE OneAtATime'
    BY <1>7, QuietEffect DEF OneAtATime
  <1>8. ASSUME NEW s \in Services, Turn(s) PROVE OneAtATime'
    BY <1>8, QuietEffect DEF OneAtATime
  <1>9. CASE Renew
    BY <1>1, <1>9, RenewEffect DEF OneAtATime, HealthTypeOK, Entries
  <1>10. CASE SessionEnds
    BY <1>10 DEF SessionEnds, OneAtATime
  <1>11. CASE UNCHANGED healthVars
    BY <1>11, QuietEffect DEF OneAtATime
  <1>. QED
    BY <1>2, <1>3, <1>4, <1>5, <1>6, <1>7, <1>8, <1>9, <1>10, <1>11 DEF HealthNext

(* Every action keeps UnhealthyCounted. *)
LEMMA UnhealthyCountedStep ==
  ASSUME HealthInv, [HealthNext]_healthVars
  PROVE  UnhealthyCounted'
  <1> USE DEF HealthInv
  <1>1. Len(<<>>) = 0 /\ token \in Nat
    BY DEF HealthTypeOK
  <1>2. ASSUME NEW r \in Refreshers, Begin(r) PROVE UnhealthyCounted'
    <2>1. CASE token # 0
      BY <1>2, <2>1, BeginEffect DEF UnhealthyCounted
    <2>2. CASE token = 0
      BY <1>2, <2>2 DEF Begin, UnhealthyCounted, Unknown
    <2>. QED
      BY <2>1, <2>2
  <1>3. ASSUME NEW r \in Refreshers, Verify(r) PROVE UnhealthyCounted'
    BY <1>1, <1>3, VerifyEffect DEF UnhealthyCounted
  <1>4. ASSUME NEW r \in Refreshers, Store(r) PROVE UnhealthyCounted'
    BY <1>1, <1>4, StoreEffect, EvidenceStored DEF UnhealthyCounted
  <1>5. ASSUME NEW r \in Refreshers, NEW s \in Services, Probe(r, s) PROVE UnhealthyCounted'
    BY <1>5, ProbeEffect DEF UnhealthyCounted
  <1>6. ASSUME NEW s \in Services, Observe(s) PROVE UnhealthyCounted'
    BY <1>6, QuietEffect DEF UnhealthyCounted
  <1>7. ASSUME NEW s \in Services, TimePasses(s) PROVE UnhealthyCounted'
    BY <1>7, QuietEffect DEF UnhealthyCounted
  <1>8. ASSUME NEW s \in Services, Turn(s) PROVE UnhealthyCounted'
    BY <1>8, QuietEffect DEF UnhealthyCounted
  <1>9. CASE Renew
    BY <1>1, <1>9, RenewEffect DEF UnhealthyCounted, HealthTypeOK, Entries
  <1>10. CASE SessionEnds
    BY <1>10 DEF SessionEnds, UnhealthyCounted
  <1>11. CASE UNCHANGED healthVars
    BY <1>11, QuietEffect DEF UnhealthyCounted
  <1>. QED
    BY <1>2, <1>3, <1>4, <1>5, <1>6, <1>7, <1>8, <1>9, <1>10, <1>11 DEF HealthNext

(* Every action keeps PassesKnown. *)
LEMMA PassesKnownStep ==
  ASSUME HealthInv, [HealthNext]_healthVars
  PROVE  PassesKnown'
  <1> USE DEF HealthInv
  <1>1. Len(<<>>) = 0 /\ token \in Nat
    BY DEF HealthTypeOK
  <1>2. ASSUME NEW r \in Refreshers, Begin(r) PROVE PassesKnown'
    <2>1. CASE token # 0
      BY <1>2, <2>1, BeginEffect DEF PassesKnown, HasPass
    <2>2. CASE token = 0
      BY <1>2, <2>2 DEF Begin, PassesKnown, HasPass, Unknown
    <2>. QED
      BY <2>1, <2>2
  <1>3. ASSUME NEW r \in Refreshers, Verify(r) PROVE PassesKnown'
    BY <1>1, <1>3, VerifyEffect DEF PassesKnown, HasPass
  <1>4. ASSUME NEW r \in Refreshers, Store(r) PROVE PassesKnown'
    <2>1. SUFFICES ASSUME token' # 0, NEW s \in Services
                   PROVE  /\ cache'[s].token = token' /\ cache'[s].status \in {"healthy", "stale"} =>
                               HasPass(s)'
                          /\ \A q \in Refreshers : Busy(q)' /\ refresher'[q].result[s] = "passed" =>
                               HasPass(s)'
      BY DEF PassesKnown
    <2>2. UNCHANGED <<token, probes>> /\ (HasPass(s)' <=> HasPass(s))
      BY <1>4, StoreEffect DEF HasPass
    <2>3. \A q \in Refreshers : Busy(q)' /\ refresher'[q].result[s] = "passed" => HasPass(s)'
      BY <1>4, <2>1, <2>2, StoreEffect DEF PassesKnown
    <2>4. ASSUME cache'[s].token = token', cache'[s].status \in {"healthy", "stale"} PROVE HasPass(s)
      <3> DEFINE outcome == refresher[r].result[s]
      <3>1. /\ cache'[s].token = refresher[r].token
            /\ \/ cache'[s] = cache[s]
               \/ /\ outcome = "failed"
                  /\ cache[s].token = refresher[r].token /\ cache[s].status \in {"healthy", "stale"}
               \/ outcome = "passed"
        BY <1>4, <2>4, StoreEffect, EvidenceStored
      <3>2. Busy(r)
        BY <1>4, <2>2, <2>4, <3>1, StoreEffect DEF Busy
      <3>. QED
        BY <2>1, <2>2, <2>4, <3>1, <3>2 DEF PassesKnown
    <2>. QED
      BY <2>2, <2>3, <2>4
  <1>5. ASSUME NEW r \in Refreshers, NEW s \in Services, Probe(r, s) PROVE PassesKnown'
    <2>1. ASSUME NEW t \in Services, HasPass(t) PROVE HasPass(t)'
      <3>1. probes[t] \in Seq({"passed", "failed"})
        BY DEF HealthTypeOK
      <3>2. \/ probes'[t] = probes[t]
            \/ \E o \in {"passed", "failed"} : probes'[t] = Append(probes[t], o)
        BY <1>5, ProbeEffect
      <3>. QED
        BY <2>1, <3>1, <3>2 DEF HasPass
    <2>2. ASSUME Busy(r), refresher'[r].result[s] = "passed" PROVE HasPass(s)'
      <3>1. probes[s] \in Seq({"passed", "failed"})
        BY DEF HealthTypeOK
      <3>2. probes'[s] = Append(probes[s], "passed")
        BY <1>5, <2>2, ProbeEffect DEF Busy
      <3>. QED
        BY <3>1, <3>2 DEF HasPass
    <2>3. SUFFICES ASSUME token' # 0, NEW t \in Services
                   PROVE  /\ cache'[t].token = token' /\ cache'[t].status \in {"healthy", "stale"} =>
                               HasPass(t)'
                          /\ \A q \in Refreshers : Busy(q)' /\ refresher'[q].result[t] = "passed" =>
                               HasPass(t)'
      BY DEF PassesKnown
    <2>4. cache'[t].token = token' /\ cache'[t].status \in {"healthy", "stale"} => HasPass(t)'
      BY <1>5, <2>1, <2>3, ProbeEffect DEF PassesKnown
    <2>5. ASSUME NEW q \in Refreshers, Busy(q)', refresher'[q].result[t] = "passed" PROVE HasPass(t)'
      <3>1. Busy(q) /\ token # 0
        BY <1>5, <2>3, <2>5, ProbeEffect
      <3>2. CASE q = r /\ t = s
        BY <2>2, <2>5, <3>1, <3>2
      <3>3. CASE q # r \/ t # s
        BY <1>5, <2>1, <2>5, <3>1, <3>3, ProbeEffect DEF PassesKnown
      <3>. QED
        BY <3>2, <3>3
    <2>. QED
      BY <2>4, <2>5
  <1>6. ASSUME NEW s \in Services, Observe(s) PROVE PassesKnown'
    BY <1>6, QuietEffect DEF PassesKnown, HasPass
  <1>7. ASSUME NEW s \in Services, TimePasses(s) PROVE PassesKnown'
    BY <1>7, QuietEffect DEF PassesKnown, HasPass
  <1>8. ASSUME NEW s \in Services, Turn(s) PROVE PassesKnown'
    BY <1>8, QuietEffect DEF PassesKnown, HasPass
  <1>9. CASE Renew
    BY <1>1, <1>9, RenewEffect DEF PassesKnown, HasPass, HealthTypeOK, Entries
  <1>10. CASE SessionEnds
    BY <1>10 DEF SessionEnds, PassesKnown, HasPass
  <1>11. CASE UNCHANGED healthVars
    BY <1>11, QuietEffect DEF PassesKnown, HasPass
  <1>. QED
    BY <1>2, <1>3, <1>4, <1>5, <1>6, <1>7, <1>8, <1>9, <1>10, <1>11 DEF HealthNext

(* The probes that failed are finitely many, and one more may be the last.     *)
LEMMA FailuresFinite ==
  ASSUME HealthTypeOK, NEW s \in Services
  PROVE  /\ Len(probes[s]) \in Nat /\ DOMAIN probes[s] = 1 .. Len(probes[s])
         /\ IsFiniteSet(Failures(s)) /\ Cardinality(Failures(s)) \in Nat
  <1>1. Len(probes[s]) \in Nat /\ DOMAIN probes[s] = 1 .. Len(probes[s])
    BY DEF HealthTypeOK
  <1>2. IsFiniteSet(1 .. Len(probes[s])) /\ Failures(s) \subseteq 1 .. Len(probes[s])
    BY <1>1, FS_Interval DEF Failures
  <1>. QED
    BY <1>1, <1>2, FS_Subset, FS_CardinalityType

LEMMA ProbeCounts ==
  ASSUME HealthTypeOK, NEW r \in Refreshers, NEW s \in Services, Probe(r, s),
         Busy(r), refresher'[r].result[s] \in {"passed", "failed"}
  PROVE  /\ Len(probes'[s]) = Len(probes[s]) + 1
         /\ Failures(s)' = IF refresher'[r].result[s] = "failed"
                           THEN Failures(s) \cup {Len(probes[s]) + 1} ELSE Failures(s)
         /\ Cardinality(Failures(s)') = IF refresher'[r].result[s] = "failed"
                                        THEN Cardinality(Failures(s)) + 1
                                        ELSE Cardinality(Failures(s))
  <1>1. PICK o \in {"passed", "failed"} : o = refresher'[r].result[s]
    OBVIOUS
  <1>2. probes'[s] = Append(probes[s], o) /\ probes[s] \in Seq({"passed", "failed"})
    BY <1>1, ProbeEffect DEF Busy, HealthTypeOK
  <1>3. /\ Len(probes'[s]) = Len(probes[s]) + 1
        /\ DOMAIN probes'[s] = 1 .. (Len(probes[s]) + 1)
        /\ \A i \in 1 .. Len(probes[s]) : probes'[s][i] = probes[s][i]
        /\ probes'[s][Len(probes[s]) + 1] = o
    BY <1>2
  <1> DEFINE n == Len(probes[s])
  <1>0. n \in Nat /\ DOMAIN probes[s] = 1 .. n
    BY FailuresFinite
  <1>7. n + 1 \notin 1 .. n /\ 1 .. (n + 1) = (1 .. n) \cup {n + 1}
    BY <1>0
  <1>8. /\ Failures(s) = {i \in 1 .. n : probes[s][i] = "failed"}
        /\ Failures(s)' = {i \in (1 .. n) \cup {n + 1} : probes'[s][i] = "failed"}
    BY <1>0, <1>3, <1>7 DEF Failures
  <1>4. Failures(s)' = IF o = "failed" THEN Failures(s) \cup {Len(probes[s]) + 1} ELSE Failures(s)
    <2>1. \A i : i \in Failures(s)' <=>
                 \/ i \in 1 .. n /\ probes[s][i] = "failed"
                 \/ i = n + 1 /\ o = "failed"
      BY <1>3, <1>7, <1>8
    <2>. QED
      BY <2>1, <1>8
  <1>5. Len(probes[s]) + 1 \notin Failures(s)
    BY <1>7, <1>8
  <1>6. Cardinality(Failures(s) \cup {Len(probes[s]) + 1}) = Cardinality(Failures(s)) + 1
    BY <1>5, FailuresFinite, FS_AddElement
  <1>. QED
    BY <1>1, <1>3, <1>4, <1>6

(* What is counted is a number, and a refresher adds one to it at most.        *)
LEMMA CountTypes ==
  ASSUME HealthTypeOK, NEW s \in Services
  PROVE  Counted(s) \in Nat /\ \A r \in Refreshers : ToCount(r, s) \in {0, 1}
  BY DEF Counted, ToCount, HealthTypeOK, Entries

LEMMA CountTypesNext ==
  ASSUME HealthTypeOK', NEW s \in Services
  PROVE  Counted(s)' \in Nat /\ \A r \in Refreshers : ToCount(r, s)' \in {0, 1}
  BY DEF Counted, ToCount, HealthTypeOK, Entries

LEMMA FailuresFiniteNext ==
  ASSUME HealthTypeOK', NEW s \in Services
  PROVE  Len(probes'[s]) \in Nat /\ Cardinality(Failures(s)') \in Nat
  <1>1. Len(probes'[s]) \in Nat /\ DOMAIN probes'[s] = 1 .. Len(probes'[s])
    BY DEF HealthTypeOK
  <1>2. IsFiniteSet(1 .. Len(probes'[s])) /\ Failures(s)' \subseteq 1 .. Len(probes'[s])
    BY <1>1, FS_Interval DEF Failures
  <1>. QED
    BY <1>1, <1>2, FS_Subset, FS_CardinalityType

(* Storing what was found counts a failure on, forgets all, or leaves it.      *)
LEMMA StoreCounts ==
  ASSUME HealthTypeOK, NEW r \in Refreshers, Store(r), NEW s \in Services
  PROVE  /\ ~Busy(r) => Counted(s)' = 0
         /\ Busy(r) =>
              \/ refresher[r].result[s] = "skipped" /\ Counted(s)' = Counted(s)
              \/ refresher[r].result[s] = "failed" /\ Counted(s)' = Counted(s) + 1
              \/ refresher[r].result[s] # "failed" /\ Counted(s)' = 0
  <1>1. /\ UNCHANGED token /\ refresher[r].pc = "storing"
        /\ cache'[s].token = refresher[r].token /\ cache[s] \in Entries
        /\ \/ /\ refresher[r].result[s] = "skipped" /\ cache[s].token = refresher[r].token
              /\ cache'[s] = cache[s]
           \/ /\ refresher[r].result[s] = "failed"
              /\ cache'[s].failures = IF cache[s].token = refresher[r].token
                                      THEN cache[s].failures + 1 ELSE 1
           \/ refresher[r].result[s] # "failed" /\ cache'[s].failures = 0
    BY StoreEffect, EvidenceStored
  <1>2. Busy(r) <=> refresher[r].token = token
    BY <1>1 DEF Busy
  <1>. QED
    BY <1>1, <1>2 DEF Counted, Entries

(* Every action keeps FailuresKnown. *)
LEMMA FailuresKnownStep ==
  ASSUME HealthInv, [HealthNext]_healthVars
  PROVE  FailuresKnown'
  <1> USE DEF HealthInv
  <1>1. "ticker" \in Refreshers /\ "action" \in Refreshers
        /\ \A q \in Refreshers : q = "ticker" \/ q = "action"
    BY DEF Refreshers
  <1>2. HealthTypeOK'
    BY HealthTypeStep
  <1>3. \A s \in Services : /\ Counted(s) \in Nat /\ Counted(s)' \in Nat
                            /\ Cardinality(Failures(s)) \in Nat /\ Cardinality(Failures(s)') \in Nat
                            /\ \A q \in Refreshers : ToCount(q, s) \in {0, 1} /\ ToCount(q, s)' \in {0, 1}
    <2>1. ASSUME NEW s \in Services
          PROVE  /\ Counted(s) \in Nat /\ Cardinality(Failures(s)) \in Nat
                 /\ \A q \in Refreshers : ToCount(q, s) \in {0, 1}
      BY CountTypes, FailuresFinite
    <2>2. ASSUME NEW s \in Services
          PROVE  /\ Counted(s)' \in Nat /\ Cardinality(Failures(s)') \in Nat
                 /\ \A q \in Refreshers : ToCount(q, s)' \in {0, 1}
      BY <1>2, CountTypesNext, FailuresFiniteNext
    <2>. QED
      BY <2>1, <2>2
  <1>4. ASSUME NEW r \in Refreshers, Begin(r) PROVE FailuresKnown'
    <2>1. SUFFICES ASSUME token' # 0, NEW t \in Services
                   PROVE  Counted(t)' + ToCount("ticker", t)' + ToCount("action", t)'
                            <= Cardinality(Failures(t)')
      BY DEF FailuresKnown
    <2>2. token # 0 => Counted(t) + ToCount("ticker", t) + ToCount("action", t)
                         <= Cardinality(Failures(t))
      BY DEF FailuresKnown
    <2>3. token # 0 /\ UNCHANGED token /\ Failures(t)' = Failures(t)
      BY <1>4, <2>1, BeginEffect DEF Failures, Begin
    <2>4. Counted(t)' = Counted(t) /\ \A q \in Refreshers : ToCount(q, t)' <= ToCount(q, t)
      BY <1>3, <1>4, <2>3, BeginEffect DEF Counted, ToCount
    <2>. QED
      BY <1>1, <1>3, <2>1, <2>2, <2>3, <2>4
  <1>5. ASSUME NEW r \in Refreshers, Verify(r) PROVE FailuresKnown'
    <2>1. SUFFICES ASSUME token' # 0, NEW t \in Services
                   PROVE  Counted(t)' + ToCount("ticker", t)' + ToCount("action", t)'
                            <= Cardinality(Failures(t)')
      BY DEF FailuresKnown
    <2>2. token # 0 => Counted(t) + ToCount("ticker", t) + ToCount("action", t)
                         <= Cardinality(Failures(t))
      BY DEF FailuresKnown
    <2>3. UNCHANGED token /\ Failures(t)' = Failures(t)
      BY <1>5, VerifyEffect DEF Failures
    <2>4. Counted(t)' = Counted(t) /\ \A q \in Refreshers : ToCount(q, t)' <= ToCount(q, t)
      BY <1>3, <1>5, <2>1, <2>3, VerifyEffect DEF Counted, ToCount
    <2>. QED
      BY <1>1, <1>3, <2>1, <2>2, <2>3, <2>4
  <1>6. ASSUME NEW r \in Refreshers, Store(r) PROVE FailuresKnown'
    <2>1. SUFFICES ASSUME token' # 0, NEW t \in Services
                   PROVE  Counted(t)' + ToCount("ticker", t)' + ToCount("action", t)'
                            <= Cardinality(Failures(t)')
      BY DEF FailuresKnown
    <2>2. token # 0 => Counted(t) + ToCount("ticker", t) + ToCount("action", t)
                         <= Cardinality(Failures(t))
      BY DEF FailuresKnown
    <2>3. token # 0 /\ UNCHANGED token /\ Failures(t)' = Failures(t)
      BY <1>6, <2>1, StoreEffect DEF Failures
    <2>4. /\ ToCount(r, t)' = 0
          /\ \A q \in Refreshers \ {r} : ToCount(q, t)' = ToCount(q, t)
      BY <1>6, StoreEffect DEF ToCount
    <2>5. Counted(t)' <= Counted(t) + ToCount(r, t)
      BY <1>3, <1>6, StoreCounts DEF ToCount
    <2>. QED
      BY <1>1, <1>3, <2>1, <2>2, <2>3, <2>4, <2>5
  <1>7. ASSUME NEW r \in Refreshers, NEW s \in Services, Probe(r, s) PROVE FailuresKnown'
    <2>1. SUFFICES ASSUME token' # 0, NEW t \in Services
                   PROVE  Counted(t)' + ToCount("ticker", t)' + ToCount("action", t)'
                            <= Cardinality(Failures(t)')
      BY DEF FailuresKnown
    <2>2. token # 0 => Counted(t) + ToCount("ticker", t) + ToCount("action", t)
                         <= Cardinality(Failures(t))
      BY DEF FailuresKnown
    <2>3. UNCHANGED token /\ Counted(t)' = Counted(t)
      BY <1>7, ProbeEffect DEF Counted
    <2>4. \A q \in Refreshers : q # r \/ t # s => ToCount(q, t)' = ToCount(q, t)
      BY <1>7, ProbeEffect DEF ToCount
    <2>5. CASE t = s /\ Busy(r) /\ refresher'[r].result[s] \in {"passed", "failed"}
      <3>1. ToCount(r, s) = 0
        BY <1>7, ProbeEffect DEF ToCount
      <3>2. Cardinality(Failures(s)') = Cardinality(Failures(s)) + ToCount(r, s)'
        BY <1>3, <1>7, <2>5, ProbeCounts, ProbeEffect DEF ToCount
      <3>. QED
        BY <1>1, <1>3, <2>1, <2>2, <2>3, <2>4, <2>5, <3>1, <3>2
    <2>6. CASE ~(t = s /\ Busy(r) /\ refresher'[r].result[s] \in {"passed", "failed"})
      <3>1. Failures(t)' = Failures(t)
        BY <1>7, <2>6, ProbeEffect DEF Failures, Busy
      <3>2. ToCount(r, t)' <= ToCount(r, t)
        BY <1>3, <1>7, <2>4, <2>6, ProbeEffect DEF ToCount
      <3>. QED
        BY <1>1, <1>3, <2>1, <2>2, <2>3, <2>4, <3>1, <3>2
    <2>. QED
      BY <1>1, <1>3, <2>1, <2>2, <2>5, <2>6
  <1>8. ASSUME NEW s \in Services, Observe(s) PROVE FailuresKnown'
    <2>1. SUFFICES ASSUME token' # 0, NEW t \in Services
                   PROVE  Counted(t)' + ToCount("ticker", t)' + ToCount("action", t)'
                            <= Cardinality(Failures(t)')
      BY DEF FailuresKnown
    <2>2. token # 0 => Counted(t) + ToCount("ticker", t) + ToCount("action", t)
                         <= Cardinality(Failures(t))
      BY DEF FailuresKnown
    <2>3. UNCHANGED token /\ Failures(t)' = Failures(t)
      BY <1>8, QuietEffect DEF Failures
    <2>4. Counted(t)' = Counted(t) /\ \A q \in Refreshers : ToCount(q, t)' <= ToCount(q, t)
      BY <1>3, <1>8, <2>1, <2>3, QuietEffect DEF Counted, ToCount
    <2>. QED
      BY <1>1, <1>3, <2>1, <2>2, <2>3, <2>4
  <1>9. ASSUME NEW s \in Services, TimePasses(s) PROVE FailuresKnown'
    <2>1. SUFFICES ASSUME token' # 0, NEW t \in Services
                   PROVE  Counted(t)' + ToCount("ticker", t)' + ToCount("action", t)'
                            <= Cardinality(Failures(t)')
      BY DEF FailuresKnown
    <2>2. token # 0 => Counted(t) + ToCount("ticker", t) + ToCount("action", t)
                         <= Cardinality(Failures(t))
      BY DEF FailuresKnown
    <2>3. UNCHANGED token /\ Failures(t)' = Failures(t)
      BY <1>9, QuietEffect DEF Failures
    <2>4. Counted(t)' = Counted(t) /\ \A q \in Refreshers : ToCount(q, t)' <= ToCount(q, t)
      BY <1>3, <1>9, <2>1, <2>3, QuietEffect DEF Counted, ToCount
    <2>. QED
      BY <1>1, <1>3, <2>1, <2>2, <2>3, <2>4
  <1>10. ASSUME NEW s \in Services, Turn(s) PROVE FailuresKnown'
    <2>1. SUFFICES ASSUME token' # 0, NEW t \in Services
                   PROVE  Counted(t)' + ToCount("ticker", t)' + ToCount("action", t)'
                            <= Cardinality(Failures(t)')
      BY DEF FailuresKnown
    <2>2. token # 0 => Counted(t) + ToCount("ticker", t) + ToCount("action", t)
                         <= Cardinality(Failures(t))
      BY DEF FailuresKnown
    <2>3. UNCHANGED token /\ Failures(t)' = Failures(t)
      BY <1>10, QuietEffect DEF Failures
    <2>4. Counted(t)' = Counted(t) /\ \A q \in Refreshers : ToCount(q, t)' <= ToCount(q, t)
      BY <1>3, <1>10, <2>1, <2>3, QuietEffect DEF Counted, ToCount
    <2>. QED
      BY <1>1, <1>3, <2>1, <2>2, <2>3, <2>4
  <1>11. CASE Renew
    <2>1. SUFFICES ASSUME token' # 0, NEW t \in Services
                   PROVE  Counted(t)' + ToCount("ticker", t)' + ToCount("action", t)'
                            <= Cardinality(Failures(t)')
      BY DEF FailuresKnown
    <2>2. token # 0 => Counted(t) + ToCount("ticker", t) + ToCount("action", t)
                         <= Cardinality(Failures(t))
      BY DEF FailuresKnown
    <2>3. Counted(t)' = 0 /\ \A q \in Refreshers : ToCount(q, t)' = 0
      BY <1>11, RenewEffect DEF Counted, ToCount, HealthTypeOK, Entries
    <2>. QED
      BY <1>1, <1>3, <2>1, <2>2, <2>3
  <1>12. CASE SessionEnds
    BY <1>12 DEF SessionEnds, FailuresKnown
  <1>13. CASE UNCHANGED healthVars
    <2>1. SUFFICES ASSUME token' # 0, NEW t \in Services
                   PROVE  Counted(t)' + ToCount("ticker", t)' + ToCount("action", t)'
                            <= Cardinality(Failures(t)')
      BY DEF FailuresKnown
    <2>2. token # 0 => Counted(t) + ToCount("ticker", t) + ToCount("action", t)
                         <= Cardinality(Failures(t))
      BY DEF FailuresKnown
    <2>3. UNCHANGED token /\ Failures(t)' = Failures(t)
      BY <1>13, QuietEffect DEF Failures
    <2>4. Counted(t)' = Counted(t) /\ \A q \in Refreshers : ToCount(q, t)' <= ToCount(q, t)
      BY <1>3, <1>13, <2>1, <2>3, QuietEffect DEF Counted, ToCount
    <2>. QED
      BY <1>1, <1>3, <2>1, <2>2, <2>3, <2>4
  <1>. QED
    BY <1>4, <1>5, <1>6, <1>7, <1>8, <1>9, <1>10, <1>11, <1>12, <1>13 DEF HealthNext

(* Every action keeps LastOnesFailed. *)
LEMMA LastOnesFailedStep ==
  ASSUME HealthInv, [HealthNext]_healthVars
  PROVE  LastOnesFailed'
  <1> USE DEF HealthInv
  <1>1. HealthTypeOK'
    BY HealthTypeStep
  <1>2. \A s \in Services : /\ Counted(s) \in Nat /\ Counted(s)' \in Nat
                            /\ Len(probes[s]) \in Nat /\ Len(probes'[s]) \in Nat
    <2>1. ASSUME NEW s \in Services PROVE Counted(s) \in Nat /\ Len(probes[s]) \in Nat
      BY CountTypes, FailuresFinite
    <2>2. ASSUME NEW s \in Services PROVE Counted(s)' \in Nat /\ Len(probes'[s]) \in Nat
      BY <1>1, CountTypesNext, FailuresFiniteNext
    <2>. QED
      BY <2>1, <2>2
  <1>3. ASSUME NEW r \in Refreshers, Begin(r) PROVE LastOnesFailed'
    <2>1. SUFFICES ASSUME token' # 0, ~overlapped', NEW t \in Services
                   PROVE  /\ Counted(t)' <= Settled(t)'
                          /\ (Settled(t)' - Counted(t)' + 1) .. Settled(t)' \subseteq Failures(t)'
                          /\ \A q \in Refreshers : Busy(q)' /\ refresher'[q].result[t] = "failed" =>
                               Len(probes'[t]) \in Failures(t)'
      BY DEF LastOnesFailed
    <2>2. token # 0 /\ ~overlapped
      BY <1>3, <2>1, BeginEffect DEF Begin
    <2>3. /\ Counted(t) <= Settled(t)
          /\ (Settled(t) - Counted(t) + 1) .. Settled(t) \subseteq Failures(t)
          /\ \A q \in Refreshers : Busy(q) /\ refresher[q].result[t] = "failed" =>
               Len(probes[t]) \in Failures(t)
      BY <2>2 DEF LastOnesFailed
    <2>4. probes'[t] = probes[t] /\ Failures(t)' = Failures(t) /\ Counted(t)' = Counted(t)
      BY <1>3, <2>1, <2>2, BeginEffect DEF Failures, Counted
    <2>5. /\ Pending(t)' <=> Pending(t)
          /\ \A q \in Refreshers : Busy(q)' /\ refresher'[q].result[t] = "failed" =>
               Busy(q) /\ refresher[q].result[t] = "failed"
      BY <1>3, <2>1, <2>2, BeginEffect DEF Pending
    <2>6. Settled(t)' = Settled(t)
      BY <2>4, <2>5 DEF Settled
    <2>. QED
      BY <2>3, <2>4, <2>5, <2>6
  <1>4. ASSUME NEW r \in Refreshers, Verify(r) PROVE LastOnesFailed'
    <2>1. SUFFICES ASSUME token' # 0, ~overlapped', NEW t \in Services
                   PROVE  /\ Counted(t)' <= Settled(t)'
                          /\ (Settled(t)' - Counted(t)' + 1) .. Settled(t)' \subseteq Failures(t)'
                          /\ \A q \in Refreshers : Busy(q)' /\ refresher'[q].result[t] = "failed" =>
                               Len(probes'[t]) \in Failures(t)'
      BY DEF LastOnesFailed
    <2>2. token # 0 /\ ~overlapped
      BY <1>4, <2>1, VerifyEffect
    <2>3. /\ Counted(t) <= Settled(t)
          /\ (Settled(t) - Counted(t) + 1) .. Settled(t) \subseteq Failures(t)
          /\ \A q \in Refreshers : Busy(q) /\ refresher[q].result[t] = "failed" =>
               Len(probes[t]) \in Failures(t)
      BY <2>2 DEF LastOnesFailed
    <2>4. probes'[t] = probes[t] /\ Failures(t)' = Failures(t) /\ Counted(t)' = Counted(t)
      BY <1>4, <2>1, <2>2, VerifyEffect DEF Failures, Counted
    <2>5. /\ Pending(t)' <=> Pending(t)
          /\ \A q \in Refreshers : Busy(q)' /\ refresher'[q].result[t] = "failed" =>
               Busy(q) /\ refresher[q].result[t] = "failed"
      BY <1>4, <2>1, <2>2, VerifyEffect DEF Pending
    <2>6. Settled(t)' = Settled(t)
      BY <2>4, <2>5 DEF Settled
    <2>. QED
      BY <2>3, <2>4, <2>5, <2>6
  <1>5. ASSUME NEW r \in Refreshers, Store(r) PROVE LastOnesFailed'
    <2>1. SUFFICES ASSUME token' # 0, ~overlapped', NEW t \in Services
                   PROVE  /\ Counted(t)' <= Settled(t)'
                          /\ (Settled(t)' - Counted(t)' + 1) .. Settled(t)' \subseteq Failures(t)'
                          /\ \A q \in Refreshers : Busy(q)' /\ refresher'[q].result[t] = "failed" =>
                               Len(probes'[t]) \in Failures(t)'
      BY DEF LastOnesFailed
    <2>2. token # 0 /\ ~overlapped
      BY <1>5, <2>1, StoreEffect
    <2>3. /\ Counted(t) <= Settled(t)
          /\ (Settled(t) - Counted(t) + 1) .. Settled(t) \subseteq Failures(t)
          /\ \A q \in Refreshers : Busy(q) /\ refresher[q].result[t] = "failed" =>
               Len(probes[t]) \in Failures(t)
      BY <2>2 DEF LastOnesFailed
    <2>4. probes'[t] = probes[t] /\ Failures(t)' = Failures(t)
      BY <1>5, StoreEffect DEF Failures
    <2>5. \A q \in Refreshers : Busy(q)' /\ refresher'[q].result[t] = "failed" =>
            Busy(q) /\ refresher[q].result[t] = "failed"
      BY <1>5, StoreEffect
    <2>6. CASE ~Busy(r)
      <3>1. Pending(t)' <=> Pending(t)
        BY <1>5, <2>6, StoreEffect DEF Pending
      <3>2. Settled(t)' = Settled(t) /\ Settled(t) \in Int
        BY <1>2, <2>4, <3>1 DEF Settled
      <3>3. Counted(t)' = 0
        BY <1>5, <2>6, StoreCounts
      <3>. QED
        BY <1>2, <2>3, <2>4, <2>5, <3>2, <3>3
    <2>7. CASE Busy(r)
      <3>1. \A q \in Refreshers : Busy(q) => q = r
        BY <2>2, <2>7 DEF OneAtATime
      <3>2. Pending(t) <=> refresher[r].result[t] \in {"passed", "failed"}
        BY <2>7, <3>1 DEF Pending
      <3>3. Settled(t)' = Len(probes[t])
        BY <1>5, <2>4, <3>1, StoreEffect DEF Settled, Pending
      <3>4. CASE refresher[r].result[t] = "skipped" /\ Counted(t)' = Counted(t)
        <4>1. Settled(t) = Len(probes[t])
          BY <3>2, <3>4 DEF Settled
        <4>. QED
          BY <2>3, <2>4, <2>5, <3>3, <3>4, <4>1
      <3>5. CASE refresher[r].result[t] = "failed" /\ Counted(t)' = Counted(t) + 1
        <4>1. Settled(t) = Len(probes[t]) - 1
          BY <3>2, <3>5 DEF Settled
        <4>2. Len(probes[t]) \in Failures(t)
          BY <2>3, <2>7, <3>5
        <4>. QED
          BY <1>2, <2>3, <2>4, <2>5, <3>3, <3>5, <4>1, <4>2
      <3>6. CASE Counted(t)' = 0
        BY <1>2, <2>3, <2>4, <2>5, <3>3, <3>6
      <3>. QED
        BY <1>5, <2>7, <3>4, <3>5, <3>6, StoreCounts
    <2>. QED
      BY <2>6, <2>7
  <1>6. ASSUME NEW r \in Refreshers, NEW s \in Services, Probe(r, s) PROVE LastOnesFailed'
    <2>1. SUFFICES ASSUME token' # 0, ~overlapped', NEW t \in Services
                   PROVE  /\ Counted(t)' <= Settled(t)'
                          /\ (Settled(t)' - Counted(t)' + 1) .. Settled(t)' \subseteq Failures(t)'
                          /\ \A q \in Refreshers : Busy(q)' /\ refresher'[q].result[t] = "failed" =>
                               Len(probes'[t]) \in Failures(t)'
      BY DEF LastOnesFailed
    <2>2. token # 0 /\ ~overlapped
      BY <1>6, <2>1, ProbeEffect
    <2>3. /\ Counted(t) <= Settled(t)
          /\ (Settled(t) - Counted(t) + 1) .. Settled(t) \subseteq Failures(t)
          /\ \A q \in Refreshers : Busy(q) /\ refresher[q].result[t] = "failed" =>
               Len(probes[t]) \in Failures(t)
      BY <2>2 DEF LastOnesFailed
    <2>4. Counted(t)' = Counted(t)
      BY <1>6, ProbeEffect DEF Counted
    <2>5. CASE t = s /\ Busy(r) /\ refresher'[r].result[s] \in {"passed", "failed"}
      <3>1. \A q \in Refreshers : Busy(q) => q = r
        BY <2>2, <2>5 DEF OneAtATime
      <3>2. ~Pending(s) /\ Pending(s)'
        BY <1>6, <2>5, <3>1, ProbeEffect DEF Pending
      <3>3. Settled(s)' = Settled(s) /\ Settled(s) = Len(probes[s])
        BY <1>2, <1>6, <2>5, <3>2, ProbeCounts DEF Settled
      <3>4. Failures(s) \subseteq Failures(s)'
        BY <1>6, <2>5, ProbeCounts
      <3>5. \A q \in Refreshers : Busy(q)' /\ refresher'[q].result[s] = "failed" =>
              Len(probes'[s]) \in Failures(s)'
        BY <1>6, <2>5, <3>1, ProbeEffect, ProbeCounts
      <3>. QED
        BY <2>3, <2>4, <2>5, <3>3, <3>4, <3>5
    <2>6. CASE ~(t = s /\ Busy(r) /\ refresher'[r].result[s] \in {"passed", "failed"})
      <3>1. probes'[t] = probes[t] /\ Failures(t)' = Failures(t)
        BY <1>6, <2>6, ProbeEffect DEF Failures, Busy
      <3>2. \A q \in Refreshers : Busy(q)' /\ refresher'[q].result[t] \in {"passed", "failed"} <=>
              Busy(q) /\ refresher[q].result[t] \in {"passed", "failed"}
        BY <1>6, <2>6, ProbeEffect
      <3>3. \A q \in Refreshers : Busy(q)' /\ refresher'[q].result[t] = "failed" =>
              Busy(q) /\ refresher[q].result[t] = "failed"
        BY <1>6, <2>6, ProbeEffect
      <3>4. Settled(t)' = Settled(t)
        BY <3>1, <3>2 DEF Settled, Pending
      <3>. QED
        BY <2>3, <2>4, <3>1, <3>3, <3>4
    <2>. QED
      BY <2>5, <2>6
  <1>7. ASSUME NEW s \in Services, Observe(s) PROVE LastOnesFailed'
    <2>1. SUFFICES ASSUME token' # 0, ~overlapped', NEW t \in Services
                   PROVE  /\ Counted(t)' <= Settled(t)'
                          /\ (Settled(t)' - Counted(t)' + 1) .. Settled(t)' \subseteq Failures(t)'
                          /\ \A q \in Refreshers : Busy(q)' /\ refresher'[q].result[t] = "failed" =>
                               Len(probes'[t]) \in Failures(t)'
      BY DEF LastOnesFailed
    <2>2. token # 0 /\ ~overlapped
      BY <1>7, <2>1, QuietEffect
    <2>3. /\ Counted(t) <= Settled(t)
          /\ (Settled(t) - Counted(t) + 1) .. Settled(t) \subseteq Failures(t)
          /\ \A q \in Refreshers : Busy(q) /\ refresher[q].result[t] = "failed" =>
               Len(probes[t]) \in Failures(t)
      BY <2>2 DEF LastOnesFailed
    <2>4. probes'[t] = probes[t] /\ Failures(t)' = Failures(t) /\ Counted(t)' = Counted(t)
      BY <1>7, <2>1, <2>2, QuietEffect DEF Failures, Counted
    <2>5. /\ Pending(t)' <=> Pending(t)
          /\ \A q \in Refreshers : Busy(q)' /\ refresher'[q].result[t] = "failed" =>
               Busy(q) /\ refresher[q].result[t] = "failed"
      BY <1>7, <2>1, <2>2, QuietEffect DEF Pending
    <2>6. Settled(t)' = Settled(t)
      BY <2>4, <2>5 DEF Settled
    <2>. QED
      BY <2>3, <2>4, <2>5, <2>6
  <1>8. ASSUME NEW s \in Services, TimePasses(s) PROVE LastOnesFailed'
    <2>1. SUFFICES ASSUME token' # 0, ~overlapped', NEW t \in Services
                   PROVE  /\ Counted(t)' <= Settled(t)'
                          /\ (Settled(t)' - Counted(t)' + 1) .. Settled(t)' \subseteq Failures(t)'
                          /\ \A q \in Refreshers : Busy(q)' /\ refresher'[q].result[t] = "failed" =>
                               Len(probes'[t]) \in Failures(t)'
      BY DEF LastOnesFailed
    <2>2. token # 0 /\ ~overlapped
      BY <1>8, <2>1, QuietEffect
    <2>3. /\ Counted(t) <= Settled(t)
          /\ (Settled(t) - Counted(t) + 1) .. Settled(t) \subseteq Failures(t)
          /\ \A q \in Refreshers : Busy(q) /\ refresher[q].result[t] = "failed" =>
               Len(probes[t]) \in Failures(t)
      BY <2>2 DEF LastOnesFailed
    <2>4. probes'[t] = probes[t] /\ Failures(t)' = Failures(t) /\ Counted(t)' = Counted(t)
      BY <1>8, <2>1, <2>2, QuietEffect DEF Failures, Counted
    <2>5. /\ Pending(t)' <=> Pending(t)
          /\ \A q \in Refreshers : Busy(q)' /\ refresher'[q].result[t] = "failed" =>
               Busy(q) /\ refresher[q].result[t] = "failed"
      BY <1>8, <2>1, <2>2, QuietEffect DEF Pending
    <2>6. Settled(t)' = Settled(t)
      BY <2>4, <2>5 DEF Settled
    <2>. QED
      BY <2>3, <2>4, <2>5, <2>6
  <1>9. ASSUME NEW s \in Services, Turn(s) PROVE LastOnesFailed'
    <2>1. SUFFICES ASSUME token' # 0, ~overlapped', NEW t \in Services
                   PROVE  /\ Counted(t)' <= Settled(t)'
                          /\ (Settled(t)' - Counted(t)' + 1) .. Settled(t)' \subseteq Failures(t)'
                          /\ \A q \in Refreshers : Busy(q)' /\ refresher'[q].result[t] = "failed" =>
                               Len(probes'[t]) \in Failures(t)'
      BY DEF LastOnesFailed
    <2>2. token # 0 /\ ~overlapped
      BY <1>9, <2>1, QuietEffect
    <2>3. /\ Counted(t) <= Settled(t)
          /\ (Settled(t) - Counted(t) + 1) .. Settled(t) \subseteq Failures(t)
          /\ \A q \in Refreshers : Busy(q) /\ refresher[q].result[t] = "failed" =>
               Len(probes[t]) \in Failures(t)
      BY <2>2 DEF LastOnesFailed
    <2>4. probes'[t] = probes[t] /\ Failures(t)' = Failures(t) /\ Counted(t)' = Counted(t)
      BY <1>9, <2>1, <2>2, QuietEffect DEF Failures, Counted
    <2>5. /\ Pending(t)' <=> Pending(t)
          /\ \A q \in Refreshers : Busy(q)' /\ refresher'[q].result[t] = "failed" =>
               Busy(q) /\ refresher[q].result[t] = "failed"
      BY <1>9, <2>1, <2>2, QuietEffect DEF Pending
    <2>6. Settled(t)' = Settled(t)
      BY <2>4, <2>5 DEF Settled
    <2>. QED
      BY <2>3, <2>4, <2>5, <2>6
  <1>10. CASE Renew
    <2>1. SUFFICES ASSUME token' # 0, ~overlapped', NEW t \in Services
                   PROVE  /\ Counted(t)' <= Settled(t)'
                          /\ (Settled(t)' - Counted(t)' + 1) .. Settled(t)' \subseteq Failures(t)'
                          /\ \A q \in Refreshers : Busy(q)' /\ refresher'[q].result[t] = "failed" =>
                               Len(probes'[t]) \in Failures(t)'
      BY DEF LastOnesFailed
    <2>2. /\ Counted(t)' = 0 /\ probes'[t] = <<>>
          /\ \A q \in Refreshers : ~Busy(q)'
      BY <1>10, RenewEffect DEF Counted, HealthTypeOK, Entries
    <2>3. Settled(t)' = 0
      BY <2>2 DEF Settled, Pending
    <2>. QED
      BY <2>2, <2>3
  <1>11. CASE SessionEnds
    BY <1>11 DEF SessionEnds, LastOnesFailed
  <1>12. CASE UNCHANGED healthVars
    <2>1. SUFFICES ASSUME token' # 0, ~overlapped', NEW t \in Services
                   PROVE  /\ Counted(t)' <= Settled(t)'
                          /\ (Settled(t)' - Counted(t)' + 1) .. Settled(t)' \subseteq Failures(t)'
                          /\ \A q \in Refreshers : Busy(q)' /\ refresher'[q].result[t] = "failed" =>
                               Len(probes'[t]) \in Failures(t)'
      BY DEF LastOnesFailed
    <2>2. token # 0 /\ ~overlapped
      BY <1>12, <2>1, QuietEffect
    <2>3. /\ Counted(t) <= Settled(t)
          /\ (Settled(t) - Counted(t) + 1) .. Settled(t) \subseteq Failures(t)
          /\ \A q \in Refreshers : Busy(q) /\ refresher[q].result[t] = "failed" =>
               Len(probes[t]) \in Failures(t)
      BY <2>2 DEF LastOnesFailed
    <2>4. probes'[t] = probes[t] /\ Failures(t)' = Failures(t) /\ Counted(t)' = Counted(t)
      BY <1>12, <2>1, <2>2, QuietEffect DEF Failures, Counted
    <2>5. /\ Pending(t)' <=> Pending(t)
          /\ \A q \in Refreshers : Busy(q)' /\ refresher'[q].result[t] = "failed" =>
               Busy(q) /\ refresher[q].result[t] = "failed"
      BY <1>12, <2>1, <2>2, QuietEffect DEF Pending
    <2>6. Settled(t)' = Settled(t)
      BY <2>4, <2>5 DEF Settled
    <2>. QED
      BY <2>3, <2>4, <2>5, <2>6
  <1>. QED
    BY <1>3, <1>4, <1>5, <1>6, <1>7, <1>8, <1>9, <1>10, <1>11, <1>12 DEF HealthNext

\* What the cache of the dashboard holds has its type, is of no session to come, and is
\* borne out by the probes of the session it is of (web_data.go).
THEOREM HealthInvariance == HealthSpec => []HealthInv
  <1>1. HealthInv /\ [HealthNext]_healthVars => HealthInv'
    <2>1. SUFFICES ASSUME HealthInv, [HealthNext]_healthVars PROVE HealthInv'
      OBVIOUS
    <2>2. HealthTypeOK' /\ TokensKnown' /\ OneAtATime'
      BY <2>1, HealthTypeStep, TokensKnownStep, OneAtATimeStep DEF HealthInv
    <2>3. PassesKnown' /\ UnhealthyCounted'
      BY <2>1, PassesKnownStep, UnhealthyCountedStep
    <2>4. FailuresKnown' /\ LastOnesFailed'
      BY <2>1, FailuresKnownStep, LastOnesFailedStep
    <2>. QED
      BY <2>2, <2>3, <2>4 DEF HealthInv
  <1>. QED
    BY <1>1, HealthInvInit, PTL DEF HealthSpec

\* A service is called healthy only if a probe of this very process has passed, and
\* unhealthy only if as many have failed as the threshold asks for, the last ones one
\* after the other unless refreshes overlapped (RefreshWebHealth, webCachedHealth).
THEOREM HealthEvident == HealthSpec => []HealthIsEvidence
  <1>1. HealthInv => HealthIsEvidence
    <2>1. SUFFICES ASSUME HealthInv, NEW s \in Services
                   PROVE  LET n == Len(probes[s])
                          IN  /\ Shown(s) \in {"healthy", "stale"} => Failures(s) # 1 .. n
                              /\ Shown(s) = "unhealthy" =>
                                   /\ Cardinality(Failures(s)) >= Threshold
                                   /\ ~overlapped => \E m \in {n, n - 1} :
                                        /\ m >= Threshold
                                        /\ (m - Threshold + 1) .. m \subseteq Failures(s)
      BY DEF HealthIsEvidence
    <2> USE DEF HealthInv
    <2>2. /\ Len(probes[s]) \in Nat /\ DOMAIN probes[s] = 1 .. Len(probes[s])
          /\ Cardinality(Failures(s)) \in Nat
      BY <2>1, FailuresFinite
    <2>3. ASSUME Shown(s) \in {"healthy", "stale"} PROVE Failures(s) # 1 .. Len(probes[s])
      <3>1. token # 0 /\ cache[s].token = token /\ cache[s].status \in {"healthy", "stale"}
        BY <2>3 DEF Shown
      <3>. QED
        BY <2>1, <2>2, <3>1 DEF PassesKnown, HasPass, Failures
    <2>4. ASSUME Shown(s) = "unhealthy"
          PROVE  /\ Cardinality(Failures(s)) >= Threshold
                 /\ ~overlapped => \E m \in {Len(probes[s]), Len(probes[s]) - 1} :
                      m >= Threshold /\ (m - Threshold + 1) .. m \subseteq Failures(s)
      <3>1. token # 0 /\ cache[s].token = token /\ cache[s].status = "unhealthy"
        BY <2>4 DEF Shown
      <3>2. /\ Counted(s) >= Threshold /\ Counted(s) \in Nat
            /\ ToCount("ticker", s) \in {0, 1} /\ ToCount("action", s) \in {0, 1}
        BY <2>1, <3>1, CountTypes DEF UnhealthyCounted, Counted, Refreshers
      <3>3. Cardinality(Failures(s)) >= Threshold
        BY <2>1, <2>2, <3>1, <3>2, HealthAssumption DEF FailuresKnown
      <3>4. ASSUME ~overlapped
            PROVE  \E m \in {Len(probes[s]), Len(probes[s]) - 1} :
                     m >= Threshold /\ (m - Threshold + 1) .. m \subseteq Failures(s)
        <4>1. /\ Counted(s) <= Settled(s)
              /\ (Settled(s) - Counted(s) + 1) .. Settled(s) \subseteq Failures(s)
          BY <2>1, <3>1, <3>4 DEF LastOnesFailed
        <4>2. Settled(s) \in {Len(probes[s]), Len(probes[s]) - 1}
          BY DEF Settled
        <4>. QED
          BY <2>2, <3>2, <4>1, <4>2, HealthAssumption
      <3>. QED
        BY <3>3, <3>4
    <2>. QED
      BY <2>3, <2>4
  <1>. QED
    BY <1>1, HealthInvariance, PTL
-----------------------------------------------------------------------------
(* StartupRecord                                                             *)

Attempts ==
  [id : Nat, status : {"running", "failed", "succeeded"},
   stage : {"started", "failed", "completed"}, cleanup : {"none", "completed", "incomplete"},
   started : SUBSET Members, rolledBack : SUBSET Members, remaining : SUBSET Members,
   logs : SUBSET Members, stops : SUBSET Members]

Sessions == [attempt : Nat, processes : [Members -> Nat]]
Commanded ==
  [kind : {"none", "start", "restart"},
   pc : {"idle", "early", "starting", "spawned", "failing", "cleanup", "closing"},
   id : Nat, targets : SUBSET Members, old : Sessions]
Fates == {"open", "failed", "unwritten", "killed", "succeeded"}

RecordTypeOK ==
  /\ history \in Seq(Attempts) /\ draft \in Attempts
  /\ saved \in Sessions /\ mine \in Sessions
  /\ alive \in [Members -> Nat]
  /\ command \in Commanded
  /\ fate \in Seq(Fates)

\* What is said of an attempt and may be false: the three conjuncts of RecordIsTrue
CleanupTold(a) ==
  LET runs == {s \in Members : alive[s] = a.id}
  IN  a.cleanup # "none" =>
        /\ runs \subseteq a.remaining
        /\ a.rolledBack \cup a.remaining = a.started
        /\ a.rolledBack \cap a.remaining = {}
        /\ a.cleanup = "completed" => a.remaining = {}

EndTold(a) ==
  /\ a.status = "running" => fate[a.id] \in {"open", "killed", "unwritten"}
  /\ a.status = "succeeded" => fate[a.id] # "failed"

\* The attempt of the command is the last that was begun, and has not ended.
LastAttempt ==
  /\ command.pc = "idle" => command.id = 0
  /\ command.pc # "idle" =>
       command.id = Len(fate) /\ draft.id = command.id /\ Len(fate) > 0 /\ fate[Len(fate)] = "open"

\* No process is of an attempt to come.  A start that has not spawned owns none, and
\* then those its session names.
ProcessesKnown ==
  /\ \A s \in Members : alive[s] <= Len(fate)
  /\ command.pc = "early" => \A s \in Members : alive[s] # command.id
  /\ command.kind = "start" /\ command.pc \in {"starting", "spawned", "failing", "cleanup"} =>
       \A s \in Members : alive[s] = command.id => mine.processes[s] = command.id

\* The recorder calls nothing cleaned up before it has been, and then it is true.
DraftTrue ==
  /\ command.pc \notin {"idle", "closing"} => draft.cleanup = "none"
  /\ command.pc = "closing" => draft.status = "failed" /\ CleanupTold(draft)

\* An attempt as it may stand in the history: what is written while its command
\* lives tells of no cleanup.
Fine(a) ==
  /\ a.id \in 1 .. Len(fate)
  /\ command.pc # "idle" /\ a.id = command.id => a.cleanup = "none"
  /\ CleanupTold(a) /\ EndTold(a)

HistoryFine == \A i \in DOMAIN history : Fine(history[i])

RecordInv ==
  /\ RecordTypeOK /\ LastAttempt /\ ProcessesKnown /\ DraftTrue /\ HistoryFine

(* What is put in the history is there, and what else is there was there       *)
(* before and is another attempt.                                              *)
LEMMA PutEntries ==
  ASSUME NEW h \in Seq(Attempts), NEW a \in Attempts
  PROVE  /\ Put(h, a) \in Seq(Attempts)
         /\ \A i \in DOMAIN Put(h, a) :
              \/ Put(h, a)[i] = a
              \/ \E j \in DOMAIN h : Put(h, a)[i] = h[j] /\ h[j].id # a.id
  <1>1. CASE \E i \in DOMAIN h : h[i].id = a.id
    BY <1>1 DEF Put
  <1>2. CASE ~\E i \in DOMAIN h : h[i].id = a.id
    <2> DEFINE g == <<a>> \o h
               n == IF Len(h) < Limit THEN Len(h) + 1 ELSE Limit
    <2>1. /\ g \in Seq(Attempts) /\ Len(g) = Len(h) + 1
          /\ \A i \in 1 .. Len(g) : g[i] = IF i = 1 THEN a ELSE h[i - 1]
      OBVIOUS
    <2>2. n \in Nat /\ n <= Len(g)
      BY <2>1, RecordAssumption
    <2>3. Put(h, a) = SubSeq(g, 1, n)
      BY <1>2 DEF Put
    <2>4. /\ Put(h, a) \in Seq(Attempts)
          /\ DOMAIN Put(h, a) = 1 .. n
          /\ \A i \in 1 .. n : Put(h, a)[i] = g[i]
      <3> HIDE DEF g, n
      <3>. QED
        BY <2>1, <2>2, <2>3
    <2>5. ASSUME NEW i \in 1 .. n
          PROVE  \/ Put(h, a)[i] = a
                 \/ \E j \in DOMAIN h : Put(h, a)[i] = h[j] /\ h[j].id # a.id
      <3>1. CASE i = 1
        BY <2>1, <2>2, <2>4, <3>1
      <3>2. CASE i # 1
        <4>1. i - 1 \in DOMAIN h /\ Put(h, a)[i] = h[i - 1]
          BY <2>1, <2>2, <2>4, <3>2
        <4>. QED
          BY <1>2, <4>1
      <3>. QED
        BY <3>1, <3>2
    <2>. QED
      BY <2>4, <2>5
  <1>. QED
    BY <1>1, <1>2

(* Two attempts of which the history says the same, but for logs and stops     *)
SameOutcome(a, b) ==
  /\ a.id = b.id /\ a.status = b.status /\ a.cleanup = b.cleanup
  /\ a.started = b.started /\ a.rolledBack = b.rolledBack /\ a.remaining = b.remaining

(* The archive of the logs changes nothing else.                               *)
LEMMA ArchivedEntries ==
  ASSUME NEW h \in Seq(Attempts), NEW session \in Sessions, NEW names \in SUBSET Members
  PROVE  /\ Archived(h, session, names) \in Seq(Attempts)
         /\ DOMAIN Archived(h, session, names) = DOMAIN h
         /\ \A i \in DOMAIN h : SameOutcome(Archived(h, session, names)[i], h[i])
  <1>1. In(session) \subseteq Members
    BY DEF In
  <1>2. \A i \in DOMAIN h : h[i] \in Attempts
    OBVIOUS
  <1>3. ASSUME NEW i \in DOMAIN h
        PROVE  /\ Archived(h, session, names)[i] \in Attempts
               /\ SameOutcome(Archived(h, session, names)[i], h[i])
    <2>1. CASE h[i].id # session.attempt
      BY <1>2, <2>1 DEF Archived, SameOutcome
    <2>2. CASE h[i].id = session.attempt
      <3> DEFINE L == IF names = {} THEN In(session)
                      ELSE (h[i].logs \ names) \cup (names \cap In(session))
      <3>1. Archived(h, session, names)[i] = [h[i] EXCEPT !.logs = L]
        BY <2>2 DEF Archived
      <3>2. L \subseteq Members
        BY <1>1, <1>2 DEF Attempts
      <3> HIDE DEF L
      <3> DEFINE b == [h[i] EXCEPT !.logs = L]
      <3>3. h[i] \in Attempts
        BY <1>2
      <3>4. b \in Attempts
        BY <3>2, <3>3 DEF Attempts
      <3>5. SameOutcome(b, h[i])
        BY <3>3 DEF Attempts, SameOutcome
      <3>. QED
        BY <3>1, <3>4, <3>5
    <2>. QED
      BY <2>1, <2>2
  <1>4. DOMAIN Archived(h, session, names) = DOMAIN h
    BY DEF Archived
  <1>5. Archived(h, session, names) \in Seq(Attempts)
    BY <1>3 DEF Archived
  <1>. QED
    BY <1>3, <1>4, <1>5

LEMMA RecordInvInit == RecordInit => RecordInv
  <1> USE DEF RecordInit, NoSession, NoProcess, NoCommand, NewAttempt
  <1>1. ASSUME RecordInit PROVE RecordTypeOK
    BY <1>1 DEF RecordTypeOK, Attempts, Sessions, Fates, Commanded
  <1>2. ASSUME RecordInit PROVE LastAttempt /\ ProcessesKnown /\ DraftTrue /\ HistoryFine
    BY <1>2 DEF LastAttempt, ProcessesKnown, DraftTrue, HistoryFine
  <1>. QED
    BY <1>1, <1>2 DEF RecordInv


(* What the writes of a step leave in the history: one draft, the last of its  *)
(* drafts when none fails.                                                     *)
LEMMA Writing ==
  ASSUME NEW a, NEW b
  PROVE  /\ Written(<<a>>) = Put(history, a) /\ Written(<<a, b>>) = Put(history, b)
         /\ Writes(<<a>>) = {history, Put(history, a)}
         /\ Writes(<<a, b>>) = {history, Put(history, a), Put(history, b)}
  <1>1. DOMAIN <<a>> = {1} /\ DOMAIN <<a, b>> = {1, 2}
    OBVIOUS
  <1>. QED
    BY <1>1 DEF Written, Writes, Last

LEMMA RecordTypeStep ==
  ASSUME RecordTypeOK, [RecordNext]_recordVars
  PROVE  RecordTypeOK'
  <1>1. \A a \in Attempts : Put(history, a) \in Seq(Attempts)
    BY PutEntries DEF RecordTypeOK
  <1>2. \A session \in Sessions, names \in SUBSET Members :
          Archived(history, session, names) \in Seq(Attempts)
    BY ArchivedEntries DEF RecordTypeOK
  <1>3. \A session \in Sessions, gone \in SUBSET Members :
          In(session) \subseteq Members /\ Without(session, gone) \in Sessions
    BY DEF In, Without, Sessions
  <1>4. NoSession \in Sessions
    BY DEF NoSession, NoProcess, Sessions
  <1>5. NoCommand \in Commanded
    BY <1>4 DEF NoCommand, Commanded
  <1>6. \A how \in Fates, i \in Nat : [fate EXCEPT ![i] = how] \in Seq(Fates)
    <2>1. fate = [i \in 1 .. Len(fate) |-> fate[i]] /\ \A i \in 1 .. Len(fate) : fate[i] \in Fates
      BY DEF RecordTypeOK
    <2>2. ASSUME NEW how \in Fates, NEW i \in Nat
          PROVE  [j \in 1 .. Len(fate) |-> IF j = i THEN how ELSE fate[j]] \in Seq(Fates)
      BY <2>1, Len(fate) \in Nat DEF RecordTypeOK
    <2>3. ASSUME NEW how \in Fates, NEW i \in Nat
          PROVE  [fate EXCEPT ![i] = how] = [j \in 1 .. Len(fate) |-> IF j = i THEN how ELSE fate[j]]
      BY <2>1
    <2>. QED
      BY <2>2, <2>3
  <1>7. /\ \A session \in Sessions, n \in Nat : [session EXCEPT !.attempt = n] \in Sessions
        /\ \A session \in Sessions, s \in Members, n \in Nat :
             [session EXCEPT !.processes[s] = n] \in Sessions
        /\ \A session \in Sessions, f \in [Members -> Nat] :
             [session EXCEPT !.processes = f] \in Sessions
        /\ \A session \in Sessions : session.processes \in [Members -> Nat] /\ session.attempt \in Nat
    BY DEF Sessions
  <1>8. command.id \in Nat /\ command.targets \subseteq Members /\ command.old \in Sessions
    BY DEF RecordTypeOK, Commanded
  <1>9. ASSUME NEW a \in Attempts
        PROVE  /\ \A x \in {"started", "failed", "completed"} : [a EXCEPT !.stage = x] \in Attempts
               /\ \A x \in {"running", "failed", "succeeded"} : [a EXCEPT !.status = x] \in Attempts
               /\ \A x \in {"started", "failed", "completed"}, l \in SUBSET Members :
                    [a EXCEPT !.stage = x, !.logs = l] \in Attempts
    BY DEF Attempts
  <1>10. ASSUME Deferred
         PROVE  /\ history' \in Seq(Attempts) /\ draft' \in Attempts
                /\ command' = NoCommand /\ fate' \in Seq(Fates)
    <2> DEFINE failed == [draft EXCEPT !.stage = "failed"]
               over   == [failed EXCEPT !.status = "failed"]
    <2>1. failed \in Attempts /\ over \in Attempts
      BY <1>9 DEF RecordTypeOK
    <2>2. /\ draft' = over
          /\ history' \in {history, Put(history, failed), Put(history, over)}
          /\ Ends("failed") \/ Ends("unwritten")
      BY <1>10, Writing DEF Deferred
    <2>3. command' = NoCommand /\ fate' \in Seq(Fates)
      BY <1>6, <1>8, <2>2 DEF Ends, Fates
    <2> HIDE DEF failed, over
    <2>. QED
      BY <1>1, <2>1, <2>2, <2>3 DEF RecordTypeOK
  <1>11. ASSUME NEW kind \in {"start", "restart"}, NEW targets \in SUBSET Members,
             BeginDiagnostics(kind, targets) PROVE RecordTypeOK'
    <2>9. NewAttempt(Len(fate) + 1) \in Attempts
      BY DEF RecordTypeOK, NewAttempt, Attempts
    <2>1. history' \in Seq(Attempts)
      BY <1>1, <1>11, <2>9 DEF BeginDiagnostics
    <2>2. draft' \in Attempts
      BY <1>11, <2>9 DEF BeginDiagnostics
    <2>3. saved' \in Sessions
      BY <1>11 DEF BeginDiagnostics, RecordTypeOK
    <2>4. mine' \in Sessions
      BY <1>11 DEF BeginDiagnostics, RecordTypeOK
    <2>5. alive' \in [Members -> Nat]
      BY <1>11 DEF BeginDiagnostics, RecordTypeOK
    <2>6. command' \in Commanded
      BY <1>11 DEF BeginDiagnostics, RecordTypeOK, Step, Ends, Commanded
    <2>7. fate' \in Seq(Fates)
      BY <1>11 DEF BeginDiagnostics, RecordTypeOK, Fates, Ends
    <2>. QED
      BY <2>1, <2>2, <2>3, <2>4, <2>5, <2>6, <2>7 DEF RecordTypeOK
  <1>12. ASSUME NEW names \in SUBSET Members, StopServices(names) PROVE RecordTypeOK'
    <2>9. PICK stuck \in SUBSET names, archived \in {history, Archived(history, saved, IF names = In(saved) THEN {} ELSE names)} :
            /\ alive' = [s \in Members |-> IF s \in names \ stuck THEN 0 ELSE alive[s]]
            /\ saved' = IF In(Without(saved, names \ stuck)) = {} THEN NoSession
                        ELSE Without(saved, names \ stuck)
            /\ history' = [i \in DOMAIN archived |->
                 IF archived[i].id # saved.attempt THEN archived[i]
                 ELSE [archived[i] EXCEPT !.stops = (@ \ names) \cup (names \ stuck)]]
      BY <1>12 DEF StopServices
    <2>10. archived \in Seq(Attempts)
      BY <1>2, <2>9 DEF RecordTypeOK
    <2>11. \A i \in DOMAIN archived : history'[i] \in Attempts
      <3>1. ASSUME NEW i \in DOMAIN archived
            PROVE  /\ archived[i] \in Attempts
                   /\ [archived[i] EXCEPT !.stops = (@ \ names) \cup (names \ stuck)] \in Attempts
        <4>1. archived[i] \in Attempts
          BY <2>10
        <4>2. names \cup archived[i].stops \subseteq Members
          BY <4>1 DEF Attempts
        <4>. QED
          BY <4>1, <4>2 DEF Attempts
      <3>. QED
        BY <2>9, <3>1
    <2>12. DOMAIN archived = 1 .. Len(archived) /\ Len(archived) \in Nat /\ DOMAIN history' = DOMAIN archived
      BY <2>9, <2>10
    <2>1. history' \in Seq(Attempts)
      BY <2>9, <2>10, <2>11, <2>12
    <2>2. draft' \in Attempts
      BY <1>12 DEF StopServices, RecordTypeOK
    <2>3. saved' \in Sessions
      BY <1>3, <1>4, <2>9 DEF RecordTypeOK
    <2>4. mine' \in Sessions
      BY <1>12 DEF StopServices, RecordTypeOK
    <2>5. alive' \in [Members -> Nat]
      BY <1>12 DEF StopServices, RecordTypeOK
    <2>6. command' \in Commanded
      BY <1>12 DEF StopServices, RecordTypeOK, Step, Ends, Commanded
    <2>7. fate' \in Seq(Fates)
      BY <1>12 DEF StopServices, RecordTypeOK
    <2>. QED
      BY <2>1, <2>2, <2>3, <2>4, <2>5, <2>6, <2>7 DEF RecordTypeOK
  <1>13. ASSUME NEW s \in Members, Spawn(s) PROVE RecordTypeOK'
    <2>9. draft' \in Attempts
      BY <1>9, <1>13 DEF Spawn, RecordTypeOK
    <2>10. history' \in {history, Put(history, draft')}
      BY <1>13, Writing DEF Spawn
    <2>11. mine' \in {mine, [mine EXCEPT !.processes[s] = command.id]}
      BY <1>13 DEF Spawn
    <2>12. alive' \in {alive, [alive EXCEPT ![s] = command.id]}
      BY <1>13 DEF Spawn
    <2>1. history' \in Seq(Attempts)
      BY <1>1, <2>9, <2>10 DEF RecordTypeOK
    <2>2. draft' \in Attempts
      BY <1>13 DEF Spawn, RecordTypeOK, Attempts
    <2>3. saved' \in Sessions
      BY <1>13 DEF Spawn, RecordTypeOK
    <2>4. mine' \in Sessions
      BY <1>7, <1>8, <2>11 DEF RecordTypeOK
    <2>5. alive' \in [Members -> Nat]
      BY <1>8, <2>12 DEF RecordTypeOK
    <2>6. command' \in Commanded
      BY <1>13 DEF Spawn, RecordTypeOK, Step, Ends, Commanded
    <2>7. fate' \in Seq(Fates)
      BY <1>13 DEF Spawn, RecordTypeOK
    <2>. QED
      BY <2>1, <2>2, <2>3, <2>4, <2>5, <2>6, <2>7 DEF RecordTypeOK
  <1>14. ASSUME NEW s \in Members, ProcessDies(s) PROVE RecordTypeOK'
    <2>1. history' \in Seq(Attempts)
      BY <1>14 DEF ProcessDies, RecordTypeOK
    <2>2. draft' \in Attempts
      BY <1>14 DEF ProcessDies, RecordTypeOK
    <2>3. saved' \in Sessions
      BY <1>14 DEF ProcessDies, RecordTypeOK
    <2>4. mine' \in Sessions
      BY <1>14 DEF ProcessDies, RecordTypeOK
    <2>5. alive' \in [Members -> Nat]
      BY <1>14 DEF ProcessDies, RecordTypeOK
    <2>6. command' \in Commanded
      BY <1>14 DEF ProcessDies, RecordTypeOK, Step, Ends, Commanded
    <2>7. fate' \in Seq(Fates)
      BY <1>14 DEF ProcessDies, RecordTypeOK
    <2>. QED
      BY <2>1, <2>2, <2>3, <2>4, <2>5, <2>6, <2>7 DEF RecordTypeOK
  <1>15. CASE EarlyFailure
    <2>1. history' \in Seq(Attempts)
      BY <1>10, <1>15 DEF EarlyFailure
    <2>2. draft' \in Attempts
      BY <1>10, <1>15 DEF EarlyFailure
    <2>3. saved' \in Sessions
      BY <1>15 DEF EarlyFailure, RecordTypeOK
    <2>4. mine' \in Sessions
      BY <1>15 DEF EarlyFailure, RecordTypeOK
    <2>5. alive' \in [Members -> Nat]
      BY <1>15 DEF EarlyFailure, RecordTypeOK
    <2>6. command' \in Commanded
      BY <1>5, <1>10, <1>15 DEF EarlyFailure
    <2>7. fate' \in Seq(Fates)
      BY <1>10, <1>15 DEF EarlyFailure
    <2>. QED
      BY <2>1, <2>2, <2>3, <2>4, <2>5, <2>6, <2>7 DEF RecordTypeOK
  <1>16. CASE Transition
    <2>9. PICK stuck \in SUBSET Members :
            /\ alive' = [s \in Members |-> IF saved.processes[s] # 0 /\ s \notin stuck THEN 0
                                           ELSE alive[s]]
            /\ mine' = saved'
            /\ \/ saved' = [Without(saved, Members \ stuck) EXCEPT !.attempt = saved.attempt]
               \/ saved' = [attempt |-> command.id, processes |-> NoProcess]
      BY <1>16 DEF Transition
    <2>10. saved' \in Sessions
      BY <1>3, <1>7, <1>8, <2>9, ZenonT(60) DEF RecordTypeOK, NoProcess, Sessions
    <2>1. history' \in Seq(Attempts)
      BY <1>2, <1>10, <1>16, Writing DEF Transition, RecordTypeOK
    <2>2. draft' \in Attempts
      BY <1>10, <1>16 DEF Transition, RecordTypeOK, Attempts
    <2>3. saved' \in Sessions
      BY <2>10
    <2>4. mine' \in Sessions
      BY <2>9, <2>10
    <2>5. alive' \in [Members -> Nat]
      BY <1>16 DEF Transition, RecordTypeOK
    <2>6. command' \in Commanded
      BY <1>5, <1>10, <1>16 DEF Transition, RecordTypeOK, Step, Ends, Commanded
    <2>7. fate' \in Seq(Fates)
      BY <1>10, <1>16 DEF Transition, RecordTypeOK, Fates, Ends
    <2>. QED
      BY <2>1, <2>2, <2>3, <2>4, <2>5, <2>6, <2>7 DEF RecordTypeOK
  <1>17. CASE StopTargets
    <2> DEFINE failed == [draft EXCEPT !.stage = "failed"]
               over   == [failed EXCEPT !.status = "failed"]
               h      == Archived(history, saved, command.targets)
    <2>9. failed \in Attempts /\ over \in Attempts /\ h \in Seq(Attempts)
      BY <1>2, <1>8, <1>9 DEF RecordTypeOK
    <2>10. /\ history' \in {h, Put(h, failed), Put(h, over)}
           /\ draft' \in {draft, over}
           /\ UNCHANGED fate \/ Ends("failed") \/ Ends("unwritten")
      BY <1>17 DEF StopTargets
    <2>11. \E stopped \in SUBSET command.targets :
             alive' = [s \in Members |-> IF s \in stopped THEN 0 ELSE alive[s]]
      BY <1>17 DEF StopTargets
    <2> HIDE DEF failed, over, h
    <2>1. history' \in Seq(Attempts)
      <3>1. \A a \in Attempts : Put(h, a) \in Seq(Attempts)
        BY <2>9, PutEntries
      <3>. QED
        BY <2>9, <2>10, <3>1
    <2>2. draft' \in Attempts
      BY <2>9, <2>10 DEF RecordTypeOK
    <2>3. saved' \in Sessions
      BY <1>17 DEF StopTargets, RecordTypeOK
    <2>4. mine' \in Sessions
      BY <1>17 DEF StopTargets, RecordTypeOK
    <2>5. alive' \in [Members -> Nat]
      BY <2>11 DEF RecordTypeOK
    <2>6. command' \in Commanded
      BY <1>5, <1>17 DEF StopTargets, RecordTypeOK, Step, Ends, Commanded
    <2>7. fate' \in Seq(Fates)
      BY <1>6, <1>8, <2>10 DEF Ends, Fates, RecordTypeOK
    <2>. QED
      BY <2>1, <2>2, <2>3, <2>4, <2>5, <2>6, <2>7 DEF RecordTypeOK
  <1>18. CASE SaveSpawned
    <2>9. draft' \in Attempts
      <3>1. draft' = draft \/ \E x \in {"completed", draft.stage} : draft' = [draft EXCEPT !.stage = x]
        BY <1>18 DEF SaveSpawned
      <3>2. draft.stage \in {"started", "failed", "completed"}
        BY DEF RecordTypeOK, Attempts
      <3>. QED
        BY <1>9, <3>1, <3>2 DEF RecordTypeOK
    <2>10. history' \in {history, Put(history, draft')}
      BY <1>18, Writing DEF SaveSpawned
    <2>1. history' \in Seq(Attempts)
      BY <1>1, <2>9, <2>10 DEF RecordTypeOK
    <2>2. draft' \in Attempts
      BY <1>18 DEF SaveSpawned, RecordTypeOK, Attempts
    <2>3. saved' \in Sessions
      BY <1>18 DEF SaveSpawned, RecordTypeOK
    <2>4. mine' \in Sessions
      BY <1>18 DEF SaveSpawned, RecordTypeOK
    <2>5. alive' \in [Members -> Nat]
      BY <1>18 DEF SaveSpawned, RecordTypeOK
    <2>6. command' \in Commanded
      BY <1>18 DEF SaveSpawned, RecordTypeOK, Step, Ends, Commanded
    <2>7. fate' \in Seq(Fates)
      BY <1>18 DEF SaveSpawned, RecordTypeOK
    <2>. QED
      BY <2>1, <2>2, <2>3, <2>4, <2>5, <2>6, <2>7 DEF RecordTypeOK
  <1>19. CASE VerifyFails
    <2>1. history' \in Seq(Attempts)
      BY <1>19 DEF VerifyFails, RecordTypeOK
    <2>2. draft' \in Attempts
      BY <1>19 DEF VerifyFails, RecordTypeOK, Attempts
    <2>3. saved' \in Sessions
      BY <1>19 DEF VerifyFails, RecordTypeOK
    <2>4. mine' \in Sessions
      BY <1>19 DEF VerifyFails, RecordTypeOK
    <2>5. alive' \in [Members -> Nat]
      BY <1>19 DEF VerifyFails, RecordTypeOK
    <2>6. command' \in Commanded
      BY <1>19 DEF VerifyFails, RecordTypeOK, Step, Ends, Commanded
    <2>7. fate' \in Seq(Fates)
      BY <1>19 DEF VerifyFails, RecordTypeOK
    <2>. QED
      BY <2>1, <2>2, <2>3, <2>4, <2>5, <2>6, <2>7 DEF RecordTypeOK
  <1>20. CASE Succeed
    <2> DEFINE captured == [draft EXCEPT !.stage = "completed", !.logs = In(mine)]
               over     == [captured EXCEPT !.status = "succeeded"]
    <2>9. captured \in Attempts /\ over \in Attempts
      BY <1>3, <1>8, <1>9 DEF RecordTypeOK
    <2>10. /\ draft' \in {captured, over}
           /\ history' \in {history, Put(history, captured), Put(history, over)}
           /\ UNCHANGED fate \/ Ends("succeeded")
      <3>1. \/ draft' = over /\ history' = Written(<<captured, over>>) /\ Ends("succeeded")
            \/ /\ \E w \in {<<captured, history>>, <<over, Put(history, captured)>>} :
                     draft' = w[1] /\ history' = w[2]
               /\ UNCHANGED fate
        BY <1>20 DEF Succeed
      <3>2. Written(<<captured, over>>) = Put(history, over)
        BY Writing
      <3>3. ASSUME NEW w \in {<<captured, history>>, <<over, Put(history, captured)>>},
                   draft' = w[1], history' = w[2]
            PROVE  draft' \in {captured, over} /\ history' \in {history, Put(history, captured)}
        BY <3>3
      <3> HIDE DEF captured, over
      <3>. QED
        BY <3>1, <3>2, <3>3
    <2> HIDE DEF captured, over
    <2>1. history' \in Seq(Attempts)
      BY <1>1, <2>9, <2>10 DEF RecordTypeOK
    <2>2. draft' \in Attempts
      BY <2>9, <2>10
    <2>3. saved' \in Sessions
      BY <1>20 DEF Succeed, RecordTypeOK
    <2>4. mine' \in Sessions
      BY <1>20 DEF Succeed, RecordTypeOK
    <2>5. alive' \in [Members -> Nat]
      BY <1>20 DEF Succeed, RecordTypeOK
    <2>6. command' \in Commanded
      BY <1>5, <1>20 DEF Succeed, RecordTypeOK, Step, Ends, Commanded
    <2>7. fate' \in Seq(Fates)
      BY <1>6, <1>8, <2>10 DEF Ends, Fates, RecordTypeOK
    <2>. QED
      BY <2>1, <2>2, <2>3, <2>4, <2>5, <2>6, <2>7 DEF RecordTypeOK
  <1>21. CASE SucceedRestart
    <2> DEFINE captured == [draft EXCEPT !.stage = "completed", !.logs = command.targets]
               over     == [captured EXCEPT !.status = "succeeded"]
    <2>9. captured \in Attempts /\ over \in Attempts
      BY <1>3, <1>8, <1>9 DEF RecordTypeOK
    <2>10. /\ draft' \in {captured, over}
           /\ history' \in {history, Put(history, captured), Put(history, over)}
           /\ UNCHANGED fate \/ Ends("succeeded")
      <3>1. \/ draft' = over /\ history' = Written(<<captured, over>>) /\ Ends("succeeded")
            \/ /\ \E w \in {<<captured, history>>, <<over, Put(history, captured)>>} :
                     draft' = w[1] /\ history' = w[2]
               /\ UNCHANGED fate
        BY <1>21 DEF SucceedRestart
      <3>2. Written(<<captured, over>>) = Put(history, over)
        BY Writing
      <3>3. ASSUME NEW w \in {<<captured, history>>, <<over, Put(history, captured)>>},
                   draft' = w[1], history' = w[2]
            PROVE  draft' \in {captured, over} /\ history' \in {history, Put(history, captured)}
        BY <3>3
      <3> HIDE DEF captured, over
      <3>. QED
        BY <3>1, <3>2, <3>3
    <2> HIDE DEF captured, over
    <2>1. history' \in Seq(Attempts)
      BY <1>1, <2>9, <2>10 DEF RecordTypeOK
    <2>2. draft' \in Attempts
      BY <2>9, <2>10
    <2>3. saved' \in Sessions
      BY <1>7, <1>8, <1>21 DEF SucceedRestart, RecordTypeOK
    <2>4. mine' \in Sessions
      BY <1>7, <1>8, <1>21 DEF SucceedRestart, RecordTypeOK
    <2>5. alive' \in [Members -> Nat]
      BY <1>21 DEF SucceedRestart, RecordTypeOK
    <2>6. command' \in Commanded
      BY <1>5, <1>21 DEF SucceedRestart, RecordTypeOK, Step, Ends, Commanded
    <2>7. fate' \in Seq(Fates)
      BY <1>6, <1>8, <2>10 DEF Ends, Fates, RecordTypeOK
    <2>. QED
      BY <2>1, <2>2, <2>3, <2>4, <2>5, <2>6, <2>7 DEF RecordTypeOK
  <1>22. CASE Failing
    <2> DEFINE failed  == [draft EXCEPT !.stage = "failed", !.logs = In(mine)]
               cleanup == [failed EXCEPT !.stage = "started"]
    <2>9. failed \in Attempts /\ cleanup \in Attempts
      BY <1>3, <1>9 DEF RecordTypeOK
    <2>10. draft' = cleanup /\ history' \in {history, Put(history, failed), Put(history, cleanup)}
      BY <1>22, Writing DEF Failing
    <2> HIDE DEF failed, cleanup
    <2>1. history' \in Seq(Attempts)
      BY <1>1, <2>9, <2>10 DEF RecordTypeOK
    <2>2. draft' \in Attempts
      BY <2>9, <2>10
    <2>3. saved' \in Sessions
      BY <1>22 DEF Failing, RecordTypeOK
    <2>4. mine' \in Sessions
      BY <1>22 DEF Failing, RecordTypeOK
    <2>5. alive' \in [Members -> Nat]
      BY <1>22 DEF Failing, RecordTypeOK
    <2>6. command' \in Commanded
      BY <1>22 DEF Failing, RecordTypeOK, Step, Ends, Commanded
    <2>7. fate' \in Seq(Fates)
      BY <1>22 DEF Failing, RecordTypeOK
    <2>. QED
      BY <2>1, <2>2, <2>3, <2>4, <2>5, <2>6, <2>7 DEF RecordTypeOK
  <1>23. CASE Cleanup
    <2>9. PICK stuck \in SUBSET In(mine), stored \in BOOLEAN :
            /\ mine' = Without(mine, Members \ stuck)
            /\ saved' = IF ~stored THEN saved ELSE IF stuck = {} THEN NoSession ELSE mine'
            /\ draft' = [draft EXCEPT !.stage = IF stuck = {} /\ stored THEN "completed" ELSE "failed",
                                      !.status = "failed", !.started = In(mine),
                                      !.rolledBack = In(mine) \ stuck, !.remaining = stuck,
                                      !.cleanup = IF stuck = {} /\ stored THEN "completed"
                                                  ELSE "incomplete"]
      BY <1>23 DEF Cleanup
    <2>10. In(mine) \subseteq Members /\ mine' \in Sessions
      BY <1>3, <2>9 DEF RecordTypeOK
    <2>1. history' \in Seq(Attempts)
      BY <1>23 DEF Cleanup, RecordTypeOK
    <2>2. draft' \in Attempts
      BY <2>9, <2>10 DEF RecordTypeOK, Attempts
    <2>3. saved' \in Sessions
      BY <1>4, <2>9, <2>10 DEF RecordTypeOK
    <2>4. mine' \in Sessions
      BY <2>10
    <2>5. alive' \in [Members -> Nat]
      BY <1>23 DEF Cleanup, RecordTypeOK
    <2>6. command' \in Commanded
      BY <1>23 DEF Cleanup, RecordTypeOK, Step, Ends, Commanded
    <2>7. fate' \in Seq(Fates)
      BY <1>23 DEF Cleanup, RecordTypeOK
    <2>. QED
      BY <2>1, <2>2, <2>3, <2>4, <2>5, <2>6, <2>7 DEF RecordTypeOK
  <1>24. CASE Close
    <2>1. history' \in Seq(Attempts)
      BY <1>1, <1>24, Writing DEF Close, RecordTypeOK
    <2>2. draft' \in Attempts
      BY <1>24 DEF Close, RecordTypeOK
    <2>3. saved' \in Sessions
      BY <1>24 DEF Close, RecordTypeOK
    <2>4. mine' \in Sessions
      BY <1>24 DEF Close, RecordTypeOK
    <2>5. alive' \in [Members -> Nat]
      BY <1>24 DEF Close, RecordTypeOK
    <2>6. command' \in Commanded
      BY <1>5, <1>24 DEF Close, RecordTypeOK, Step, Ends, Commanded
    <2>7. fate' \in Seq(Fates)
      BY <1>6, <1>8, <1>24 DEF Close, Ends, Fates
    <2>. QED
      BY <2>1, <2>2, <2>3, <2>4, <2>5, <2>6, <2>7 DEF RecordTypeOK
  <1>25. CASE RestartFails
    <2>9. PICK stuck \in SUBSET command.targets, stored \in BOOLEAN :
            LET late == mine.attempt = command.id
                back == IF late THEN Without(mine, command.targets \ stuck)
                        ELSE [mine EXCEPT !.processes =
                                [s \in Members |-> IF s \in command.targets \ stuck
                                                   THEN command.old.processes[s] ELSE @[s]]]
            IN  /\ mine' = [back EXCEPT !.attempt = command.old.attempt]
                /\ saved' = IF ~stored THEN saved ELSE IF In(mine') = {} THEN NoSession ELSE mine'
      BY <1>25, ZenonT(60) DEF RestartFails
    <2>10. mine' \in Sessions
      <3>1. [s \in Members |-> IF s \in command.targets \ stuck
                                THEN command.old.processes[s] ELSE mine.processes[s]]
              \in [Members -> Nat]
        BY <1>7, <1>8 DEF RecordTypeOK
      <3>2. Without(mine, command.targets \ stuck) \in Sessions
        BY <1>3, <1>8 DEF RecordTypeOK
      <3>. QED
        BY <1>7, <1>8, <2>9, <3>1, <3>2 DEF RecordTypeOK
    <2>1. history' \in Seq(Attempts)
      BY <1>10, <1>25 DEF RestartFails
    <2>2. draft' \in Attempts
      BY <1>10, <1>25 DEF RestartFails
    <2>3. saved' \in Sessions
      BY <1>4, <2>9, <2>10 DEF RecordTypeOK
    <2>4. mine' \in Sessions
      BY <2>10
    <2>5. alive' \in [Members -> Nat]
      BY <1>25 DEF RestartFails, RecordTypeOK
    <2>6. command' \in Commanded
      BY <1>5, <1>10, <1>25 DEF RestartFails
    <2>7. fate' \in Seq(Fates)
      BY <1>10, <1>25 DEF RestartFails
    <2>. QED
      BY <2>1, <2>2, <2>3, <2>4, <2>5, <2>6, <2>7 DEF RecordTypeOK
  <1>26. CASE CommandDies
    <2>1. history' \in Seq(Attempts)
      BY <1>26 DEF CommandDies, RecordTypeOK
    <2>2. draft' \in Attempts
      BY <1>26 DEF CommandDies, RecordTypeOK
    <2>3. saved' \in Sessions
      BY <1>26 DEF CommandDies, RecordTypeOK
    <2>4. mine' \in Sessions
      BY <1>26 DEF CommandDies, RecordTypeOK
    <2>5. alive' \in [Members -> Nat]
      BY <1>26 DEF CommandDies, RecordTypeOK
    <2>6. command' \in Commanded
      BY <1>5, <1>26 DEF CommandDies, RecordTypeOK, Step, Ends, Commanded
    <2>7. fate' \in Seq(Fates)
      BY <1>6, <1>8, <1>26 DEF CommandDies, Ends, Fates
    <2>. QED
      BY <2>1, <2>2, <2>3, <2>4, <2>5, <2>6, <2>7 DEF RecordTypeOK
  <1>27. CASE UNCHANGED recordVars
    BY <1>27 DEF recordVars, RecordTypeOK
  <1>. QED
    BY <1>11, <1>12, <1>13, <1>14, <1>15, <1>16, <1>17, <1>18, <1>19, <1>20, <1>21, <1>22, <1>23,
       <1>24, <1>25, <1>26, <1>27 DEF RecordNext

(* What a step may do to processes and to the ends of attempts: only the       *)
(* command, while it starts, makes a process, and it is of its own attempt;    *)
(* and it ends no other.                                                       *)
ProcessesOnlyDie ==
  \A m \in Members : \/ alive'[m] \in {0, alive[m]}
                     \/ command.pc = "starting" /\ alive'[m] = command.id

EndsOnlyItsOwn ==
  /\ Len(fate') \in {Len(fate), Len(fate) + 1}
  /\ \A i \in 1 .. Len(fate) : i # command.id => fate'[i] = fate[i]

CommandFollows ==
  \/ command' = NoCommand
  \/ command'.id = command.id
  \/ command.pc = "idle" /\ command'.id = Len(fate) + 1

(* ProcessesOnlyDie holds of every action. *)
LEMMA ProcessesDie ==
  ASSUME RecordInv, [RecordNext]_recordVars
  PROVE  ProcessesOnlyDie
  <1>1. ASSUME NEW kind \in {"start", "restart"}, NEW targets \in SUBSET Members,
             BeginDiagnostics(kind, targets) PROVE ProcessesOnlyDie
    BY <1>1 DEF BeginDiagnostics, ProcessesOnlyDie, RecordInv, RecordTypeOK, Sessions
  <1>2. ASSUME NEW names \in SUBSET Members, StopServices(names) PROVE ProcessesOnlyDie
    BY <1>2 DEF StopServices, ProcessesOnlyDie, RecordInv, RecordTypeOK, Sessions
  <1>3. ASSUME NEW s \in Members, Spawn(s) PROVE ProcessesOnlyDie
    BY <1>3 DEF Spawn, ProcessesOnlyDie, RecordInv, RecordTypeOK, Sessions
  <1>4. ASSUME NEW s \in Members, ProcessDies(s) PROVE ProcessesOnlyDie
    BY <1>4 DEF ProcessDies, ProcessesOnlyDie, RecordInv, RecordTypeOK, Sessions
  <1>5. CASE EarlyFailure
    BY <1>5 DEF EarlyFailure, ProcessesOnlyDie, RecordInv, RecordTypeOK, Sessions
  <1>6. CASE Transition
    BY <1>6 DEF Transition, ProcessesOnlyDie, RecordInv, RecordTypeOK, Sessions
  <1>7. CASE StopTargets
    BY <1>7 DEF StopTargets, ProcessesOnlyDie, RecordInv, RecordTypeOK, Sessions
  <1>8. CASE SaveSpawned
    BY <1>8 DEF SaveSpawned, ProcessesOnlyDie, RecordInv, RecordTypeOK, Sessions
  <1>9. CASE VerifyFails
    BY <1>9 DEF VerifyFails, ProcessesOnlyDie, RecordInv, RecordTypeOK, Sessions
  <1>10. CASE Succeed
    BY <1>10 DEF Succeed, ProcessesOnlyDie, RecordInv, RecordTypeOK, Sessions
  <1>11. CASE SucceedRestart
    BY <1>11 DEF SucceedRestart, ProcessesOnlyDie, RecordInv, RecordTypeOK, Sessions
  <1>12. CASE Failing
    BY <1>12 DEF Failing, ProcessesOnlyDie, RecordInv, RecordTypeOK, Sessions
  <1>13. CASE Cleanup
    BY <1>13 DEF Cleanup, ProcessesOnlyDie, RecordInv, RecordTypeOK, Sessions
  <1>14. CASE Close
    BY <1>14 DEF Close, ProcessesOnlyDie, RecordInv, RecordTypeOK, Sessions
  <1>15. CASE RestartFails
    BY <1>15 DEF RestartFails, ProcessesOnlyDie, RecordInv, RecordTypeOK, Sessions
  <1>16. CASE CommandDies
    BY <1>16 DEF CommandDies, ProcessesOnlyDie, RecordInv, RecordTypeOK, Sessions
  <1>17. CASE UNCHANGED recordVars
    BY <1>17 DEF recordVars, ProcessesOnlyDie, RecordInv, RecordTypeOK, Sessions
  <1>. QED
    BY <1>1, <1>2, <1>3, <1>4, <1>5, <1>6, <1>7, <1>8, <1>9, <1>10, <1>11, <1>12, <1>13, <1>14,
       <1>15, <1>16, <1>17 DEF RecordNext

(* EndsOnlyItsOwn holds of every action. *)
LEMMA EndsOwn ==
  ASSUME RecordInv, [RecordNext]_recordVars
  PROVE  EndsOnlyItsOwn
  <1>1. ASSUME NEW how \in Fates, Ends(how)
        PROVE  /\ command' = NoCommand /\ Len(fate') = Len(fate)
               /\ \A i \in 1 .. Len(fate) : fate'[i] = IF i = command.id THEN how ELSE fate[i]
    BY <1>1 DEF Ends, RecordTypeOK
  <1>2. Deferred => command' = NoCommand /\ (Ends("failed") \/ Ends("unwritten"))
    BY DEF Deferred, Ends
  <1>3. {"failed", "unwritten", "killed", "succeeded"} \subseteq Fates
    BY DEF Fates
  <1>4. ASSUME NEW kind \in {"start", "restart"}, NEW targets \in SUBSET Members,
             BeginDiagnostics(kind, targets) PROVE EndsOnlyItsOwn
    BY <1>4 DEF BeginDiagnostics, EndsOnlyItsOwn
  <1>5. ASSUME NEW names \in SUBSET Members, StopServices(names) PROVE EndsOnlyItsOwn
    BY <1>5 DEF StopServices, EndsOnlyItsOwn
  <1>6. ASSUME NEW s \in Members, Spawn(s) PROVE EndsOnlyItsOwn
    BY <1>6 DEF Spawn, EndsOnlyItsOwn
  <1>7. ASSUME NEW s \in Members, ProcessDies(s) PROVE EndsOnlyItsOwn
    BY <1>7 DEF ProcessDies, EndsOnlyItsOwn
  <1>8. CASE EarlyFailure
    BY <1>1, <1>2, <1>3, <1>8 DEF EarlyFailure, EndsOnlyItsOwn
  <1>9. CASE Transition
    BY <1>1, <1>2, <1>3, <1>9 DEF Transition, EndsOnlyItsOwn
  <1>10. CASE StopTargets
    BY <1>1, <1>3, <1>10 DEF StopTargets, EndsOnlyItsOwn
  <1>11. CASE SaveSpawned
    BY <1>11 DEF SaveSpawned, EndsOnlyItsOwn
  <1>12. CASE VerifyFails
    BY <1>12 DEF VerifyFails, EndsOnlyItsOwn
  <1>13. CASE Succeed
    BY <1>1, <1>3, <1>13 DEF Succeed, EndsOnlyItsOwn
  <1>14. CASE SucceedRestart
    BY <1>1, <1>3, <1>14 DEF SucceedRestart, EndsOnlyItsOwn
  <1>15. CASE Failing
    BY <1>15 DEF Failing, EndsOnlyItsOwn
  <1>16. CASE Cleanup
    BY <1>16 DEF Cleanup, EndsOnlyItsOwn
  <1>17. CASE Close
    BY <1>1, <1>3, <1>17 DEF Close, EndsOnlyItsOwn
  <1>18. CASE RestartFails
    BY <1>1, <1>2, <1>3, <1>18 DEF RestartFails, EndsOnlyItsOwn
  <1>19. CASE CommandDies
    BY <1>1, <1>3, <1>19 DEF CommandDies, EndsOnlyItsOwn
  <1>20. CASE UNCHANGED recordVars
    BY <1>20 DEF recordVars, EndsOnlyItsOwn
  <1>. QED
    BY <1>4, <1>5, <1>6, <1>7, <1>8, <1>9, <1>10, <1>11, <1>12, <1>13, <1>14, <1>15, <1>16,
       <1>17, <1>18, <1>19, <1>20 DEF RecordNext

(* CommandFollows holds of every action. *)
LEMMA Follows ==
  ASSUME RecordInv, [RecordNext]_recordVars
  PROVE  CommandFollows
  <1>1. ASSUME NEW how \in Fates, Ends(how)
        PROVE  /\ command' = NoCommand /\ Len(fate') = Len(fate)
               /\ \A i \in 1 .. Len(fate) : fate'[i] = IF i = command.id THEN how ELSE fate[i]
    BY <1>1 DEF Ends, RecordTypeOK
  <1>2. Deferred => command' = NoCommand /\ (Ends("failed") \/ Ends("unwritten"))
    BY DEF Deferred, Ends
  <1>3. {"failed", "unwritten", "killed", "succeeded"} \subseteq Fates
    BY DEF Fates
  <1>4. ASSUME NEW kind \in {"start", "restart"}, NEW targets \in SUBSET Members,
             BeginDiagnostics(kind, targets) PROVE CommandFollows
    BY <1>4 DEF BeginDiagnostics, CommandFollows
  <1>5. ASSUME NEW names \in SUBSET Members, StopServices(names) PROVE CommandFollows
    BY <1>5 DEF StopServices, CommandFollows
  <1>6. ASSUME NEW s \in Members, Spawn(s) PROVE CommandFollows
    BY <1>6 DEF Spawn, CommandFollows, Step, RecordInv, RecordTypeOK, Commanded
  <1>7. ASSUME NEW s \in Members, ProcessDies(s) PROVE CommandFollows
    BY <1>7 DEF ProcessDies, CommandFollows
  <1>8. CASE EarlyFailure
    BY <1>2, <1>8 DEF EarlyFailure, CommandFollows, Step, RecordInv, RecordTypeOK, Commanded
  <1>9. CASE Transition
    BY <1>2, <1>9 DEF Transition, CommandFollows, Step, RecordInv, RecordTypeOK, Commanded
  <1>10. CASE StopTargets
    BY <1>1, <1>3, <1>10 DEF StopTargets, CommandFollows, Step, RecordInv, RecordTypeOK, Commanded
  <1>11. CASE SaveSpawned
    BY <1>11 DEF SaveSpawned, CommandFollows, Step, RecordInv, RecordTypeOK, Commanded
  <1>12. CASE VerifyFails
    BY <1>12 DEF VerifyFails, CommandFollows, Step
  <1>13. CASE Succeed
    BY <1>1, <1>3, <1>13 DEF Succeed, CommandFollows, Step, RecordInv, RecordTypeOK, Commanded
  <1>14. CASE SucceedRestart
    BY <1>1, <1>3, <1>14
       DEF SucceedRestart, CommandFollows, Step, RecordInv, RecordTypeOK, Commanded
  <1>15. CASE Failing
    BY <1>15 DEF Failing, CommandFollows, Step
  <1>16. CASE Cleanup
    BY <1>16 DEF Cleanup, CommandFollows, Step
  <1>17. CASE Close
    BY <1>1, <1>3, <1>17 DEF Close, CommandFollows, Step, RecordInv, RecordTypeOK, Commanded
  <1>18. CASE RestartFails
    BY <1>2, <1>18 DEF RestartFails, CommandFollows, Step, RecordInv, RecordTypeOK, Commanded
  <1>19. CASE CommandDies
    BY <1>1, <1>3, <1>19 DEF CommandDies, CommandFollows, Step, RecordInv, RecordTypeOK, Commanded
  <1>20. CASE UNCHANGED recordVars
    BY <1>20 DEF recordVars, CommandFollows
  <1>. QED
    BY <1>4, <1>5, <1>6, <1>7, <1>8, <1>9, <1>10, <1>11, <1>12, <1>13, <1>14, <1>15, <1>16,
       <1>17, <1>18, <1>19, <1>20 DEF RecordNext

(* The draft of a success, and of a deferred failure, is the one before with   *)
(* another stage, status and logs; what is written is such a draft.            *)
LEMMA Success ==
  ASSUME RecordTypeOK, Succeed \/ SucceedRestart
  PROVE  /\ draft'.id = draft.id /\ draft'.cleanup = draft.cleanup
         /\ \/ Ends("succeeded") /\ history' = Put(history, draft') /\ draft'.status = "succeeded"
            \/ /\ Step("failing") /\ UNCHANGED fate
               /\ \/ UNCHANGED history
                  \/ \E c \in Attempts : /\ c.id = draft.id /\ c.cleanup = draft.cleanup
                                         /\ history' = Put(history, c)
  <1>1. \E l \in SUBSET Members :
          LET captured == [draft EXCEPT !.stage = "completed", !.logs = l]
              over     == [captured EXCEPT !.status = "succeeded"]
          IN  \/ draft' = over /\ history' = Written(<<captured, over>>) /\ Ends("succeeded")
              \/ /\ \E w \in {<<captured, history>>, <<over, Put(history, captured)>>} :
                       draft' = w[1] /\ history' = w[2]
                 /\ Step("failing")
                 /\ UNCHANGED fate
    <2>1. In(mine) \subseteq Members /\ command.targets \subseteq Members
      BY DEF In, RecordTypeOK, Commanded
    <2>2. CASE Succeed
      BY <2>1, <2>2 DEF Succeed
    <2>3. CASE SucceedRestart
      BY <2>1, <2>3 DEF SucceedRestart
    <2>. QED
      BY <2>2, <2>3
  <1>2. PICK l \in SUBSET Members :
          LET captured == [draft EXCEPT !.stage = "completed", !.logs = l]
              over     == [captured EXCEPT !.status = "succeeded"]
          IN  \/ draft' = over /\ history' = Written(<<captured, over>>) /\ Ends("succeeded")
              \/ /\ \E w \in {<<captured, history>>, <<over, Put(history, captured)>>} :
                       draft' = w[1] /\ history' = w[2]
                 /\ Step("failing")
                 /\ UNCHANGED fate
    BY <1>1
  <1> DEFINE captured == [draft EXCEPT !.stage = "completed", !.logs = l]
             over     == [captured EXCEPT !.status = "succeeded"]
  <1>3. /\ captured \in Attempts /\ captured.id = draft.id /\ captured.cleanup = draft.cleanup
        /\ over.id = draft.id /\ over.cleanup = draft.cleanup /\ over.status = "succeeded"
    BY DEF RecordTypeOK, Attempts
  <1>4. CASE draft' = over /\ history' = Written(<<captured, over>>) /\ Ends("succeeded")
    <2>1. history' = Put(history, over)
      BY <1>4, Writing
    <2>. QED
      BY <1>3, <1>4, <2>1
  <1>5. ASSUME NEW w \in {<<captured, history>>, <<over, Put(history, captured)>>},
               draft' = w[1], history' = w[2], Step("failing"), UNCHANGED fate
        PROVE  /\ draft'.id = draft.id /\ draft'.cleanup = draft.cleanup
               /\ UNCHANGED history \/ history' = Put(history, captured)
    <2>1. /\ draft' = captured \/ draft' = over
          /\ UNCHANGED history \/ history' = Put(history, captured)
      BY <1>5
    <2>. QED
      BY <1>3, <2>1
  <1> HIDE DEF captured, over
  <1>6. CASE /\ \E w \in {<<captured, history>>, <<over, Put(history, captured)>>} :
                  draft' = w[1] /\ history' = w[2]
             /\ Step("failing") /\ UNCHANGED fate
    BY <1>3, <1>5, <1>6
  <1>. QED
    BY <1>2, <1>4, <1>6 DEF captured, over

LEMMA DeferredDraft ==
  ASSUME RecordTypeOK, Deferred
  PROVE  /\ draft'.id = draft.id /\ draft'.cleanup = draft.cleanup
         /\ \/ Ends("failed") /\ history' = Put(history, draft') /\ draft'.status = "failed"
            \/ /\ Ends("unwritten")
               /\ \/ UNCHANGED history
                  \/ \E c \in Attempts : /\ c.id = draft.id /\ c.cleanup = draft.cleanup
                                         /\ history' = Put(history, c)
  <1> DEFINE failed == [draft EXCEPT !.stage = "failed"]
             over   == [failed EXCEPT !.status = "failed"]
  <1>1. /\ failed \in Attempts /\ failed.id = draft.id /\ failed.cleanup = draft.cleanup
        /\ over.id = draft.id /\ over.cleanup = draft.cleanup /\ over.status = "failed"
    BY DEF RecordTypeOK, Attempts
  <1>2. /\ draft' = over
        /\ \/ history' = Put(history, over) /\ Ends("failed")
           \/ history' \in {history, Put(history, failed)} /\ Ends("unwritten")
    BY Writing DEF Deferred
  <1> HIDE DEF failed, over
  <1>. QED
    BY <1>1, <1>2

(* Every action keeps LastAttempt. *)
LEMMA LastAttemptStep ==
  ASSUME RecordInv, [RecordNext]_recordVars
  PROVE  LastAttempt'
  <1>1. ASSUME NEW how \in Fates, Ends(how)
        PROVE  /\ command' = NoCommand /\ Len(fate') = Len(fate)
               /\ \A i \in 1 .. Len(fate) : fate'[i] = IF i = command.id THEN how ELSE fate[i]
    BY <1>1 DEF Ends, RecordTypeOK
  <1>2. Deferred => command' = NoCommand /\ (Ends("failed") \/ Ends("unwritten"))
    BY DEF Deferred, Ends
  <1>3. {"failed", "unwritten", "killed", "succeeded"} \subseteq Fates
    BY DEF Fates
  <1>4. RecordTypeOK'
    BY RecordTypeStep DEF RecordInv
  <1>5. NoCommand.pc = "idle" /\ NoCommand.id = 0
    BY DEF NoCommand
  <1>6. ASSUME NEW kind \in {"start", "restart"}, NEW targets \in SUBSET Members,
             BeginDiagnostics(kind, targets) PROVE LastAttempt'
    BY <1>6
       DEF BeginDiagnostics, LastAttempt, Step, NewAttempt, RecordInv, RecordTypeOK, Commanded,
           Attempts
  <1>7. ASSUME NEW names \in SUBSET Members, StopServices(names) PROVE LastAttempt'
    BY <1>7
       DEF StopServices, LastAttempt, Step, NewAttempt, RecordInv, RecordTypeOK, Commanded,
           Attempts
  <1>8. ASSUME NEW s \in Members, Spawn(s) PROVE LastAttempt'
    BY <1>8 DEF Spawn, LastAttempt, Step, NewAttempt, RecordInv, RecordTypeOK, Commanded, Attempts
  <1>9. ASSUME NEW s \in Members, ProcessDies(s) PROVE LastAttempt'
    BY <1>9
       DEF ProcessDies, LastAttempt, Step, NewAttempt, RecordInv, RecordTypeOK, Commanded,
           Attempts
  <1>10. CASE EarlyFailure
    BY <1>2, <1>5, <1>10
       DEF EarlyFailure, LastAttempt, Step, NewAttempt, RecordInv, RecordTypeOK, Commanded,
           Attempts
  <1>11. CASE Transition
    BY <1>1, <1>2, <1>5, <1>11
       DEF Transition, LastAttempt, Step, NewAttempt, RecordInv, RecordTypeOK, Commanded,
           Attempts
  <1>12. CASE StopTargets
    BY <1>1, <1>3, <1>5, <1>12
       DEF StopTargets, LastAttempt, Step, NewAttempt, RecordInv, RecordTypeOK, Commanded,
           Attempts
  <1>13. CASE SaveSpawned
    BY <1>1, <1>4, <1>13
       DEF SaveSpawned, LastAttempt, Step, NewAttempt, RecordInv, RecordTypeOK, Commanded,
           Attempts
  <1>14. CASE VerifyFails
    BY <1>14
       DEF VerifyFails, LastAttempt, Step, NewAttempt, RecordInv, RecordTypeOK, Commanded,
           Attempts
  <1>15. CASE Succeed
    <2>1. /\ draft'.id = draft.id
          /\ Ends("succeeded") \/ (Step("failing") /\ UNCHANGED fate)
      BY <1>15, Success DEF RecordInv
    <2>2. command.pc = "starting"
      BY <1>15 DEF Succeed, SucceedRestart
    <2>. QED
      BY <1>1, <1>3, <1>5, <2>1, <2>2 DEF LastAttempt, Step, RecordInv, RecordTypeOK, Commanded
  <1>16. CASE SucceedRestart
    <2>1. /\ draft'.id = draft.id
          /\ Ends("succeeded") \/ (Step("failing") /\ UNCHANGED fate)
      BY <1>16, Success DEF RecordInv
    <2>2. command.pc = "starting"
      BY <1>16 DEF Succeed, SucceedRestart
    <2>. QED
      BY <1>1, <1>3, <1>5, <2>1, <2>2 DEF LastAttempt, Step, RecordInv, RecordTypeOK, Commanded
  <1>17. CASE Failing
    BY <1>17
       DEF Failing, LastAttempt, Step, NewAttempt, RecordInv, RecordTypeOK, Commanded, Attempts
  <1>18. CASE Cleanup
    <2>1. PICK stuck \in SUBSET {m \in In(mine) : alive[m] = mine.processes[m]}, stored \in BOOLEAN :
            /\ alive' = [m \in Members |-> IF m \in In(mine) \ stuck THEN 0 ELSE alive[m]]
            /\ draft' = [draft EXCEPT !.stage = IF stuck = {} /\ stored THEN "completed" ELSE "failed",
                                      !.status = "failed", !.started = In(mine),
                                      !.rolledBack = In(mine) \ stuck, !.remaining = stuck,
                                      !.cleanup = IF stuck = {} /\ stored THEN "completed"
                                                  ELSE "incomplete"]
      BY <1>18 DEF Cleanup
    <2>2. /\ draft'.id = draft.id /\ draft'.status = "failed" /\ draft'.started = In(mine)
          /\ draft'.rolledBack = In(mine) \ stuck /\ draft'.remaining = stuck
          /\ draft'.cleanup = "completed" => stuck = {}
      BY <2>1 DEF RecordInv, RecordTypeOK, Attempts
    <2>3. /\ command.kind = "start" /\ command.pc = "cleanup" /\ UNCHANGED fate
          /\ command'.pc = "closing" /\ command'.id = command.id
      BY <1>18 DEF Cleanup, Step, RecordInv, RecordTypeOK, Commanded
    <2>. QED
      BY <2>2, <2>3 DEF LastAttempt, RecordInv
  <1>19. CASE Close
    BY <1>1, <1>3, <1>5, <1>19
       DEF Close, LastAttempt, Step, NewAttempt, RecordInv, RecordTypeOK, Commanded, Attempts
  <1>20. CASE RestartFails
    BY <1>2, <1>5, <1>20
       DEF RestartFails, LastAttempt, Step, NewAttempt, RecordInv, RecordTypeOK, Commanded,
           Attempts
  <1>21. CASE CommandDies
    BY <1>1, <1>3, <1>5, <1>21
       DEF CommandDies, LastAttempt, Step, NewAttempt, RecordInv, RecordTypeOK, Commanded,
           Attempts
  <1>22. CASE UNCHANGED recordVars
    BY <1>22
       DEF recordVars, LastAttempt, Step, NewAttempt, RecordInv, RecordTypeOK, Commanded,
           Attempts
  <1>. QED
    BY <1>6, <1>7, <1>8, <1>9, <1>10, <1>11, <1>12, <1>13, <1>14, <1>15, <1>16, <1>17, <1>18,
       <1>19, <1>20, <1>21, <1>22 DEF RecordNext

(* Every action keeps ProcessesKnown. *)
LEMMA ProcessesKnownStep ==
  ASSUME RecordInv, [RecordNext]_recordVars
  PROVE  ProcessesKnown'
  <1>1. ASSUME NEW how \in Fates, Ends(how)
        PROVE  /\ command' = NoCommand /\ Len(fate') = Len(fate)
               /\ \A i \in 1 .. Len(fate) : fate'[i] = IF i = command.id THEN how ELSE fate[i]
    BY <1>1 DEF Ends, RecordTypeOK
  <1>2. Deferred => command' = NoCommand /\ (Ends("failed") \/ Ends("unwritten"))
    BY DEF Deferred, Ends
  <1>3. {"failed", "unwritten", "killed", "succeeded"} \subseteq Fates
    BY DEF Fates
  <1>4. RecordTypeOK'
    BY RecordTypeStep DEF RecordInv
  <1>5. NoCommand.pc = "idle" /\ NoCommand.id = 0
    BY DEF NoCommand
  <1>6. \A m \in Members : alive'[m] <= Len(fate')
    <2>1. /\ Len(fate) \in Nat /\ \A m \in Members : alive[m] \in Nat /\ alive[m] <= Len(fate)
          /\ Len(fate') \in {Len(fate), Len(fate) + 1}
          /\ command.pc = "starting" => command.id = Len(fate)
      BY EndsOwn DEF EndsOnlyItsOwn, RecordInv, RecordTypeOK, ProcessesKnown, LastAttempt
    <2>. QED
      BY <2>1, ProcessesDie DEF ProcessesOnlyDie
  <1>7. \A m \in Members : command.pc # "starting" => alive'[m] \in {0, alive[m]}
    BY ProcessesDie DEF ProcessesOnlyDie
  <1>8. \A m \in Members : alive[m] \in Nat /\ mine.processes[m] \in Nat
    BY DEF RecordInv, RecordTypeOK, Sessions
  <1>9. ASSUME NEW kind \in {"start", "restart"}, NEW targets \in SUBSET Members,
             BeginDiagnostics(kind, targets) PROVE ProcessesKnown'
    BY <1>9
       DEF BeginDiagnostics, ProcessesKnown, LastAttempt, Step, NewAttempt, RecordInv,
           RecordTypeOK, Commanded, Sessions, Fates
  <1>10. ASSUME NEW names \in SUBSET Members, StopServices(names) PROVE ProcessesKnown'
    BY <1>8, <1>10
       DEF StopServices, ProcessesKnown, LastAttempt, Step, NewAttempt, RecordInv, RecordTypeOK,
           Commanded, Sessions, Fates
  <1>11. ASSUME NEW s \in Members, Spawn(s) PROVE ProcessesKnown'
    <2>1. /\ command.pc = "starting"
          /\ UNCHANGED fate /\ (Step("spawned") \/ Step("failing"))
          /\ \/ UNCHANGED <<alive, mine>>
             \/ /\ alive' = [alive EXCEPT ![s] = command.id]
                /\ mine' = [mine EXCEPT !.processes[s] = command.id]
      BY <1>11 DEF Spawn
    <2>2. CASE UNCHANGED <<alive, mine>>
      BY <2>1, <2>2 DEF ProcessesKnown, Step, RecordInv, RecordTypeOK, Commanded
    <2>3. CASE /\ alive' = [alive EXCEPT ![s] = command.id]
               /\ mine' = [mine EXCEPT !.processes[s] = command.id]
      <3>1. \A m \in Members : /\ alive'[m] = IF m = s THEN command.id ELSE alive[m]
                               /\ mine'.processes[m] = IF m = s THEN command.id
                                                       ELSE mine.processes[m]
        BY <2>3 DEF RecordInv, RecordTypeOK, Sessions
      <3>2. /\ command'.pc \in {"spawned", "failing"} /\ command'.kind = command.kind
            /\ command'.id = command.id
        BY <2>1 DEF Step, RecordInv, RecordTypeOK, Commanded
      <3>. QED
        BY <1>6, <2>1, <3>1, <3>2 DEF ProcessesKnown, RecordInv
    <2>. QED
      BY <2>1, <2>2, <2>3
  <1>12. ASSUME NEW s \in Members, ProcessDies(s) PROVE ProcessesKnown'
    BY <1>12
       DEF ProcessDies, ProcessesKnown, LastAttempt, Step, NewAttempt, RecordInv, RecordTypeOK,
           Commanded, Sessions, Fates
  <1>13. CASE EarlyFailure
    BY <1>2, <1>5, <1>6, <1>7, <1>8, <1>13
       DEF EarlyFailure, ProcessesKnown, LastAttempt, Step, NewAttempt, RecordInv, RecordTypeOK,
           Commanded, Sessions, Fates
  <1>14. CASE Transition
    <2>1. \A m \in Members : alive'[m] \in {0, alive[m]}
      BY <1>7, <1>14 DEF Transition
    <2>2. command.pc = "early" /\ command.id = Len(fate) /\ Len(fate) > 0 /\ Len(fate) \in Nat
      BY <1>14 DEF Transition, LastAttempt, RecordInv, RecordTypeOK
    <2>3. command' = NoCommand \/ (command'.id = command.id /\ command'.pc = "starting")
      BY <1>2, <1>14 DEF Transition, Step, RecordInv, RecordTypeOK, Commanded
    <2>4. \A m \in Members : alive'[m] # command.id
      BY <2>1, <2>2 DEF ProcessesKnown, RecordInv
    <2>. QED
      BY <1>5, <1>6, <2>3, <2>4 DEF ProcessesKnown
  <1>15. CASE StopTargets
    BY <1>1, <1>5, <1>6, <1>7, <1>8, <1>15
       DEF StopTargets, ProcessesKnown, LastAttempt, Step, NewAttempt, RecordInv, RecordTypeOK,
           Commanded, Sessions, Fates
  <1>16. CASE SaveSpawned
    BY <1>5, <1>16
       DEF SaveSpawned, ProcessesKnown, LastAttempt, Step, NewAttempt, RecordInv, RecordTypeOK,
           Commanded, Sessions, Fates
  <1>17. CASE VerifyFails
    BY <1>17
       DEF VerifyFails, ProcessesKnown, LastAttempt, Step, NewAttempt, RecordInv, RecordTypeOK,
           Commanded, Sessions, Fates
  <1>18. CASE Succeed
    <2>1. Ends("succeeded") \/ (Step("failing") /\ UNCHANGED fate)
      BY <1>18, Success DEF RecordInv
    <2>2. UNCHANGED <<mine, alive>> /\ command.pc = "starting"
      BY <1>18 DEF Succeed, SucceedRestart
    <2>. QED
      BY <1>1, <1>3, <1>5, <2>1, <2>2 DEF ProcessesKnown, Step, RecordInv, RecordTypeOK, Commanded
  <1>19. CASE SucceedRestart
    BY <1>1, <1>5, <1>8, <1>19
       DEF SucceedRestart, ProcessesKnown, LastAttempt, Step, NewAttempt, RecordInv,
           RecordTypeOK, Commanded, Sessions, Fates
  <1>20. CASE Failing
    BY <1>20
       DEF Failing, ProcessesKnown, LastAttempt, Step, NewAttempt, RecordInv, RecordTypeOK,
           Commanded, Sessions, Fates
  <1>21. CASE Cleanup
    BY <1>21
       DEF Cleanup, ProcessesKnown, LastAttempt, Step, NewAttempt, RecordInv, RecordTypeOK,
           Commanded, Sessions, Fates
  <1>22. CASE Close
    BY <1>1, <1>5, <1>8, <1>22
       DEF Close, ProcessesKnown, LastAttempt, Step, NewAttempt, RecordInv, RecordTypeOK,
           Commanded, Sessions, Fates
  <1>23. CASE RestartFails
    BY <1>2, <1>5, <1>6, <1>7, <1>8, <1>23
       DEF RestartFails, ProcessesKnown, LastAttempt, Step, NewAttempt, RecordInv, RecordTypeOK,
           Commanded, Sessions, Fates
  <1>24. CASE CommandDies
    BY <1>1, <1>5, <1>8, <1>24
       DEF CommandDies, ProcessesKnown, LastAttempt, Step, NewAttempt, RecordInv, RecordTypeOK,
           Commanded, Sessions, Fates
  <1>25. CASE UNCHANGED recordVars
    BY <1>25
       DEF recordVars, ProcessesKnown, LastAttempt, Step, NewAttempt, RecordInv, RecordTypeOK,
           Commanded, Sessions, Fates
  <1>. QED
    BY <1>9, <1>10, <1>11, <1>12, <1>13, <1>14, <1>15, <1>16, <1>17, <1>18, <1>19, <1>20, <1>21,
       <1>22, <1>23, <1>24, <1>25 DEF RecordNext

(* Every action keeps DraftTrue. *)
LEMMA DraftTrueStep ==
  ASSUME RecordInv, [RecordNext]_recordVars
  PROVE  DraftTrue'
  <1>1. ASSUME NEW how \in Fates, Ends(how)
        PROVE  /\ command' = NoCommand /\ Len(fate') = Len(fate)
               /\ \A i \in 1 .. Len(fate) : fate'[i] = IF i = command.id THEN how ELSE fate[i]
    BY <1>1 DEF Ends, RecordTypeOK
  <1>2. Deferred => command' = NoCommand /\ (Ends("failed") \/ Ends("unwritten"))
    BY DEF Deferred, Ends
  <1>3. {"failed", "unwritten", "killed", "succeeded"} \subseteq Fates
    BY DEF Fates
  <1>4. RecordTypeOK'
    BY RecordTypeStep DEF RecordInv
  <1>5. NoCommand.pc = "idle" /\ NoCommand.id = 0
    BY DEF NoCommand
  <1>6. ASSUME NEW kind \in {"start", "restart"}, NEW targets \in SUBSET Members,
             BeginDiagnostics(kind, targets) PROVE DraftTrue'
    BY <1>6
       DEF BeginDiagnostics, DraftTrue, CleanupTold, ProcessesOnlyDie, LastAttempt,
           ProcessesKnown, Step, NewAttempt, RecordInv, RecordTypeOK, Commanded, Attempts
  <1>7. ASSUME NEW names \in SUBSET Members, StopServices(names) PROVE DraftTrue'
    BY <1>7
       DEF StopServices, DraftTrue, CleanupTold, ProcessesOnlyDie, LastAttempt, ProcessesKnown,
           Step, NewAttempt, RecordInv, RecordTypeOK, Commanded, Attempts
  <1>8. ASSUME NEW s \in Members, Spawn(s) PROVE DraftTrue'
    BY <1>8
       DEF Spawn, DraftTrue, CleanupTold, ProcessesOnlyDie, LastAttempt, ProcessesKnown, Step,
           NewAttempt, RecordInv, RecordTypeOK, Commanded, Attempts
  <1>9. ASSUME NEW s \in Members, ProcessDies(s) PROVE DraftTrue'
    BY <1>9
       DEF ProcessDies, DraftTrue, CleanupTold, ProcessesOnlyDie, LastAttempt, ProcessesKnown,
           Step, NewAttempt, RecordInv, RecordTypeOK, Commanded, Attempts
  <1>10. CASE EarlyFailure
    BY <1>2, <1>5, ProcessesDie, <1>10
       DEF EarlyFailure, DraftTrue, CleanupTold, ProcessesOnlyDie, LastAttempt, ProcessesKnown,
           Step, NewAttempt, RecordInv, RecordTypeOK, Commanded, Attempts
  <1>11. CASE Transition
    BY <1>2, <1>5, ProcessesDie, <1>11
       DEF Transition, DraftTrue, CleanupTold, ProcessesOnlyDie, LastAttempt, ProcessesKnown,
           Step, NewAttempt, RecordInv, RecordTypeOK, Commanded, Attempts
  <1>12. CASE StopTargets
    BY <1>12
       DEF StopTargets, DraftTrue, CleanupTold, ProcessesOnlyDie, LastAttempt, ProcessesKnown,
           Step, NewAttempt, RecordInv, RecordTypeOK, Commanded, Attempts
  <1>13. CASE SaveSpawned
    BY <1>13
       DEF SaveSpawned, DraftTrue, CleanupTold, ProcessesOnlyDie, LastAttempt, ProcessesKnown,
           Step, NewAttempt, RecordInv, RecordTypeOK, Commanded, Attempts
  <1>14. CASE VerifyFails
    BY <1>14
       DEF VerifyFails, DraftTrue, CleanupTold, ProcessesOnlyDie, LastAttempt, ProcessesKnown,
           Step, NewAttempt, RecordInv, RecordTypeOK, Commanded, Attempts
  <1>15. CASE Succeed
    <2>1. /\ draft'.cleanup = draft.cleanup
          /\ Ends("succeeded") \/ (Step("failing") /\ UNCHANGED fate)
      BY <1>15, Success DEF RecordInv
    <2>2. command.pc = "starting"
      BY <1>15 DEF Succeed, SucceedRestart
    <2>. QED
      BY <1>1, <1>3, <1>5, <2>1, <2>2 DEF DraftTrue, Step, RecordInv, RecordTypeOK, Commanded
  <1>16. CASE SucceedRestart
    <2>1. /\ draft'.cleanup = draft.cleanup
          /\ Ends("succeeded") \/ (Step("failing") /\ UNCHANGED fate)
      BY <1>16, Success DEF RecordInv
    <2>2. command.pc = "starting"
      BY <1>16 DEF Succeed, SucceedRestart
    <2>. QED
      BY <1>1, <1>3, <1>5, <2>1, <2>2 DEF DraftTrue, Step, RecordInv, RecordTypeOK, Commanded
  <1>17. CASE Failing
    BY <1>17
       DEF Failing, DraftTrue, CleanupTold, ProcessesOnlyDie, LastAttempt, ProcessesKnown, Step,
           NewAttempt, RecordInv, RecordTypeOK, Commanded, Attempts
  <1>18. CASE Cleanup
    <2>1. PICK stuck \in SUBSET {m \in In(mine) : alive[m] = mine.processes[m]}, stored \in BOOLEAN :
            /\ alive' = [m \in Members |-> IF m \in In(mine) \ stuck THEN 0 ELSE alive[m]]
            /\ draft' = [draft EXCEPT !.stage = IF stuck = {} /\ stored THEN "completed" ELSE "failed",
                                      !.status = "failed", !.started = In(mine),
                                      !.rolledBack = In(mine) \ stuck, !.remaining = stuck,
                                      !.cleanup = IF stuck = {} /\ stored THEN "completed"
                                                  ELSE "incomplete"]
      BY <1>18 DEF Cleanup
    <2>2. /\ draft'.id = draft.id /\ draft'.status = "failed" /\ draft'.started = In(mine)
          /\ draft'.rolledBack = In(mine) \ stuck /\ draft'.remaining = stuck
          /\ draft'.cleanup = "completed" => stuck = {}
      BY <2>1 DEF RecordInv, RecordTypeOK, Attempts
    <2>3. /\ command.kind = "start" /\ command.pc = "cleanup" /\ UNCHANGED fate
          /\ command'.pc = "closing" /\ command'.id = command.id
      BY <1>18 DEF Cleanup, Step, RecordInv, RecordTypeOK, Commanded
    <2>4. command.id = Len(fate) /\ Len(fate) > 0 /\ Len(fate) \in Nat /\ draft.id = command.id
      BY <2>3 DEF LastAttempt, RecordInv, RecordTypeOK
    <2>5. \A m \in Members : alive'[m] = command.id => m \in stuck
      <3>1. SUFFICES ASSUME NEW m \in Members, alive'[m] = command.id, m \notin stuck PROVE FALSE
        OBVIOUS
      <3>2. m \notin In(mine) /\ alive[m] = command.id
        BY <2>1, <2>4, <3>1
      <3>3. mine.processes[m] = command.id
        BY <2>3, <3>2 DEF ProcessesKnown, RecordInv
      <3>. QED
        BY <2>4, <3>2, <3>3 DEF In
    <2>6. CleanupTold(draft)'
      BY <2>2, <2>4, <2>5 DEF CleanupTold
    <2>. QED
      BY <2>2, <2>3, <2>6 DEF DraftTrue
  <1>19. CASE Close
    BY <1>1, <1>3, <1>5, ProcessesDie, <1>19
       DEF Close, DraftTrue, CleanupTold, ProcessesOnlyDie, LastAttempt, ProcessesKnown, Step,
           NewAttempt, RecordInv, RecordTypeOK, Commanded, Attempts
  <1>20. CASE RestartFails
    BY <1>2, <1>5, ProcessesDie, <1>20
       DEF RestartFails, DraftTrue, CleanupTold, ProcessesOnlyDie, LastAttempt, ProcessesKnown,
           Step, NewAttempt, RecordInv, RecordTypeOK, Commanded, Attempts
  <1>21. CASE CommandDies
    BY <1>1, <1>3, <1>5, ProcessesDie, <1>21
       DEF CommandDies, DraftTrue, CleanupTold, ProcessesOnlyDie, LastAttempt, ProcessesKnown,
           Step, NewAttempt, RecordInv, RecordTypeOK, Commanded, Attempts
  <1>22. CASE UNCHANGED recordVars
    BY <1>22
       DEF recordVars, DraftTrue, CleanupTold, ProcessesOnlyDie, LastAttempt, ProcessesKnown,
           Step, NewAttempt, RecordInv, RecordTypeOK, Commanded, Attempts
  <1>. QED
    BY <1>6, <1>7, <1>8, <1>9, <1>10, <1>11, <1>12, <1>13, <1>14, <1>15, <1>16, <1>17, <1>18,
       <1>19, <1>20, <1>21, <1>22 DEF RecordNext

(* What may be said of an attempt stays true, unless the attempt is the one    *)
(* that now ends as a failure or a success.                                    *)
Kept(a) == a.id # command.id \/ fate'[command.id] \in {"open", "killed", "unwritten"}

LEMMA KeepFine ==
  ASSUME RecordInv, [RecordNext]_recordVars, NEW a \in Attempts, Fine(a), Kept(a)
  PROVE  Fine(a)'
  <1>1. /\ a.id \in 1 .. Len(fate) /\ Len(fate) \in Nat
        /\ Len(fate') \in {Len(fate), Len(fate) + 1}
        /\ \A i \in 1 .. Len(fate) : i # command.id => fate'[i] = fate[i]
    BY EndsOwn DEF Fine, EndsOnlyItsOwn, RecordInv, RecordTypeOK
  <1>2. command.pc = "idle" => a.id # command.id
    BY <1>1 DEF RecordInv, LastAttempt
  <1>3. NoCommand.pc = "idle"
    BY DEF NoCommand
  <1>4. command'.pc # "idle" /\ a.id = command'.id => a.cleanup = "none"
    <2>1. SUFFICES ASSUME command'.pc # "idle", a.id = command'.id PROVE a.cleanup = "none"
      OBVIOUS
    <2>2. command'.id = command.id
      BY <1>1, <1>3, <2>1, Follows DEF CommandFollows
    <2>. QED
      BY <1>2, <2>1, <2>2 DEF Fine
  <1>5. CleanupTold(a)'
    <2>1. SUFFICES ASSUME a.cleanup # "none"
                   PROVE  \A m \in Members : alive'[m] = a.id => alive[m] = a.id
      BY DEF CleanupTold, Fine
    <2>2. command.pc = "starting" => a.id # command.id
      BY <2>1 DEF Fine
    <2>. QED
      BY <1>1, <2>2, ProcessesDie DEF ProcessesOnlyDie
  <1>6. EndTold(a)'
    <2>1. CASE a.id # command.id
      BY <1>1, <2>1 DEF EndTold, Fine
    <2>2. CASE a.id = command.id
      BY <2>2 DEF Kept, EndTold
    <2>. QED
      BY <2>1, <2>2
  <1>. QED
    BY <1>1, <1>4, <1>5, <1>6 DEF Fine

(* So a step that writes what is true leaves nothing false.                    *)
LEMMA EntriesFine ==
  ASSUME RecordInv, [RecordNext]_recordVars,
         \A i \in DOMAIN history' :
           \/ Fine(history[i])'
           \/ \E j \in DOMAIN history : SameOutcome(history'[i], history[j]) /\ Kept(history[j])
  PROVE  HistoryFine'
  <1>1. ASSUME NEW i \in DOMAIN history', NEW j \in DOMAIN history,
               SameOutcome(history'[i], history[j]), Kept(history[j])
        PROVE  Fine(history[i])'
    <2>1. history[j] \in Attempts /\ Fine(history[j])
      BY DEF RecordInv, RecordTypeOK, HistoryFine
    <2>2. Fine(history[j]) /\ Kept(history[j])
      BY <1>1, <2>1
    <2>3. PICK a \in Attempts : a = history[j]
      BY <2>1
    <2>4. PICK b : b = history'[i]
      OBVIOUS
    <2>5. Fine(a)'
      BY <2>2, <2>3, KeepFine
    <2>6. SameOutcome(b, a)
      BY <1>1, <2>3, <2>4
    <2>7. Fine(b)'
      BY <2>5, <2>6 DEF SameOutcome, Fine, CleanupTold, EndTold
    <2>. QED
      BY <2>4, <2>7
  <1>. QED
    BY <1>1 DEF HistoryFine

(* One draft is written: the other attempts, and if the command goes on or     *)
(* ends without an end, its own, are as they were.                             *)
LEMMA PutFine ==
  ASSUME RecordInv, [RecordNext]_recordVars,
         NEW d \in Attempts, d.id = command.id, Fine(d)',
         NEW h \in Seq(Attempts), DOMAIN h = DOMAIN history,
         \A i \in DOMAIN h : SameOutcome(h[i], history[i]),
         history' = Put(h, d)
  PROVE  HistoryFine'
  <1>1. ASSUME NEW i \in DOMAIN history'
        PROVE  \/ Fine(history[i])'
               \/ \E j \in DOMAIN history : SameOutcome(history'[i], history[j]) /\ Kept(history[j])
    <2>1. \/ history'[i] = d
          \/ \E j \in DOMAIN h : history'[i] = h[j] /\ h[j].id # d.id
      BY PutEntries
    <2>2. CASE history'[i] = d
      BY <2>2
    <2>3. ASSUME NEW j \in DOMAIN h, history'[i] = h[j], h[j].id # d.id
          PROVE  j \in DOMAIN history /\ SameOutcome(history'[i], history[j]) /\ Kept(history[j])
      BY <2>3 DEF SameOutcome, Kept
    <2>. QED
      BY <2>1, <2>2, <2>3
  <1>. QED
    BY <1>1, EntriesFine

(* Nothing is written, but for what says nothing of the outcome.               *)
LEMMA SameFine ==
  ASSUME RecordInv, [RecordNext]_recordVars, DOMAIN history' = DOMAIN history,
         \A i \in DOMAIN history : SameOutcome(history'[i], history[i]),
         \A i \in DOMAIN history : Kept(history[i])
  PROVE  HistoryFine'
  BY EntriesFine

(* Every action keeps HistoryFine. *)
LEMMA HistoryFineStep ==
  ASSUME RecordInv, [RecordNext]_recordVars
  PROVE  HistoryFine'
  <1>1. ASSUME NEW how \in Fates, Ends(how)
        PROVE  command'.pc = "idle" /\ (command.id \in 1 .. Len(fate) => fate'[command.id] = how)
    BY <1>1 DEF Ends, RecordInv, RecordTypeOK, NoCommand
  <1>2. {"failed", "unwritten", "killed", "succeeded"} \subseteq Fates
    BY DEF Fates
  <1>3. /\ Len(fate) \in Nat /\ Len(fate') \in {Len(fate), Len(fate) + 1}
        /\ command.pc # "idle" => /\ command.id = Len(fate) /\ command.id \in 1 .. Len(fate)
                                  /\ fate[command.id] = "open" /\ draft.id = command.id
        /\ command.pc = "idle" => command.id = 0
    BY EndsOwn DEF EndsOnlyItsOwn, RecordInv, RecordTypeOK, LastAttempt
  <1>4. \A i \in DOMAIN history : history[i] \in Attempts /\ history[i].id \in 1 .. Len(fate)
    BY DEF RecordInv, RecordTypeOK, HistoryFine, Fine
  <1>5. UNCHANGED fate => \A i \in DOMAIN history : Kept(history[i])
    <2>1. CASE command.pc = "idle"
      BY <1>3, <1>4, <2>1 DEF Kept
    <2>2. CASE command.pc # "idle"
      BY <1>3, <2>2 DEF Kept
    <2>. QED
      BY <2>1, <2>2
  <1>6. \A a : SameOutcome(a, a)
    BY DEF SameOutcome
  <1>7. UNCHANGED <<fate, history>> => HistoryFine'
    BY <1>5, <1>6, SameFine
  <1>8. ASSUME command.pc # "idle", UNCHANGED history,
               Ends("unwritten") \/ Ends("killed")
        PROVE  HistoryFine'
    <2>1. fate'[command.id] \in {"unwritten", "killed"}
      BY <1>1, <1>2, <1>3, <1>8
    <2>2. \A i \in DOMAIN history : Kept(history[i])
      BY <2>1 DEF Kept
    <2>. QED
      BY <1>6, <1>8, <2>2, SameFine
  <1>9. history \in Seq(Attempts)
    BY DEF RecordInv, RecordTypeOK
  <1>10. ASSUME NEW d \in Attempts, d.id = command.id, Fine(d)', history' = Put(history, d)
         PROVE  HistoryFine'
    BY <1>6, <1>9, <1>10, PutFine
  <1>11. ASSUME NEW d \in Attempts, d.id = draft.id, d.cleanup = "none", command.pc # "idle",
                \/ UNCHANGED fate
                \/ Ends("unwritten")
                \/ Ends("failed") /\ d.status = "failed"
                \/ Ends("succeeded") /\ d.status = "succeeded"
         PROVE  d.id = command.id /\ Fine(d)'
    <2>1. d.id = command.id /\ d.id \in 1 .. Len(fate')
      BY <1>3, <1>11
    <2>2. CleanupTold(d)'
      BY <1>11 DEF CleanupTold
    <2>3. EndTold(d)'
      BY <1>1, <1>2, <1>3, <1>11, <2>1 DEF EndTold
    <2>. QED
      BY <1>11, <2>1, <2>2, <2>3 DEF Fine
  <1>12. draft \in Attempts /\ draft' \in Attempts
    BY RecordTypeStep DEF RecordInv, RecordTypeOK
  <1>13. ASSUME Deferred, command.pc \notin {"idle", "closing"} PROVE HistoryFine'
    <2>1. draft.cleanup = "none"
      BY <1>13 DEF RecordInv, DraftTrue
    <2>2. CASE Ends("failed") /\ history' = Put(history, draft') /\ draft'.status = "failed"
      BY <1>10, <1>11, <1>12, <1>13, <2>1, <2>2, DeferredDraft DEF RecordInv
    <2>3. CASE Ends("unwritten") /\ UNCHANGED history
      BY <1>8, <1>13, <2>3
    <2>4. ASSUME NEW c \in Attempts, c.id = draft.id, c.cleanup = draft.cleanup,
                 history' = Put(history, c), Ends("unwritten")
          PROVE  HistoryFine'
      BY <1>10, <1>11, <1>13, <2>1, <2>4
    <2>. QED
      BY <1>13, <2>2, <2>3, <2>4, DeferredDraft DEF RecordInv
  <1>14. ASSUME NEW kind \in {"start", "restart"}, NEW targets \in SUBSET Members,
             BeginDiagnostics(kind, targets) PROVE HistoryFine'
    <2>0. PICK d : d = NewAttempt(Len(fate) + 1)
      OBVIOUS
    <2>1. /\ history' = Put(history, d) /\ command'.id = d.id /\ d.id = Len(fate) + 1
          /\ fate' = Append(fate, "open") /\ command.pc = "idle"
          /\ d.cleanup = "none" /\ d.status = "running"
      BY <1>14, <2>0 DEF BeginDiagnostics, NewAttempt
    <2>2. d \in Attempts
      BY <1>3, <2>0 DEF NewAttempt, Attempts
    <2>3. d.id \in 1 .. Len(fate') /\ fate'[d.id] = "open"
      BY <2>1 DEF RecordInv, RecordTypeOK
    <2>4. Fine(d)'
      BY <2>1, <2>3 DEF Fine, CleanupTold, EndTold
    <2>5. ASSUME NEW i \in DOMAIN history'
          PROVE  \/ Fine(history[i])'
                 \/ \E j \in DOMAIN history : SameOutcome(history'[i], history[j]) /\ Kept(history[j])
      <3>1. \/ history'[i] = d
            \/ \E j \in DOMAIN history : history'[i] = history[j]
        BY <1>9, <2>1, <2>2, PutEntries
      <3>2. \A j \in DOMAIN history : Kept(history[j])
        BY <1>3, <1>4, <2>1 DEF Kept
      <3>3. CASE history'[i] = d
        BY <2>4, <3>3
      <3>4. ASSUME NEW j \in DOMAIN history, history'[i] = history[j]
            PROVE  SameOutcome(history'[i], history[j]) /\ Kept(history[j])
        BY <1>6, <3>2, <3>4
      <3>. QED
        BY <3>1, <3>3, <3>4
    <2>. QED
      BY <2>5, EntriesFine
  <1>15. ASSUME NEW names \in SUBSET Members, StopServices(names) PROVE HistoryFine'
    <2>1. PICK stuck \in SUBSET names,
               archived \in {history, Archived(history, saved, IF names = In(saved) THEN {} ELSE names)} :
            history' = [i \in DOMAIN archived |->
                 IF archived[i].id # saved.attempt THEN archived[i]
                 ELSE [archived[i] EXCEPT !.stops = (@ \ names) \cup (names \ stuck)]]
      BY <1>15 DEF StopServices
    <2>2. /\ DOMAIN archived = DOMAIN history
          /\ \A i \in DOMAIN history : archived[i] \in Attempts /\ SameOutcome(archived[i], history[i])
      <3>1. saved \in Sessions
        BY DEF RecordInv, RecordTypeOK
      <3>. QED
        BY <1>4, <1>6, <1>9, <2>1, <3>1, ArchivedEntries
    <2>3. DOMAIN history' = DOMAIN history
      BY <2>1, <2>2
    <2>4. ASSUME NEW i \in DOMAIN history
          PROVE  SameOutcome(history'[i], history[i])
      <3>1. \/ history'[i] = archived[i]
            \/ history'[i] = [archived[i] EXCEPT !.stops = (@ \ names) \cup (names \ stuck)]
        BY <2>1, <2>2
      <3>2. SameOutcome(history'[i], archived[i])
        BY <2>2, <3>1 DEF SameOutcome, Attempts
      <3>. QED
        BY <2>2, <3>2 DEF SameOutcome
    <2>5. UNCHANGED fate
      BY <1>15 DEF StopServices
    <2>. QED
      BY <1>5, <2>3, <2>4, <2>5, SameFine
  <1>16. ASSUME NEW s \in Members, Spawn(s) PROVE HistoryFine'
    <2>1. /\ command.pc = "starting" /\ UNCHANGED fate
          /\ draft' = [draft EXCEPT !.stage = "started"]
          /\ history' = history \/ history' = Put(history, draft')
      BY <1>16, Writing DEF Spawn
    <2>2. draft'.id = draft.id /\ draft'.cleanup = draft.cleanup /\ draft.cleanup = "none"
      BY <1>12, <2>1 DEF Attempts, RecordInv, DraftTrue
    <2>. QED
      BY <1>7, <1>10, <1>11, <1>12, <2>1, <2>2
  <1>17. ASSUME NEW s \in Members, ProcessDies(s) PROVE HistoryFine'
    BY <1>7, <1>17 DEF ProcessDies
  <1>18. CASE EarlyFailure
    BY <1>13, <1>18 DEF EarlyFailure
  <1>19. CASE Transition
    <2>1. \/ Deferred
          \/ history' = Archived(history, saved, {}) /\ UNCHANGED fate
      BY <1>19 DEF Transition
    <2>2. command.pc = "early" /\ saved \in Sessions
      BY <1>19 DEF Transition, RecordInv, RecordTypeOK
    <2>3. ASSUME history' = Archived(history, saved, {}), UNCHANGED fate PROVE HistoryFine'
      BY <1>5, <1>9, <2>2, <2>3, ArchivedEntries, SameFine
    <2>. QED
      BY <1>13, <2>1, <2>2, <2>3
  <1>20. CASE StopTargets
    <2> DEFINE failed == [draft EXCEPT !.stage = "failed"]
               over   == [failed EXCEPT !.status = "failed"]
               h      == Archived(history, saved, command.targets)
    <2>1. /\ command.pc = "early"
          /\ \/ history' = h /\ UNCHANGED fate
             \/ history' = Put(h, over) /\ Ends("failed")
             \/ history' \in {h, Put(h, failed)} /\ Ends("unwritten")
      BY <1>20 DEF StopTargets
    <2>2. /\ h \in Seq(Attempts) /\ DOMAIN h = DOMAIN history
          /\ \A i \in DOMAIN h : SameOutcome(h[i], history[i])
      BY <1>9, ArchivedEntries DEF RecordInv, RecordTypeOK, Commanded
    <2>3. draft.cleanup = "none"
      BY <2>1 DEF RecordInv, DraftTrue
    <2>4. /\ failed \in Attempts /\ failed.id = draft.id /\ failed.cleanup = "none"
          /\ over \in Attempts /\ over.id = draft.id /\ over.cleanup = "none"
          /\ over.status = "failed"
      BY <1>12, <2>3 DEF Attempts
    <2> HIDE DEF failed, over, h
    <2>5. CASE history' = h /\ UNCHANGED fate
      BY <1>5, <2>2, <2>5, SameFine
    <2>6. CASE history' = Put(h, over) /\ Ends("failed")
      <3>1. PICK d \in Attempts : d = over
        BY <2>4
      <3>2. d.id = command.id /\ Fine(d)'
        BY <1>11, <2>1, <2>4, <2>6, <3>1
      <3>. QED
        BY <2>2, <2>6, <3>1, <3>2, PutFine
    <2>7. CASE history' = Put(h, failed) /\ Ends("unwritten")
      <3>1. PICK d \in Attempts : d = failed
        BY <2>4
      <3>2. d.id = command.id /\ Fine(d)'
        BY <1>11, <2>1, <2>4, <2>7, <3>1
      <3>. QED
        BY <2>2, <2>7, <3>1, <3>2, PutFine
    <2>8. CASE history' = h /\ Ends("unwritten")
      <3>1. fate'[command.id] = "unwritten"
        BY <1>1, <1>2, <1>3, <2>1, <2>8
      <3>2. \A i \in DOMAIN history : Kept(history[i])
        BY <3>1 DEF Kept
      <3>. QED
        BY <2>2, <2>8, <3>2, SameFine
    <2>. QED
      BY <2>1, <2>5, <2>6, <2>7, <2>8
  <1>21. CASE SaveSpawned
    <2>1. /\ command.pc = "spawned" /\ UNCHANGED fate
          /\ draft' \in {draft, [draft EXCEPT !.stage = "completed"],
                        [draft EXCEPT !.stage = draft.stage]}
          /\ history' = history \/ history' = Put(history, draft')
      BY <1>21, Writing DEF SaveSpawned
    <2>2. draft'.id = draft.id /\ draft'.cleanup = draft.cleanup /\ draft.cleanup = "none"
      BY <1>12, <2>1 DEF Attempts, RecordInv, DraftTrue
    <2>. QED
      BY <1>7, <1>10, <1>11, <1>12, <2>1, <2>2
  <1>22. CASE VerifyFails
    BY <1>7, <1>22 DEF VerifyFails
  <1>23. CASE Succeed
    <2>1. command.pc = "starting" /\ draft.cleanup = "none"
      BY <1>23 DEF Succeed, SucceedRestart, RecordInv, DraftTrue
    <2>2. CASE Ends("succeeded") /\ history' = Put(history, draft') /\ draft'.status = "succeeded"
      BY <1>10, <1>11, <1>12, <1>23, <2>1, <2>2, Success DEF RecordInv
    <2>3. CASE UNCHANGED <<fate, history>>
      BY <1>7, <2>3
    <2>4. ASSUME NEW c \in Attempts, c.id = draft.id, c.cleanup = draft.cleanup,
                 history' = Put(history, c), UNCHANGED fate
          PROVE  HistoryFine'
      BY <1>10, <1>11, <2>1, <2>4
    <2>. QED
      BY <1>23, <2>2, <2>3, <2>4, Success DEF RecordInv
  <1>24. CASE SucceedRestart
    <2>1. command.pc = "starting" /\ draft.cleanup = "none"
      BY <1>24 DEF Succeed, SucceedRestart, RecordInv, DraftTrue
    <2>2. CASE Ends("succeeded") /\ history' = Put(history, draft') /\ draft'.status = "succeeded"
      BY <1>10, <1>11, <1>12, <1>24, <2>1, <2>2, Success DEF RecordInv
    <2>3. CASE UNCHANGED <<fate, history>>
      BY <1>7, <2>3
    <2>4. ASSUME NEW c \in Attempts, c.id = draft.id, c.cleanup = draft.cleanup,
                 history' = Put(history, c), UNCHANGED fate
          PROVE  HistoryFine'
      BY <1>10, <1>11, <2>1, <2>4
    <2>. QED
      BY <1>24, <2>2, <2>3, <2>4, Success DEF RecordInv
  <1>25. CASE Failing
    <2> DEFINE failed  == [draft EXCEPT !.stage = "failed", !.logs = In(mine)]
               cleanup == [failed EXCEPT !.stage = "started"]
    <2>1. /\ command.pc = "failing" /\ UNCHANGED fate
          /\ history' \in {history, Put(history, failed), Put(history, cleanup)}
      BY <1>25, Writing DEF Failing
    <2>2. In(mine) \subseteq Members /\ draft.cleanup = "none"
      BY <2>1 DEF In, RecordInv, DraftTrue
    <2>3. /\ failed \in Attempts /\ failed.id = draft.id /\ failed.cleanup = "none"
          /\ cleanup \in Attempts /\ cleanup.id = draft.id /\ cleanup.cleanup = "none"
      BY <1>12, <2>2 DEF Attempts
    <2> HIDE DEF failed, cleanup
    <2>. QED
      BY <1>7, <1>10, <1>11, <2>1, <2>3
  <1>26. CASE Cleanup
    BY <1>7, <1>26 DEF Cleanup
  <1>27. CASE Close
    <2>1. /\ command.pc = "closing" /\ UNCHANGED <<draft, alive>>
          /\ \/ history' = Put(history, draft) /\ Ends("failed")
             \/ UNCHANGED history /\ Ends("unwritten")
      BY <1>27, Writing DEF Close
    <2>2. draft.id = command.id /\ draft.status = "failed" /\ CleanupTold(draft)
      BY <1>3, <2>1 DEF RecordInv, DraftTrue
    <2>3. ASSUME Ends("failed") PROVE Fine(draft)'
      <3>1. CleanupTold(draft)'
        BY <2>1, <2>2 DEF CleanupTold
      <3>2. draft.id \in 1 .. Len(fate') /\ command'.pc = "idle"
        BY <1>1, <1>2, <1>3, <2>1, <2>2, <2>3
      <3>3. EndTold(draft)'
        BY <2>1, <2>2 DEF EndTold
      <3>. QED
        BY <2>1, <3>1, <3>2, <3>3 DEF Fine
    <2>4. CASE history' = Put(history, draft) /\ Ends("failed")
      <3>1. PICK d \in Attempts : d = draft
        BY <1>12
      <3>2. Fine(d)'
        BY <2>1, <2>3, <2>4, <3>1 DEF Fine, CleanupTold, EndTold
      <3>. QED
        BY <1>10, <2>2, <2>4, <3>1, <3>2
    <2>5. CASE UNCHANGED history /\ Ends("unwritten")
      BY <1>8, <2>1, <2>5
    <2>. QED
      BY <2>1, <2>4, <2>5
  <1>28. CASE RestartFails
    BY <1>13, <1>28 DEF RestartFails
  <1>29. CASE CommandDies
    BY <1>8, <1>29 DEF CommandDies
  <1>30. CASE UNCHANGED recordVars
    BY <1>7, <1>30 DEF recordVars
  <1>. QED
    BY <1>14, <1>15, <1>16, <1>17, <1>18, <1>19, <1>20, <1>21, <1>22, <1>23, <1>24, <1>25, <1>26,
       <1>27, <1>28, <1>29, <1>30 DEF RecordNext

\* History, draft, session and processes have their types, the attempt of the command
\* has not ended, and what is written of the others is true (diagnostics.go).
THEOREM RecordInvariance == RecordSpec => []RecordInv
  <1>1. RecordInv /\ [RecordNext]_recordVars => RecordInv'
    <2>1. SUFFICES ASSUME RecordInv, [RecordNext]_recordVars PROVE RecordInv'
      OBVIOUS
    <2>2. RecordTypeOK'
      BY <2>1, RecordTypeStep DEF RecordInv
    <2>3. LastAttempt' /\ ProcessesKnown'
      BY <2>1, LastAttemptStep, ProcessesKnownStep
    <2>4. DraftTrue' /\ HistoryFine'
      BY <2>1, DraftTrueStep, HistoryFineStep
    <2>. QED
      BY <2>2, <2>3, <2>4 DEF RecordInv
  <1>. QED
    BY <1>1, RecordInvInit, PTL DEF RecordSpec

\* What the record says of a cleanup and of an end is true, whichever write fails,
\* whatever resists and whenever the command is killed (failWithCleanup, persist).
THEOREM RecordTrue == RecordSpec => []RecordIsTrue
  <1>1. RecordInv => RecordIsTrue
    BY DEF RecordInv, HistoryFine, Fine, CleanupTold, EndTold, RecordIsTrue
  <1>. QED
    BY <1>1, RecordInvariance, PTL
=============================================================================
