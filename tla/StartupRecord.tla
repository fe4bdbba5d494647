---------------------------- MODULE StartupRecord ----------------------------
(***************************************************************************)
(* The record that startups leave behind: internal/runtime/diagnostics.go  *)
(* as start and stop in orchestrator.go and Restart in restart.go use it.  *)
(* Every stage of a start is written to the history of attempts before the *)
(* next begins; a stop adds to the attempt of the session it stops.  Any   *)
(* write may fail, any process may resist being stopped, and the command   *)
(* may be killed between two of its steps.  One command runs at a time,    *)
(* under the lock of the workspace.                                        *)
(*                                                                         *)
(* A process is known by the attempt that started it; 0 is none.           *)
(***************************************************************************)
EXTENDS Naturals, Sequences, FiniteSets, SequencesExt

CONSTANTS
  Members,   \* the services
  Limit,     \* diagnosticsLimit
  MaxStarts  \* bound: attempts

ASSUME RecordAssumption == Limit \in Nat \ {0} /\ MaxStarts \in Nat

VARIABLES
  history, \* attempts.json, the newest first
  draft,   \* the attempt of the recorder
  saved,   \* the session on disk: its attempt, 0 for no session, and processes
  mine,    \* the session of the command
  alive,   \* service -> the process that runs
  command, \* what the command does
  fate     \* attempt -> how it ended, for the properties

recordVars == <<history, draft, saved, mine, alive, command, fate>>

NoProcess == [s \in Members |-> 0]
NoSession == [attempt |-> 0, processes |-> NoProcess]
In(session) == {s \in Members : session.processes[s] # 0}
Without(session, gone) ==
  [session EXCEPT !.processes = [s \in Members |-> IF s \in gone THEN 0 ELSE @[s]]]

\* DiagnosticAttempt.  The services of its cleanup are a set for each of what
\* was started, rolled back and remains.
NewAttempt(id) ==
  [id |-> id, status |-> "running", stage |-> "started", cleanup |-> "none",
   started |-> {}, rolledBack |-> {}, remaining |-> {}, logs |-> {}, stops |-> {}]

NoCommand == [kind |-> "none", pc |-> "idle", id |-> 0, targets |-> {}, old |-> NoSession]

RecordInit ==
  /\ history = <<>> /\ draft = NewAttempt(0) /\ saved = NoSession /\ mine = NoSession
  /\ alive = NoProcess /\ command = NoCommand /\ fate = <<>>

\* persist: the attempt takes its place, or is put in front of the others, of
\* which the oldest is forgotten.
Put(h, a) ==
  IF \E i \in DOMAIN h : h[i].id = a.id
    THEN [i \in DOMAIN h |-> IF h[i].id = a.id THEN a ELSE h[i]]
    ELSE SubSeq(<<a>> \o h, 1, IF Len(h) < Limit THEN Len(h) + 1 ELSE Limit)

\* The writes of a step: up to one that fails, each of these drafts.
Writes(drafts) == {history} \cup {Put(history, drafts[i]) : i \in DOMAIN drafts}
Written(drafts) == Put(history, Last(drafts))

Step(pc) == command' = [command EXCEPT !.pc = pc]
Ends(how) == /\ command' = NoCommand
             /\ fate' = [fate EXCEPT ![command.id] = how]

-----------------------------------------------------------------------------
\* beginDiagnostics.  Nothing is done when the attempt cannot be written.
BeginDiagnostics(kind, targets) ==
  /\ command.pc = "idle"
  /\ Len(fate) < MaxStarts
  /\ LET id == Len(fate) + 1
     IN  /\ draft' = NewAttempt(id)
         /\ history' = Put(history, NewAttempt(id))
         /\ fate' = Append(fate, "open")
         /\ command' = [kind |-> kind, pc |-> "early", id |-> id,
                        targets |-> IF kind = "start" THEN targets ELSE targets \cap In(saved),
                        old |-> saved]
  /\ mine' = saved
  /\ UNCHANGED <<saved, alive>>

\* What the deferred function records of a failure before a session is saved,
\* and of every failed restart.
Deferred ==
  LET failed == [draft EXCEPT !.stage = "failed"]
      over   == [failed EXCEPT !.status = "failed"]
  IN  /\ draft' = over
      /\ \/ history' = Written(<<failed, over>>) /\ Ends("failed")
         \/ history' \in Writes(<<failed>>) /\ Ends("unwritten")

\* A failure before anything is stopped.
EarlyFailure ==
  /\ command.pc = "early"
  /\ Deferred
  /\ UNCHANGED <<saved, mine, alive>>

\* archiveSessionDiagnosticLogs: the logs of all services of the session replace
\* those of its attempt, the logs of some are merged into them.
Archived(h, session, names) ==
  [i \in DOMAIN h |->
     IF h[i].id # session.attempt THEN h[i]
     ELSE [h[i] EXCEPT !.logs = IF names = {} THEN In(session)
                                ELSE (@ \ names) \cup (names \cap In(session))]]

\* A start stops what runs, archives its logs and clears its session; what
\* resists stays in the session, and the start fails.
Transition ==
  /\ command.kind = "start" /\ command.pc = "early"
  /\ \E stuck \in SUBSET {s \in Members : saved.processes[s] # 0 /\ alive[s] = saved.processes[s]} :
       /\ alive' = [s \in Members |-> IF saved.processes[s] # 0 /\ s \notin stuck THEN 0
                                      ELSE alive[s]]
       /\ IF stuck # {}
            THEN /\ saved' = [Without(saved, Members \ stuck) EXCEPT !.attempt = saved.attempt]
                 /\ mine' = saved'
                 /\ Deferred
            ELSE /\ saved' = [attempt |-> command.id, processes |-> NoProcess]
                 /\ mine' = saved'
                 /\ history' = Archived(history, saved, {})
                 /\ Step("starting")
                 /\ UNCHANGED <<draft, fate>>

\* A restart archives the logs of its targets and stops them, the last first,
\* until one resists.
StopTargets ==
  /\ command.kind = "restart" /\ command.pc = "early"
  /\ command.targets # {}
  /\ \/ /\ history' = Archived(history, saved, command.targets)
        /\ alive' = [s \in Members |-> IF s \in command.targets THEN 0 ELSE alive[s]]
        /\ Step("starting")
        /\ UNCHANGED <<draft, fate>>
     \/ \E stopped \in SUBSET command.targets :
          /\ stopped # command.targets
          /\ alive' = [s \in Members |-> IF s \in stopped THEN 0 ELSE alive[s]]
          /\ LET failed == [draft EXCEPT !.stage = "failed"]
                 over   == [failed EXCEPT !.status = "failed"]
                 h      == Archived(history, saved, command.targets)
             IN  /\ draft' = over
                 /\ \/ history' = Put(h, over) /\ Ends("failed")
                    \/ history' \in {h, Put(h, failed)} /\ Ends("unwritten")
  /\ UNCHANGED <<saved, mine>>

\* StartService, and then the session with its process; a start records the
\* stage before and after.
Spawn(s) ==
  /\ command.pc = "starting"
  /\ s \in command.targets /\ mine.processes[s] # command.id
  /\ draft' = [draft EXCEPT !.stage = "started"]
  /\ IF command.kind = "start"
       THEN \/ history' = Written(<<draft'>>) /\ Step("spawned")
               /\ alive' = [alive EXCEPT ![s] = command.id]
               /\ mine' = [mine EXCEPT !.processes[s] = command.id]
            \/ Step("failing") /\ UNCHANGED <<history, alive, mine>>
       ELSE /\ Step("spawned")
            /\ alive' = [alive EXCEPT ![s] = command.id]
            /\ mine' = [mine EXCEPT !.processes[s] = command.id]
            /\ UNCHANGED history
  /\ UNCHANGED <<saved, fate>>

SaveSpawned ==
  /\ command.pc = "spawned"
  /\ \/ Step("failing") /\ UNCHANGED <<saved, history, draft>>
     \/ /\ saved' = mine
        /\ draft' = [draft EXCEPT !.stage = IF command.kind = "start" THEN "completed" ELSE @]
        /\ \/ history' = Written(<<draft'>>) /\ Step("starting")
           \/ command.kind = "start" /\ Step("failing") /\ UNCHANGED history
  /\ UNCHANGED <<mine, alive, fate>>

\* A service is not healthy, or is where it should not be, or has exited.
VerifyFails ==
  /\ command.pc = "starting"
  /\ \E s \in command.targets : mine.processes[s] = command.id
  /\ draft' = [draft EXCEPT !.stage = "started"]
  /\ Step("failing")
  /\ UNCHANGED <<history, saved, mine, alive, fate>>

\* The end of a start: its logs are captured and it is called succeeded, each
\* with a write that may fail.  By then the recorder has it as succeeded.
Succeed ==
  /\ command.kind = "start" /\ command.pc = "starting"
  /\ \A s \in command.targets : mine.processes[s] = command.id
  /\ LET captured == [draft EXCEPT !.stage = "completed", !.logs = In(mine)]
         over     == [captured EXCEPT !.status = "succeeded"]
     IN  \/ draft' = over /\ history' = Written(<<captured, over>>) /\ Ends("succeeded")
         \/ /\ \E w \in {<<captured, history>>, <<over, Put(history, captured)>>} :
                  draft' = w[1] /\ history' = w[2]
            /\ Step("failing")
            /\ UNCHANGED fate
  /\ UNCHANGED <<saved, mine, alive>>

\* The end of a restart: the session takes over its attempt.  The logs of the
\* other services stay with the attempt before.
SucceedRestart ==
  /\ command.kind = "restart" /\ command.pc = "starting"
  /\ \A s \in command.targets : mine.processes[s] = command.id
  /\ LET captured == [draft EXCEPT !.stage = "completed", !.logs = command.targets]
         over     == [captured EXCEPT !.status = "succeeded"]
     IN  /\ saved' = [mine EXCEPT !.attempt = command.id]
         /\ mine' = saved'
         /\ \/ draft' = over /\ history' = Written(<<captured, over>>) /\ Ends("succeeded")
            \/ /\ \E w \in {<<captured, history>>, <<over, Put(history, captured)>>} :
                  draft' = w[1] /\ history' = w[2]
               /\ Step("failing")
               /\ UNCHANGED fate
  /\ UNCHANGED alive

-----------------------------------------------------------------------------
\* fail: the failed stage and the logs are written, and that a cleanup begins.
Failing ==
  /\ command.kind = "start" /\ command.pc = "failing"
  /\ LET failed  == [draft EXCEPT !.stage = "failed", !.logs = In(mine)]
         cleanup == [failed EXCEPT !.stage = "started"]
     IN  draft' = cleanup /\ history' \in Writes(<<failed, cleanup>>)
  /\ Step("cleanup")
  /\ UNCHANGED <<saved, mine, alive, fate>>

\* Mutant: the evidence is taken before the services are stopped.
CleanupAssumed ==
  /\ command.kind = "start" /\ command.pc = "cleanup"
  /\ \E stuck \in SUBSET {s \in In(mine) : alive[s] = mine.processes[s]} :
       /\ alive' = [s \in Members |-> IF s \in In(mine) \ stuck THEN 0 ELSE alive[s]]
       /\ mine' = Without(mine, Members \ stuck)
       /\ saved' \in {saved, IF stuck = {} THEN NoSession ELSE mine'}
       /\ draft' = [draft EXCEPT !.stage = "completed", !.status = "failed",
                                 !.started = In(mine), !.rolledBack = In(mine),
                                 !.cleanup = "completed"]
  /\ Step("closing")
  /\ UNCHANGED <<history, fate>>

\* rollbackSession.  What resists remains in the session, and what was started
\* and does not remain has been rolled back.
Cleanup ==
  /\ command.kind = "start" /\ command.pc = "cleanup"
  /\ \E stuck \in SUBSET {s \in In(mine) : alive[s] = mine.processes[s]} :
     \E stored \in BOOLEAN :
       /\ alive' = [s \in Members |-> IF s \in In(mine) \ stuck THEN 0 ELSE alive[s]]
       /\ mine' = Without(mine, Members \ stuck)
       /\ saved' = IF ~stored THEN saved ELSE IF stuck = {} THEN NoSession ELSE mine'
       /\ draft' = [draft EXCEPT !.stage = IF stuck = {} /\ stored THEN "completed" ELSE "failed",
                                 !.status = "failed", !.started = In(mine),
                                 !.rolledBack = In(mine) \ stuck, !.remaining = stuck,
                                 !.cleanup = IF stuck = {} /\ stored THEN "completed"
                                             ELSE "incomplete"]
  /\ Step("closing")
  /\ UNCHANGED <<history, fate>>

\* failWithCleanup.
Close ==
  /\ command.pc = "closing"
  /\ \/ history' = Written(<<draft>>) /\ Ends("failed")
     \/ UNCHANGED history /\ Ends("unwritten")
  /\ UNCHANGED <<draft, saved, mine, alive>>

\* rollbackRestartGroup, and cleanupRestartAfterDiagnosticsFailure once the
\* session has taken over the attempt: the one puts the processes of before
\* back into the session, dead as they are, the other takes the targets out.
RestartFails ==
  /\ command.kind = "restart" /\ command.pc = "failing"
  /\ \E stuck \in SUBSET {s \in command.targets : mine.processes[s] = command.id
                                                 /\ alive[s] = command.id} :
     \E stored \in BOOLEAN :
       LET late == mine.attempt = command.id
           back == IF late THEN Without(mine, command.targets \ stuck)
                   ELSE [mine EXCEPT !.processes =
                           [s \in Members |-> IF s \in command.targets \ stuck
                                              THEN command.old.processes[s] ELSE @[s]]]
       IN  /\ alive' = [s \in Members |-> IF s \in command.targets \ stuck THEN 0 ELSE alive[s]]
           /\ mine' = [back EXCEPT !.attempt = command.old.attempt]
           /\ saved' = IF ~stored THEN saved
                       ELSE IF In(mine') = {} THEN NoSession ELSE mine'
  /\ Deferred

\* stop: the logs are archived and every service of the session that is stopped,
\* or resists, is added to its attempt.
StopServices(names) ==
  /\ command.pc = "idle"
  /\ names # {} /\ names \subseteq In(saved)
  /\ \E stuck \in SUBSET {s \in names : alive[s] = saved.processes[s]} :
     \E archived \in {history, Archived(history, saved, IF names = In(saved) THEN {} ELSE names)} :
       LET left == Without(saved, names \ stuck)
       IN  /\ alive' = [s \in Members |-> IF s \in names \ stuck THEN 0 ELSE alive[s]]
           /\ saved' = IF In(left) = {} THEN NoSession ELSE left
           /\ history' = [i \in DOMAIN archived |->
                IF archived[i].id # saved.attempt THEN archived[i]
                ELSE [archived[i] EXCEPT !.stops = (@ \ names) \cup (names \ stuck)]]
  /\ UNCHANGED <<draft, mine, command, fate>>

\* The command is killed, or a service exits.
CommandDies ==
  /\ command.pc # "idle"
  /\ Ends("killed")
  /\ UNCHANGED <<history, draft, saved, mine, alive>>

ProcessDies(s) ==
  /\ alive[s] # 0
  /\ alive' = [alive EXCEPT ![s] = 0]
  /\ UNCHANGED <<history, draft, saved, mine, command, fate>>

RecordNext ==
  \/ \E targets \in (SUBSET Members) \ {{}} :
       \/ \E kind \in {"start", "restart"} : BeginDiagnostics(kind, targets)
       \/ StopServices(targets)
  \/ EarlyFailure \/ Transition \/ StopTargets
  \/ \E s \in Members : Spawn(s) \/ ProcessDies(s)
  \/ SaveSpawned \/ VerifyFails \/ Succeed \/ SucceedRestart
  \/ Failing \/ Cleanup \/ Close \/ RestartFails \/ CommandDies

RecordSpec == RecordInit /\ [][RecordNext]_recordVars
-----------------------------------------------------------------------------
\* The record of a failed start tells what became of the services it started:
\* none that runs on is called rolled back, every one that runs on is listed,
\* and a cleanup that is called complete has left none.  Only an attempt whose
\* command was killed or could not write is left without an end, or with a
\* success it did not have.
RecordIsTrue ==
  \A i \in DOMAIN history :
    LET a    == history[i]
        runs == {s \in Members : alive[s] = a.id}
    IN  /\ a.cleanup # "none" =>
             /\ runs \subseteq a.remaining
             /\ a.rolledBack \cup a.remaining = a.started
             /\ a.rolledBack \cap a.remaining = {}
             /\ a.cleanup = "completed" => a.remaining = {}
        /\ a.status = "running" => fate[a.id] \in {"open", "killed", "unwritten"}
        /\ a.status = "succeeded" => fate[a.id] # "failed"
=============================================================================
