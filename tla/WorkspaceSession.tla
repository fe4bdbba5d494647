-------------------------- MODULE WorkspaceSession --------------------------
(* One workspace: its session file, the operating-system processes of its  *)
(* services, and the commands that start, replace, restart and stop them    *)
(* (internal/runtime/orchestrator.go, restart.go, state.go, process.go).    *)
(*                                                                          *)
(* Every command holds the workspace's flock from beginning to end, so one  *)
(* command runs at a time, in the name of the user (Cli) or of a hot-reload *)
(* watcher. The session file is what the next command knows of the last     *)
(* one: all that runs has to be named there, however a command ends.        *)
(*                                                                          *)
(* A process is <<service, slot>>; a slot is used again once nothing refers *)
(* to it, which keeps the model finite without limiting how long it runs.   *)
EXTENDS Integers, FiniteSets

CONSTANTS
    Service,     \* services of the workspace
    Rank,        \* their startup order, dependencies first
    GroupOf,     \* number of the startup group of each (plan.Groups)
    Persistent,  \* those whose artifact is kept outside the runtime directory
    Slots,       \* processes of one service that are told apart
    Watcher,     \* hot-reload watcher processes
    MaxVersion,  \* contents of a source directory: 0 .. MaxVersion
    MaxOrphans,  \* processes that killed commands may leave unnamed
    Cli,         \* the actor of the commands a user types
    None,
    FaultSets    \* what may go wrong in one behaviour, see below

Proc == Service \X (1 .. Slots)
Version == 0 .. MaxVersion
MaybeVersion == Version \cup {None}
Actor == Watcher \cup {Cli}

(* "commandFails": a build, a health check, a port, an archive of logs;     *)
(* "stopFails": a group survives SIGKILL; "saveFails": session.json cannot  *)
(* be written or removed; "dies": a process exits; "stuck": its leader      *)
(* exits and its group lives on, so that Conven will not signal it;         *)
(* "crash": a command is killed; "edit": a source changes; "revert": it     *)
(* returns to an earlier content; "meanwhile": the user runs another        *)
(* command while he is asked whether to replace the session; "skipBuild":   *)
(* he may give --skip-build to a start or a restart.                        *)
FaultKinds == {"commandFails", "stopFails", "saveFails", "dies", "stuck", "crash", "edit",
               "revert", "meanwhile", "skipBuild"}

ASSUME ConstantsAssumption ==
    /\ Rank \in [Service -> Nat]
    /\ IsFiniteSet(Service)
    /\ \A s, t \in Service : Rank[s] = Rank[t] => s = t
    /\ GroupOf \in [Service -> Nat]
    /\ \A s, t \in Service : Rank[s] < Rank[t] => GroupOf[s] <= GroupOf[t]
    /\ Persistent \subseteq Service
    /\ Slots \in Nat \ {0}
    /\ MaxVersion \in Nat /\ MaxOrphans \in Nat
    /\ Cli \notin Watcher
    /\ None \notin Actor \cup Version
    /\ Watcher \cap Proc = {}
    /\ FaultSets \subseteq SUBSET FaultKinds

VARIABLES
    disk,      \* session.json
    os,        \* processes of services and watchers
    source,    \* content of each source directory
    built,     \* content the last process of each service was made from
    token,     \* the session a user was asked to replace
    pc,        \* next step of the running command, "idle" if none runs
    actor,     \* in whose name it runs
    kind,      \* "start", "restart" or "stop"
    skip,      \* --skip-build: it starts the artifacts it finds
    mem,       \* its copy of the session
    orig,      \* the session it loaded (restart: processes)
    targets,   \* the services it is about
    todo,      \* those its current loop has still to visit
    started,   \* those of the current group it has started
    failed,    \* those it could not stop
    fps,       \* source fingerprints it took
    artifact,  \* content the artifact of each service was built from
    retained,  \* it keeps the previous connection
    forced,    \* --force
    unbuilt,   \* history: services last started by a command told not to build
    orphan,    \* history: processes a killed command left unnamed
    faults     \* what may go wrong in this behaviour

world == <<source, built, unbuilt>>
locals == <<orig, targets, started, fps, artifact, retained, forced>>
command == <<actor, kind, skip>>
rest == <<orphan, faults>>
vars == <<disk, os, world, token, pc, command, mem, locals, todo, failed, rest>>

-----------------------------------------------------------------------------
(* Sessions. services[s] is the slot of the process listed for s, 0 if s is *)
(* not listed; fp[s] is its SourceFingerprint.                              *)

Session == [exists: BOOLEAN, services: [Service -> 0 .. Slots], selected: SUBSET Service,
            fp: [Service -> MaybeVersion], hot: Watcher \cup {None}, conn: BOOLEAN]

NoSlots == [s \in Service |-> 0]
NoVersions == [s \in Service |-> None]
NoSession == [exists |-> FALSE, services |-> NoSlots, selected |-> {},
              fp |-> NoVersions, hot |-> None, conn |-> FALSE]

Listed(x) == {s \in Service : x.services[s] # 0}
Process(x, s) == <<s, x.services[s]>>
Names(x, p) == x.services[p[1]] = p[2]
Up(x) == {s \in Listed(x) : os[Process(x, s)] = "up"}
Stuck(x) == {s \in Listed(x) : os[Process(x, s)] = "stuck"}

(* session.Services = remaining, session.Selected = filterSelectedServices  *)
Keep(x, S) ==
    [x EXCEPT !.services = [s \in Service |-> IF s \in S THEN @[s] ELSE 0],
              !.fp = [s \in Service |-> IF s \in S THEN @[s] ELSE None],
              !.selected = S \cap Listed(x)]

List(x, s, slot, version) ==
    [x EXCEPT !.services[s] = slot, !.fp[s] = version]

(* Nothing the next command would have to know of.                          *)
Vacant(x) == Listed(x) = {} /\ x.hot = None /\ ~x.conn

First(S) == CHOOSE s \in S : \A t \in S : Rank[s] <= Rank[t]
Last(S) == CHOOSE s \in S : \A t \in S : Rank[t] <= Rank[s]

Alive(p) == os[p] # "off"

-----------------------------------------------------------------------------
(* Steps the commands share.                                                *)

Goto(step) == pc' = step

May(fault) == fault \in faults

(* The end of a command: its local variables are gone. *)
Leave ==
    /\ pc' = "idle" /\ actor' = None /\ kind' = "none" /\ skip' = FALSE
    /\ mem' = NoSession /\ orig' = NoSession
    /\ targets' = {} /\ todo' = {} /\ started' = {} /\ failed' = {}
    /\ fps' = NoVersions /\ retained' = FALSE /\ forced' = FALSE

(* It leaves the artifacts x behind. Where every later command builds before *)
(* it starts, they make no difference and are forgotten.                     *)
ReturnWith(x) == Leave /\ artifact' = IF May("skipBuild") THEN x ELSE NoVersions
Return == ReturnWith(artifact)

Save(x) == disk' = x
SaveFails == May("saveFails") /\ UNCHANGED disk

(* Clear when nothing is left, else save; the command ends either way.      *)
SaveOrClear(x) == disk' = IF Vacant(x) THEN NoSession ELSE x

(* StopProcess. A process that is gone counts as stopped; a leaderless      *)
(* group is refused; ForceStopProcessGroup is the second attempt of --force.*)
(* A stop that fails may have cost the group its leader.                    *)
Stops(p) ==
    /\ os[p] # "stuck" \/ forced
    /\ os' = [os EXCEPT ![p] = "off"]

StopFails(p) ==
    /\ os[p] = "stuck" \/ (os[p] = "up" /\ May("stopFails"))
    /\ ~forced \/ May("stopFails")
    /\ UNCHANGED os \/ (os[p] = "up" /\ os' = [os EXCEPT ![p] = "stuck"])

StopsListed(x, s) == IF x.services[s] = 0 THEN UNCHANGED os ELSE Stops(Process(x, s))
StopListedFails(x, s) == x.services[s] # 0 /\ StopFails(Process(x, s))

(* stopHotReloadWatcherLocked: forgets the watcher only when it stopped.    *)
StopsWatcher(x) == IF x.hot = None THEN UNCHANGED os ELSE Stops(x.hot)
StopWatcherFails(x) == x.hot # None /\ StopFails(x.hot)

-----------------------------------------------------------------------------
Init ==
    /\ disk = NoSession
    /\ os = [p \in Proc \cup Watcher |-> "off"]
    /\ source = [s \in Service |-> 0]
    /\ built = NoVersions /\ unbuilt = {}
    /\ token = NoSession
    /\ pc = "idle" /\ actor = None /\ kind = "none" /\ skip = FALSE
    /\ mem = NoSession /\ orig = NoSession
    /\ targets = {} /\ todo = {} /\ started = {} /\ failed = {}
    /\ fps = NoVersions /\ artifact = NoVersions /\ retained = FALSE /\ forced = FALSE
    /\ orphan = {}
    /\ faults \in FaultSets

Begin(who, what, step) ==
    /\ pc = "idle"
    /\ who = Cli /\ token # NoSession => step = "replaceHot" \/ May("meanwhile")
    /\ pc' = step /\ actor' = who /\ kind' = what
    /\ skip' \in (IF May("skipBuild") /\ who = Cli /\ what # "stop" THEN BOOLEAN ELSE {FALSE})
    /\ mem' = disk /\ orig' = disk
    /\ started' = {} /\ failed' = {}
    /\ UNCHANGED artifact

-----------------------------------------------------------------------------
(* start                                                                    *)

(* Services run: the command reports them, with a digest of the session.    *)
AskReplacement ==
    /\ pc = "idle"
    /\ Stuck(disk) = {} /\ Up(disk) # {}
    /\ token' = disk
    /\ UNCHANGED <<disk, os, world, pc, command, mem, locals, todo, failed, rest>>

Decline ==
    /\ pc = "idle"
    /\ token # NoSession
    /\ token' = NoSession
    /\ UNCHANGED <<disk, os, world, pc, command, mem, locals, todo, failed, rest>>

(* validateSkipBuild: a fresh start clears the runtime directory, and with  *)
(* it the artifacts that are in there.                                      *)
ReusesArtifacts(selection) == skip' => selection \subseteq Persistent

(* Mutant: a session counts as stale when one of its services is gone.   *)
StartFreshPartly(selection) ==
    /\ Begin(Cli, "start", "release")
    /\ Stuck(disk) = {} /\ (Up(disk) # Listed(disk) \/ Up(disk) = {})
    /\ ReusesArtifacts(selection)
    /\ targets' = selection /\ todo' = {}
    /\ fps' = NoVersions /\ retained' = FALSE /\ forced' = FALSE
    /\ UNCHANGED <<disk, os, world, token, rest>>

(* Nothing of the saved session runs any more, or there is none.            *)
StartFresh(selection) ==
    /\ Begin(Cli, "start", "release")
    /\ Stuck(disk) = {} /\ Up(disk) = {}
    /\ ReusesArtifacts(selection)
    /\ targets' = selection /\ todo' = {}
    /\ fps' = NoVersions /\ retained' = FALSE /\ forced' = FALSE
    /\ UNCHANGED <<disk, os, world, token, rest>>

(* Mutant: any session is replaced once the user agreed.                 *)
StartReplacementUnchecked(selection) ==
    /\ Begin(Cli, "start", "replaceHot")
    /\ Stuck(disk) = {} /\ Up(disk) # {}
    /\ ReusesArtifacts(selection)
    /\ token # NoSession
    /\ targets' = selection /\ todo' = Listed(disk)
    /\ retained' \in (IF disk.conn THEN BOOLEAN ELSE {FALSE})
    /\ fps' = NoVersions /\ forced' = FALSE
    /\ UNCHANGED <<disk, os, world, token, rest>>

(* ReplaceStart: the user confirmed; the session must still be the one      *)
(* confirmed. A usable managed connection may be retained.                  *)
StartReplacement(selection) ==
    /\ Begin(Cli, "start", "replaceHot")
    /\ Stuck(disk) = {} /\ Up(disk) # {}
    /\ ReusesArtifacts(selection)
    /\ token = disk
    /\ targets' = selection /\ todo' = Listed(disk)
    /\ retained' \in (IF disk.conn THEN BOOLEAN ELSE {FALSE})
    /\ fps' = NoVersions /\ forced' = FALSE
    /\ UNCHANGED <<disk, os, world, token, rest>>

ReplaceHot ==
    /\ pc = "replaceHot"
    /\ UNCHANGED <<disk, world, rest>>
    /\ \/ /\ StopsWatcher(mem)
          /\ mem' = [mem EXCEPT !.hot = None]
          /\ Goto("replaceStop")
          /\ UNCHANGED <<token, command, locals, todo, failed>>
       \/ StopWatcherFails(mem) /\ token' = NoSession /\ Return

(* One round of a loop that stops what is left todo, s first, and remembers *)
(* what it could not stop.                                                  *)
StopTodo(step, s) ==
    /\ pc = step
    /\ todo # {}
    /\ todo' = todo \ {s}
    /\ \/ StopsListed(mem, s) /\ UNCHANGED failed
       \/ StopListedFails(mem, s) /\ failed' = failed \cup {s}
    /\ UNCHANGED <<disk, world, token, pc, command, mem, locals, rest>>

ReplaceStop == StopTodo("replaceStop", Last(todo))

ReplaceSave ==
    /\ pc = "replaceStop" /\ todo = {}
    /\ token' = NoSession
    /\ UNCHANGED <<os, world, rest>>
    /\ \/ SaveFails /\ Return
       \/ /\ Save(Keep(mem, failed))
          /\ \/ /\ failed = {}
                /\ mem' = Keep(mem, {})
                /\ Goto("release")
                /\ UNCHANGED <<command, locals, todo, failed>>
             \/ (failed # {} \/ May("commandFails")) /\ Return

(* The previous connection is released unless it is retained.               *)
ReleaseOld ==
    /\ pc = "release"
    /\ UNCHANGED <<disk, os, world, token, rest>>
    /\ \/ /\ mem' = [mem EXCEPT !.conn = @ /\ retained]
          /\ Goto("clear")
          /\ UNCHANGED <<command, locals, todo, failed>>
       \/ May("commandFails") /\ Return

(* Clear and ResetCurrent; then the endpoints are checked.                  *)
Reset == [s \in Service |-> IF s \in Persistent THEN artifact[s] ELSE None]

ClearOld ==
    /\ pc = "clear"
    /\ UNCHANGED <<os, world, token, rest>>
    /\ \/ ~retained /\ SaveFails /\ Return
       \/ /\ disk' = IF retained THEN disk ELSE NoSession
          /\ \/ /\ artifact' = Reset
                /\ Goto("connect")
                /\ UNCHANGED <<command, mem, orig, targets, started, fps, retained, forced,
                               todo, failed>>
             \/ May("commandFails") /\ ReturnWith(Reset)

(* EnsureConnection. It may fail and leave a process that could not be      *)
(* stopped, which a session of its own then preserves.                      *)
Connect ==
    /\ pc = "connect"
    /\ UNCHANGED <<os, world, token, rest>>
    /\ \E connected, same \in BOOLEAN :
        \/ /\ same => connected
           /\ mem' = [NoSession EXCEPT !.exists = TRUE, !.selected = targets, !.conn = connected]
           /\ retained' = (retained /\ same)
           /\ Goto("saveNew")
           /\ UNCHANGED <<disk, command, orig, targets, started, fps, artifact, forced, todo, failed>>
        \/ /\ May("commandFails")
           /\ IF connected /\ ~(retained /\ same)
                 THEN Save([NoSession EXCEPT !.exists = TRUE, !.conn = TRUE]) \/ SaveFails
                 ELSE UNCHANGED disk
           /\ Return

SaveNew ==
    /\ pc = "saveNew"
    /\ UNCHANGED <<os, world, token, rest>>
    /\ \/ /\ Save(mem)
          /\ todo' = targets
          /\ Goto("fingerprint")
          /\ UNCHANGED <<command, mem, locals, failed>>
       \/ SaveFails /\ Return

-----------------------------------------------------------------------------
(* Preparing, building and starting: start and restart alike.               *)

(* start leaves through a rollback of the session, restart has nothing to   *)
(* undo before it starts a process.                                         *)
Rollback == /\ Goto("rollbackHot")
            /\ UNCHANGED <<command, mem, locals, todo, failed>>

RollbackGroup == /\ Goto("restore")
                 /\ todo' = started
                 /\ UNCHANGED <<command, mem, locals, failed>>

Abort == IF kind = "start" THEN Rollback ELSE Return
Undo == IF kind = "start" THEN Rollback ELSE RollbackGroup

Fingerprint ==
    /\ pc = "fingerprint"
    /\ fps' = [fps EXCEPT ![First(todo)] = source[First(todo)]]
    /\ Goto("build")
    /\ UNCHANGED <<disk, os, world, token, command, mem, orig, targets, started, artifact,
                   retained, forced, todo, failed, rest>>

(* Build of one service, or not with --skip-build: its fingerprint has been *)
(* taken all the same.                                                      *)
Build ==
    /\ pc = "build"
    /\ LET s == First(todo) IN
        /\ artifact' = IF skip THEN artifact ELSE [artifact EXCEPT ![s] = source[s]]
        /\ IF todo # {s}
              THEN /\ todo' = todo \ {s}
                   /\ Goto(IF kind = "start" THEN "fingerprint" ELSE "build")
              ELSE /\ todo' = targets
                   /\ Goto(IF kind = "start" THEN "start" ELSE "restartStop")
    /\ UNCHANGED <<disk, os, world, token, command, mem, orig, targets, started, fps,
                   retained, forced, failed, rest>>

(* Materializing, preflight, preparing, building: what fails before any     *)
(* process is touched.                                                      *)
PrepareFails ==
    /\ pc \in {"fingerprint", "build"}
    /\ May("commandFails")
    /\ Abort
    /\ UNCHANGED <<disk, os, world, token, rest>>

(* A slot nothing refers to.                                                *)
FreeSlot(s) ==
    {i \in 1 .. Slots : /\ ~Alive(<<s, i>>)
                        /\ \A x \in {disk, mem, orig, token} : x.services[s] # i}

(* StartService. A restart reuses the log of the listed process, and fails  *)
(* without one; nothing starts without an artifact. The fingerprint of a    *)
(* restarted service stays that of its predecessor until its group has been *)
(* verified.                                                                *)
StartService ==
    /\ pc = "start"
    /\ LET s == First(todo) IN
        /\ kind = "start" \/ orig.services[s] # 0
        /\ artifact[s] # None
        /\ \E i \in FreeSlot(s) :
            /\ \A j \in FreeSlot(s) : i <= j
            /\ os' = [os EXCEPT ![<<s, i>>] = "up"]
            /\ built' = [built EXCEPT ![s] = artifact[s]]
            /\ unbuilt' = IF skip THEN unbuilt \cup {s} ELSE unbuilt \ {s}
            /\ mem' = List(mem, s, i, IF kind = "start" THEN None ELSE orig.fp[s])
            /\ started' = started \cup {s}
            /\ todo' = todo \ {s}
            /\ orphan' = orphan \ {<<s, i>>}
    /\ Goto("saveStarted")
    /\ UNCHANGED <<disk, source, token, command, orig, targets, fps, artifact, retained,
                   forced, failed, faults>>

(* Ports, registry, isolation evidence, cancellation; a missing log or      *)
(* artifact.                                                                *)
StartServiceFails ==
    /\ pc = "start"
    /\ \/ May("commandFails")
       \/ kind = "restart" /\ orig.services[First(todo)] = 0
       \/ artifact[First(todo)] = None
    /\ Undo
    /\ UNCHANGED <<disk, os, world, token, rest>>

(* Mutant: a session that cannot be saved just ends the command.         *)
SaveStartedReturning ==
    /\ pc = "saveStarted"
    /\ UNCHANGED <<os, world, token, rest>>
    /\ \/ /\ Save(mem)
          /\ Goto(IF \E s \in todo, t \in started : GroupOf[s] = GroupOf[t]
                     THEN "start" ELSE "verify")
          /\ UNCHANGED <<command, mem, locals, todo, failed>>
       \/ SaveFails /\ Return

SaveStarted ==
    /\ pc = "saveStarted"
    /\ UNCHANGED <<os, world, token, rest>>
    /\ \/ /\ Save(mem)
          /\ Goto(IF \E s \in todo, t \in started : GroupOf[s] = GroupOf[t]
                     THEN "start" ELSE "verify")
          /\ UNCHANGED <<command, mem, locals, todo, failed>>
       \/ SaveFails /\ Undo

(* Mutant: the fingerprints are taken when the group is healthy.         *)
VerifyCurrent ==
    /\ pc = "verify"
    /\ LET verified == [mem EXCEPT !.fp =
                           [s \in Service |-> IF s \in started THEN source[s] ELSE @[s]]]
       IN
        /\ UNCHANGED <<os, world, token, rest>>
        /\ \/ /\ Save(verified)
              /\ mem' = verified
              /\ started' = {}
              /\ Goto(IF todo # {} THEN "start" ELSE IF kind = "start" THEN "final" ELSE "hot")
              /\ UNCHANGED <<command, orig, targets, fps, artifact, retained, forced, todo, failed>>
           \/ SaveFails /\ Abort

(* The group is healthy: its fingerprints are recorded.                     *)
Verify ==
    /\ pc = "verify"
    /\ LET verified == [mem EXCEPT !.fp =
                           [s \in Service |-> IF s \in started THEN fps[s] ELSE @[s]]]
       IN
        /\ UNCHANGED <<os, world, token, rest>>
        /\ \/ /\ Save(verified)
              /\ mem' = verified
              /\ started' = {}
              /\ Goto(IF todo # {} THEN "start" ELSE IF kind = "start" THEN "final" ELSE "hot")
              /\ UNCHANGED <<command, orig, targets, fps, artifact, retained, forced, todo, failed>>
           \/ SaveFails /\ Abort

VerifyFails ==
    /\ pc = "verify"
    /\ May("commandFails") \/ May("saveFails")
    /\ Undo
    /\ UNCHANGED <<disk, os, world, token, rest>>

(* Everything that was started still runs.                                  *)
FinalCheck ==
    /\ pc = "final"
    /\ UNCHANGED <<os, world, token, rest>>
    /\ \/ /\ Up(mem) = Listed(mem)
          /\ Save(mem)
          /\ Goto("hot")
          /\ UNCHANGED <<command, mem, locals, todo, failed>>
       \/ Up(mem) # Listed(mem) /\ UNCHANGED disk /\ Rollback
       \/ (SaveFails \/ (May("commandFails") /\ UNCHANGED disk)) /\ Rollback

(* ensureHotReloadWatcherLocked. A watcher's own restart names no           *)
(* executable and leaves the watcher alone.                                 *)
WatcherKept ==
    /\ pc = "hot"
    /\ actor # Cli \/ (mem.hot # None /\ os[mem.hot] = "up")
    /\ Goto("finish")
    /\ UNCHANGED <<disk, os, world, token, command, mem, locals, todo, failed, rest>>

StartWatcher ==
    /\ pc = "hot" /\ actor = Cli
    /\ mem.hot \in {None} \cup {h \in Watcher : os[h] = "off"}
    /\ \E h \in Watcher :
        /\ os[h] = "off" /\ disk.hot # h
        /\ os' = [os EXCEPT ![h] = "up"]
        /\ mem' = [mem EXCEPT !.hot = h]
    /\ Goto("saveHot")
    /\ UNCHANGED <<disk, world, token, command, locals, todo, failed, rest>>

StartWatcherFails ==
    /\ pc = "hot" /\ actor = Cli
    /\ \/ mem.hot # None /\ os[mem.hot] = "stuck"
       \/ mem.hot = None /\ May("commandFails")
    /\ Abort
    /\ UNCHANGED <<disk, os, world, token, rest>>

SaveHot ==
    /\ pc = "saveHot"
    /\ UNCHANGED <<world, token, rest>>
    /\ \/ /\ Save(mem)
          /\ Goto("finish")
          /\ UNCHANGED <<os, command, mem, locals, todo, failed>>
       \/ /\ SaveFails
          /\ StopsWatcher(mem) \/ StopWatcherFails(mem)
          /\ IF kind = "start"
                THEN /\ mem' = [mem EXCEPT !.hot = None]
                     /\ Goto("rollbackHot")
                     /\ UNCHANGED <<command, locals, todo, failed>>
                ELSE Return

(* A restart that changed nothing ends here; otherwise the session and the  *)
(* diagnostics are completed, and what was restarted is stopped again when  *)
(* that fails.                                                              *)
FinishStart ==
    /\ pc = "finish" /\ kind = "start"
    /\ Return \/ (May("commandFails") /\ Rollback)
    /\ UNCHANGED <<disk, os, world, token, rest>>

FinishRestart ==
    /\ pc = "finish" /\ kind = "restart"
    /\ UNCHANGED <<os, world, token, rest>>
    /\ \/ targets = {} /\ UNCHANGED disk /\ Return
       \/ targets # {} /\ Save(mem) /\ Return
       \/ /\ targets # {}
          /\ (May("commandFails") /\ Save(mem)) \/ SaveFails
          /\ Goto("cleanupHot")
          /\ UNCHANGED <<command, mem, locals, todo, failed>>

-----------------------------------------------------------------------------
(* rollbackSession: what could not be stopped or released stays listed.     *)

(* Mutant: only the last group is rolled back.                           *)
RollbackHotGroup ==
    /\ pc = "rollbackHot"
    /\ \/ StopsWatcher(mem) /\ mem' = [mem EXCEPT !.hot = None]
       \/ StopWatcherFails(mem) /\ UNCHANGED mem
    /\ todo' = started /\ failed' = {}
    /\ Goto("rollbackStop")
    /\ UNCHANGED <<disk, world, token, command, locals, rest>>

RollbackHot ==
    /\ pc = "rollbackHot"
    /\ \/ StopsWatcher(mem) /\ mem' = [mem EXCEPT !.hot = None]
       \/ StopWatcherFails(mem) /\ UNCHANGED mem
    /\ todo' = Listed(mem) /\ failed' = {}
    /\ Goto("rollbackStop")
    /\ UNCHANGED <<disk, world, token, command, locals, rest>>

RollbackStop == StopTodo("rollbackStop", Last(todo))

RollbackSave ==
    /\ pc = "rollbackStop" /\ todo = {}
    /\ \E kept \in (IF May("stopFails") \/ retained THEN BOOLEAN ELSE {FALSE}) :
        /\ retained => kept
        /\ SaveOrClear([Keep(mem, failed) EXCEPT !.conn = @ /\ kept]) \/ SaveFails
    /\ Return
    /\ UNCHANGED <<os, world, token, rest>>

(* rollbackRestartGroup: the services of the group it started are stopped,  *)
(* and their predecessors, which no longer run, are listed again.           *)
RestoreStop ==
    /\ pc = "restore" /\ todo # {}
    /\ LET s == Last(todo) IN
        /\ todo' = todo \ {s}
        /\ \/ /\ StopsListed(mem, s)
              /\ mem' = List(mem, s, orig.services[s], orig.fp[s])
           \/ StopListedFails(mem, s) /\ UNCHANGED mem
    /\ UNCHANGED <<disk, world, token, pc, command, locals, failed, rest>>

RestoreSave ==
    /\ pc = "restore" /\ todo = {}
    /\ Save(mem) \/ SaveFails
    /\ Return
    /\ UNCHANGED <<os, world, token, rest>>

(* Killed by a signal: the flock is free, and nobody knows of a process     *)
(* that only the command's copy of the session named.                       *)
Killed ==
    /\ Return
    /\ orphan' = orphan \cup {p \in Proc : Alive(p) /\ Names(mem, p) /\ ~Names(disk, p)}
    /\ UNCHANGED faults

(* cleanupRestartAfterDiagnosticsFailure. A watcher whose own restart gets  *)
(* here signals its own process group, waits for itself, and ends by its    *)
(* own SIGKILL.                                                             *)
CleanupHot ==
    /\ pc = "cleanupHot"
    /\ IF mem.hot = actor
          THEN /\ os' = [os EXCEPT ![actor] = "off"]
               /\ Killed
          ELSE /\ \/ StopsWatcher(mem) /\ mem' = [mem EXCEPT !.hot = None]
                  \/ StopWatcherFails(mem) /\ UNCHANGED mem
               /\ todo' = targets \cap Listed(mem)
               /\ Goto("cleanupStop")
               /\ UNCHANGED <<command, locals, failed, rest>>
    /\ UNCHANGED <<disk, world, token>>

CleanupStop == StopTodo("cleanupStop", First(todo))

(* Mutant: only what could not be stopped is kept.                       *)
CleanupSaveFailed ==
    /\ pc = "cleanupStop" /\ todo = {}
    /\ SaveOrClear(Keep(mem, failed)) \/ SaveFails
    /\ Return
    /\ UNCHANGED <<os, world, token, rest>>

CleanupSave ==
    /\ pc = "cleanupStop" /\ todo = {}
    /\ SaveOrClear(Keep(mem, (Listed(mem) \ targets) \cup failed)) \/ SaveFails
    /\ Return
    /\ UNCHANGED <<os, world, token, rest>>

-----------------------------------------------------------------------------
(* stop                                                                     *)

Stop(names, all, force) ==
    /\ Begin(Cli, "stop", IF all THEN "stopHot" ELSE "stopServices")
    /\ disk.exists
    /\ IF all THEN names = Listed(disk) ELSE names # {} /\ names \subseteq Listed(disk)
    /\ targets' = names /\ todo' = names
    /\ force => May("stuck") \/ May("stopFails")
    /\ forced' = force
    /\ fps' = NoVersions /\ retained' = FALSE
    /\ UNCHANGED <<disk, os, world, token, rest>>

(* --all stops the watcher first, and gives up if it cannot.                *)
StopHot ==
    /\ pc = "stopHot"
    /\ UNCHANGED <<disk, world, token, rest>>
    /\ \/ /\ StopsWatcher(mem)
          /\ mem' = [mem EXCEPT !.hot = None]
          /\ Goto("stopServices")
          /\ UNCHANGED <<command, locals, todo, failed>>
       \/ StopWatcherFails(mem) /\ Return

StopServices == StopTodo("stopServices", Last(todo))

(* The last service gone, the watcher and the connection go too.            *)
StopLast ==
    /\ pc = "stopServices" /\ todo = {}
    /\ LET left == Keep(mem, (Listed(mem) \ targets) \cup failed) IN
        \/ Listed(left) # {} /\ mem' = left /\ UNCHANGED os
        \/ /\ Listed(left) = {}
           /\ \E kept \in (IF May("stopFails") THEN BOOLEAN ELSE {FALSE}) :
                \/ StopsWatcher(mem) /\ mem' = [left EXCEPT !.hot = None, !.conn = @ /\ kept]
                \/ StopWatcherFails(mem) /\ mem' = [left EXCEPT !.conn = @ /\ kept]
    /\ Goto("stopSave")
    /\ UNCHANGED <<disk, world, token, command, locals, todo, failed, rest>>

StopSave ==
    /\ pc = "stopSave"
    /\ SaveOrClear(mem) \/ SaveFails
    /\ Return
    /\ UNCHANGED <<os, world, token, rest>>

-----------------------------------------------------------------------------
(* restart                                                                  *)

(* The plan of a restart: session.Selected, the listed services if empty.   *)
Planned(x) == IF x.selected # {} THEN x.selected ELSE Listed(x)

(* restartTargets. Without names, every planned process must be verifiable, *)
(* and the services that exited or whose source or plan changed are taken.  *)
RestartTargets(requested, replanned) ==
    IF requested # {} THEN requested
    ELSE {s \in Planned(disk) : s \notin Up(disk) \/ disk.fp[s] # source[s] \/ s \in replanned}

Restart(who, requested, replanned) ==
    LET chosen == RestartTargets(requested, replanned) IN
    /\ Begin(who, "restart", IF chosen = {} THEN "hot" ELSE "build")
    /\ Listed(disk) # {}
    /\ requested \subseteq Planned(disk)
    /\ requested = {} => Stuck(disk) = {}
    /\ targets' = chosen /\ todo' = chosen
    /\ fps' = [s \in Service |-> IF s \in chosen THEN source[s] ELSE None]
    /\ retained' = FALSE /\ forced' = FALSE
    /\ UNCHANGED <<disk, os, world, token, rest>>

RestartStop ==
    /\ pc = "restartStop" /\ todo # {}
    /\ UNCHANGED <<disk, world, token, rest>>
    /\ LET s == Last(todo) IN
        \/ /\ StopsListed(mem, s)
           /\ IF todo = {s} THEN todo' = targets /\ Goto("start")
                            ELSE todo' = todo \ {s} /\ Goto("restartStop")
           /\ UNCHANGED <<command, mem, locals, failed>>
        \/ StopListedFails(mem, s) /\ Return
        \/ May("commandFails") /\ (StopsListed(mem, s) \/ UNCHANGED os) /\ Return

-----------------------------------------------------------------------------
(* The environment.                                                         *)

Unaffected == UNCHANGED <<disk, token, pc, command, mem, locals, todo, failed, rest>>

(* A service exits, or its leader does and its group lives on for a while.  *)
ProcessEnds(p) ==
    /\ p # actor
    /\ \/ os[p] = "up" /\ May("dies") /\ os' = [os EXCEPT ![p] = "off"]
       \/ os[p] = "up" /\ May("stuck") /\ os' = [os EXCEPT ![p] = "stuck"]
       \/ os[p] = "stuck" /\ os' = [os EXCEPT ![p] = "off"]
    /\ UNCHANGED world /\ Unaffected

(* A watcher ends by itself when it finds that it is not registered.        *)
WatcherExits(h) ==
    /\ os[h] = "up" /\ h # actor
    /\ os' = [os EXCEPT ![h] = "off"]
    /\ UNCHANGED world /\ Unaffected

Edit(s) ==
    /\ \E v \in Version :
        /\ (v = source[s] + 1 /\ May("edit")) \/ (v # source[s] /\ May("revert"))
        /\ source' = [source EXCEPT ![s] = v]
    /\ UNCHANGED <<os, built, unbuilt>> /\ Unaffected

Crash ==
    /\ May("crash")
    /\ pc # "idle"
    /\ Killed
    /\ Cardinality(orphan') <= MaxOrphans
    /\ os' = IF actor = Cli THEN os ELSE [os EXCEPT ![actor] = "off"]
    /\ token' = IF pc \in {"replaceHot", "replaceStop"} THEN NoSession ELSE token
    /\ UNCHANGED <<disk, world>>

-----------------------------------------------------------------------------
Step ==
    \/ ReplaceHot \/ ReplaceStop \/ ReplaceSave \/ ReleaseOld \/ ClearOld \/ Connect
    \/ SaveNew \/ Fingerprint \/ Build \/ PrepareFails
    \/ StartService \/ StartServiceFails \/ SaveStarted \/ Verify \/ VerifyFails
    \/ FinalCheck \/ WatcherKept \/ StartWatcher \/ StartWatcherFails \/ SaveHot
    \/ FinishStart \/ FinishRestart
    \/ RollbackHot \/ RollbackStop \/ RollbackSave \/ RestoreStop \/ RestoreSave
    \/ CleanupHot \/ CleanupStop \/ CleanupSave
    \/ StopHot \/ StopServices \/ StopLast \/ StopSave
    \/ RestartStop

UserCommand ==
    \/ AskReplacement \/ Decline
    \/ \E S \in (SUBSET Service) \ {{}} : StartFresh(S) \/ StartReplacement(S)
    \/ \E S \in SUBSET Service, all, force \in BOOLEAN : Stop(S, all, force)
    \/ \E S, replanned \in SUBSET Service : Restart(Cli, S, replanned)

WatcherRestarts == \E h \in Watcher, s \in Service : os[h] = "up" /\ Restart(h, {s}, {})

Environment ==
    \/ \E p \in Proc : ProcessEnds(p)
    \/ \E h \in Watcher : ProcessEnds(h) \/ WatcherExits(h)
    \/ \E s \in Service : Edit(s)
    \/ Crash

Next == Step \/ UserCommand \/ WatcherRestarts \/ Environment

Spec == Init /\ [][Next]_vars

-----------------------------------------------------------------------------
(* Properties                                                               *)

(* The shape of the state: the session file, the processes and the command.*)
(* A session has a fingerprint of the services it lists only; a command has *)
(* an actor while it runs; a loop has work left or has reached its end.     *)
TypeOK ==
    /\ disk \in Session /\ mem \in Session /\ orig \in Session /\ token \in Session
    /\ \A x \in {disk, mem, orig, token} : \A s \in Service \ Listed(x) : x.fp[s] = None
    /\ pc = "idle" <=> actor = None
    /\ pc \in {"fingerprint", "build", "start", "restartStop"} => todo # {}
    /\ os \in [Proc \cup Watcher -> {"off", "up", "stuck"}]
    /\ source \in [Service -> Version]
    /\ artifact \in [Service -> MaybeVersion]
    /\ built \in [Service -> MaybeVersion] /\ unbuilt \subseteq Service
    /\ skip \in BOOLEAN
    /\ pc \in {"idle", "replaceHot", "replaceStop", "release", "clear", "connect", "saveNew",
               "fingerprint", "build", "start", "saveStarted", "verify", "final", "hot",
               "saveHot", "finish", "rollbackHot", "rollbackStop", "restore", "cleanupHot",
               "cleanupStop", "stopHot", "stopServices", "stopSave", "restartStop"}
    /\ actor \in Actor \cup {None}
    /\ kind \in {"none", "start", "restart", "stop"}
    /\ targets \subseteq Service /\ todo \subseteq Service
    /\ started \subseteq Service /\ failed \subseteq Service
    /\ fps \in [Service -> MaybeVersion]
    /\ retained \in BOOLEAN /\ forced \in BOOLEAN
    /\ orphan \subseteq Proc
    /\ faults \in FaultSets

(* Whatever command ran and however it ended, a service process that is     *)
(* alive is named by the session file, or by the command that is running,   *)
(* unless a command was killed right after it had started the process.      *)
NoLostService ==
    \A p \in Proc : Alive(p) =>
        Names(disk, p) \/ (pc # "idle" /\ Names(mem, p)) \/ p \in orphan

(* A service never runs twice: a start or a restart puts a new process in   *)
(* place of one that is gone.                                               *)
SingleInstance ==
    \A s \in Service : \A i, j \in 1 .. Slots :
        (Alive(<<s, i>>) /\ Alive(<<s, j>>) /\ i # j) => {<<s, i>>, <<s, j>>} \cap orphan # {}

(* The fingerprint the session records for a service is never newer than    *)
(* the source its running process was built from, so that a restart or the  *)
(* watcher cannot take a stale process for an up-to-date one. A service     *)
(* last started with --skip-build is left out: the code records the source  *)
(* of that moment for it, whatever its artifact was built from.             *)
NoStaleFingerprint ==
    \A s \in Up(disk) \ unbuilt :
        disk.fp[s] # None => built[s] # None /\ disk.fp[s] <= built[s]

(* A start that is not killed leaves all services it was asked for and the  *)
(* watcher in the session, or nothing of what it started but the processes  *)
(* that it could not stop, and these in the session.                        *)
StartAllOrNothing ==
    [][(kind = "start" /\ pc # "idle" /\ pc' = "idle" /\ ~Crash) =>
        \/ disk' = mem /\ Listed(mem) = targets /\ mem.hot # None
        \/ \A s \in Listed(mem) : (mem.services[s] # orig.services[s]) =>
             \/ os'[Process(mem, s)] = "off"
             \/ s \in failed /\ disk'.services[s] = mem.services[s]]_vars

(* A replacing start stops the processes of the session that the user was   *)
(* shown, and no others.                                                    *)
ReplacementConfirmed ==
    [][\A s \in Service : (pc = "replaceStop" /\ s \in todo /\ s \notin todo') =>
          mem.services[s] = token.services[s]]_vars

(* A restart leaves the session's entry of a service that is not one of its *)
(* targets alone, also when it fails, rolls back or cleans up.              *)
RestartSpares ==
    [][kind = "restart" =>
         \A s \in Service \ targets : disk'.services[s] = disk.services[s]]_vars
=============================================================================
