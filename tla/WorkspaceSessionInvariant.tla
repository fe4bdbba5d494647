---------------------- MODULE WorkspaceSessionInvariant ----------------------
(***************************************************************************)
(* Why the commands of one workspace lose nothing: the inductive invariant *)
(* of WorkspaceSession, by its named parts, from which NoLostService,      *)
(* SingleInstance, NoStaleFingerprint, RestartSpares, ReplacementConfirmed *)
(* and StartAllOrNothing follow.                                           *)
(***************************************************************************)
EXTENDS WorkspaceSession

(* A process that could not be stopped is remembered by writing the session *)
(* file; when that cannot be written either, nothing remembers it. The two  *)
(* faults do not come together.                                             *)
StopsOrSaves == May("saveFails") => ~May("stopFails") /\ ~May("stuck")

(* Sources only change to contents they did not have before.                *)
NoReverts == ~May("revert")

-----------------------------------------------------------------------------
(* Which command is at which step, and on which services. Both a start and  *)
(* a restart prepare, build, start and verify.                              *)
OfStart == {"replaceHot", "replaceStop", "release", "clear", "connect", "saveNew",
            "fingerprint", "final", "rollbackHot", "rollbackStop"}
OfRestart == {"restartStop", "restore", "cleanupHot", "cleanupStop"}
OfStop == {"stopHot", "stopServices", "stopSave"}
Starting == {"start", "saveStarted", "verify"}
Building == {"fingerprint", "build"}
Finishing == {"hot", "saveHot", "finish"}
Replacing == {"replaceHot", "replaceStop", "release", "clear", "connect", "saveNew"}
BeforeStart == Replacing \cup Building \cup {"restartStop"}

KindInv ==
    /\ pc = "idle" => kind = "none"
    /\ pc \in OfStart => kind = "start"
    /\ pc \in OfRestart => kind = "restart"
    /\ pc \in OfStop => kind = "stop"
    /\ pc \in {"build"} \cup Starting \cup Finishing => kind \in {"start", "restart"}
    /\ kind \in {"start", "stop"} => actor = Cli

(* A start has targets. Work left is work on the targets, and what has been *)
(* started is one of them and listed.                                       *)
WorkInv ==
    /\ kind = "start" => targets # {}
    /\ pc \in Building \cup Starting \cup {"restartStop", "restore"} => todo \subseteq targets
    /\ started \subseteq targets
    /\ pc \in Starting => started \subseteq Listed(mem)
    /\ pc \in BeforeStart => started = {}

-----------------------------------------------------------------------------
(* No process is lost.                                                      *)

(* Without those faults nothing resists being stopped.                      *)
ResistInv ==
    ~May("stopFails") /\ ~May("stuck") =>
        /\ \A p \in Proc : os[p] # "stuck"
        /\ pc = "rollbackStop" => failed = {}

(* Between two commands the file names every process that is alive; while a *)
(* command runs, its copy does.                                             *)
Knows(x, p) == p \in orphan \/ Names(x, p)

KnownInv ==
    \A p \in Proc : Alive(p) => Knows(IF pc = "idle" THEN disk ELSE mem, p)

(* What runs of s and is in the command's copy is in the file.              *)
Saved(s) ==
    mem.services[s] # 0 /\ Alive(Process(mem, s)) =>
        disk.services[s] = mem.services[s] \/ Process(mem, s) \in orphan

(* The command may end without writing the file, at every step but these.   *)
SavedInv ==
    /\ pc \notin {"saveStarted", "restore", "rollbackHot", "rollbackStop"} =>
          \A s \in Service : Saved(s)
    /\ pc = "saveStarted" => \A s \in Service \ started : Saved(s)
    /\ pc = "restore" /\ May("saveFails") => \A s \in Service \ todo : Saved(s)

(* No process of the services in S is alive, but what killed commands left. *)
Down(S) == \A p \in Proc : p[1] \in S /\ Alive(p) => p \in orphan

Quiet == {"release", "clear", "connect", "saveNew", "fingerprint"}

DownInv ==
    /\ pc \in {"replaceHot", "replaceStop", "rollbackStop"} => Down(Service \ (todo \cup failed))
    /\ pc \in Quiet => Down(Service)
    /\ pc = "build" /\ kind = "start" => Down(Service)
    /\ pc = "restartStop" => Down(targets \ todo)
    /\ pc \in Starting => Down(todo)
    /\ pc \in {"stopHot", "stopServices", "cleanupStop"} => Down(targets \ (todo \cup failed))

-----------------------------------------------------------------------------
(* The sessions a command has before it: the file, its copy, the one it     *)
(* found and the one the user was shown.                                    *)

(* A replacing start works on the session the user was shown.               *)
ShownInv ==
    pc \in {"replaceHot", "replaceStop"} =>
        /\ mem.services = token.services
        /\ mem.services = orig.services

(* Until a start lists processes of its own, it lists those it found; from  *)
(* then on it lists the targets that are not left to start.                 *)
StartInv ==
    /\ pc \in {"release", "clear", "connect"} => mem.services \in {orig.services, NoSlots}
    /\ pc = "saveNew" => mem.services = NoSlots
    /\ kind = "start" =>
          /\ pc \in Building => mem.services = NoSlots /\ disk.services = NoSlots
          /\ pc \in Starting => Listed(mem) = targets \ todo
          /\ pc \in {"final"} \cup Finishing => Listed(mem) = targets
          /\ pc = "saveHot" => mem.hot # None
          /\ pc \in {"hot", "finish"} => disk = mem
          /\ pc = "finish" => mem.hot # None
    /\ pc = "rollbackStop" =>
          \A s \in Listed(mem) \ (todo \cup failed) : os[Process(mem, s)] = "off"

(* A restart leaves alone what it is not about.                             *)
RestartInv ==
    /\ kind = "restart" => \A s \in Service \ targets : mem.services[s] = disk.services[s]
    /\ pc \in {"build", "restartStop"} /\ kind = "restart" =>
          mem.services = disk.services /\ mem.services = orig.services

-----------------------------------------------------------------------------
(* A fingerprint is no newer than what its process was built from.          *)

NoNewer(v, w) == v # None => w # None /\ v <= w

(* Nothing a session records is newer than the source, and what it records  *)
(* of a service whose process runs no newer than what that was built from.  *)
Dated(x) == \A s \in Service : x.fp[s] # None => x.fp[s] <= source[s]

FreshSession(x) == Dated(x) /\ \A s \in Up(x) \ unbuilt : NoNewer(x.fp[s], built[s])

(* What a command built was made after its fingerprint and after the one it *)
(* found in the session.                                                    *)
BuiltAfter(s) == NoNewer(fps[s], artifact[s]) /\ NoNewer(orig.fp[s], artifact[s])

ArtifactInv ==
    /\ \A s \in Service : fps[s] # None => fps[s] <= source[s]
    /\ pc \in Building /\ ~skip => \A s \in targets \ todo : BuiltAfter(s)
    /\ pc \in Starting \cup {"restartStop"} /\ ~skip => \A s \in targets : BuiltAfter(s)
    /\ pc \in Starting => \A s \in started :
          /\ built[s] = artifact[s]
          /\ s \in unbuilt <=> skip

(* The process a service had is gone before a new one is built for it.      *)
Gone(x, s) == x.services[s] # 0 => os[Process(x, s)] = "off"

GoneInv ==
    /\ pc \in Starting => \A s \in todo :
          /\ mem.services[s] = disk.services[s]
          /\ kind = "start" => mem.services[s] = 0
          /\ kind = "restart" => mem.services[s] = orig.services[s]
    /\ kind = "restart" /\ pc = "restartStop" => \A s \in targets \ todo : Gone(orig, s)
    /\ kind = "restart" /\ pc \in Starting \cup {"restore"} => \A s \in targets : Gone(orig, s)

FreshInv ==
    /\ FreshSession(disk) /\ FreshSession(mem)
    /\ Dated(orig)
    /\ kind = "restart" => FreshSession(orig)

-----------------------------------------------------------------------------
LossInv == ResistInv /\ (StopsOrSaves => KnownInv /\ SavedInv /\ DownInv)
SessionsInv == ShownInv /\ StartInv /\ RestartInv /\ GoneInv
SourceInv == NoReverts => ArtifactInv /\ FreshInv

IInv == TypeOK /\ KindInv /\ WorkInv /\ LossInv /\ SessionsInv /\ SourceInv
=============================================================================
