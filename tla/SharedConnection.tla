-------------------------- MODULE SharedConnection --------------------------
(***************************************************************************)
(* The connection registry that all workspaces of one user share         *)
(* (internal/runtime/connection.go) and the commands of                  *)
(* internal/runtime/orchestrator.go and restart.go that lease, renew,    *)
(* release and recover connections.                                      *)
(*                                                                       *)
(* A workspace runs at most one command at a time: the command owns the  *)
(* workspace's flock from its first to its last step, so pc[w] # "idle"  *)
(* stands for "the flock of w is held".  Commands of different workspaces*)
(* interleave; connLock is the flock of ~/.conven/state/connections, and *)
(* scan is what the command that holds it has read and decided so far.   *)
(***************************************************************************)
EXTENDS FiniteSets, Integers

CONSTANTS Workspace,      \* workspace state roots
          Fingerprint,    \* fingerprints of connection configurations
          Ktctl,          \* those whose driver is ktctl
          Proc,           \* identities (PID, PGID, start time) of connection commands
          FingerprintOf,  \* the configuration each identity is started for
          Path,           \* executable files
          Executable,     \* the one a workspace finds for the command of a configuration
          ExecutableOf,   \* the one ps shows of an identity with a connect argument
          None,
          Faults          \* what may go wrong in the environment

FaultKinds == {"crash", "servicesDie", "connectionDies", "pidReuse", "stopFails", "saveFails"}

ASSUME ConstantsAssumption ==
    /\ Fingerprint # {}
    /\ Ktctl \subseteq Fingerprint
    /\ FingerprintOf \in [Proc -> Fingerprint]
    /\ None \notin Workspace \cup Fingerprint \cup Proc
    /\ Faults \subseteq FaultKinds

ASSUME ExecutablesAssumption ==
    /\ Executable \in [Workspace -> [Fingerprint -> Path]]
    /\ ExecutableOf \in [Proc -> Path]

VARIABLES
    pc,        \* pc[w]: the next step of the command of w
    target,    \* target[w]: fingerprint of the connection the plan of a start asks for
    task,      \* task[w]: why w releases its connection
    forced,    \* forced[w]: the command was given --force
    retained,  \* retained[w]: a replacing start keeps its ktctl lease
    result,    \* result[w]: the connection EnsureConnection hands to start
    sconn,     \* sconn[w]: session.Connection in the session file of w
    smanaged,  \* smanaged[w]: its Managed flag
    svc,       \* svc[w]: the services listed in the session file of w
    connLock,  \* the workspace whose command holds the connection lock
    cur,       \* the record that command examines
    mem,       \* the leases of that record it keeps
    todo,      \* those it still has to examine
    suspect,   \* the lease whose workspace lock it found free
    rest,      \* the records it still has to examine
    active,    \* the records it found active
    ready,     \* whether the endpoints answered
    rec,       \* rec[f]: the process in the record file of f
    leases,    \* leases[f]: the workspaces with a lease in that file
    aged,      \* aged[f]: those whose lease is older than connectionLeaseGrace
    conn,      \* conn[p]: what the operating system knows of p
    user,      \* history: services of w run under a lease that w has not given up
    crashed,   \* history: a command of w was killed
    orphan     \* history: connections whose starter was killed before recording them

disk == <<sconn, smanaged, svc>>
args == <<target, task, forced, retained, result>>
record == <<rec, leases, aged>>
scan == <<cur, mem, todo, suspect, rest, active, ready>>
history == <<user, crashed, orphan>>
vars == <<pc, target, task, forced, retained, result, sconn, smanaged, svc,
          connLock, cur, mem, todo, suspect, rest, active, ready, rec, leases, aged, conn,
          user, crashed, orphan>>

Waiting == {"validate", "renew", "release", "ensure", "recover"}
Pruning == {"pruneEnsure", "pruneSweep", "pruneRelease", "pruneRecover"}
Holding == Pruning \cup {"endpoints", "sweep", "launch", "await", "recovering"}
Control == {"idle", "stopOld", "clear", "failed", "failedManaged", "save", "services",
            "restarting"} \cup Waiting \cup Holding

NoTarget == CHOOSE f \in Fingerprint : TRUE   \* while no start runs
ConnState == {"unused", "running", "leaderless", "exited", "stopped", "foreign", "killed"}

ControlType ==
    /\ pc \in [Workspace -> Control]
    /\ target \in [Workspace -> Fingerprint]
    /\ task \in [Workspace -> {"start", "stop", "rollback"}]
    /\ forced \in [Workspace -> BOOLEAN]
    /\ retained \in [Workspace -> BOOLEAN]
    /\ result \in [Workspace -> Proc \cup {None}]

DiskType ==
    /\ sconn \in [Workspace -> Proc \cup {None}]
    /\ smanaged \in [Workspace -> BOOLEAN]
    /\ svc \in [Workspace -> {"none", "live", "stuck", "dead"}]

LockType ==
    /\ connLock \in Workspace \cup {None}
    /\ cur \in Fingerprint \cup {None}
    /\ mem \in SUBSET Workspace
    /\ todo \in SUBSET Workspace
    /\ suspect \in Workspace \cup {None}
    /\ rest \in SUBSET Fingerprint
    /\ active \in SUBSET Fingerprint
    /\ ready \in BOOLEAN

RegistryType ==
    /\ rec \in [Fingerprint -> Proc \cup {None}]
    /\ leases \in [Fingerprint -> SUBSET Workspace]
    /\ aged \in [Fingerprint -> SUBSET Workspace]

ProcessType == conn \in [Proc -> ConnState]

HistoryType ==
    /\ user \in [Workspace -> BOOLEAN]
    /\ crashed \in [Workspace -> BOOLEAN]
    /\ orphan \in SUBSET (Proc \cup {None})

TypeOK == ControlType /\ DiskType /\ LockType /\ RegistryType /\ ProcessType /\ HistoryType

Init ==
    /\ pc = [w \in Workspace |-> "idle"]
    /\ target = [w \in Workspace |-> NoTarget]
    /\ task = [w \in Workspace |-> "start"]
    /\ forced = [w \in Workspace |-> FALSE]
    /\ retained = [w \in Workspace |-> FALSE]
    /\ result = [w \in Workspace |-> None]
    /\ sconn = [w \in Workspace |-> None]
    /\ smanaged = [w \in Workspace |-> FALSE]
    /\ svc = [w \in Workspace |-> "none"]
    /\ connLock = None
    /\ cur = None
    /\ mem = {}
    /\ todo = {}
    /\ suspect = None
    /\ rest = {}
    /\ active = {}
    /\ ready = FALSE
    /\ rec = [f \in Fingerprint |-> None]
    /\ leases = [f \in Fingerprint |-> {}]
    /\ aged = [f \in Fingerprint |-> {}]
    /\ conn = [p \in Proc |-> "unused"]
    /\ user = [w \in Workspace |-> FALSE]
    /\ crashed = [w \in Workspace |-> FALSE]
    /\ orphan = {}
-----------------------------------------------------------------------------
(* Processes.  "leaderless": the leader exited, its group still runs;    *)
(* "foreign": the PID and PGID now belong to somebody else's process;    *)
(* "stopped" and "killed": ended by a signal of Conven's, "exited": not. *)

Current(p) == conn[p] = "running"
Unverified(p) == conn[p] \in {"leaderless", "foreign"}

Becomes(p, state) == conn' = [conn EXCEPT ![p] = state]

(* Mutant: an unverified group is signalled without --force. *)
StoppedUnverified(p, force) ==
    \/ (Current(p) \/ conn[p] = "leaderless") /\ Becomes(p, "stopped")
    \/ conn[p] = "foreign" /\ Becomes(p, "killed")
    \/ ~Current(p) /\ ~Unverified(p) /\ UNCHANGED conn

(* stopConnection returned nil. *)
Stopped(p, force) ==
    \/ Current(p) /\ Becomes(p, "stopped")
    \/ conn[p] = "leaderless" /\ Becomes(p, IF force THEN "stopped" ELSE "exited")
    \/ conn[p] = "foreign" /\ Becomes(p, IF force THEN "killed" ELSE "exited")
    \/ ~Current(p) /\ ~Unverified(p) /\ UNCHANGED conn

(* It returned an error: a group it may not signal, or signals that did not*)
(* end all of it.                                                        *)
NotStopped(p, force) ==
    \/ Unverified(p) /\ (~force \/ "stopFails" \in Faults) /\ UNCHANGED conn
    \/ /\ Current(p) /\ "stopFails" \in Faults
       /\ UNCHANGED conn \/ Becomes(p, "leaderless")

(* connectionLeaseActive once the workspace lock was found free. *)
LeaseActive(x, f) ==
    /\ sconn[x] # None
    /\ FingerprintOf[sconn[x]] = f
    /\ svc[x] \in {"live", "stuck"}

Goto(w, label) == pc' = [pc EXCEPT ![w] = label]
(* The command of w returns; its local variables are gone. *)
Return(w) ==
    /\ Goto(w, "idle")
    /\ target' = [target EXCEPT ![w] = NoTarget]
    /\ task' = [task EXCEPT ![w] = "start"]
    /\ forced' = [forced EXCEPT ![w] = FALSE]
    /\ retained' = [retained EXCEPT ![w] = FALSE]
    /\ result' = [result EXCEPT ![w] = None]
Proceed(w, label) == Goto(w, label) /\ UNCHANGED args

Lock(w) == connLock = None /\ connLock' = w
ClearScan == cur' = None /\ mem' = {} /\ todo' = {} /\ suspect' = None
               /\ rest' = {} /\ active' = {} /\ ready' = FALSE
Unlock == connLock' = None /\ ClearScan
Holds(w, label) == pc[w] = label /\ connLock = w

RemoveRecord(f) ==
    /\ rec' = [rec EXCEPT ![f] = None]
    /\ leases' = [leases EXCEPT ![f] = {}]
    /\ aged' = [aged EXCEPT ![f] = {}]
SaveLeases(f, kept) ==
    /\ leases' = [leases EXCEPT ![f] = kept]
    /\ aged' = [aged EXCEPT ![f] = @ \cap kept]
    /\ UNCHANGED rec
AddLease(f, w) ==
    /\ leases' = [leases EXCEPT ![f] = @ \cup {w}]
    /\ aged' = [aged EXCEPT ![f] = @ \ {w}]
    /\ UNCHANGED rec

(* A record cannot be written; or not be removed, with or without the    *)
(* kubeconfig snapshot beside it.                                        *)
Unwritten == "saveFails" \in Faults /\ UNCHANGED record
Unremoved(f) == "saveFails" \in Faults /\ (UNCHANGED record \/ RemoveRecord(f))
EndSession(w) ==
    /\ sconn' = [sconn EXCEPT ![w] = None]
    /\ smanaged' = [smanaged EXCEPT ![w] = FALSE]

(* Record f is read; of its leases, those kept and aged are to be examined.*)
Read(f, kept) ==
    /\ cur' = f /\ mem' = kept
    /\ todo' = aged[f] \cap kept
    /\ suspect' = None
-----------------------------------------------------------------------------
(* conven services --start.  A start that finds live services is the     *)
(* confirmed replacement of them.                                        *)

Start(w, f) ==
    /\ pc[w] = "idle"
    /\ svc[w] # "stuck"
    /\ sconn[w] # None /\ ~smanaged[w] => conn[sconn[w]] # "leaderless"
    /\ target' = [target EXCEPT ![w] = f]
    /\ UNCHANGED <<task, forced, retained, result>>
    /\ \/ svc[w] = "live" /\ Goto(w, "validate") /\ UNCHANGED disk
       \/ svc[w] # "live" /\ sconn[w] # None /\ Goto(w, "release") /\ UNCHANGED disk
       \/ /\ svc[w] # "live" /\ sconn[w] = None /\ Goto(w, "ensure")
          /\ svc' = [svc EXCEPT ![w] = "none"]
          /\ UNCHANGED <<sconn, smanaged>>
    /\ UNCHANGED <<connLock, scan, record, conn, history>>

(* validateConnectionForReplacement; reads only. *)
ReplacementValid(w) ==
    LET p == sconn[w]
        f == FingerprintOf[p]
    IN  p # None =>
          IF ~smanaged[w] THEN ~Unverified(p)
          ELSE IF rec[f] = None THEN ~Current(p) /\ ~Unverified(p)
          ELSE /\ rec[f] = p
               /\ ~Unverified(p)
               /\ Current(p) => w \in leases[f]

ValidateReplacement(w) ==
    /\ pc[w] = "validate"
    /\ smanaged[w] => connLock = None
    /\ IF ReplacementValid(w) THEN Proceed(w, "renew") ELSE Return(w)
    /\ UNCHANGED <<disk, connLock, scan, record, conn, history>>

Renewable(w) ==
    /\ sconn[w] # None
    /\ smanaged[w]
    /\ target[w] \in Ktctl
    /\ FingerprintOf[sconn[w]] = target[w]

(* renewRetainedKtctlConnection. *)
Renew(w) ==
    LET f == target[w]
        p == sconn[w]
    IN  /\ pc[w] = "renew"
        /\ \/ ~Renewable(w) /\ Proceed(w, "stopOld") /\ UNCHANGED record
           \/ /\ Renewable(w) /\ connLock = None
              /\ \/ rec[f] # p \/ Unverified(p) \/ (Current(p) /\ w \notin leases[f])
                 \/ Current(p) /\ "saveFails" \in Faults
              /\ Return(w)
              /\ UNCHANGED record
           \/ /\ Renewable(w) /\ connLock = None /\ rec[f] = p /\ ~Unverified(p)
              /\ Current(p) => w \in leases[f]
              /\ Proceed(w, "stopOld")     \* exited, or its endpoints do not answer
              /\ UNCHANGED record
           \/ /\ Renewable(w) /\ connLock = None /\ rec[f] = p
              /\ Current(p) /\ w \in leases[f]
              /\ AddLease(f, w)
              /\ retained' = [retained EXCEPT ![w] = TRUE]
              /\ Goto(w, "stopOld")
              /\ UNCHANGED <<target, task, forced, result>>
        /\ UNCHANGED <<disk, connLock, scan, conn, history>>

(* stopSessionServicesForReplacement: what could not be stopped stays in *)
(* the session and the start is abandoned; so it is when the user cancels*)
(* it meanwhile, or the old logs cannot be archived.                     *)
StopOld(w) ==
    /\ pc[w] = "stopOld"
    /\ \/ /\ svc[w] # "stuck"
          /\ svc' = [svc EXCEPT ![w] = "none"]
          /\ user' = [user EXCEPT ![w] = FALSE]
          /\ \/ Proceed(w, IF sconn[w] # None /\ ~retained[w] THEN "release" ELSE "ensure")
             \/ Return(w)
       \/ /\ svc[w] = "stuck" \/ (svc[w] = "live" /\ "stopFails" \in Faults)
          /\ svc' \in {svc, [svc EXCEPT ![w] = "stuck"]}
          /\ UNCHANGED user
          /\ Return(w)
    /\ UNCHANGED <<sconn, smanaged, connLock, scan, record, conn, crashed, orphan>>
-----------------------------------------------------------------------------
(* pruneConnectionLeases, one lease of the record under examination at a *)
(* time.  The workspace lock of its owner is tried first, its session file*)
(* and processes are read afterwards: two steps, between which the owner *)
(* may begin a command of its own.                                       *)

(* Mutant: only the session decides, the workspace lock is not tried. *)
PruneUnprobed(w) ==
    /\ pc[w] \in Pruning /\ connLock = w
    /\ suspect = None
    /\ \E x \in todo : suspect' = x
    /\ UNCHANGED <<pc, args, disk, connLock, cur, mem, todo, rest, active, ready, record, conn,
                   history>>

(* Mutant: the probe is repeated until the workspace lock is free. *)
PruneWaiting(w) ==
    /\ pc[w] \in Pruning /\ connLock = w
    /\ suspect = None
    /\ \E x \in todo : suspect' = IF x = w \/ pc[x] = "idle" THEN x ELSE None
    /\ UNCHANGED <<pc, args, disk, connLock, cur, mem, todo, rest, active, ready, record, conn,
                   history>>

PruneProbe(w) ==
    /\ pc[w] \in Pruning /\ connLock = w
    /\ suspect = None
    /\ \E x \in todo :
          \/ /\ x # w /\ pc[x] # "idle"         \* locked: the lease is active
             /\ todo' = todo \ {x}
             /\ UNCHANGED suspect
          \/ /\ x = w \/ pc[x] = "idle"
             /\ suspect' = x
             /\ UNCHANGED todo
    /\ UNCHANGED <<pc, args, disk, connLock, cur, mem, rest, active, ready, record, conn,
                   history>>

PruneRead(w) ==
    /\ pc[w] \in Pruning /\ connLock = w
    /\ suspect # None
    /\ mem' = IF LeaseActive(suspect, cur) THEN mem ELSE mem \ {suspect}
    /\ todo' = todo \ {suspect}
    /\ suspect' = None
    /\ UNCHANGED <<pc, args, disk, connLock, cur, rest, active, ready, record, conn, history>>

Pruned(w, label) == Holds(w, label) /\ todo = {} /\ suspect = None
-----------------------------------------------------------------------------
(* EnsureConnection.                                                     *)

EnsureAcquire(w) ==
    LET f == target[w]
    IN  /\ pc[w] = "ensure"
        /\ Lock(w)
        /\ \/ /\ rec[f] = None
              /\ UNCHANGED scan
              /\ Proceed(w, "endpoints")
           \/ /\ rec[f] # None
              /\ Read(f, leases[f]) /\ UNCHANGED <<rest, active, ready>>
              /\ Proceed(w, "pruneEnsure")
        /\ UNCHANGED <<disk, record, conn, history>>

(* The record asked for, once its stale leases are gone. *)
JudgeEnsure(w) ==
    LET f == cur
        p == rec[f]
    IN  /\ Pruned(w, "pruneEnsure")
        /\ \/ /\ Unverified(p)
              /\ SaveLeases(f, mem) \/ (mem # leases[f] /\ Unwritten)
              /\ Return(w) /\ Unlock
              /\ UNCHANGED conn
           \/ /\ ~Current(p) /\ ~Unverified(p)
              /\ \/ RemoveRecord(f) /\ Proceed(w, "endpoints") /\ UNCHANGED <<connLock, scan>>
                 \/ Unremoved(f) /\ Return(w) /\ Unlock
              /\ UNCHANGED conn
           \/ /\ Current(p) /\ mem # {}
              /\ \/ SaveLeases(f, mem) /\ Proceed(w, "endpoints") /\ UNCHANGED <<connLock, scan>>
                 \/ mem # leases[f] /\ Unwritten /\ Return(w) /\ Unlock
              /\ UNCHANGED conn
           \/ /\ Current(p) /\ mem = {}
              /\ \/ /\ Stopped(p, FALSE)
                    /\ RemoveRecord(f)
                    /\ Proceed(w, "endpoints")
                    /\ UNCHANGED <<connLock, scan>>
                 \/ /\ \/ Stopped(p, FALSE) /\ Unremoved(f)
                       \/ NotStopped(p, FALSE) /\ UNCHANGED record
                    /\ Return(w) /\ Unlock
        /\ UNCHANGED <<disk, history>>

(* The lease is added and the lock given back; start saves its session next.*)
Join(w, f) ==
    /\ AddLease(f, w)
    /\ result' = [result EXCEPT ![w] = rec[f]]
    /\ Goto(w, "save")
    /\ UNCHANGED <<target, task, forced, retained>>
    /\ Unlock

(* Whether the endpoints answer is up to the network, whatever runs here.*)
Endpoints(w) ==
    LET f == target[w]
    IN  /\ Holds(w, "endpoints")
        /\ \E answer \in BOOLEAN :
             \/ /\ rec[f] # None /\ answer
                /\ Join(w, f)
             \/ /\ rec[f] # None
                /\ ~answer \/ "saveFails" \in Faults   \* the lease cannot be written
                /\ Return(w) /\ Unlock /\ UNCHANGED record
             \/ /\ rec[f] = None /\ f \notin Ktctl
                /\ IF answer THEN Proceed(w, "save") /\ Unlock   \* external connection
                             ELSE Proceed(w, "launch") /\ UNCHANGED <<connLock, scan>>
                /\ UNCHANGED record
             \/ /\ rec[f] = None /\ f \in Ktctl
                /\ ready' = answer
                /\ rest' = {g \in Ktctl : rec[g] # None}
                /\ Proceed(w, "sweep")
                /\ UNCHANGED <<connLock, cur, mem, todo, suspect, active, record>>
        /\ UNCHANGED <<disk, conn, history>>

(* activeConnectionRecords: every ktctl record is pruned and judged.  It is*)
(* called a second time when it found none active; the second call, under*)
(* the same lock, finds no record left to judge.                         *)
SweepNext(w) ==
    /\ Holds(w, "sweep")
    /\ \E f \in rest : Read(f, leases[f]) /\ rest' = rest \ {f}
    /\ Proceed(w, "pruneSweep")
    /\ UNCHANGED <<disk, connLock, active, ready, record, conn, history>>

JudgeSweep(w) ==
    LET f == cur
        p == rec[f]
    IN  /\ Pruned(w, "pruneSweep")
        /\ \/ /\ Unverified(p)
              /\ SaveLeases(f, mem) \/ (mem # leases[f] /\ Unwritten)
              /\ Return(w) /\ Unlock
              /\ UNCHANGED conn
           \/ /\ ~Current(p) /\ ~Unverified(p)
              /\ \/ RemoveRecord(f) /\ Proceed(w, "sweep") /\ UNCHANGED <<connLock, scan>>
                 \/ Unremoved(f) /\ Return(w) /\ Unlock
              /\ UNCHANGED conn
           \/ /\ Current(p) /\ mem # {}
              /\ \/ /\ SaveLeases(f, mem)
                    /\ active' = active \cup {f}
                    /\ Proceed(w, "sweep")
                    /\ UNCHANGED <<connLock, cur, mem, todo, suspect, rest, ready>>
                 \/ mem # leases[f] /\ Unwritten /\ Return(w) /\ Unlock
              /\ UNCHANGED conn
           \/ /\ Current(p) /\ mem = {}
              /\ \/ /\ Stopped(p, FALSE)
                    /\ RemoveRecord(f)
                    /\ Proceed(w, "sweep")
                    /\ UNCHANGED <<connLock, scan>>
                 \/ /\ \/ Stopped(p, FALSE) /\ Unremoved(f)
                       \/ NotStopped(p, FALSE) /\ UNCHANGED record
                    /\ Return(w) /\ Unlock
        /\ UNCHANGED <<disk, history>>

(* Mutant: only recorded processes count. *)
KtctlRecorded(w) == \E f \in Ktctl : rec[f] # None

(* runningConnectionCommandPIDs: a process is seen, recorded or not, when   *)
(* its command line begins with the executable that is about to be         *)
(* launched, or with the bare name of it.  Conven starts none by a bare    *)
(* name, so of its own processes those of this very executable are seen.   *)
KtctlRunning(w) == \E p \in Proc : Current(p) /\ ExecutableOf[p] = Executable[w][target[w]]

SweepDone(w) ==
    /\ Holds(w, "sweep")
    /\ rest = {}
    /\ \/ ready /\ \E f \in active : Join(w, f)
       \/ /\ active # {}
          /\ ~ready \/ "saveFails" \in Faults
          /\ Return(w) /\ Unlock /\ UNCHANGED record
       \/ /\ active = {} /\ KtctlRunning(w)
          /\ Return(w) /\ Unlock /\ UNCHANGED record
       \/ /\ active = {} /\ ~KtctlRunning(w)
          /\ Proceed(w, "launch") /\ UNCHANGED <<connLock, scan, record>>
    /\ UNCHANGED <<disk, conn, history>>

Launch(w) ==
    /\ Holds(w, "launch")
    /\ \E p \in Proc :
          /\ conn[p] = "unused" /\ FingerprintOf[p] = target[w]
          /\ ExecutableOf[p] = Executable[w][target[w]]
          /\ Becomes(p, "running")
          /\ result' = [result EXCEPT ![w] = p]
    /\ Goto(w, "await")
    /\ UNCHANGED <<target, task, forced, retained>>
    /\ UNCHANGED <<disk, connLock, scan, record, history>>

(* sudo, the kubeconfig snapshot, the API gate or the command itself fails.*)
LaunchFails(w) ==
    /\ Holds(w, "launch")
    /\ Return(w) /\ Unlock
    /\ UNCHANGED <<disk, record, conn, history>>

(* waitForConnectionAttempt returned nil: the record is written. *)
AwaitReady(w) ==
    LET f == target[w]
        p == result[w]
    IN  /\ Holds(w, "await")
        /\ Current(p)
        /\ rec' = [rec EXCEPT ![f] = p]
        /\ leases' = [leases EXCEPT ![f] = {w}]
        /\ aged' = [aged EXCEPT ![f] = {}]
        /\ Proceed(w, "save") /\ Unlock
        /\ UNCHANGED <<disk, conn, history>>

(* Mutant: a process that could not be stopped is dropped. *)
AwaitFailsForgetting(w) ==
    /\ Holds(w, "await")
    /\ Stopped(result[w], FALSE) \/ NotStopped(result[w], FALSE)
    /\ Return(w) /\ Unlock
    /\ UNCHANGED <<disk, record, history>>

(* The attempt failed, or its record could not be written (the process is*)
(* marked Managed by then); the process is stopped, and handed to start if*)
(* that fails.                                                           *)
AwaitFails(w) ==
    LET p == result[w]
    IN  /\ Holds(w, "await")
        /\ \/ Stopped(p, FALSE) /\ Return(w)
           \/ NotStopped(p, FALSE) /\ Proceed(w, "failed")
           \/ /\ NotStopped(p, FALSE) /\ Current(p) /\ "saveFails" \in Faults
              /\ Proceed(w, "failedManaged")
        /\ Unlock
        /\ UNCHANGED <<disk, record, history>>

(* The failed session names the process that could not be stopped. *)
SaveFailedSession(w) ==
    /\ pc[w] \in {"failed", "failedManaged"}
    /\ sconn' = [sconn EXCEPT ![w] = result[w]]
    /\ smanaged' = [smanaged EXCEPT ![w] = pc[w] = "failedManaged"]
    /\ Return(w)
    /\ UNCHANGED <<svc, connLock, scan, record, conn, history>>

SaveSession(w) ==
    /\ pc[w] = "save"
    /\ sconn' = [sconn EXCEPT ![w] = result[w]]
    /\ smanaged' = [smanaged EXCEPT ![w] = result[w] # None]
    /\ retained' = [retained EXCEPT ![w] = @ /\ result[w] = sconn[w]]
    /\ result' = [result EXCEPT ![w] = None]
    /\ Goto(w, "services")
    /\ UNCHANGED <<target, task, forced>>
    /\ UNCHANGED <<svc, connLock, scan, record, conn, history>>

StartServices(w) ==
    /\ pc[w] = "services"
    /\ svc' = [svc EXCEPT ![w] = "live"]
    /\ user' = [user EXCEPT ![w] = sconn[w] # None]
    /\ Return(w)
    /\ UNCHANGED <<sconn, smanaged, connLock, scan, record, conn, crashed, orphan>>

(* rollbackSession: the services it cannot stop stay in the session, the *)
(* connection is released all the same unless it was retained.           *)
Rollback(w) ==
    /\ pc[w] = "services"
    /\ \/ UNCHANGED svc
       \/ "stopFails" \in Faults /\ \E s \in {"live", "stuck"} : svc' = [svc EXCEPT ![w] = s]
    /\ \/ (retained[w] \/ sconn[w] = None) /\ Return(w)
       \/ /\ ~retained[w] /\ sconn[w] # None
          /\ task' = [task EXCEPT ![w] = "rollback"]
          /\ Goto(w, "release")
          /\ UNCHANGED <<target, forced, retained, result>>
    /\ UNCHANGED <<sconn, smanaged, connLock, scan, record, conn, history>>
-----------------------------------------------------------------------------
(* releaseConnection, from a start that replaces a session, a rollback or*)
(* a stop.  A stop saves its session without the stopped services whether*)
(* or not the connection could be released.                              *)

ReleaseFails(w) ==
    /\ svc' = [svc EXCEPT ![w] = IF task[w] = "stop" THEN "none" ELSE @]
    /\ UNCHANGED <<sconn, smanaged>>
    /\ Return(w)

ReleaseUnmanaged(w) ==
    /\ pc[w] = "release" /\ ~smanaged[w]
    /\ \/ Stopped(sconn[w], forced[w]) /\ Proceed(w, "clear") /\ UNCHANGED disk
       \/ NotStopped(sconn[w], forced[w]) /\ ReleaseFails(w)
    /\ UNCHANGED <<connLock, scan, record, history>>

(* The record is gone: only --force stops the process the session names. *)
ReleaseUnrecorded(w) ==
    LET p == sconn[w]
    IN  /\ pc[w] = "release" /\ smanaged[w]
        /\ connLock = None
        /\ rec[FingerprintOf[p]] = None
        /\ \/ /\ ~Current(p) /\ ~Unverified(p)
              /\ Proceed(w, "clear")
              /\ UNCHANGED <<conn, disk>>
           \/ /\ Current(p) \/ Unverified(p)
              /\ ~forced[w]
              /\ ReleaseFails(w)
              /\ UNCHANGED conn
           \/ /\ Current(p) \/ Unverified(p)
              /\ forced[w]
              /\ \/ Stopped(p, TRUE) /\ Proceed(w, "clear") /\ UNCHANGED disk
                 \/ NotStopped(p, TRUE) /\ ReleaseFails(w)
        /\ UNCHANGED <<connLock, scan, record, history>>

(* Mutant: the own lease stays among those to prune. *)
ReleaseKeepingLease(w) ==
    LET f == FingerprintOf[sconn[w]]
    IN  /\ pc[w] = "release" /\ smanaged[w]
        /\ rec[f] # None
        /\ Lock(w)
        /\ Read(f, leases[f]) /\ UNCHANGED <<rest, active, ready>>
        /\ Proceed(w, "pruneRelease")
        /\ UNCHANGED <<disk, record, conn, history>>

(* The own lease is dropped in memory, then the others are pruned. *)
ReleaseAcquire(w) ==
    LET f == FingerprintOf[sconn[w]]
    IN  /\ pc[w] = "release" /\ smanaged[w]
        /\ rec[f] # None
        /\ Lock(w)
        /\ Read(f, leases[f] \ {w}) /\ UNCHANGED <<rest, active, ready>>
        /\ Proceed(w, "pruneRelease")
        /\ UNCHANGED <<disk, record, conn, history>>

JudgeRelease(w) ==
    LET f == cur
        p == rec[f]
    IN  /\ Pruned(w, "pruneRelease")
        /\ \/ /\ mem # {}
              /\ \/ SaveLeases(f, mem) /\ Proceed(w, "clear") /\ UNCHANGED disk
                 \/ Unwritten /\ ReleaseFails(w)
              /\ UNCHANGED conn
           \/ /\ mem = {}
              /\ Unverified(p) /\ ~forced[w]
              /\ ReleaseFails(w)
              /\ UNCHANGED <<conn, record>>
           \/ /\ mem = {}
              /\ ~Unverified(p) \/ forced[w]
              /\ \/ /\ Stopped(p, forced[w])
                    /\ \/ RemoveRecord(f) /\ Proceed(w, "clear") /\ UNCHANGED disk
                       \/ Unremoved(f) /\ ReleaseFails(w)
                 \/ /\ NotStopped(p, forced[w])
                    /\ SaveLeases(f, mem) \/ Unwritten
                    /\ ReleaseFails(w)
        /\ Unlock
        /\ UNCHANGED history

(* The session is cleared or saved without its connection. *)
Clear(w) ==
    /\ pc[w] = "clear"
    /\ EndSession(w)
    /\ svc' = [svc EXCEPT ![w] = IF task[w] = "rollback" THEN @ ELSE "none"]
    /\ IF task[w] = "start" THEN Proceed(w, "ensure") ELSE Return(w)
    /\ UNCHANGED <<connLock, scan, record, conn, history>>
-----------------------------------------------------------------------------
(* conven services --stop, down to the release of the connection. *)

Stop(w, force) ==
    /\ pc[w] = "idle"
    /\ sconn[w] # None \/ svc[w] # "none"
    /\ \/ /\ svc[w] = "stuck" => force      \* the last services go
          /\ user' = [user EXCEPT ![w] = FALSE]
          /\ IF sconn[w] = None
               THEN svc' = [svc EXCEPT ![w] = "none"] /\ UNCHANGED <<pc, args>>
               ELSE /\ svc' = [svc EXCEPT ![w] = IF @ = "none" THEN @ ELSE "dead"]
                    /\ task' = [task EXCEPT ![w] = "stop"]
                    /\ forced' = [forced EXCEPT ![w] = force]
                    /\ Goto(w, "release")
                    /\ UNCHANGED <<target, retained, result>>
       \/ /\ svc[w] = "live" /\ "stopFails" \in Faults   \* some refuse to stop
          /\ svc' = [svc EXCEPT ![w] = "stuck"]
          /\ UNCHANGED <<pc, args, user>>
    /\ UNCHANGED <<sconn, smanaged, connLock, scan, record, conn, crashed, orphan>>

(* stop --all --force without a session: recoverUnleasedConnections. *)
Recover(w) ==
    /\ pc[w] = "idle" /\ sconn[w] = None /\ svc[w] = "none"
    /\ forced' = [forced EXCEPT ![w] = TRUE]
    /\ Goto(w, "recover")
    /\ UNCHANGED <<target, task, retained, result>>
    /\ UNCHANGED <<disk, connLock, scan, record, conn, history>>

RecoverAcquire(w) ==
    /\ pc[w] = "recover"
    /\ Lock(w)
    /\ rest' = {f \in Fingerprint : rec[f] # None}
    /\ UNCHANGED <<cur, mem, todo, suspect, active, ready>>
    /\ Proceed(w, "recovering")
    /\ UNCHANGED <<disk, record, conn, history>>

RecoverNext(w) ==
    /\ Holds(w, "recovering")
    /\ \/ \E f \in rest :
             /\ Read(f, leases[f] \ {w}) /\ rest' = rest \ {f}
             /\ Proceed(w, "pruneRecover")
             /\ UNCHANGED <<connLock, active, ready>>
       \/ rest = {} /\ Return(w) /\ Unlock
    /\ UNCHANGED <<disk, record, conn, history>>

JudgeRecover(w) ==
    LET f == cur
        p == rec[f]
    IN  /\ Pruned(w, "pruneRecover")
        /\ \/ /\ mem # {}
              /\ \/ /\ SaveLeases(f, mem)
                    /\ Proceed(w, "recovering")
                    /\ UNCHANGED <<connLock, scan>>
                 \/ mem # leases[f] /\ Unwritten /\ Return(w) /\ Unlock
              /\ UNCHANGED conn
           \/ /\ mem = {}
              /\ \/ /\ Stopped(p, TRUE)
                    /\ RemoveRecord(f)
                    /\ Proceed(w, "recovering")
                    /\ UNCHANGED <<connLock, scan>>
                 \/ /\ \/ Stopped(p, TRUE) /\ Unremoved(f)
                       \/ NotStopped(p, TRUE) /\ (SaveLeases(f, mem) \/ Unwritten)
                    /\ Return(w) /\ Unlock
        /\ UNCHANGED <<disk, history>>
-----------------------------------------------------------------------------
(* conven services --restart and the hot-reload watcher's restart: the   *)
(* connection registry is not consulted.                                 *)

(* Builds succeeded; the targets are stopped, perhaps not all services.  *)
Restart(w) ==
    /\ pc[w] = "idle"
    /\ svc[w] \in {"live", "dead"}
    /\ \/ UNCHANGED <<svc, user>>
       \/ /\ svc' = [svc EXCEPT ![w] = "dead"]
          /\ user' = [user EXCEPT ![w] = FALSE]
    /\ Proceed(w, "restarting")
    /\ UNCHANGED <<sconn, smanaged, connLock, scan, record, conn, crashed, orphan>>

(* Restarted; or rolled back to the old records; or, when the diagnostics*)
(* cannot be finished, dropped from the session with the connection kept.*)
FinishRestart(w) ==
    /\ pc[w] = "restarting"
    /\ \/ svc' = [svc EXCEPT ![w] = IF @ = "stuck" THEN @ ELSE "live"] /\ UNCHANGED user
       \/ UNCHANGED <<svc, user>>
       \/ /\ svc[w] # "stuck"
          /\ svc' = [svc EXCEPT ![w] = "none"]
          /\ user' = [user EXCEPT ![w] = FALSE]
    /\ Return(w)
    /\ UNCHANGED <<sconn, smanaged, connLock, scan, record, conn, crashed, orphan>>
-----------------------------------------------------------------------------
(* The user cancels a command that waits for the connection lock.  Start's*)
(* releases and its rollback wait regardless.                            *)
Cancel(w) ==
    /\ \/ pc[w] \in {"ensure", "recover"} /\ UNCHANGED svc
       \/ pc[w] = "validate" /\ smanaged[w] /\ UNCHANGED svc
       \/ pc[w] = "renew" /\ Renewable(w) /\ UNCHANGED svc
       \/ /\ pc[w] = "release" /\ task[w] = "stop" /\ smanaged[w]
          /\ svc' = [svc EXCEPT ![w] = "none"]
    /\ Return(w)
    /\ UNCHANGED <<sconn, smanaged, connLock, scan, record, conn, history>>

(* A command is killed; the operating system drops its locks. *)
Crash(w) ==
    /\ "crash" \in Faults /\ pc[w] # "idle" /\ ~crashed[w]
    /\ crashed' = [crashed EXCEPT ![w] = TRUE]
    /\ orphan' = IF pc[w] \in {"await", "failed", "failedManaged"}
                   THEN orphan \cup {result[w]} ELSE orphan
    /\ IF connLock = w THEN Unlock ELSE UNCHANGED <<connLock, scan>>
    /\ Return(w)
    /\ UNCHANGED <<disk, record, conn, user>>

ServicesDie(w) ==
    /\ "servicesDie" \in Faults
    /\ \/ svc[w] = "live" /\ svc' = [svc EXCEPT ![w] = "stuck"] /\ UNCHANGED user
       \/ /\ svc[w] \in {"live", "stuck"}
          /\ svc' = [svc EXCEPT ![w] = "dead"]
          /\ user' = [user EXCEPT ![w] = FALSE]
    /\ UNCHANGED <<pc, args, sconn, smanaged, connLock, scan, record, conn,
                   crashed, orphan>>

ConnectionDies(p) ==
    /\ "connectionDies" \in Faults
    /\ \/ Current(p) /\ \E s \in {"exited", "leaderless"} : Becomes(p, s)
       \/ conn[p] = "leaderless" /\ Becomes(p, "exited")
    /\ UNCHANGED <<pc, args, disk, connLock, scan, record, history>>

PidReused(p) ==
    /\ "pidReuse" \in Faults
    /\ conn[p] \in {"exited", "stopped"}
    /\ Becomes(p, "foreign")
    /\ UNCHANGED <<pc, args, disk, connLock, scan, record, history>>

LeaseAges(f, w) ==
    /\ w \in leases[f] \ aged[f]
    /\ aged' = [aged EXCEPT ![f] = @ \cup {w}]
    /\ UNCHANGED <<pc, args, disk, connLock, scan, rec, leases, conn, history>>
-----------------------------------------------------------------------------
Begin(w) ==
    \/ \E f \in Fingerprint : Start(w, f)
    \/ \E force \in BOOLEAN : Stop(w, force)
    \/ Recover(w)
    \/ Restart(w)

StartStep(w) ==
    \/ ValidateReplacement(w) \/ Renew(w) \/ StopOld(w)
    \/ EnsureAcquire(w) \/ JudgeEnsure(w) \/ Endpoints(w)
    \/ SweepNext(w) \/ JudgeSweep(w) \/ SweepDone(w)
    \/ Launch(w) \/ LaunchFails(w) \/ AwaitReady(w) \/ AwaitFails(w)
    \/ SaveFailedSession(w) \/ SaveSession(w) \/ StartServices(w) \/ Rollback(w)

ReleaseStep(w) ==
    \/ ReleaseUnmanaged(w) \/ ReleaseUnrecorded(w) \/ ReleaseAcquire(w)
    \/ JudgeRelease(w) \/ Clear(w)

PruneStep(w) == PruneProbe(w) \/ PruneRead(w)

RecoverStep(w) == RecoverAcquire(w) \/ RecoverNext(w) \/ JudgeRecover(w)

(* What a command does by itself once it has begun. *)
Step(w) == StartStep(w) \/ ReleaseStep(w) \/ PruneStep(w) \/ RecoverStep(w)
             \/ FinishRestart(w)

Environment ==
    \/ \E w \in Workspace : Cancel(w) \/ Crash(w) \/ ServicesDie(w)
    \/ \E p \in Proc : ConnectionDies(p) \/ PidReused(p)
    \/ \E f \in Fingerprint, w \in Workspace : LeaseAges(f, w)

Next == (\E w \in Workspace : Begin(w) \/ Step(w)) \/ Environment

Spec == Init /\ [][Next]_vars

(* A running command is scheduled; a command that polls the connection   *)
(* lock gets it if it is free again and again.                           *)
Fairness == \A w \in Workspace : SF_vars(Step(w))

FairSpec == Spec /\ Fairness
-----------------------------------------------------------------------------
(* As long as services that were started under a lease stay up, and their*)
(* own workspace does not give the lease up, no command of any workspace *)
(* stops the connection they use: neither a release, nor the retirement of*)
(* an unleased connection, nor a forced recovery.                        *)
UsersKeepConnection ==
    \A w \in Workspace : user[w] => sconn[w] # None /\ conn[sconn[w]] # "stopped"

(* The record of p's configuration names p. *)
Recorded(p) == rec[FingerprintOf[p]] = p

(* Two ktctl tunnels that run the same executable never run at once,     *)
(* whatever configurations the workspaces ask for and whatever was left  *)
(* behind by killed commands; and of tunnels that run different ones at  *)
(* most one is in the registry.  (A tunnel that is in no record is seen by*)
(* its executable only, so it may run beside one that runs another.)     *)
OneKtctl ==
    \A p, q \in Proc :
        /\ p # q
        /\ Current(p) /\ Current(q)
        /\ FingerprintOf[p] \in Ktctl /\ FingerprintOf[q] \in Ktctl
        => ExecutableOf[p] # ExecutableOf[q] /\ ~(Recorded(p) /\ Recorded(q))

(* Every running connection can be found again: it is in the registry, or*)
(* in a session, or in the hands of a command, unless the command that   *)
(* started it was killed first.                                          *)
NoLostConnection ==
    \A p \in Proc :
        Current(p) => \/ rec[FingerprintOf[p]] = p
                      \/ \E w \in Workspace : p \in {sconn[w], result[w]}
                      \/ p \in orphan

(* A workspace without a session holds no lease, unless a command of it  *)
(* was killed: nothing of it is left to keep a connection alive.         *)
NoLeaseWithoutSession ==
    \A w \in Workspace :
        pc[w] = "idle" /\ sconn[w] = None /\ ~crashed[w]
            => \A f \in Fingerprint : w \notin leases[f]

(* A process group whose leader cannot be verified, because it exited or *)
(* because its PID belongs to somebody else by now, is signalled by a    *)
(* command that was given --force only: by the very one that takes the   *)
(* step, not by another that happens to run.                             *)
UnverifiedNeedsForce ==
    [][\A p \in Proc :
          Unverified(p) /\ conn'[p] \in {"stopped", "killed"}
              => \E w \in Workspace : forced[w] /\ pc'[w] # pc[w]]_vars

(* A command that begins comes to its end: waiting for the connection lock*)
(* while holding a workspace lock blocks nobody for good.                *)
CommandsEnd == \A w \in Workspace : pc[w] # "idle" ~> pc[w] = "idle"

(* What the changelog says of stopping: a connection is terminated only  *)
(* when no other workspace with live services still uses it.             *)
LiveServicesKeepConnection ==
    \A w \in Workspace :
        pc[w] = "idle" /\ svc[w] = "live" /\ smanaged[w] /\ ~crashed[w]
            => conn[sconn[w]] # "stopped"
=============================================================================
