----------------------------- MODULE KtctlAttempt -----------------------------
(* One launch of a managed connection: EnsureConnection from its preflight  *)
(* on, ensureConnectionAttempts, waitForConnectionAttempt, and the recovery *)
(* that has to succeed before ktctl is launched again                       *)
(* (internal/runtime/connection.go, kubernetes_connection.go).              *)
(*                                                                          *)
(* The cluster and ktctl are external: they are modelled from what the code *)
(* asks of them. ktctl sends one create request at a time, the ConfigMap's  *)
(* before the Pod's; a request whose answer is lost may take effect later.  *)
EXTENDS Integers, FiniteSets

CONSTANTS
    MaxAttempts,  \* ktctlConnectionMaxAttempts
    ReadyProbes,  \* connectionReadinessStableProbes
    ApiProbes,    \* kubernetesAPIStableProbes
    EmptyLists,   \* kubernetesRecoveryStableObservations
    MaxLists,     \* empty lists until the observation window is over, at most
    Drivers,      \* of the configurations that are considered
    Faults        \* what may go wrong: "stop", "save", "query", "others"

ASSUME BoundsAssumption ==
    /\ MaxAttempts \in Nat \ {0} /\ ReadyProbes \in Nat \ {0} /\ ApiProbes \in Nat \ {0}
    /\ EmptyLists \in Nat \ {0} /\ MaxLists \in Nat /\ EmptyLists <= MaxLists

Attempt == 1 .. MaxAttempts
Kind == {"ConfigMap", "Pod"}
Object == Kind \X Attempt   \* by name: each attempt has names of its own

VARIABLES
    driver, safe, kubectl,  \* the configuration: its driver; its flags allow a
                            \* retry; kubectl is installed
    pc, attempt,
    eof,        \* the attempt ended with an EOF during Pod creation
    ready,      \* consecutive readiness probes that succeeded
    good,       \* consecutive API probes that succeeded
    empties,    \* empty lists of attempt-owned resources so far
    found,      \* the resources observed, to be deleted
    todo,       \* those still to be deleted or looked at by exact name
    clear,      \* nothing was found so far in this round of the confirmation
    expired,    \* the deadline of the current wait has passed
    cancelled,  \* the caller's context
    snapshot,   \* the private kubeconfig exists
    recorded,   \* the connection record names the process
    result,     \* "none" yet; "ready", "failed", or "unstopped": an error with
                \* a process that still has to be stopped
    proc,       \* of each attempt: "none", "up", "stuck" (only its group lives), "gone"
    phase,      \* what ktctl is doing
    log,        \* what its log shows
    flight,     \* create requests that may still take effect
    uid,        \* of the object of each name: 0 none, 1 the attempt's, 2 another
    label,      \* it carries the attempt's label
    dying       \* it is terminating

configuration == <<driver, safe, kubectl>>
recovery == <<empties, found, todo, clear>>
cluster == <<uid, label, dying>>
ktctl == <<proc, phase, log, flight>>
counts == <<eof, ready, good>>
outcome == <<snapshot, recorded, result>>
vars == <<configuration, pc, attempt, counts, recovery, expired, cancelled, outcome, ktctl,
          cluster>>

May(fault) == fault \in Faults
Over == expired \/ cancelled

-----------------------------------------------------------------------------
Init ==
    /\ driver \in Drivers /\ safe \in BOOLEAN /\ kubectl \in BOOLEAN
    /\ pc = "preflight" /\ attempt = 0
    /\ eof = FALSE /\ ready = 0 /\ good = 0
    /\ empties = 0 /\ found = {} /\ todo = {} /\ clear = TRUE
    /\ expired = FALSE /\ cancelled = FALSE
    /\ snapshot = FALSE /\ recorded = FALSE /\ result = "none"
    /\ proc = [a \in Attempt |-> "none"]
    /\ phase = [a \in Attempt |-> "none"]
    /\ log = [a \in Attempt |-> {}]
    /\ flight = {}
    /\ uid = [o \in Object |-> 0]
    /\ label = [o \in Object |-> FALSE]
    /\ dying = [o \in Object |-> FALSE]

(* Every wait starts its own deadline and its own count.                    *)
Goto(step) ==
    /\ pc' = step
    /\ expired' = FALSE /\ ready' = 0 /\ good' = 0

(* EnsureConnection returns; without a process the snapshot is removed.     *)
Return(what) ==
    /\ pc' = "returned"
    /\ result' = what
    /\ snapshot' = (snapshot /\ what # "failed")
    /\ UNCHANGED <<expired, ready, good>>

GiveUp == Return("failed") /\ UNCHANGED <<attempt, eof, recovery, recorded>>

Environment == <<configuration, cancelled, ktctl, cluster>>

-----------------------------------------------------------------------------
(* The preflight: sudo, other ktctl processes, the pinned snapshot.         *)
Preflight ==
    /\ pc = "preflight"
    /\ UNCHANGED <<Environment, attempt, eof, recovery, recorded>>
    /\ \/ Return("failed")
       \/ /\ snapshot' = (driver = "ktctl")
          /\ Goto(IF driver = "ktctl" THEN "gate" ELSE "launch")
          /\ UNCHANGED result

(* waitForKubernetesAPIProbe, before each launch and before a recovery.     *)
AfterGate == [gate |-> "launch", preaudit |-> "observe", regate |-> "launch"]

Control == DOMAIN AfterGate \cup
    {"preflight", "launch", "wait", "save", "stop", "observe", "delete", "confirm", "exact",
     "returned"}

GateProbe ==
    /\ pc \in DOMAIN AfterGate
    /\ ~Over
    /\ \/ /\ good + 1 < ApiProbes
          /\ good' = good + 1
          /\ UNCHANGED <<pc, expired, ready>>
       \/ good + 1 >= ApiProbes /\ Goto(AfterGate[pc])
       \/ good' = 0 /\ UNCHANGED <<pc, expired, ready>>
    /\ UNCHANGED <<Environment, attempt, eof, recovery, outcome>>

(* Mutant: the gate has no deadline.                                     *)
GateFailsCancelled ==
    /\ pc \in DOMAIN AfterGate
    /\ cancelled
    /\ GiveUp
    /\ UNCHANGED Environment

GateFails ==
    /\ pc \in DOMAIN AfterGate
    /\ Over
    /\ GiveUp
    /\ UNCHANGED Environment

-----------------------------------------------------------------------------
(* One attempt.                                                             *)

Launch ==
    /\ pc = "launch"
    /\ attempt' = attempt + 1
    /\ eof' = FALSE
    /\ empties' = 0 /\ clear' = TRUE
    /\ proc' = [proc EXCEPT ![attempt'] = "up"]
    /\ phase' = [phase EXCEPT ![attempt'] = "ConfigMap"]
    /\ flight' = IF driver = "ktctl" THEN flight \cup {<<"ConfigMap", attempt'>>} ELSE flight
    /\ Goto("wait")
    /\ UNCHANGED <<configuration, cancelled, log, cluster, found, todo, outcome>>

LaunchFails ==
    /\ pc = "launch"
    /\ GiveUp
    /\ UNCHANGED Environment

(* waitForConnectionAttempt. The deadline is looked at first, then the log, *)
(* then the process; the probes have the last word.                         *)
Failed(byEOF) ==
    /\ Goto("stop")
    /\ eof' = byEOF
    /\ UNCHANGED <<Environment, attempt, recovery, outcome>>

WaitEnds == pc = "wait" /\ Over /\ Failed(FALSE)

WaitFatal ==
    /\ pc = "wait"
    /\ driver = "ktctl" /\ "fatal" \in log[attempt]
    /\ Failed(FALSE)

WaitExit ==
    /\ pc = "wait"
    /\ ~Over /\ proc[attempt] # "up"
    /\ Failed("eof" \in log[attempt])

WaitProbe ==
    /\ pc = "wait"
    /\ ~Over /\ proc[attempt] = "up"
    /\ driver = "ktctl" => "fatal" \notin log[attempt]
    /\ \/ /\ driver = "ktctl" => "tunnel" \in log[attempt]
          /\ IF ready + 1 >= ReadyProbes
                THEN Goto("save")
                ELSE ready' = ready + 1 /\ UNCHANGED <<pc, expired, good>>
       \/ ready' = 0 /\ UNCHANGED <<pc, expired, good>>
    /\ UNCHANGED <<Environment, attempt, eof, recovery, outcome>>

(* Mutant: what cannot be recorded is forgotten.                         *)
SaveRecordUnstopped ==
    /\ pc = "save"
    /\ UNCHANGED <<Environment, attempt, eof, recovery>>
    /\ \/ Return("ready") /\ recorded' = TRUE
       \/ May("save") /\ Return("failed") /\ UNCHANGED recorded

(* The record is written; when it cannot be, the connection is stopped.     *)
SaveRecord ==
    /\ pc = "save"
    /\ UNCHANGED <<Environment, attempt, eof, recovery>>
    /\ \/ Return("ready") /\ recorded' = TRUE
       \/ May("save") /\ Goto("stop") /\ UNCHANGED outcome

(* stopConnection, which refuses a group without its leader.                *)
StopSucceeds ==
    /\ pc = "stop"
    /\ proc[attempt] # "stuck"
    /\ proc' = [proc EXCEPT ![attempt] = "gone"]
    /\ UNCHANGED <<configuration, cancelled, phase, log, flight, cluster>>
    /\ IF driver = "ktctl" /\ eof /\ attempt < MaxAttempts /\ safe
          THEN Goto("preaudit") /\ UNCHANGED <<attempt, eof, recovery, outcome>>
          ELSE GiveUp

StopFails ==
    /\ pc = "stop"
    /\ proc[attempt] = "stuck" \/ (proc[attempt] = "up" /\ May("stop"))
    /\ Return("unstopped")
    /\ UNCHANGED <<Environment, attempt, eof, recovery, recorded>>

-----------------------------------------------------------------------------
(* recoverKtctlAttempt                                                      *)

Named == {<<k, attempt>> : k \in Kind}
Selected == {o \in Named : uid[o] # 0 /\ label[o]}

RecoverFails ==
    /\ pc \in {"observe", "delete", "confirm", "exact"}
    /\ \/ May("query")
       \/ cancelled
       \/ pc = "observe" /\ ~kubectl
       \/ pc \in {"confirm", "exact"} /\ expired
    /\ pc = "exact" => todo # {}
    /\ GiveUp
    /\ UNCHANGED Environment

(* observeKtctlAttemptResources: until the list is not empty, or was empty  *)
(* for the whole window. A Pod has to be there, or its creation may still   *)
(* be under way.                                                            *)
Observe ==
    /\ pc = "observe"
    /\ kubectl /\ ~cancelled
    /\ UNCHANGED Environment
    /\ \/ /\ Selected = {}
          /\ empties + 1 < MaxLists
          /\ empties' = empties + 1
          /\ UNCHANGED <<pc, attempt, counts, found, todo, clear, expired, outcome>>
       \/ Selected = {} /\ empties + 1 >= EmptyLists /\ GiveUp
       \/ /\ Selected # {}
          /\ \A o \in Selected : ~dying[o]
          /\ <<"Pod", attempt>> \in Selected
          /\ found' = {<<o, uid[o]>> : o \in Selected}
          /\ todo' = found'
          /\ Goto("delete")
          /\ UNCHANGED <<attempt, eof, empties, clear, outcome>>
       \/ /\ Selected # {}
          /\ \E o \in Selected : dying[o] \/ <<"Pod", attempt>> \notin Selected
          /\ GiveUp

(* deleteKtctlAttemptResource, with the observed UID as its precondition.   *)
(* An object may take its time to go, and an answer may get lost.           *)
Remove(o) ==
    /\ uid' = [uid EXCEPT ![o] = 0]
    /\ label' = [label EXCEPT ![o] = FALSE]
    /\ dying' = [dying EXCEPT ![o] = FALSE]

Terminate(o) ==
    /\ dying' = [dying EXCEPT ![o] = TRUE]
    /\ UNCHANGED <<uid, label>>

(* Mutant: no UID precondition.                                          *)
DeleteByName ==
    /\ pc = "delete"
    /\ ~cancelled
    /\ UNCHANGED <<configuration, cancelled, ktctl, attempt, eof, empties, found, clear>>
    /\ \E x \in todo :
        /\ uid[x[1]] # 0
        /\ Remove(x[1]) \/ Terminate(x[1])
        /\ \/ /\ todo' = todo \ {x}
              /\ IF todo' = {} THEN Goto("confirm") ELSE UNCHANGED <<pc, expired, ready, good>>
              /\ UNCHANGED outcome
           \/ May("query") /\ Return("failed") /\ UNCHANGED <<todo, recorded>>

Delete ==
    /\ pc = "delete"
    /\ ~cancelled
    /\ UNCHANGED <<configuration, cancelled, ktctl, attempt, eof, empties, found, clear>>
    /\ \E x \in todo :
        /\ uid[x[1]] = x[2]
        /\ Remove(x[1]) \/ Terminate(x[1])
        /\ \/ /\ todo' = todo \ {x}
              /\ IF todo' = {} THEN Goto("confirm") ELSE UNCHANGED <<pc, expired, ready, good>>
              /\ UNCHANGED outcome
           \/ May("query") /\ Return("failed") /\ UNCHANGED <<todo, recorded>>

DeleteRefused ==
    /\ pc = "delete"
    /\ \E x \in todo : uid[x[1]] # x[2]
    /\ GiveUp
    /\ UNCHANGED Environment

(* waitForKtctlAttemptResourcesDeleted: the list by label, then every       *)
(* observed resource by its exact name, until all of it is gone.            *)
ConfirmList ==
    /\ pc = "confirm"
    /\ ~Over
    /\ UNCHANGED Environment
    /\ \/ /\ \A o \in Selected : <<o, uid[o]>> \in found
          /\ clear' = (Selected = {})
          /\ todo' = found
          /\ pc' = "exact"
          /\ UNCHANGED <<attempt, counts, empties, found, expired, outcome>>
       \/ /\ \E o \in Selected : <<o, uid[o]>> \notin found
          /\ GiveUp

(* Mutant: only what the label selects counts as left.                   *)
ConfirmByLabel ==
    /\ pc = "exact"
    /\ ~Over
    /\ UNCHANGED Environment
    /\ \E x \in todo :
        \/ /\ uid[x[1]] \in {0, x[2]}
           /\ UNCHANGED clear
           /\ todo' = todo \ {x}
           /\ UNCHANGED <<pc, attempt, counts, empties, found, expired, outcome>>
        \/ uid[x[1]] \notin {0, x[2]} /\ GiveUp

ConfirmExact ==
    /\ pc = "exact"
    /\ ~Over
    /\ UNCHANGED Environment
    /\ \E x \in todo :
        \/ /\ uid[x[1]] \in {0, x[2]}
           /\ clear' = (clear /\ uid[x[1]] = 0)
           /\ todo' = todo \ {x}
           /\ UNCHANGED <<pc, attempt, counts, empties, found, expired, outcome>>
        \/ uid[x[1]] \notin {0, x[2]} /\ GiveUp

ConfirmEnds ==
    /\ pc = "exact" /\ todo = {}
    /\ IF clear THEN Goto("regate") ELSE pc' = "confirm" /\ UNCHANGED <<expired, ready, good>>
    /\ UNCHANGED <<Environment, attempt, eof, recovery, outcome>>

-----------------------------------------------------------------------------
(* External: ktctl, the cluster, other users of it, time and the caller.    *)

Call == <<configuration, pc, attempt, counts, recovery, outcome>>

(* The request was answered: ktctl goes on to the next one.                 *)
KtctlProceeds(a) ==
    /\ proc[a] = "up" /\ driver = "ktctl"
    /\ phase[a] \in Kind /\ <<phase[a], a>> \notin flight
    /\ IF phase[a] = "ConfigMap"
          THEN /\ phase' = [phase EXCEPT ![a] = "Pod"]
               /\ flight' = flight \cup {<<"Pod", a>>}
               /\ UNCHANGED log
          ELSE /\ phase' = [phase EXCEPT ![a] = "serving"]
               /\ log' = [log EXCEPT ![a] = @ \cup {"tunnel"}]
               /\ UNCHANGED flight
    /\ UNCHANGED <<Call, expired, cancelled, proc, cluster>>

KtctlReports(a) ==
    /\ proc[a] = "up" /\ phase[a] = "serving"
    /\ log' = [log EXCEPT ![a] = @ \cup {"fatal"}]
    /\ UNCHANGED <<Call, expired, cancelled, proc, phase, flight, cluster>>

(* It exits, with or without the line that tells of an EOF in a POST to     *)
(* /pods, or only its group is left.                                        *)
KtctlEnds(a) ==
    /\ \/ proc[a] = "up" /\ proc' \in {[proc EXCEPT ![a] = "gone"], [proc EXCEPT ![a] = "stuck"]}
       \/ proc[a] = "stuck" /\ proc' = [proc EXCEPT ![a] = "gone"]
    /\ \/ UNCHANGED log
       \/ /\ proc[a] = "up" /\ phase[a] \in {"Pod", "serving"} /\ driver = "ktctl"
          /\ log' = [log EXCEPT ![a] = @ \cup {"eof"}]
    /\ UNCHANGED <<Call, expired, cancelled, phase, flight, cluster>>

(* A create request takes effect, late or not, or never does.               *)
Lands(o) ==
    /\ o \in flight
    /\ flight' = flight \ {o}
    /\ uid' = [uid EXCEPT ![o] = 1]
    /\ label' = [label EXCEPT ![o] = TRUE]
    /\ UNCHANGED <<Call, expired, cancelled, proc, phase, log, dying>>

Lost(o) ==
    /\ o \in flight /\ proc[o[2]] # "up"
    /\ flight' = flight \ {o}
    /\ UNCHANGED <<Call, expired, cancelled, proc, phase, log, cluster>>

Vanishes(o) ==
    /\ dying[o]
    /\ Remove(o)
    /\ UNCHANGED <<Call, expired, cancelled, ktctl>>

(* Somebody deletes an object, takes its label off, or puts another of the  *)
(* same name in its place, which may have copied its label.                 *)
Others(o) ==
    /\ May("others") /\ uid[o] = 1
    /\ \/ ~dying[o] /\ Terminate(o)
       \/ label[o] /\ label' = [label EXCEPT ![o] = FALSE] /\ UNCHANGED <<uid, dying>>
       \/ /\ uid' = [uid EXCEPT ![o] = 2]
          /\ UNCHANGED label \/ label' = [label EXCEPT ![o] = FALSE]
          /\ dying' = [dying EXCEPT ![o] = FALSE]
    /\ UNCHANGED <<Call, expired, cancelled, ktctl>>

Expire ==
    /\ pc \in (DOMAIN AfterGate) \cup {"wait", "confirm", "exact"}
    /\ ~expired /\ expired' = TRUE
    /\ UNCHANGED <<Call, cancelled, ktctl, cluster>>

Cancel ==
    /\ pc # "returned"
    /\ ~cancelled /\ cancelled' = TRUE
    /\ UNCHANGED <<Call, expired, ktctl, cluster>>

-----------------------------------------------------------------------------
Step ==
    \/ Preflight \/ GateProbe \/ GateFails
    \/ Launch \/ LaunchFails \/ WaitEnds \/ WaitFatal \/ WaitExit \/ WaitProbe
    \/ SaveRecord \/ StopSucceeds \/ StopFails
    \/ RecoverFails \/ Observe \/ Delete \/ DeleteRefused
    \/ ConfirmList \/ ConfirmExact \/ ConfirmEnds

World ==
    \/ \E a \in Attempt : KtctlProceeds(a) \/ KtctlReports(a) \/ KtctlEnds(a)
    \/ \E o \in Object : Lands(o) \/ Lost(o) \/ Vanishes(o) \/ Others(o)
    \/ Expire \/ Cancel

Returned == pc = "returned" /\ UNCHANGED vars

Next == Step \/ World \/ Returned

Spec == Init /\ [][Next]_vars

(* The call is scheduled, and its deadlines pass.                           *)
FairSpec == Spec /\ WF_vars(Step) /\ WF_vars(Expire)

-----------------------------------------------------------------------------
(* Properties                                                               *)

ControlType ==
    /\ driver \in Drivers /\ safe \in BOOLEAN /\ kubectl \in BOOLEAN
    /\ pc \in Control
    /\ attempt \in 0 .. MaxAttempts
    /\ eof \in BOOLEAN /\ ready \in 0 .. ReadyProbes - 1 /\ good \in 0 .. ApiProbes - 1
    /\ expired \in BOOLEAN /\ cancelled \in BOOLEAN

RecoveryType ==
    /\ empties \in 0 .. MaxLists - 1
    /\ found \subseteq Object \X {1, 2} /\ todo \subseteq found
    /\ clear \in BOOLEAN

OutcomeType ==
    /\ snapshot \in BOOLEAN /\ recorded \in BOOLEAN
    /\ result \in {"none", "ready", "failed", "unstopped"}

KtctlType ==
    /\ proc \in [Attempt -> {"none", "up", "stuck", "gone"}]
    /\ phase \in [Attempt -> Kind \cup {"none", "serving"}]
    /\ log \in [Attempt -> SUBSET {"tunnel", "fatal", "eof"}]
    /\ flight \subseteq Object
    /\ \A a \in Attempt : (proc[a] = "none") <=> (a > attempt)

ClusterType ==
    /\ uid \in [Object -> 0 .. 2] /\ label \in [Object -> BOOLEAN]
    /\ dying \in [Object -> BOOLEAN]
    /\ \A o \in Object : uid[o] = 0 => ~label[o] /\ ~dying[o]

(* The shape of the state; only the last attempt can still be running, and  *)
(* an object that is not there has no label and is not terminating.         *)
TypeOK == ControlType /\ RecoveryType /\ OutcomeType /\ KtctlType /\ ClusterType

(* ktctl is launched again only when nothing of the attempt before is left: *)
(* its processes are gone, no request of it is under way, no object carries *)
(* its label, and of those that were observed none is there, whatever       *)
(* happened to their labels.                                                *)
CleanRetry ==
    [][attempt' > attempt /\ attempt > 0 =>
        /\ proc[attempt] = "gone"
        /\ flight \cap Named = {}
        /\ Selected = {}
        /\ \A x \in found : uid[x[1]] = 0]_vars

(* What somebody else put in the place of an attempt's object is never      *)
(* deleted, unless it carried the attempt's own label when it was observed. *)
OthersSpared ==
    [][\A o \in Object : uid[o] = 2 /\ <<o, 2>> \notin found =>
        uid'[o] = 2 /\ dying'[o] = dying[o]]_vars

(* A process that may still run is handed to the caller, with its           *)
(* kubeconfig in place; a call that returns none leaves neither behind.     *)
NothingLeft ==
    LET alive == \E a \in Attempt : proc[a] \in {"up", "stuck"} IN
    /\ alive /\ driver = "ktctl" => snapshot
    /\ result = "failed" => ~alive /\ ~snapshot

(* Every call returns: no wait outlives its deadline.                       *)
CallEnds == <>(pc = "returned")

-----------------------------------------------------------------------------
(* The inductive invariant                                                  *)

Recovering == {"preaudit", "observe", "delete", "confirm", "exact", "regate"}
Audited == pc \in {"delete", "confirm", "exact", "regate"} \/ (pc = "launch" /\ attempt > 0)
Confirmed == pc = "regate" \/ (pc = "launch" /\ attempt > 0)

(* A request under way is the one its attempt is at, and not yet answered.  *)
InOrder(a) ==
    /\ \A k \in Kind : <<k, a>> \in flight => phase[a] = k /\ uid[<<k, a>>] = 0
    /\ phase[a] \in {"none", "ConfigMap"} => uid[<<"Pod", a>>] = 0
    /\ a > attempt => phase[a] = "none" /\ uid[<<"ConfigMap", a>>] = 0

RequestInv == \A a \in Attempt : InOrder(a)

(* Where the call is says how many attempts were made, and that the last    *)
(* one is gone before it is recovered from; those before it always are.     *)
AttemptInv ==
    /\ pc \in {"preflight", "gate"} => attempt = 0
    /\ pc \in Recovering \cup {"launch"} => attempt < MaxAttempts
    /\ pc \in Recovering \cup {"wait", "save", "stop"} => attempt > 0
    /\ pc \in Recovering \cup {"launch"} => \A a \in Attempt : proc[a] \in {"none", "gone"}
    /\ \A a \in Attempt : a < attempt => proc[a] = "gone"

SnapshotInv ==
    /\ pc = "returned" <=> result # "none"
    /\ pc = "preflight" => ~snapshot
    /\ driver = "ktctl" /\ pc # "preflight" /\ result # "failed" => snapshot
    /\ NothingLeft

(* Once a Pod was observed no request is under way; what the confirmation   *)
(* has looked at stays as it was.                                           *)
RecoveryInv ==
    /\ Audited => flight \cap Named = {} /\ \A x \in found : x[1] \in Named
    /\ pc = "exact" /\ clear => Selected = {} /\ \A x \in found \ todo : uid[x[1]] = 0
    /\ Confirmed => Selected = {} /\ \A x \in found : uid[x[1]] = 0

(* What replaced an attempt's object is terminating only when it was found. *)
ForeignInv ==
    \A o \in Object : uid[o] = 2 /\ dying[o] =>
        <<o, 2>> \in found /\ pc \in {"delete", "confirm", "exact", "returned"}

IInv == TypeOK /\ RequestInv /\ AttemptInv /\ SnapshotInv /\ RecoveryInv /\ ForeignInv
=============================================================================
