---------------------- MODULE SharedConnectionInvariant ----------------------
(***************************************************************************)
(* Why the shared connections are safe: the inductive invariant of       *)
(* SharedConnection, from which UsersKeepConnection and OneKtctl follow. *)
(***************************************************************************)
EXTENDS SharedConnection

(* The connection lock is held exactly by the command inside a critical  *)
(* section; one that prunes has a record before it.                      *)
LockInv ==
    \A w \in Workspace :
        /\ pc[w] \in Holding <=> connLock = w
        /\ pc[w] \in Pruning => cur \in Fingerprint

(* Where services run under a lease, what has been launched, and that a  *)
(* release has a connection to release.                                  *)
Launched == {"await", "failed", "failedManaged"}
MayUse == {"idle", "validate", "renew", "stopOld", "restarting"}

CommandInv ==
    \A w \in Workspace :
        /\ pc[w] = "release" => sconn[w] # None
        /\ user[w] => /\ svc[w] \in {"live", "stuck"}
                      /\ sconn[w] # None
                      /\ pc[w] \in MayUse
        /\ pc[w] \in Launched => result[w] # None
        /\ pc[w] \notin Launched \cup {"save"} => result[w] = None

(* A process is recorded under its own configuration, is named by nobody *)
(* before it is launched, and by nobody but its command until it is ready;*)
(* what a session names without managing it is in no record.             *)
RegistryInv ==
    /\ \A f \in Fingerprint : rec[f] # None => FingerprintOf[rec[f]] = f
    /\ \A p \in Proc : conn[p] = "unused" =>
          /\ \A f \in Fingerprint : rec[f] # p
          /\ \A w \in Workspace : sconn[w] # p /\ result[w] # p
    /\ \A w \in Workspace :
          /\ pc[w] \in Launched => \A f \in Fingerprint : rec[f] # result[w]
          /\ sconn[w] # None /\ ~smanaged[w] => \A f \in Fingerprint : rec[f] # sconn[w]
          /\ pc[w] = "await" =>
                /\ FingerprintOf[result[w]] = target[w]
                /\ \A x \in Workspace : /\ sconn[x] # result[w]
                                        /\ x # w => result[x] # result[w]

(* The record a launch will write is free until then; the one a start    *)
(* examines first is its own, those a sweep examines are others.         *)
TargetInv ==
    \A w \in Workspace :
        /\ pc[w] \in {"launch", "await", "sweep", "pruneSweep"} => rec[target[w]] = None
        /\ pc[w] \in {"sweep", "pruneSweep"} => target[w] \notin rest
        /\ pc[w] = "pruneSweep" => cur # target[w]
        /\ pc[w] = "pruneEnsure" => cur = target[w]

(* x relies on p: its services run under a lease on it, or are about to. *)
Protected(x, p) ==
    \/ user[x] /\ sconn[x] = p
    \/ pc[x] = "save" /\ result[x] = p
    \/ pc[x] = "services" /\ sconn[x] = p

(* Whoever relies on a connection that is there has a lease on its record,*)
(* in the file and in the memory of the command that is pruning the record.*)
LeaseInv ==
    \A x \in Workspace, p \in Proc :
        Protected(x, p) =>
            /\ conn[p] # "stopped"
            /\ conn[p] \in {"running", "leaderless"} =>
                  /\ rec[FingerprintOf[p]] = p
                  /\ x \in leases[FingerprintOf[p]]
                  /\ \A w \in Workspace :
                        pc[w] \in Pruning /\ cur = FingerprintOf[p] => x \in mem

(* The workspace under suspicion cannot have gained a lease since.       *)
SuspectInv ==
    /\ connLock = None => suspect = None
    /\ \A w \in Workspace : suspect = w => pc[w] \notin {"save", "services"}

(* The records still to be examined are there, and so is the one being   *)
(* examined, which is none of them.                                      *)
ScanInv ==
    /\ connLock = None => rest = {}
    /\ \A f \in rest : rec[f] # None
    /\ \A w \in Workspace : pc[w] \in Pruning => rec[cur] # None /\ cur \notin rest

(* A record that may be joined names no connection that Conven stopped.  *)
JoinInv ==
    /\ connLock = None => active = {}
    /\ \A w \in Workspace :
          /\ pc[w] \in Holding \ {"sweep", "pruneSweep"} => active = {}
          /\ pc[w] = "endpoints" /\ rec[target[w]] # None => conn[rec[target[w]]] # "stopped"
          /\ pc[w] = "pruneSweep" => cur \notin active
    /\ \A f \in active : rec[f] # None /\ conn[rec[f]] # "stopped" /\ f \notin rest

(* No tunnel runs that executable when a ktctl tunnel is about to be     *)
(* launched.                                                             *)
LaunchInv ==
    \A w \in Workspace : pc[w] = "launch" /\ target[w] \in Ktctl => ~KtctlRunning(w)

(* Running ktctl tunnels run different executables.                      *)
ApartInv ==
    \A p, q \in Proc :
        /\ p # q
        /\ Current(p) /\ Current(q)
        /\ FingerprintOf[p] \in Ktctl /\ FingerprintOf[q] \in Ktctl
        => ExecutableOf[p] # ExecutableOf[q]

(* The registry has at most one ktctl record: a sweep sees all of them, and*)
(* launches only when none of them is left.                              *)
SingleRecordInv ==
    /\ \A f, g \in Ktctl : rec[f] # None /\ rec[g] # None => f = g
    /\ \A w \in Workspace :
          /\ pc[w] \in {"sweep", "pruneSweep"} =>
                /\ target[w] \in Ktctl
                /\ \A f \in Ktctl : rec[f] # None =>
                      f \in rest \cup active \/ (pc[w] = "pruneSweep" /\ f = cur)
          /\ pc[w] \in {"launch", "await"} /\ target[w] \in Ktctl =>
                \A f \in Ktctl : rec[f] = None

(* Only a forced command recovers connections that nobody leases.        *)
ForceInv ==
    \A w \in Workspace : pc[w] \in {"recover", "recovering", "pruneRecover"} => forced[w]

(* The inductive invariant. *)
IInv == /\ TypeOK /\ LockInv /\ CommandInv /\ RegistryInv /\ TargetInv
        /\ LeaseInv /\ SuspectInv /\ ScanInv /\ JoinInv /\ LaunchInv /\ ForceInv
        /\ SingleRecordInv /\ ApartInv
-----------------------------------------------------------------------------
(* What the records say of those who lease and of those who run: the     *)
(* invariant from which NoLeaseWithoutSession and NoLostConnection follow.*)

(* A lease is in a record, and pruning adds none.                        *)
BookInv ==
    /\ \A f \in Fingerprint : rec[f] = None => leases[f] = {}
    /\ \A w \in Workspace : pc[w] \in Pruning => mem \subseteq leases[cur]

(* A start asks for a connection when its session names none any more, or*)
(* one of the same ktctl configuration that it retained.                 *)
Asking == {"ensure", "pruneEnsure", "endpoints", "sweep", "pruneSweep", "launch", "save"}
              \cup Launched

RetainInv ==
    \A w \in Workspace :
        /\ pc[w] \in Asking /\ sconn[w] # None => retained[w]
        /\ pc[w] \in Asking \cup {"stopOld"} /\ retained[w] =>
              /\ sconn[w] # None /\ smanaged[w]
              /\ FingerprintOf[sconn[w]] = target[w] /\ target[w] \in Ktctl
              /\ Current(sconn[w]) => rec[target[w]] = sconn[w]
        /\ retained[w] => pc[w] \in Asking \cup {"stopOld", "services"}

(* A release prunes the record of its session's connection, without the  *)
(* lease of its own.                                                     *)
ReleaseInv ==
    \A w \in Workspace : pc[w] = "pruneRelease" =>
        /\ smanaged[w] /\ cur = FingerprintOf[sconn[w]]
        /\ w \notin mem

(* A workspace has a lease on the connection its session names, or is about*)
(* to name, and on no other.                                             *)
Leased(w) == IF pc[w] = "save" THEN result[w] ELSE IF smanaged[w] THEN sconn[w] ELSE None

OwnLeaseInv ==
    \A w \in Workspace : ~crashed[w] =>
        \A f \in Fingerprint : w \in leases[f] =>
            /\ Leased(w) # None /\ FingerprintOf[Leased(w)] = f
            /\ pc[w] \notin {"clear", "failed", "failedManaged"}

(* While a ktctl tunnel runs, its configuration has no other record, if  *)
(* every workspace finds the same executable for it.                     *)
SameExecutable ==
    \A p, q \in Proc : FingerprintOf[p] = FingerprintOf[q] => ExecutableOf[p] = ExecutableOf[q]

AloneInv ==
    SameExecutable =>
        \A p \in Proc :
            Current(p) /\ FingerprintOf[p] \in Ktctl => rec[FingerprintOf[p]] \in {p, None}

(* A managed connection is recorded while it runs, unless its record could*)
(* not be written.                                                       *)
RecordedInv ==
    \A w \in Workspace :
        /\ pc[w] = "save" /\ result[w] # None /\ Current(result[w]) =>
              rec[FingerprintOf[result[w]]] = result[w]
        /\ "saveFails" \notin Faults =>
              /\ pc[w] # "failedManaged"
              /\ sconn[w] # None /\ smanaged[w] /\ Current(sconn[w]) =>
                    rec[FingerprintOf[sconn[w]]] = sconn[w]

(* A running connection is in its record, in the hands of the command that*)
(* launched it, or in a session that is not being cleared.               *)
FoundInv ==
    \A p \in Proc : Current(p) =>
        \/ rec[FingerprintOf[p]] = p
        \/ p \in orphan
        \/ \E w \in Workspace : pc[w] \in Launched /\ result[w] = p
        \/ \E w \in Workspace : pc[w] # "clear" /\ sconn[w] = p

(* Records can be written, or every connection is a ktctl tunnel, of which*)
(* no second one is launched while the first runs: all find one executable.*)
RecordsSuffice == "saveFails" \notin Faults \/ (Ktctl = Fingerprint /\ SameExecutable)

LedgerInv ==
    /\ BookInv /\ RetainInv /\ ReleaseInv /\ OwnLeaseInv /\ AloneInv /\ RecordedInv
    /\ RecordsSuffice => FoundInv
=============================================================================
