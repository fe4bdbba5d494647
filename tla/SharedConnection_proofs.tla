---------------------- MODULE SharedConnection_proofs ----------------------
(***************************************************************************)
(* Proofs about SharedConnection for every set of workspaces, of           *)
(* configurations and of processes, and every choice of faults.            *)
(*                                                                         *)
(* SharedConnectionInvariant!IInv is inductive: one lemma for each of its  *)
(* conjuncts, one step for each action in each lemma.  Steps whose proof   *)
(* needs an argument come first in a lemma, those that follow from the     *)
(* definitions after them.                                                 *)
(***************************************************************************)
EXTENDS SharedConnectionInvariant, TLAPS

(* Helpers: what a step does to one part of the state keeps that part typed.
   They stand for the bookkeeping every command shares: going on, returning,
   giving the connection lock back, and rewriting one record file. *)
LEMMA NoTargetType == NoTarget \in Fingerprint
  BY ConstantsAssumption DEF NoTarget

(* A command that goes on keeps its local variables typed (Proceed). *)
LEMMA ProceedType ==
  ASSUME TypeOK, NEW w \in Workspace, NEW label \in Control, Proceed(w, label)
  PROVE  ControlType'
  BY DEF TypeOK, ControlType, Proceed, Goto, args

(* A command that returns keeps its local variables typed (Return). *)
LEMMA ReturnType ==
  ASSUME TypeOK, NEW w \in Workspace, Return(w)
  PROVE  ControlType'
  BY NoTargetType DEF TypeOK, ControlType, Return, Goto, Control

(* Giving the connection lock back forgets what was read under it. *)
LEMMA UnlockType ==
  ASSUME TypeOK, Unlock
  PROVE  LockType'
  BY DEF LockType, Unlock, ClearScan

(* Reading record f to examine the leases in kept keeps the scan typed. *)
LEMMA ReadType ==
  ASSUME TypeOK, NEW f \in Fingerprint, NEW kept \in SUBSET Workspace, Read(f, kept)
  PROVE  /\ cur' \in Fingerprint
         /\ mem' \in SUBSET Workspace
         /\ todo' \in SUBSET Workspace
         /\ suspect' \in Workspace \cup {None}
  BY DEF Read

(* Removing a record file keeps the registry typed. *)
LEMMA RemoveRecordType ==
  ASSUME TypeOK, NEW f, RemoveRecord(f)
  PROVE  RegistryType'
  BY DEF TypeOK, RegistryType, RemoveRecord

(* Saving the leases that survived the pruning keeps the registry typed. *)
LEMMA SaveLeasesType ==
  ASSUME TypeOK, NEW f, SaveLeases(f, mem)
  PROVE  RegistryType'
  BY DEF TypeOK, RegistryType, LockType, SaveLeases

(* Adding or renewing a lease keeps the registry typed. *)
LEMMA AddLeaseType ==
  ASSUME TypeOK, NEW f, NEW w \in Workspace, AddLease(f, w)
  PROVE  RegistryType'
  BY DEF TypeOK, RegistryType, AddLease

(* Joining an existing record hands start the process it names. *)
LEMMA JoinType ==
  ASSUME TypeOK, NEW f \in Fingerprint, NEW w \in Workspace, Join(w, f)
  PROVE  ControlType' /\ LockType' /\ RegistryType'
  <1>1. ControlType'
    BY DEF TypeOK, ControlType, RegistryType, Join, Goto, Control
  <1>2. LockType'
    BY UnlockType DEF Join
  <1>3. RegistryType'
    BY AddLeaseType DEF Join
  <1>4. QED
    BY <1>1, <1>2, <1>3

(* Signalling a connection process, with or without success, moves it from
   one known state to another. *)
LEMMA StoppedType ==
  ASSUME TypeOK, NEW p, NEW force, Stopped(p, force) \/ NotStopped(p, force)
  PROVE  ProcessType'
  BY DEF TypeOK, ProcessType, Stopped, NotStopped, Becomes, ConnState

(* A release that failed keeps the session typed. *)
LEMMA ReleaseFailsType ==
  ASSUME TypeOK, NEW w \in Workspace, ReleaseFails(w)
  PROVE  ControlType' /\ DiskType'
  <1>1. ControlType'
    BY ReturnType DEF ReleaseFails
  <1>2. DiskType'
    BY DEF TypeOK, DiskType, ReleaseFails
  <1>3. QED
    BY <1>1, <1>2

(* What a step leaves alone stays typed. *)
LEMMA StutterType ==
  ASSUME TypeOK
  PROVE  /\ UNCHANGED pc /\ UNCHANGED args => ControlType'
         /\ UNCHANGED disk => DiskType'
         /\ UNCHANGED connLock /\ UNCHANGED scan => LockType'
         /\ UNCHANGED record => RegistryType'
         /\ UNCHANGED conn => ProcessType'
         /\ UNCHANGED history => HistoryType'
  BY DEF TypeOK, ControlType, DiskType, LockType, RegistryType, ProcessType, HistoryType,
         args, disk, scan, record, history

(* Every step of a command and of its environment keeps the state typed: in
   particular no step of connection.go reads or writes a record or a session
   entry outside the domains the registry is built from. *)
LEMMA TypeStep ==
  ASSUME TypeOK, LockInv, CommandInv, [Next]_vars
  PROVE  TypeOK'
  <1> USE ConstantsAssumption, NoTargetType, StutterType
          DEF Control, Waiting, Holding, Pruning
  <1>1. ASSUME NEW w \in Workspace, NEW f \in Fingerprint, Start(w, f) PROVE TypeOK'
    BY <1>1
       DEF TypeOK, Start, ControlType, DiskType, Goto
  <1>2. ASSUME NEW w \in Workspace, ValidateReplacement(w) PROVE TypeOK'
    BY <1>2, ProceedType, ReturnType
       DEF TypeOK, ValidateReplacement
  <1>3. ASSUME NEW w \in Workspace, Renew(w) PROVE TypeOK'
    BY <1>3, ProceedType, ReturnType, AddLeaseType
       DEF TypeOK, Renew, ControlType, Goto
  <1>4. ASSUME NEW w \in Workspace, StopOld(w) PROVE TypeOK'
    BY <1>4, ProceedType, ReturnType
       DEF TypeOK, StopOld, DiskType, HistoryType
  <1>5. ASSUME NEW w \in Workspace, EnsureAcquire(w) PROVE TypeOK'
    <2>1. ControlType'
      BY <1>5, ProceedType DEF EnsureAcquire
    <2>2. LockType'
      <3>1. target[w] \in Fingerprint /\ leases[target[w]] \in SUBSET Workspace
        BY DEF TypeOK, ControlType, RegistryType
      <3>2. CASE UNCHANGED scan
        BY <1>5, <3>2 DEF EnsureAcquire, Lock, TypeOK, LockType, scan
      <3>3. CASE Read(target[w], leases[target[w]]) /\ UNCHANGED <<rest, active, ready>>
        BY <1>5, <3>1, <3>3, ReadType DEF EnsureAcquire, Lock, TypeOK, LockType
      <3>4. QED
        BY <1>5, <3>2, <3>3 DEF EnsureAcquire
    <2>3. QED
      BY <1>5, <2>1, <2>2 DEF EnsureAcquire, TypeOK
  <1>6. ASSUME NEW w \in Workspace, JudgeEnsure(w) PROVE TypeOK'
    BY <1>6, ProceedType, ReturnType, UnlockType, RemoveRecordType, SaveLeasesType,
       StoppedType
       DEF TypeOK, JudgeEnsure, Unwritten, Unremoved, Pruned, Holds
  <1>7. ASSUME NEW w \in Workspace, Endpoints(w) PROVE TypeOK'
    <2>1. target[w] \in Fingerprint
      BY DEF TypeOK, ControlType
    <2>2. CASE Join(w, target[w])
      BY <1>7, <2>1, <2>2, JoinType DEF Endpoints, TypeOK
    <2>3. CASE Return(w) /\ Unlock /\ UNCHANGED record
      BY <1>7, <2>3, ReturnType, UnlockType DEF Endpoints, TypeOK
    <2>4. CASE Proceed(w, "save") /\ Unlock /\ UNCHANGED record
      BY <1>7, <2>4, ProceedType, UnlockType DEF Endpoints, TypeOK
    <2>5. CASE Proceed(w, "launch") /\ UNCHANGED <<connLock, scan, record>>
      BY <1>7, <2>5, ProceedType DEF Endpoints, TypeOK
    <2>6. CASE /\ ready' \in BOOLEAN
               /\ rest' = {g \in Ktctl : rec[g] # None}
               /\ Proceed(w, "sweep")
               /\ UNCHANGED <<connLock, cur, mem, todo, suspect, active, record>>
      <3>1. ControlType' /\ RegistryType'
        BY <2>6, ProceedType
      <3>2. LockType'
        BY <2>6 DEF TypeOK, LockType
      <3>3. QED
        BY <1>7, <3>1, <3>2 DEF Endpoints, TypeOK
    <2>7. QED
      BY <1>7, <2>2, <2>3, <2>4, <2>5, <2>6 DEF Endpoints
  <1>8. ASSUME NEW w \in Workspace, SweepNext(w) PROVE TypeOK'
    BY <1>8, ProceedType
       DEF TypeOK, SweepNext, Holds, Read, LockType, RegistryType
  <1>9. ASSUME NEW w \in Workspace, JudgeSweep(w) PROVE TypeOK'
    <2>1. ProcessType'
      BY <1>9, StoppedType DEF JudgeSweep, Unwritten, Unremoved, TypeOK
    <2>2. RegistryType'
      BY <1>9, SaveLeasesType, RemoveRecordType DEF JudgeSweep, Unwritten, Unremoved, TypeOK
    <2>3. ControlType'
      BY <1>9, ProceedType, ReturnType DEF JudgeSweep, Unwritten, Unremoved, TypeOK
    <2>4. LockType'
      <3>1. cur \in Fingerprint
        BY <1>9 DEF JudgeSweep, Unwritten, Unremoved, Pruned, Holds, LockInv
      <3>2. CASE Unlock
        BY <3>2, UnlockType
      <3>3. CASE UNCHANGED <<connLock, scan>>
        BY <3>3
      <3>4. CASE /\ active' = active \cup {cur}
                 /\ UNCHANGED <<connLock, cur, mem, todo, suspect, rest, ready>>
        BY <3>1, <3>4 DEF TypeOK, LockType
      <3>5. QED
        BY <1>9, <3>2, <3>3, <3>4 DEF JudgeSweep, Unwritten, Unremoved
    <2>5. QED
      BY <1>9, <2>1, <2>2, <2>3, <2>4 DEF JudgeSweep, Unwritten, Unremoved, TypeOK
  <1>10. ASSUME NEW w \in Workspace, SweepDone(w) PROVE TypeOK'
    <2>1. CASE \E f \in active : Join(w, f)
      <3>1. PICK f \in Fingerprint : Join(w, f)
        BY <2>1 DEF TypeOK, LockType
      <3>2. QED
        BY <1>10, <3>1, JoinType DEF SweepDone, TypeOK
    <2>2. CASE Return(w) /\ Unlock /\ UNCHANGED record
      BY <1>10, <2>2, ReturnType, UnlockType DEF SweepDone, TypeOK
    <2>3. CASE Proceed(w, "launch") /\ UNCHANGED <<connLock, scan, record>>
      BY <1>10, <2>3, ProceedType DEF SweepDone, TypeOK
    <2>4. QED
      BY <1>10, <2>1, <2>2, <2>3 DEF SweepDone
  <1>11. ASSUME NEW w \in Workspace, Launch(w) PROVE TypeOK'
    BY <1>11
       DEF TypeOK, Launch, Holds, Becomes, ControlType, ProcessType, ConnState, Goto
  <1>12. ASSUME NEW w \in Workspace, LaunchFails(w) PROVE TypeOK'
    BY <1>12, ReturnType, UnlockType
       DEF TypeOK, LaunchFails, Holds
  <1>13. ASSUME NEW w \in Workspace, AwaitReady(w) PROVE TypeOK'
    BY <1>13, ProceedType, UnlockType
       DEF TypeOK, AwaitReady, Holds, RegistryType, ControlType
  <1>14. ASSUME NEW w \in Workspace, AwaitFails(w) PROVE TypeOK'
    BY <1>14, ProceedType, ReturnType, UnlockType, StoppedType
       DEF TypeOK, AwaitFails, Holds
  <1>15. ASSUME NEW w \in Workspace, SaveFailedSession(w) PROVE TypeOK'
    BY <1>15, ReturnType
       DEF TypeOK, SaveFailedSession, DiskType, ControlType
  <1>16. ASSUME NEW w \in Workspace, SaveSession(w) PROVE TypeOK'
    BY <1>16
       DEF TypeOK, SaveSession, DiskType, ControlType, Goto
  <1>17. ASSUME NEW w \in Workspace, StartServices(w) PROVE TypeOK'
    BY <1>17, ReturnType
       DEF TypeOK, StartServices, DiskType, HistoryType
  <1>18. ASSUME NEW w \in Workspace, Rollback(w) PROVE TypeOK'
    BY <1>18, ReturnType
       DEF TypeOK, Rollback, DiskType, ControlType, Goto
  <1>19. ASSUME NEW w \in Workspace, ReleaseUnmanaged(w) PROVE TypeOK'
    BY <1>19, ProceedType, StoppedType, ReleaseFailsType
       DEF TypeOK, ReleaseUnmanaged
  <1>20. ASSUME NEW w \in Workspace, ReleaseUnrecorded(w) PROVE TypeOK'
    BY <1>20, ProceedType, StoppedType, ReleaseFailsType
       DEF TypeOK, ReleaseUnrecorded
  <1>21. ASSUME NEW w \in Workspace, ReleaseAcquire(w) PROVE TypeOK'
    <2>1. FingerprintOf[sconn[w]] \in Fingerprint
      BY <1>21 DEF ReleaseAcquire, CommandInv, TypeOK, DiskType
    <2>2. leases[FingerprintOf[sconn[w]]] \ {w} \in SUBSET Workspace
      BY <2>1 DEF TypeOK, RegistryType
    <2>3. LockType'
      BY <1>21, <2>1, <2>2, ReadType DEF ReleaseAcquire, Lock, TypeOK, LockType
    <2>4. QED
      BY <1>21, <2>3, ProceedType DEF ReleaseAcquire, TypeOK
  <1>22. ASSUME NEW w \in Workspace, JudgeRelease(w) PROVE TypeOK'
    BY <1>22, ProceedType, UnlockType, RemoveRecordType, SaveLeasesType, StoppedType,
       ReleaseFailsType
       DEF TypeOK, JudgeRelease, Unwritten, Unremoved, Pruned, Holds
  <1>23. ASSUME NEW w \in Workspace, Clear(w) PROVE TypeOK'
    BY <1>23, ProceedType, ReturnType
       DEF TypeOK, Clear, EndSession, DiskType
  <1>24. ASSUME NEW w \in Workspace, PruneProbe(w) PROVE TypeOK'
    BY <1>24
       DEF TypeOK, PruneProbe, LockType
  <1>25. ASSUME NEW w \in Workspace, PruneRead(w) PROVE TypeOK'
    BY <1>25
       DEF TypeOK, PruneRead, LockType
  <1>26. ASSUME NEW w \in Workspace, NEW force \in BOOLEAN, Stop(w, force) PROVE TypeOK'
    <2>1. DiskType'
      BY <1>26 DEF Stop, TypeOK, DiskType
    <2>2. ControlType'
      BY <1>26 DEF Stop, TypeOK, ControlType, Goto, args
    <2>3. HistoryType'
      BY <1>26 DEF Stop, TypeOK, HistoryType
    <2>4. QED
      BY <1>26, <2>1, <2>2, <2>3 DEF Stop, TypeOK
  <1>27. ASSUME NEW w \in Workspace, Recover(w) PROVE TypeOK'
    BY <1>27
       DEF TypeOK, Recover, ControlType, Goto
  <1>28. ASSUME NEW w \in Workspace, RecoverAcquire(w) PROVE TypeOK'
    BY <1>28, ProceedType
       DEF TypeOK, RecoverAcquire, Lock, LockType
  <1>29. ASSUME NEW w \in Workspace, RecoverNext(w) PROVE TypeOK'
    BY <1>29, ProceedType, ReturnType, UnlockType
       DEF TypeOK, RecoverNext, Holds, Read, LockType, RegistryType
  <1>30. ASSUME NEW w \in Workspace, JudgeRecover(w) PROVE TypeOK'
    BY <1>30, ProceedType, ReturnType, UnlockType, RemoveRecordType, SaveLeasesType,
       StoppedType
       DEF TypeOK, JudgeRecover, Unwritten, Unremoved, Pruned, Holds
  <1>31. ASSUME NEW w \in Workspace, Restart(w) PROVE TypeOK'
    BY <1>31, ProceedType
       DEF TypeOK, Restart, DiskType, HistoryType
  <1>32. ASSUME NEW w \in Workspace, FinishRestart(w) PROVE TypeOK'
    BY <1>32, ReturnType
       DEF TypeOK, FinishRestart, DiskType, HistoryType
  <1>33. ASSUME NEW w \in Workspace, Cancel(w) PROVE TypeOK'
    BY <1>33, ReturnType
       DEF TypeOK, Cancel, DiskType
  <1>34. ASSUME NEW w \in Workspace, Crash(w) PROVE TypeOK'
    BY <1>34, ReturnType, UnlockType
       DEF TypeOK, Crash, HistoryType, ControlType
  <1>35. ASSUME NEW w \in Workspace, ServicesDie(w) PROVE TypeOK'
    BY <1>35
       DEF TypeOK, ServicesDie, DiskType, HistoryType
  <1>36. ASSUME NEW p \in Proc, ConnectionDies(p) PROVE TypeOK'
    BY <1>36
       DEF TypeOK, ConnectionDies, ProcessType, ConnState, Becomes
  <1>37. ASSUME NEW p \in Proc, PidReused(p) PROVE TypeOK'
    BY <1>37
       DEF TypeOK, PidReused, ProcessType, ConnState, Becomes
  <1>38. ASSUME NEW f \in Fingerprint, NEW w \in Workspace, LeaseAges(f, w) PROVE TypeOK'
    BY <1>38
       DEF TypeOK, LeaseAges, RegistryType
  <1>39. CASE UNCHANGED vars
    BY <1>39 DEF TypeOK, vars, args, disk, scan, record, history
  <1>40. ASSUME NEW w \in Workspace, Begin(w) PROVE TypeOK'
    BY <1>40, <1>1, <1>26, <1>27, <1>31 DEF Begin
  <1>41. ASSUME NEW w \in Workspace, StartStep(w) PROVE TypeOK'
    BY <1>41, <1>2, <1>3, <1>4, <1>5, <1>6, <1>7, <1>8, <1>9, <1>10, <1>11, <1>12, <1>13,
       <1>14, <1>15, <1>16, <1>17, <1>18 DEF StartStep
  <1>42. ASSUME NEW w \in Workspace, ReleaseStep(w) PROVE TypeOK'
    BY <1>42, <1>19, <1>20, <1>21, <1>22, <1>23 DEF ReleaseStep
  <1>43. ASSUME NEW w \in Workspace, PruneStep(w) \/ RecoverStep(w) \/ FinishRestart(w)
         PROVE TypeOK'
    BY <1>43, <1>24, <1>25, <1>28, <1>29, <1>30, <1>32 DEF PruneStep, RecoverStep
  <1>44. CASE Environment
    BY <1>44, <1>33, <1>34, <1>35, <1>36, <1>37, <1>38 DEF Environment
  <1>45. QED
    BY <1>39, <1>40, <1>41, <1>42, <1>43, <1>44 DEF Next, Step

-----------------------------------------------------------------------------

(* Nobody enters a critical section of the registry while another command is in
   one, and every way out of one, a failure or a kill included, gives the lock
   back (acquireConnectionLock and its deferred release). *)
LEMMA LockStep ==
  ASSUME ControlType, DiskType, LockType, RegistryType, LockInv, CommandInv, [Next]_vars
  PROVE  LockInv'
  <1> USE ConstantsAssumption, NoTargetType
          DEF ControlType, DiskType, LockType, RegistryType, LockInv, CommandInv, Proceed,
              Return, Goto, args, scan, Control, Waiting, Holding, Pruning
  <1>1. ASSUME NEW w \in Workspace, NEW f \in Fingerprint, Start(w, f) PROVE LockInv'
    BY <1>1 DEF Start
  <1>2. ASSUME NEW w \in Workspace, ValidateReplacement(w) PROVE LockInv'
    BY <1>2 DEF ValidateReplacement
  <1>3. ASSUME NEW w \in Workspace, Renew(w) PROVE LockInv'
    BY <1>3 DEF Renew
  <1>4. ASSUME NEW w \in Workspace, StopOld(w) PROVE LockInv'
    BY <1>4 DEF StopOld
  <1>5. ASSUME NEW w \in Workspace, EnsureAcquire(w) PROVE LockInv'
    BY <1>5 DEF EnsureAcquire, Lock, Read
  <1>6. ASSUME NEW w \in Workspace, JudgeEnsure(w) PROVE LockInv'
    BY <1>6
       DEF JudgeEnsure, Unwritten, Unremoved, Pruned, Holds, Unlock, ClearScan, Stopped,
           NotStopped, Becomes
  <1>7. ASSUME NEW w \in Workspace, Endpoints(w) PROVE LockInv'
    BY <1>7 DEF Endpoints, Holds, Join, Unlock, ClearScan
  <1>8. ASSUME NEW w \in Workspace, SweepNext(w) PROVE LockInv'
    BY <1>8 DEF SweepNext, Holds, Read
  <1>9. ASSUME NEW w \in Workspace, JudgeSweep(w) PROVE LockInv'
    BY <1>9
       DEF JudgeSweep, Unwritten, Unremoved, Pruned, Holds, Unlock, ClearScan, Stopped,
           NotStopped, Becomes
  <1>10. ASSUME NEW w \in Workspace, SweepDone(w) PROVE LockInv'
    BY <1>10 DEF SweepDone, Holds, Join, Unlock, ClearScan
  <1>11. ASSUME NEW w \in Workspace, Launch(w) PROVE LockInv'
    BY <1>11 DEF Launch, Holds
  <1>12. ASSUME NEW w \in Workspace, LaunchFails(w) PROVE LockInv'
    BY <1>12 DEF LaunchFails, Holds, Unlock, ClearScan
  <1>13. ASSUME NEW w \in Workspace, AwaitReady(w) PROVE LockInv'
    BY <1>13 DEF AwaitReady, Holds, Unlock, ClearScan
  <1>14. ASSUME NEW w \in Workspace, AwaitFails(w) PROVE LockInv'
    BY <1>14 DEF AwaitFails, Holds, Unlock, ClearScan, Stopped, NotStopped, Becomes
  <1>15. ASSUME NEW w \in Workspace, SaveFailedSession(w) PROVE LockInv'
    BY <1>15 DEF SaveFailedSession
  <1>16. ASSUME NEW w \in Workspace, SaveSession(w) PROVE LockInv'
    BY <1>16 DEF SaveSession
  <1>17. ASSUME NEW w \in Workspace, StartServices(w) PROVE LockInv'
    BY <1>17 DEF StartServices
  <1>18. ASSUME NEW w \in Workspace, Rollback(w) PROVE LockInv'
    BY <1>18 DEF Rollback
  <1>19. ASSUME NEW w \in Workspace, ReleaseUnmanaged(w) PROVE LockInv'
    BY <1>19 DEF ReleaseUnmanaged, ReleaseFails, Stopped, NotStopped, Becomes
  <1>20. ASSUME NEW w \in Workspace, ReleaseUnrecorded(w) PROVE LockInv'
    BY <1>20 DEF ReleaseUnrecorded, ReleaseFails, Stopped, NotStopped, Becomes
  <1>21. ASSUME NEW w \in Workspace, ReleaseAcquire(w) PROVE LockInv'
    BY <1>21 DEF ReleaseAcquire, Lock, Read
  <1>22. ASSUME NEW w \in Workspace, JudgeRelease(w) PROVE LockInv'
    BY <1>22
       DEF JudgeRelease, Unwritten, Unremoved, Pruned, Holds, ReleaseFails, Unlock, ClearScan,
           Stopped,
         NotStopped, Becomes
  <1>23. ASSUME NEW w \in Workspace, Clear(w) PROVE LockInv'
    BY <1>23 DEF Clear
  <1>24. ASSUME NEW w \in Workspace, PruneProbe(w) PROVE LockInv'
    BY <1>24 DEF PruneProbe
  <1>25. ASSUME NEW w \in Workspace, PruneRead(w) PROVE LockInv'
    BY <1>25 DEF PruneRead
  <1>26. ASSUME NEW w \in Workspace, NEW force \in BOOLEAN, Stop(w, force) PROVE LockInv'
    BY <1>26 DEF Stop
  <1>27. ASSUME NEW w \in Workspace, Recover(w) PROVE LockInv'
    BY <1>27 DEF Recover
  <1>28. ASSUME NEW w \in Workspace, RecoverAcquire(w) PROVE LockInv'
    BY <1>28 DEF RecoverAcquire, Lock
  <1>29. ASSUME NEW w \in Workspace, RecoverNext(w) PROVE LockInv'
    BY <1>29 DEF RecoverNext, Holds, Read, Unlock, ClearScan
  <1>30. ASSUME NEW w \in Workspace, JudgeRecover(w) PROVE LockInv'
    BY <1>30
       DEF JudgeRecover, Unwritten, Unremoved, Pruned, Holds, Unlock, ClearScan, Stopped,
           NotStopped,
         Becomes
  <1>31. ASSUME NEW w \in Workspace, Restart(w) PROVE LockInv'
    BY <1>31 DEF Restart
  <1>32. ASSUME NEW w \in Workspace, FinishRestart(w) PROVE LockInv'
    BY <1>32 DEF FinishRestart
  <1>33. ASSUME NEW w \in Workspace, Cancel(w) PROVE LockInv'
    BY <1>33 DEF Cancel
  <1>34. ASSUME NEW w \in Workspace, Crash(w) PROVE LockInv'
    BY <1>34 DEF Crash, Unlock, ClearScan
  <1>35. ASSUME NEW w \in Workspace, ServicesDie(w) PROVE LockInv'
    BY <1>35 DEF ServicesDie
  <1>36. ASSUME NEW p \in Proc, ConnectionDies(p) PROVE LockInv'
    BY <1>36 DEF ConnectionDies
  <1>37. ASSUME NEW p \in Proc, PidReused(p) PROVE LockInv'
    BY <1>37 DEF PidReused
  <1>38. ASSUME NEW f \in Fingerprint, NEW w \in Workspace, LeaseAges(f, w) PROVE LockInv'
    BY <1>38 DEF LeaseAges
  <1>39. CASE UNCHANGED vars
    BY <1>39 DEF vars
  <1>40. ASSUME NEW w \in Workspace, Begin(w) PROVE LockInv'
    BY <1>40, <1>1, <1>26, <1>27, <1>31 DEF Begin
  <1>41. ASSUME NEW w \in Workspace, StartStep(w) PROVE LockInv'
    BY <1>41, <1>2, <1>3, <1>4, <1>5, <1>6, <1>7, <1>8, <1>9, <1>10, <1>11, <1>12, <1>13,
       <1>14, <1>15, <1>16, <1>17, <1>18 DEF StartStep
  <1>42. ASSUME NEW w \in Workspace, ReleaseStep(w) PROVE LockInv'
    BY <1>42, <1>19, <1>20, <1>21, <1>22, <1>23 DEF ReleaseStep
  <1>43. ASSUME NEW w \in Workspace, PruneStep(w) \/ RecoverStep(w) \/ FinishRestart(w)
         PROVE LockInv'
    BY <1>43, <1>24, <1>25, <1>28, <1>29, <1>30, <1>32 DEF PruneStep, RecoverStep
  <1>44. CASE Environment
    BY <1>44, <1>33, <1>34, <1>35, <1>36, <1>37, <1>38 DEF Environment
  <1>45. QED
    BY <1>39, <1>40, <1>41, <1>42, <1>43, <1>44 DEF Next, Step

(* Services that run under a lease have a session that names their connection,
   and their own workspace is in a command that has not stopped them yet; a
   release always has a connection to release. *)
LEMMA CommandStep ==
  ASSUME ControlType, DiskType, HistoryType, CommandInv, [Next]_vars
  PROVE  CommandInv'
  <1> USE ConstantsAssumption, NoTargetType
          DEF ControlType, DiskType, HistoryType, CommandInv,
               Proceed, Return, Goto, args,
              disk, history, Control, Waiting, Holding, Pruning, Launched, MayUse
  <1>1. ASSUME NEW w \in Workspace, NEW f \in Fingerprint, Start(w, f) PROVE CommandInv'
    BY <1>1 DEF Start
  <1>2. ASSUME NEW w \in Workspace, ValidateReplacement(w) PROVE CommandInv'
    BY <1>2 DEF ValidateReplacement
  <1>3. ASSUME NEW w \in Workspace, Renew(w) PROVE CommandInv'
    BY <1>3 DEF Renew
  <1>4. ASSUME NEW w \in Workspace, StopOld(w) PROVE CommandInv'
    BY <1>4 DEF StopOld
  <1>5. ASSUME NEW w \in Workspace, EnsureAcquire(w) PROVE CommandInv'
    BY <1>5 DEF EnsureAcquire, Read
  <1>6. ASSUME NEW w \in Workspace, JudgeEnsure(w) PROVE CommandInv'
    BY <1>6 DEF JudgeEnsure, Unwritten, Unremoved, Pruned, Holds, Stopped, NotStopped, Becomes
  <1>7. ASSUME NEW w \in Workspace, Endpoints(w) PROVE CommandInv'
    BY <1>7 DEF Endpoints, Holds, Join
  <1>8. ASSUME NEW w \in Workspace, SweepNext(w) PROVE CommandInv'
    BY <1>8 DEF SweepNext, Holds, Read
  <1>9. ASSUME NEW w \in Workspace, JudgeSweep(w) PROVE CommandInv'
    BY <1>9 DEF JudgeSweep, Unwritten, Unremoved, Pruned, Holds, Stopped, NotStopped, Becomes
  <1>10. ASSUME NEW w \in Workspace, SweepDone(w) PROVE CommandInv'
    BY <1>10 DEF SweepDone, Holds, Join
  <1>11. ASSUME NEW w \in Workspace, Launch(w) PROVE CommandInv'
    BY <1>11 DEF Launch, Holds
  <1>12. ASSUME NEW w \in Workspace, LaunchFails(w) PROVE CommandInv'
    BY <1>12 DEF LaunchFails, Holds
  <1>13. ASSUME NEW w \in Workspace, AwaitReady(w) PROVE CommandInv'
    BY <1>13 DEF AwaitReady, Holds
  <1>14. ASSUME NEW w \in Workspace, AwaitFails(w) PROVE CommandInv'
    BY <1>14 DEF AwaitFails, Holds, Stopped, NotStopped, Becomes
  <1>15. ASSUME NEW w \in Workspace, SaveFailedSession(w) PROVE CommandInv'
    BY <1>15 DEF SaveFailedSession
  <1>16. ASSUME NEW w \in Workspace, SaveSession(w) PROVE CommandInv'
    BY <1>16 DEF SaveSession
  <1>17. ASSUME NEW w \in Workspace, StartServices(w) PROVE CommandInv'
    BY <1>17 DEF StartServices
  <1>18. ASSUME NEW w \in Workspace, Rollback(w) PROVE CommandInv'
    BY <1>18 DEF Rollback
  <1>19. ASSUME NEW w \in Workspace, ReleaseUnmanaged(w) PROVE CommandInv'
    BY <1>19 DEF ReleaseUnmanaged, ReleaseFails, Stopped, NotStopped, Becomes
  <1>20. ASSUME NEW w \in Workspace, ReleaseUnrecorded(w) PROVE CommandInv'
    BY <1>20 DEF ReleaseUnrecorded, ReleaseFails, Stopped, NotStopped, Becomes
  <1>21. ASSUME NEW w \in Workspace, ReleaseAcquire(w) PROVE CommandInv'
    BY <1>21 DEF ReleaseAcquire, Read
  <1>22. ASSUME NEW w \in Workspace, JudgeRelease(w) PROVE CommandInv'
    BY <1>22
       DEF JudgeRelease, Unwritten, Unremoved, Pruned, Holds, ReleaseFails, Stopped,
           NotStopped, Becomes
  <1>23. ASSUME NEW w \in Workspace, Clear(w) PROVE CommandInv'
    BY <1>23 DEF Clear, EndSession
  <1>24. ASSUME NEW w \in Workspace, PruneProbe(w) PROVE CommandInv'
    BY <1>24 DEF PruneProbe
  <1>25. ASSUME NEW w \in Workspace, PruneRead(w) PROVE CommandInv'
    BY <1>25 DEF PruneRead
  <1>26. ASSUME NEW w \in Workspace, NEW force \in BOOLEAN, Stop(w, force) PROVE CommandInv'
    BY <1>26 DEF Stop
  <1>27. ASSUME NEW w \in Workspace, Recover(w) PROVE CommandInv'
    BY <1>27 DEF Recover
  <1>28. ASSUME NEW w \in Workspace, RecoverAcquire(w) PROVE CommandInv'
    BY <1>28 DEF RecoverAcquire
  <1>29. ASSUME NEW w \in Workspace, RecoverNext(w) PROVE CommandInv'
    BY <1>29 DEF RecoverNext, Holds, Read
  <1>30. ASSUME NEW w \in Workspace, JudgeRecover(w) PROVE CommandInv'
    BY <1>30 DEF JudgeRecover, Unwritten, Unremoved, Pruned, Holds, Stopped, NotStopped, Becomes
  <1>31. ASSUME NEW w \in Workspace, Restart(w) PROVE CommandInv'
    BY <1>31 DEF Restart
  <1>32. ASSUME NEW w \in Workspace, FinishRestart(w) PROVE CommandInv'
    BY <1>32 DEF FinishRestart
  <1>33. ASSUME NEW w \in Workspace, Cancel(w) PROVE CommandInv'
    BY <1>33 DEF Cancel
  <1>34. ASSUME NEW w \in Workspace, Crash(w) PROVE CommandInv'
    BY <1>34 DEF Crash
  <1>35. ASSUME NEW w \in Workspace, ServicesDie(w) PROVE CommandInv'
    BY <1>35 DEF ServicesDie
  <1>36. ASSUME NEW p \in Proc, ConnectionDies(p) PROVE CommandInv'
    BY <1>36 DEF ConnectionDies
  <1>37. ASSUME NEW p \in Proc, PidReused(p) PROVE CommandInv'
    BY <1>37 DEF PidReused
  <1>38. ASSUME NEW f \in Fingerprint, NEW w \in Workspace, LeaseAges(f, w)
       PROVE  CommandInv'
    BY <1>38 DEF LeaseAges
  <1>39. CASE UNCHANGED vars
    BY <1>39 DEF vars
  <1>40. ASSUME NEW w \in Workspace, Begin(w) PROVE CommandInv'
    BY <1>40, <1>1, <1>26, <1>27, <1>31 DEF Begin
  <1>41. ASSUME NEW w \in Workspace, StartStep(w) PROVE CommandInv'
    BY <1>41, <1>2, <1>3, <1>4, <1>5, <1>6, <1>7, <1>8, <1>9, <1>10, <1>11, <1>12, <1>13,
       <1>14, <1>15, <1>16, <1>17, <1>18 DEF StartStep
  <1>42. ASSUME NEW w \in Workspace, ReleaseStep(w) PROVE CommandInv'
    BY <1>42, <1>19, <1>20, <1>21, <1>22, <1>23 DEF ReleaseStep
  <1>43. ASSUME NEW w \in Workspace, PruneStep(w) \/ RecoverStep(w) \/ FinishRestart(w)
         PROVE CommandInv'
    BY <1>43, <1>24, <1>25, <1>28, <1>29, <1>30, <1>32 DEF PruneStep, RecoverStep
  <1>44. CASE Environment
    BY <1>44, <1>33, <1>34, <1>35, <1>36, <1>37, <1>38 DEF Environment
  <1>45. QED
    BY <1>39, <1>40, <1>41, <1>42, <1>43, <1>44 DEF Next, Step

(* Between the moment a start finds its record gone and the moment it writes a
   new one nobody else writes that record file. *)
LEMMA TargetStep ==
  ASSUME ControlType, RegistryType, LockType, LockInv, TargetInv, [Next]_vars
  PROVE  TargetInv'
  <1> USE ConstantsAssumption, NoTargetType
          DEF ControlType, RegistryType, LockType, LockInv, TargetInv, Proceed, Return,
              Goto, args, scan, record, Control, Waiting, Holding, Pruning
  <1>1. ASSUME NEW w \in Workspace, NEW f \in Fingerprint, Start(w, f) PROVE TargetInv'
    BY <1>1 DEF Start
  <1>2. ASSUME NEW w \in Workspace, ValidateReplacement(w) PROVE TargetInv'
    BY <1>2 DEF ValidateReplacement
  <1>3. ASSUME NEW w \in Workspace, Renew(w) PROVE TargetInv'
    BY <1>3 DEF Renew, AddLease
  <1>4. ASSUME NEW w \in Workspace, StopOld(w) PROVE TargetInv'
    BY <1>4 DEF StopOld
  <1>5. ASSUME NEW w \in Workspace, EnsureAcquire(w) PROVE TargetInv'
    BY <1>5 DEF EnsureAcquire, Lock, Read
  <1>6. ASSUME NEW w \in Workspace, JudgeEnsure(w) PROVE TargetInv'
    BY <1>6
       DEF JudgeEnsure, Unwritten, Unremoved, Pruned, Holds, SaveLeases, RemoveRecord, Unlock,
           ClearScan,
         Stopped, NotStopped, Becomes
  <1>7. ASSUME NEW w \in Workspace, Endpoints(w) PROVE TargetInv'
    BY <1>7 DEF Endpoints, Holds, Join, AddLease, Unlock, ClearScan
  <1>8. ASSUME NEW w \in Workspace, SweepNext(w) PROVE TargetInv'
    BY <1>8 DEF SweepNext, Holds, Read
  <1>9. ASSUME NEW w \in Workspace, JudgeSweep(w) PROVE TargetInv'
    BY <1>9
       DEF JudgeSweep, Unwritten, Unremoved, Pruned, Holds, SaveLeases, RemoveRecord, Unlock,
           ClearScan,
         Stopped, NotStopped, Becomes
  <1>10. ASSUME NEW w \in Workspace, SweepDone(w) PROVE TargetInv'
    BY <1>10 DEF SweepDone, Holds, Join, AddLease, Unlock, ClearScan
  <1>11. ASSUME NEW w \in Workspace, Launch(w) PROVE TargetInv'
    BY <1>11 DEF Launch, Holds
  <1>12. ASSUME NEW w \in Workspace, LaunchFails(w) PROVE TargetInv'
    BY <1>12 DEF LaunchFails, Holds, Unlock, ClearScan
  <1>13. ASSUME NEW w \in Workspace, AwaitReady(w) PROVE TargetInv'
    BY <1>13 DEF AwaitReady, Holds, Unlock, ClearScan
  <1>14. ASSUME NEW w \in Workspace, AwaitFails(w) PROVE TargetInv'
    BY <1>14 DEF AwaitFails, Holds, Unlock, ClearScan, Stopped, NotStopped, Becomes
  <1>15. ASSUME NEW w \in Workspace, SaveFailedSession(w) PROVE TargetInv'
    BY <1>15 DEF SaveFailedSession
  <1>16. ASSUME NEW w \in Workspace, SaveSession(w) PROVE TargetInv'
    BY <1>16 DEF SaveSession
  <1>17. ASSUME NEW w \in Workspace, StartServices(w) PROVE TargetInv'
    BY <1>17 DEF StartServices
  <1>18. ASSUME NEW w \in Workspace, Rollback(w) PROVE TargetInv'
    BY <1>18 DEF Rollback
  <1>19. ASSUME NEW w \in Workspace, ReleaseUnmanaged(w) PROVE TargetInv'
    BY <1>19 DEF ReleaseUnmanaged, ReleaseFails, Stopped, NotStopped, Becomes
  <1>20. ASSUME NEW w \in Workspace, ReleaseUnrecorded(w) PROVE TargetInv'
    BY <1>20 DEF ReleaseUnrecorded, ReleaseFails, Stopped, NotStopped, Becomes
  <1>21. ASSUME NEW w \in Workspace, ReleaseAcquire(w) PROVE TargetInv'
    BY <1>21 DEF ReleaseAcquire, Lock, Read
  <1>22. ASSUME NEW w \in Workspace, JudgeRelease(w) PROVE TargetInv'
    BY <1>22
       DEF JudgeRelease, Unwritten, Unremoved, Pruned, Holds, SaveLeases, RemoveRecord,
           ReleaseFails,
         Unlock, ClearScan, Stopped, NotStopped, Becomes
  <1>23. ASSUME NEW w \in Workspace, Clear(w) PROVE TargetInv'
    BY <1>23 DEF Clear
  <1>24. ASSUME NEW w \in Workspace, PruneProbe(w) PROVE TargetInv'
    BY <1>24 DEF PruneProbe
  <1>25. ASSUME NEW w \in Workspace, PruneRead(w) PROVE TargetInv'
    BY <1>25 DEF PruneRead
  <1>26. ASSUME NEW w \in Workspace, NEW force \in BOOLEAN, Stop(w, force) PROVE TargetInv'
    BY <1>26 DEF Stop
  <1>27. ASSUME NEW w \in Workspace, Recover(w) PROVE TargetInv'
    BY <1>27 DEF Recover
  <1>28. ASSUME NEW w \in Workspace, RecoverAcquire(w) PROVE TargetInv'
    BY <1>28 DEF RecoverAcquire, Lock
  <1>29. ASSUME NEW w \in Workspace, RecoverNext(w) PROVE TargetInv'
    BY <1>29 DEF RecoverNext, Holds, Read, Unlock, ClearScan
  <1>30. ASSUME NEW w \in Workspace, JudgeRecover(w) PROVE TargetInv'
    BY <1>30
       DEF JudgeRecover, Unwritten, Unremoved, Pruned, Holds, SaveLeases, RemoveRecord, Unlock,
           ClearScan,
         Stopped, NotStopped, Becomes
  <1>31. ASSUME NEW w \in Workspace, Restart(w) PROVE TargetInv'
    BY <1>31 DEF Restart
  <1>32. ASSUME NEW w \in Workspace, FinishRestart(w) PROVE TargetInv'
    BY <1>32 DEF FinishRestart
  <1>33. ASSUME NEW w \in Workspace, Cancel(w) PROVE TargetInv'
    BY <1>33 DEF Cancel
  <1>34. ASSUME NEW w \in Workspace, Crash(w) PROVE TargetInv'
    BY <1>34 DEF Crash, Unlock, ClearScan
  <1>35. ASSUME NEW w \in Workspace, ServicesDie(w) PROVE TargetInv'
    BY <1>35 DEF ServicesDie
  <1>36. ASSUME NEW p \in Proc, ConnectionDies(p) PROVE TargetInv'
    BY <1>36 DEF ConnectionDies
  <1>37. ASSUME NEW p \in Proc, PidReused(p) PROVE TargetInv'
    BY <1>37 DEF PidReused
  <1>38. ASSUME NEW f \in Fingerprint, NEW w \in Workspace, LeaseAges(f, w) PROVE TargetInv'
    BY <1>38 DEF LeaseAges
  <1>39. CASE UNCHANGED vars
    BY <1>39 DEF vars
  <1>40. ASSUME NEW w \in Workspace, Begin(w) PROVE TargetInv'
    BY <1>40, <1>1, <1>26, <1>27, <1>31 DEF Begin
  <1>41. ASSUME NEW w \in Workspace, StartStep(w) PROVE TargetInv'
    BY <1>41, <1>2, <1>3, <1>4, <1>5, <1>6, <1>7, <1>8, <1>9, <1>10, <1>11, <1>12, <1>13,
       <1>14, <1>15, <1>16, <1>17, <1>18 DEF StartStep
  <1>42. ASSUME NEW w \in Workspace, ReleaseStep(w) PROVE TargetInv'
    BY <1>42, <1>19, <1>20, <1>21, <1>22, <1>23 DEF ReleaseStep
  <1>43. ASSUME NEW w \in Workspace, PruneStep(w) \/ RecoverStep(w) \/ FinishRestart(w)
         PROVE TargetInv'
    BY <1>43, <1>24, <1>25, <1>28, <1>29, <1>30, <1>32 DEF PruneStep, RecoverStep
  <1>44. CASE Environment
    BY <1>44, <1>33, <1>34, <1>35, <1>36, <1>37, <1>38 DEF Environment
  <1>45. QED
    BY <1>39, <1>40, <1>41, <1>42, <1>43, <1>44 DEF Next, Step

(* Only stop --all --force recovers connections (Orchestrator.stop). *)
LEMMA ForceStep ==
  ASSUME ControlType, ForceInv, [Next]_vars
  PROVE  ForceInv'
  <1> USE ConstantsAssumption, NoTargetType
          DEF ControlType, ForceInv, Proceed, Return, Goto, args, Control, Waiting, Holding,
              Pruning
  <1>1. ASSUME NEW w \in Workspace, NEW f \in Fingerprint, Start(w, f) PROVE ForceInv'
    BY <1>1 DEF Start
  <1>2. ASSUME NEW w \in Workspace, ValidateReplacement(w) PROVE ForceInv'
    BY <1>2 DEF ValidateReplacement
  <1>3. ASSUME NEW w \in Workspace, Renew(w) PROVE ForceInv'
    BY <1>3 DEF Renew
  <1>4. ASSUME NEW w \in Workspace, StopOld(w) PROVE ForceInv'
    BY <1>4 DEF StopOld
  <1>5. ASSUME NEW w \in Workspace, EnsureAcquire(w) PROVE ForceInv'
    BY <1>5 DEF EnsureAcquire, Read
  <1>6. ASSUME NEW w \in Workspace, JudgeEnsure(w) PROVE ForceInv'
    BY <1>6 DEF JudgeEnsure, Unwritten, Unremoved, Pruned, Holds, Stopped, NotStopped, Becomes
  <1>7. ASSUME NEW w \in Workspace, Endpoints(w) PROVE ForceInv'
    BY <1>7 DEF Endpoints, Holds, Join
  <1>8. ASSUME NEW w \in Workspace, SweepNext(w) PROVE ForceInv'
    BY <1>8 DEF SweepNext, Holds, Read
  <1>9. ASSUME NEW w \in Workspace, JudgeSweep(w) PROVE ForceInv'
    BY <1>9 DEF JudgeSweep, Unwritten, Unremoved, Pruned, Holds, Stopped, NotStopped, Becomes
  <1>10. ASSUME NEW w \in Workspace, SweepDone(w) PROVE ForceInv'
    BY <1>10 DEF SweepDone, Holds, Join
  <1>11. ASSUME NEW w \in Workspace, Launch(w) PROVE ForceInv'
    BY <1>11 DEF Launch, Holds
  <1>12. ASSUME NEW w \in Workspace, LaunchFails(w) PROVE ForceInv'
    BY <1>12 DEF LaunchFails, Holds
  <1>13. ASSUME NEW w \in Workspace, AwaitReady(w) PROVE ForceInv'
    BY <1>13 DEF AwaitReady, Holds
  <1>14. ASSUME NEW w \in Workspace, AwaitFails(w) PROVE ForceInv'
    BY <1>14 DEF AwaitFails, Holds, Stopped, NotStopped, Becomes
  <1>15. ASSUME NEW w \in Workspace, SaveFailedSession(w) PROVE ForceInv'
    BY <1>15 DEF SaveFailedSession
  <1>16. ASSUME NEW w \in Workspace, SaveSession(w) PROVE ForceInv'
    BY <1>16 DEF SaveSession
  <1>17. ASSUME NEW w \in Workspace, StartServices(w) PROVE ForceInv'
    BY <1>17 DEF StartServices
  <1>18. ASSUME NEW w \in Workspace, Rollback(w) PROVE ForceInv'
    BY <1>18 DEF Rollback
  <1>19. ASSUME NEW w \in Workspace, ReleaseUnmanaged(w) PROVE ForceInv'
    BY <1>19 DEF ReleaseUnmanaged, ReleaseFails, Stopped, NotStopped, Becomes
  <1>20. ASSUME NEW w \in Workspace, ReleaseUnrecorded(w) PROVE ForceInv'
    BY <1>20 DEF ReleaseUnrecorded, ReleaseFails, Stopped, NotStopped, Becomes
  <1>21. ASSUME NEW w \in Workspace, ReleaseAcquire(w) PROVE ForceInv'
    BY <1>21 DEF ReleaseAcquire, Read
  <1>22. ASSUME NEW w \in Workspace, JudgeRelease(w) PROVE ForceInv'
    BY <1>22
       DEF JudgeRelease, Unwritten, Unremoved, Pruned, Holds, ReleaseFails, Stopped,
           NotStopped, Becomes
  <1>23. ASSUME NEW w \in Workspace, Clear(w) PROVE ForceInv'
    BY <1>23 DEF Clear
  <1>24. ASSUME NEW w \in Workspace, PruneProbe(w) PROVE ForceInv'
    BY <1>24 DEF PruneProbe
  <1>25. ASSUME NEW w \in Workspace, PruneRead(w) PROVE ForceInv'
    BY <1>25 DEF PruneRead
  <1>26. ASSUME NEW w \in Workspace, NEW force \in BOOLEAN, Stop(w, force) PROVE ForceInv'
    BY <1>26 DEF Stop
  <1>27. ASSUME NEW w \in Workspace, Recover(w) PROVE ForceInv'
    BY <1>27 DEF Recover
  <1>28. ASSUME NEW w \in Workspace, RecoverAcquire(w) PROVE ForceInv'
    BY <1>28 DEF RecoverAcquire
  <1>29. ASSUME NEW w \in Workspace, RecoverNext(w) PROVE ForceInv'
    BY <1>29 DEF RecoverNext, Holds, Read
  <1>30. ASSUME NEW w \in Workspace, JudgeRecover(w) PROVE ForceInv'
    BY <1>30 DEF JudgeRecover, Unwritten, Unremoved, Pruned, Holds, Stopped, NotStopped, Becomes
  <1>31. ASSUME NEW w \in Workspace, Restart(w) PROVE ForceInv'
    BY <1>31 DEF Restart
  <1>32. ASSUME NEW w \in Workspace, FinishRestart(w) PROVE ForceInv'
    BY <1>32 DEF FinishRestart
  <1>33. ASSUME NEW w \in Workspace, Cancel(w) PROVE ForceInv'
    BY <1>33 DEF Cancel
  <1>34. ASSUME NEW w \in Workspace, Crash(w) PROVE ForceInv'
    BY <1>34 DEF Crash
  <1>35. ASSUME NEW w \in Workspace, ServicesDie(w) PROVE ForceInv'
    BY <1>35 DEF ServicesDie
  <1>36. ASSUME NEW p \in Proc, ConnectionDies(p) PROVE ForceInv'
    BY <1>36 DEF ConnectionDies
  <1>37. ASSUME NEW p \in Proc, PidReused(p) PROVE ForceInv'
    BY <1>37 DEF PidReused
  <1>38. ASSUME NEW f \in Fingerprint, NEW w \in Workspace, LeaseAges(f, w) PROVE ForceInv'
    BY <1>38 DEF LeaseAges
  <1>39. CASE UNCHANGED vars
    BY <1>39 DEF vars
  <1>40. ASSUME NEW w \in Workspace, Begin(w) PROVE ForceInv'
    BY <1>40, <1>1, <1>26, <1>27, <1>31 DEF Begin
  <1>41. ASSUME NEW w \in Workspace, StartStep(w) PROVE ForceInv'
    BY <1>41, <1>2, <1>3, <1>4, <1>5, <1>6, <1>7, <1>8, <1>9, <1>10, <1>11, <1>12, <1>13,
       <1>14, <1>15, <1>16, <1>17, <1>18 DEF StartStep
  <1>42. ASSUME NEW w \in Workspace, ReleaseStep(w) PROVE ForceInv'
    BY <1>42, <1>19, <1>20, <1>21, <1>22, <1>23 DEF ReleaseStep
  <1>43. ASSUME NEW w \in Workspace, PruneStep(w) \/ RecoverStep(w) \/ FinishRestart(w)
         PROVE ForceInv'
    BY <1>43, <1>24, <1>25, <1>28, <1>29, <1>30, <1>32 DEF PruneStep, RecoverStep
  <1>44. CASE Environment
    BY <1>44, <1>33, <1>34, <1>35, <1>36, <1>37, <1>38 DEF Environment
  <1>45. QED
    BY <1>39, <1>40, <1>41, <1>42, <1>43, <1>44 DEF Next, Step

-----------------------------------------------------------------------------

(* What a command does once it has pruned the record it examines, whether it
   starts, sweeps, releases or recovers: the record keeps the leases it has or
   those that survived, or goes away with its process; nobody else's process is
   signalled, and the process is stopped only when no lease survived. *)
Judgement(w) ==
    /\ pc[w] \in Pruning /\ connLock = w /\ cur \in Fingerprint
    /\ \A x \in Workspace : x # w => pc'[x] = pc[x] /\ result'[x] = result[x]
    /\ pc'[w] \in {"idle", "endpoints", "sweep", "clear", "recovering"}
    /\ result'[w] \in {None, result[w]}
    /\ UNCHANGED <<sconn, smanaged, user>>
    /\ \A q \in Proc :
          /\ q # rec[cur] => conn'[q] = conn[q]
          /\ conn'[q] = "unused" <=> conn[q] = "unused"
          /\ conn'[q] = "stopped" => \/ conn[q] = "stopped"
                                     \/ conn[q] \in {"running", "leaderless"} /\ mem = {}
          /\ conn'[q] \in {"running", "leaderless"} => conn[q] \in {"running", "leaderless"}
    /\ \A f \in Fingerprint :
          /\ f # cur => rec'[f] = rec[f] /\ leases'[f] = leases[f]
          /\ f = cur => \/ rec'[f] = rec[f] /\ leases'[f] \in {leases[f], mem}
                        \/ /\ rec'[f] = None
                           /\ rec[f] \in Proc => conn'[rec[f]] \notin {"running", "leaderless"}

(* All four judgements do that much and no more. *)
LEMMA JudgementStep ==
  ASSUME TypeOK, LockInv, NEW w \in Workspace,
         JudgeEnsure(w) \/ JudgeSweep(w) \/ JudgeRelease(w) \/ JudgeRecover(w)
  PROVE  Judgement(w)
  <1>1. /\ pc[w] \in Pruning /\ connLock = w /\ cur \in Fingerprint
        /\ \A x \in Workspace : x # w => pc'[x] = pc[x] /\ result'[x] = result[x]
        /\ pc'[w] \in {"idle", "endpoints", "sweep", "clear", "recovering"}
        /\ result'[w] \in {None, result[w]}
        /\ UNCHANGED <<sconn, smanaged, user>>
    <2> USE DEF TypeOK, ControlType, LockInv, Control, Waiting, Holding, Pruning, Pruned, Holds,
                Proceed, Goto, Return, args, disk, history
    <2>1. CASE JudgeEnsure(w)
      BY <2>1 DEF JudgeEnsure, Unwritten, Unremoved, Stopped, NotStopped, Becomes
    <2>2. CASE JudgeSweep(w)
      BY <2>2 DEF JudgeSweep, Unwritten, Unremoved, Stopped, NotStopped, Becomes
    <2>3. CASE JudgeRelease(w)
      BY <2>3 DEF JudgeRelease, Unwritten, Unremoved, Stopped, NotStopped, Becomes, ReleaseFails
    <2>4. CASE JudgeRecover(w)
      BY <2>4 DEF JudgeRecover, Unwritten, Unremoved, Stopped, NotStopped, Becomes
    <2>5. QED
      BY <2>1, <2>2, <2>3, <2>4
  <1>2. /\ \A q \in Proc :
              /\ q # rec[cur] => conn'[q] = conn[q]
              /\ conn'[q] = "unused" <=> conn[q] = "unused"
              /\ conn'[q] = "stopped" => \/ conn[q] = "stopped"
                                         \/ conn[q] \in {"running", "leaderless"} /\ mem = {}
              /\ conn'[q] \in {"running", "leaderless"} => conn[q] \in {"running", "leaderless"}
        /\ \A f \in Fingerprint :
              /\ f # cur => rec'[f] = rec[f] /\ leases'[f] = leases[f]
              /\ f = cur => \/ rec'[f] = rec[f] /\ leases'[f] \in {leases[f], mem}
                            \/ /\ rec'[f] = None
                               /\ rec[f] \in Proc => conn'[rec[f]] \notin {"running", "leaderless"}
    <2> USE DEF TypeOK, RegistryType, ProcessType, ConnState, Pruned, Holds, record,
                RemoveRecord, SaveLeases, Stopped, NotStopped, Becomes, Current, Unverified
    <2>1. CASE JudgeEnsure(w)
      BY <2>1 DEF JudgeEnsure, Unwritten, Unremoved
    <2>2. CASE JudgeSweep(w)
      BY <2>2 DEF JudgeSweep, Unwritten, Unremoved
    <2>3. CASE JudgeRelease(w)
      BY <2>3 DEF JudgeRelease, Unwritten, Unremoved
    <2>4. CASE JudgeRecover(w)
      BY <2>4 DEF JudgeRecover, Unwritten, Unremoved
    <2>5. QED
      BY <2>1, <2>2, <2>3, <2>4
  <1>3. QED
    BY <1>1, <1>2 DEF Judgement

(* A judgement keeps every lease that somebody relies on, with its process. *)
LEMMA JudgementLease ==
  ASSUME TypeOK, LockInv, RegistryInv, LeaseInv, NEW w \in Workspace, Judgement(w)
  PROVE  LeaseInv'
  <1> SUFFICES ASSUME NEW x \in Workspace, NEW q \in Proc, Protected(x, q)'
               PROVE  /\ conn'[q] # "stopped"
                      /\ conn'[q] \in {"running", "leaderless"} =>
                            /\ rec'[FingerprintOf[q]] = q
                            /\ x \in leases'[FingerprintOf[q]]
                            /\ \A v \in Workspace :
                                  pc'[v] \in Pruning /\ cur' = FingerprintOf[q] => x \in mem'
    BY DEF LeaseInv
  <1>1. Protected(x, q)
    BY DEF Protected, Judgement
  <1>2. conn[q] # "stopped" /\ (conn[q] \in {"running", "leaderless"} =>
           /\ rec[FingerprintOf[q]] = q
           /\ x \in leases[FingerprintOf[q]]
           /\ cur = FingerprintOf[q] => x \in mem)
    BY <1>1 DEF LeaseInv, Judgement
  <1>3. conn'[q] # "stopped"
    <2> SUFFICES ASSUME conn'[q] = "stopped" PROVE FALSE
      OBVIOUS
    <2>1. conn[q] \in {"running", "leaderless"} /\ mem = {} /\ q = rec[cur]
      BY <1>2 DEF Judgement
    <2>2. FingerprintOf[q] = cur
      BY <2>1, ConstantsAssumption DEF RegistryInv, Judgement
    <2>3. QED
      BY <1>2, <2>1, <2>2
  <1>4. ASSUME conn'[q] \in {"running", "leaderless"}
        PROVE  rec'[FingerprintOf[q]] = q /\ x \in leases'[FingerprintOf[q]]
    <2>1. FingerprintOf[q] \in Fingerprint
      BY ConstantsAssumption
    <2>2. QED
      BY <1>2, <1>4, <2>1 DEF Judgement
  <1>5. \A v \in Workspace : pc'[v] \notin Pruning
    BY DEF LockInv, Judgement, Holding, Pruning
  <1>6. QED
    BY <1>3, <1>4, <1>5

(* A judgement gives no process a second record. *)
LEMMA JudgementRegistry ==
  ASSUME TypeOK, LockInv, CommandInv, RegistryInv, NEW w \in Workspace, Judgement(w)
  PROVE  RegistryInv'
  <1> USE ConstantsAssumption
  <1>1. \A f \in Fingerprint : rec'[f] \in {None, rec[f]}
    BY DEF Judgement
  <1>2. \A f \in Fingerprint : rec'[f] # None => FingerprintOf[rec'[f]] = f
    BY <1>1 DEF RegistryInv
  <1>3. \A p \in Proc : conn'[p] = "unused" =>
               /\ \A f \in Fingerprint : rec'[f] # p
               /\ \A x \in Workspace : sconn'[x] # p /\ result'[x] # p
    BY <1>1 DEF TypeOK, ControlType, RegistryInv, Judgement
  <1>4. ASSUME NEW v \in Workspace
        PROVE  /\ pc'[v] \in Launched => \A f \in Fingerprint : rec'[f] # result'[v]
               /\ sconn'[v] # None /\ ~smanaged'[v] => \A f \in Fingerprint : rec'[f] # sconn'[v]
    <2>1. pc'[v] \in Launched => v # w /\ pc[v] \in Launched /\ result'[v] = result[v]
      BY DEF Judgement, Launched
    <2>2. pc[v] \in Launched => result[v] # None
      BY DEF CommandInv
    <2>3. QED
      BY <1>1, <2>1, <2>2 DEF RegistryInv, Judgement
  <1>5. ASSUME NEW v \in Workspace, pc'[v] = "await"
        PROVE  /\ FingerprintOf[result'[v]] = target'[v]
               /\ \A x \in Workspace : /\ sconn'[x] # result'[v]
                                       /\ x # v => result'[x] # result'[v]
    <2>1. v # w /\ pc[v] = "await"
      BY <1>5 DEF Judgement
    <2>2. connLock = v
      BY <2>1 DEF LockInv, Holding
    <2>3. QED
      BY <2>1, <2>2 DEF Judgement
  <1>6. QED
    BY <1>2, <1>3, <1>4, <1>5 DEF RegistryInv

(* A judgement removes no record that is still to be examined. *)
LEMMA JudgementScan ==
  ASSUME TypeOK, LockInv, ScanInv, NEW w \in Workspace, Judgement(w),
         (rest' = {} /\ connLock' = None) \/ (rest' = rest /\ connLock' = connLock)
  PROVE  ScanInv'
  <1>1. \A v \in Workspace : pc'[v] \notin Pruning
    BY DEF LockInv, Judgement, Holding, Pruning
  <1>2. \A f \in rest : rec'[f] = rec[f]
    BY DEF ScanInv, Judgement, TypeOK, LockType
  <1>3. QED
    BY <1>1, <1>2 DEF ScanInv

(* A step that removes no lease and no record, makes nobody rely on a connection
   anew and stops only what nobody relies on keeps everybody's lease. *)
LEMMA LeaseFrame ==
  ASSUME LeaseInv,
         \A x \in Workspace, p \in Proc : Protected(x, p)' => Protected(x, p),
         \A p \in Proc :
            /\ conn'[p] = "stopped" => \/ conn[p] = "stopped"
                                       \/ \A x \in Workspace : ~Protected(x, p)
            /\ conn'[p] \in {"running", "leaderless"} => conn[p] \in {"running", "leaderless"},
         rec' = rec, \A f \in Fingerprint : leases[f] \subseteq leases'[f],
         \A w \in Workspace : pc'[w] \in Pruning => pc[w] \in Pruning,
         cur' = cur, mem' = mem
  PROVE  LeaseInv'
  <1> SUFFICES ASSUME NEW x \in Workspace, NEW q \in Proc, Protected(x, q)'
               PROVE  /\ conn'[q] # "stopped"
                      /\ conn'[q] \in {"running", "leaderless"} =>
                            /\ rec'[FingerprintOf[q]] = q
                            /\ x \in leases'[FingerprintOf[q]]
                            /\ \A v \in Workspace :
                                  pc'[v] \in Pruning /\ cur' = FingerprintOf[q] => x \in mem'
    BY DEF LeaseInv
  <1>1. Protected(x, q) /\ FingerprintOf[q] \in Fingerprint
    BY ConstantsAssumption
  <1>2. QED
    BY <1>1 DEF LeaseInv

(* Joining a record whose process was not stopped gives the workspace a lease on
   a connection that is there, or that has exited by itself. *)
LEMMA JoinLease ==
  ASSUME TypeOK, LockInv, RegistryInv, LeaseInv, CommandInv,
         NEW w \in Workspace, NEW f \in Fingerprint, Join(w, f),
         connLock = w, rec[f] # None, conn[rec[f]] # "stopped",
         UNCHANGED <<conn, sconn, user>>
  PROVE  LeaseInv'
  <1> SUFFICES ASSUME NEW x \in Workspace, NEW q \in Proc, Protected(x, q)'
               PROVE  /\ conn'[q] # "stopped"
                      /\ conn'[q] \in {"running", "leaderless"} =>
                            /\ rec'[FingerprintOf[q]] = q
                            /\ x \in leases'[FingerprintOf[q]]
                            /\ \A v \in Workspace :
                                  pc'[v] \in Pruning /\ cur' = FingerprintOf[q] => x \in mem'
    BY DEF LeaseInv
  <1>1. \A v \in Workspace : pc'[v] \notin Pruning
    BY DEF TypeOK, ControlType, LockInv, Join, Goto, Holding, Pruning
  <1>2. Protected(x, q) \/ (x = w /\ q = rec[f])
    BY DEF TypeOK, ControlType, Protected, Join, Goto
  <1>3. /\ rec' = rec
        /\ leases'[f] = leases[f] \cup {w}
        /\ \A g \in Fingerprint : leases[g] \subseteq leases'[g]
    BY DEF TypeOK, RegistryType, Join, AddLease
  <1>4. FingerprintOf[q] \in Fingerprint
    BY ConstantsAssumption
  <1>5. CASE Protected(x, q)
    BY <1>1, <1>3, <1>4, <1>5 DEF LeaseInv
  <1>6. CASE x = w /\ q = rec[f]
    BY <1>1, <1>3, <1>6 DEF RegistryInv
  <1>7. QED
    BY <1>2, <1>5, <1>6

-----------------------------------------------------------------------------

(* A record names a process of its own configuration that was ready when it was
   recorded; a process that was launched and is not ready yet, or that a failed
   start left to its session, is in no record. *)
LEMMA RegistryStep ==
  ASSUME TypeOK, ControlType, DiskType, LockType, RegistryType, ProcessType, LockInv,
         CommandInv, TargetInv, RegistryInv, [Next]_vars
  PROVE  RegistryInv'
  <1>1. ASSUME NEW w \in Workspace, JudgeEnsure(w) PROVE RegistryInv'
    BY <1>1, JudgementStep, JudgementRegistry
  <1>2. ASSUME NEW w \in Workspace, JudgeSweep(w) PROVE RegistryInv'
    BY <1>2, JudgementStep, JudgementRegistry
  <1>3. ASSUME NEW w \in Workspace, JudgeRelease(w) PROVE RegistryInv'
    BY <1>3, JudgementStep, JudgementRegistry
  <1>4. ASSUME NEW w \in Workspace, JudgeRecover(w) PROVE RegistryInv'
    BY <1>4, JudgementStep, JudgementRegistry
  <1>5. ASSUME NEW w \in Workspace, SaveSession(w) PROVE RegistryInv'
    <2> DEFINE p == result[w]
    <2>1. /\ pc[w] = "save" /\ rec' = rec /\ conn' = conn /\ target' = target
          /\ pc' = [pc EXCEPT ![w] = "services"]
          /\ sconn' = [sconn EXCEPT ![w] = p]
          /\ smanaged'[w] = (p # None)
          /\ \A v \in Workspace : v # w => smanaged'[v] = smanaged[v]
          /\ result' = [result EXCEPT ![w] = None]
      BY <1>5 DEF SaveSession, Goto, record, TypeOK, DiskType
    <2>2. \A q \in Proc : conn'[q] = "unused" =>
             /\ \A f \in Fingerprint : rec'[f] # q
             /\ \A x \in Workspace : sconn'[x] # q /\ result'[x] # q
      BY <2>1, ConstantsAssumption DEF RegistryInv, TypeOK, DiskType, ControlType
    <2>3. ASSUME NEW v \in Workspace
          PROVE  /\ pc'[v] \in Launched => \A f \in Fingerprint : rec'[f] # result'[v]
                 /\ sconn'[v] # None /\ ~smanaged'[v] =>
                       \A f \in Fingerprint : rec'[f] # sconn'[v]
      <3>1. CASE v = w
        BY <2>1, <3>1 DEF Launched, TypeOK, ControlType, DiskType
      <3>2. CASE v # w
        BY <2>1, <3>2 DEF RegistryInv, TypeOK, ControlType, DiskType
      <3>3. QED
        BY <3>1, <3>2
    <2>4. ASSUME NEW v \in Workspace, pc'[v] = "await"
          PROVE  /\ FingerprintOf[result'[v]] = target'[v]
                 /\ \A x \in Workspace : /\ sconn'[x] # result'[v]
                                         /\ x # v => result'[x] # result'[v]
      <3>1. v # w /\ pc[v] = "await" /\ result'[v] = result[v] /\ target'[v] = target[v]
        BY <2>1, <2>4 DEF TypeOK, ControlType
      <3>2. result[v] # None
        BY <3>1 DEF CommandInv, Launched
      <3>3. QED
        BY <2>1, <3>1, <3>2 DEF RegistryInv, TypeOK, ControlType, DiskType
    <2>5. QED
      BY <2>1, <2>2, <2>3, <2>4 DEF RegistryInv
  <1> USE ConstantsAssumption, NoTargetType
          DEF ControlType, DiskType, LockType, RegistryType, ProcessType, LockInv,
              CommandInv, TargetInv, RegistryInv, Proceed, Return, Goto, args, disk, record,
              Control, Waiting, Holding, Pruning, Launched, ConnState
  <1>6. ASSUME NEW w \in Workspace, NEW f \in Fingerprint, Start(w, f) PROVE RegistryInv'
    BY <1>6 DEF Start
  <1>7. ASSUME NEW w \in Workspace, ValidateReplacement(w) PROVE RegistryInv'
    BY <1>7 DEF ValidateReplacement
  <1>8. ASSUME NEW w \in Workspace, Renew(w) PROVE RegistryInv'
    BY <1>8 DEF Renew, AddLease
  <1>9. ASSUME NEW w \in Workspace, StopOld(w) PROVE RegistryInv'
    BY <1>9 DEF StopOld
  <1>10. ASSUME NEW w \in Workspace, EnsureAcquire(w) PROVE RegistryInv'
    BY <1>10 DEF EnsureAcquire, Lock, Read
  <1>11. ASSUME NEW w \in Workspace, Endpoints(w) PROVE RegistryInv'
    BY <1>11 DEF Endpoints, Holds, Join, AddLease, Unlock
  <1>12. ASSUME NEW w \in Workspace, SweepNext(w) PROVE RegistryInv'
    BY <1>12 DEF SweepNext, Holds, Read
  <1>13. ASSUME NEW w \in Workspace, SweepDone(w) PROVE RegistryInv'
    <2>1. CASE \E f \in active : Join(w, f)
      <3>1. PICK f \in Fingerprint : Join(w, f)
        BY <2>1 DEF LockType
      <3>2. /\ rec' = rec /\ conn' = conn /\ sconn' = sconn /\ smanaged' = smanaged
            /\ target' = target
            /\ pc' = [pc EXCEPT ![w] = "save"]
            /\ result' = [result EXCEPT ![w] = rec[f]]
        BY <1>13, <3>1 DEF SweepDone, Join, AddLease
      <3>3. connLock = w
        BY <1>13 DEF SweepDone, Holds
      <3>4. QED
        BY <3>2, <3>3
    <2>2. CASE Return(w) /\ UNCHANGED record
      BY <1>13, <2>2 DEF SweepDone, Holds
    <2>3. CASE Proceed(w, "launch") /\ UNCHANGED record
      BY <1>13, <2>3 DEF SweepDone, Holds
    <2>4. QED
      BY <1>13, <2>1, <2>2, <2>3 DEF SweepDone
  <1>14. ASSUME NEW w \in Workspace, Launch(w) PROVE RegistryInv'
    BY <1>14 DEF Launch, Holds, Becomes
  <1>15. ASSUME NEW w \in Workspace, LaunchFails(w) PROVE RegistryInv'
    BY <1>15 DEF LaunchFails, Holds, Unlock
  <1>16. ASSUME NEW w \in Workspace, AwaitReady(w) PROVE RegistryInv'
    BY <1>16 DEF AwaitReady, Holds, Unlock
  <1>17. ASSUME NEW w \in Workspace, AwaitFails(w) PROVE RegistryInv'
    BY <1>17, SMTT(60) DEF AwaitFails, Holds, Stopped, NotStopped, Becomes, Unlock
  <1>18. ASSUME NEW w \in Workspace, SaveFailedSession(w) PROVE RegistryInv'
    BY <1>18 DEF SaveFailedSession
  <1>19. ASSUME NEW w \in Workspace, StartServices(w) PROVE RegistryInv'
    BY <1>19 DEF StartServices
  <1>20. ASSUME NEW w \in Workspace, Rollback(w) PROVE RegistryInv'
    BY <1>20, SMTT(60) DEF Rollback
  <1>21. ASSUME NEW w \in Workspace, ReleaseUnmanaged(w) PROVE RegistryInv'
    BY <1>21 DEF ReleaseUnmanaged, ReleaseFails, Stopped, NotStopped, Becomes
  <1>22. ASSUME NEW w \in Workspace, ReleaseUnrecorded(w) PROVE RegistryInv'
    BY <1>22 DEF ReleaseUnrecorded, ReleaseFails, Stopped, NotStopped, Becomes
  <1>23. ASSUME NEW w \in Workspace, ReleaseAcquire(w) PROVE RegistryInv'
    BY <1>23 DEF ReleaseAcquire, Lock, Read
  <1>24. ASSUME NEW w \in Workspace, Clear(w) PROVE RegistryInv'
    BY <1>24 DEF Clear, EndSession
  <1>25. ASSUME NEW w \in Workspace, PruneProbe(w) PROVE RegistryInv'
    BY <1>25 DEF PruneProbe
  <1>26. ASSUME NEW w \in Workspace, PruneRead(w) PROVE RegistryInv'
    BY <1>26 DEF PruneRead
  <1>27. ASSUME NEW w \in Workspace, NEW force \in BOOLEAN, Stop(w, force)
       PROVE  RegistryInv'
    BY <1>27 DEF Stop
  <1>28. ASSUME NEW w \in Workspace, Recover(w) PROVE RegistryInv'
    BY <1>28 DEF Recover
  <1>29. ASSUME NEW w \in Workspace, RecoverAcquire(w) PROVE RegistryInv'
    BY <1>29 DEF RecoverAcquire, Lock
  <1>30. ASSUME NEW w \in Workspace, RecoverNext(w) PROVE RegistryInv'
    BY <1>30 DEF RecoverNext, Holds, Unlock, Read
  <1>31. ASSUME NEW w \in Workspace, Restart(w) PROVE RegistryInv'
    BY <1>31 DEF Restart
  <1>32. ASSUME NEW w \in Workspace, FinishRestart(w) PROVE RegistryInv'
    BY <1>32 DEF FinishRestart
  <1>33. ASSUME NEW w \in Workspace, Cancel(w) PROVE RegistryInv'
    BY <1>33 DEF Cancel
  <1>34. ASSUME NEW w \in Workspace, Crash(w) PROVE RegistryInv'
    BY <1>34 DEF Crash, Unlock
  <1>35. ASSUME NEW w \in Workspace, ServicesDie(w) PROVE RegistryInv'
    BY <1>35 DEF ServicesDie
  <1>36. ASSUME NEW p \in Proc, ConnectionDies(p) PROVE RegistryInv'
    BY <1>36 DEF ConnectionDies, Becomes
  <1>37. ASSUME NEW p \in Proc, PidReused(p) PROVE RegistryInv'
    BY <1>37 DEF PidReused, Becomes
  <1>38. ASSUME NEW f \in Fingerprint, NEW w \in Workspace, LeaseAges(f, w)
       PROVE  RegistryInv'
    BY <1>38 DEF LeaseAges
  <1>39. CASE UNCHANGED vars
    BY <1>39 DEF vars
  <1>40. ASSUME NEW w \in Workspace, Begin(w) PROVE RegistryInv'
    BY <1>40, <1>6, <1>27, <1>28, <1>31 DEF Begin
  <1>41. ASSUME NEW w \in Workspace, StartStep(w) PROVE RegistryInv'
    BY <1>41, <1>1, <1>2, <1>5, <1>7, <1>8, <1>9, <1>10, <1>11, <1>12, <1>13, <1>14, <1>15,
       <1>16, <1>17, <1>18, <1>19, <1>20 DEF StartStep
  <1>42. ASSUME NEW w \in Workspace, ReleaseStep(w) PROVE RegistryInv'
    BY <1>42, <1>3, <1>21, <1>22, <1>23, <1>24 DEF ReleaseStep
  <1>43. ASSUME NEW w \in Workspace, PruneStep(w) \/ RecoverStep(w) \/ FinishRestart(w)
         PROVE RegistryInv'
    BY <1>43, <1>4, <1>25, <1>26, <1>29, <1>30, <1>32 DEF PruneStep, RecoverStep
  <1>44. CASE Environment
    BY <1>44, <1>33, <1>34, <1>35, <1>36, <1>37, <1>38 DEF Environment
  <1>45. QED
    BY <1>39, <1>40, <1>41, <1>42, <1>43, <1>44 DEF Next, Step

(* A workspace whose lock was found free may begin a command before its session
   is read, but that command cannot have come by a lease in the meantime. *)
LEMMA SuspectStep ==
  ASSUME ControlType, LockType, LockInv, SuspectInv, [Next]_vars
  PROVE  SuspectInv'
  <1> USE ConstantsAssumption, NoTargetType
          DEF ControlType, LockType, LockInv, SuspectInv, Proceed, Return, Goto, args, scan,
              Control, Waiting, Holding, Pruning
  <1>1. ASSUME NEW w \in Workspace, NEW f \in Fingerprint, Start(w, f) PROVE SuspectInv'
    BY <1>1 DEF Start
  <1>2. ASSUME NEW w \in Workspace, ValidateReplacement(w) PROVE SuspectInv'
    BY <1>2 DEF ValidateReplacement
  <1>3. ASSUME NEW w \in Workspace, Renew(w) PROVE SuspectInv'
    BY <1>3 DEF Renew
  <1>4. ASSUME NEW w \in Workspace, StopOld(w) PROVE SuspectInv'
    BY <1>4 DEF StopOld
  <1>5. ASSUME NEW w \in Workspace, EnsureAcquire(w) PROVE SuspectInv'
    BY <1>5 DEF EnsureAcquire, Lock, Read
  <1>6. ASSUME NEW w \in Workspace, JudgeEnsure(w) PROVE SuspectInv'
    BY <1>6
       DEF JudgeEnsure, Unwritten, Unremoved, Pruned, Holds, Unlock, ClearScan, Stopped,
           NotStopped, Becomes
  <1>7. ASSUME NEW w \in Workspace, Endpoints(w) PROVE SuspectInv'
    BY <1>7 DEF Endpoints, Holds, Join, Unlock, ClearScan
  <1>8. ASSUME NEW w \in Workspace, SweepNext(w) PROVE SuspectInv'
    BY <1>8 DEF SweepNext, Holds, Read
  <1>9. ASSUME NEW w \in Workspace, JudgeSweep(w) PROVE SuspectInv'
    BY <1>9
       DEF JudgeSweep, Unwritten, Unremoved, Pruned, Holds, Unlock, ClearScan, Stopped,
           NotStopped, Becomes
  <1>10. ASSUME NEW w \in Workspace, SweepDone(w) PROVE SuspectInv'
    BY <1>10 DEF SweepDone, Holds, Join, Unlock, ClearScan
  <1>11. ASSUME NEW w \in Workspace, Launch(w) PROVE SuspectInv'
    BY <1>11 DEF Launch, Holds
  <1>12. ASSUME NEW w \in Workspace, LaunchFails(w) PROVE SuspectInv'
    BY <1>12 DEF LaunchFails, Holds, Unlock, ClearScan
  <1>13. ASSUME NEW w \in Workspace, AwaitReady(w) PROVE SuspectInv'
    BY <1>13 DEF AwaitReady, Holds, Unlock, ClearScan
  <1>14. ASSUME NEW w \in Workspace, AwaitFails(w) PROVE SuspectInv'
    BY <1>14 DEF AwaitFails, Holds, Unlock, ClearScan, Stopped, NotStopped, Becomes
  <1>15. ASSUME NEW w \in Workspace, SaveFailedSession(w) PROVE SuspectInv'
    BY <1>15 DEF SaveFailedSession
  <1>16. ASSUME NEW w \in Workspace, SaveSession(w) PROVE SuspectInv'
    BY <1>16 DEF SaveSession
  <1>17. ASSUME NEW w \in Workspace, StartServices(w) PROVE SuspectInv'
    BY <1>17 DEF StartServices
  <1>18. ASSUME NEW w \in Workspace, Rollback(w) PROVE SuspectInv'
    BY <1>18 DEF Rollback
  <1>19. ASSUME NEW w \in Workspace, ReleaseUnmanaged(w) PROVE SuspectInv'
    BY <1>19 DEF ReleaseUnmanaged, ReleaseFails, Stopped, NotStopped, Becomes
  <1>20. ASSUME NEW w \in Workspace, ReleaseUnrecorded(w) PROVE SuspectInv'
    BY <1>20 DEF ReleaseUnrecorded, ReleaseFails, Stopped, NotStopped, Becomes
  <1>21. ASSUME NEW w \in Workspace, ReleaseAcquire(w) PROVE SuspectInv'
    BY <1>21 DEF ReleaseAcquire, Lock, Read
  <1>22. ASSUME NEW w \in Workspace, JudgeRelease(w) PROVE SuspectInv'
    BY <1>22
       DEF JudgeRelease, Unwritten, Unremoved, Pruned, Holds, ReleaseFails, Unlock, ClearScan,
           Stopped,
         NotStopped, Becomes
  <1>23. ASSUME NEW w \in Workspace, Clear(w) PROVE SuspectInv'
    BY <1>23 DEF Clear
  <1>24. ASSUME NEW w \in Workspace, PruneProbe(w) PROVE SuspectInv'
    BY <1>24 DEF PruneProbe
  <1>25. ASSUME NEW w \in Workspace, PruneRead(w) PROVE SuspectInv'
    BY <1>25 DEF PruneRead
  <1>26. ASSUME NEW w \in Workspace, NEW force \in BOOLEAN, Stop(w, force) PROVE SuspectInv'
    BY <1>26 DEF Stop
  <1>27. ASSUME NEW w \in Workspace, Recover(w) PROVE SuspectInv'
    BY <1>27 DEF Recover
  <1>28. ASSUME NEW w \in Workspace, RecoverAcquire(w) PROVE SuspectInv'
    BY <1>28 DEF RecoverAcquire, Lock
  <1>29. ASSUME NEW w \in Workspace, RecoverNext(w) PROVE SuspectInv'
    BY <1>29 DEF RecoverNext, Holds, Read, Unlock, ClearScan
  <1>30. ASSUME NEW w \in Workspace, JudgeRecover(w) PROVE SuspectInv'
    BY <1>30
       DEF JudgeRecover, Unwritten, Unremoved, Pruned, Holds, Unlock, ClearScan, Stopped,
           NotStopped,
         Becomes
  <1>31. ASSUME NEW w \in Workspace, Restart(w) PROVE SuspectInv'
    BY <1>31 DEF Restart
  <1>32. ASSUME NEW w \in Workspace, FinishRestart(w) PROVE SuspectInv'
    BY <1>32 DEF FinishRestart
  <1>33. ASSUME NEW w \in Workspace, Cancel(w) PROVE SuspectInv'
    BY <1>33 DEF Cancel
  <1>34. ASSUME NEW w \in Workspace, Crash(w) PROVE SuspectInv'
    BY <1>34 DEF Crash, Unlock, ClearScan
  <1>35. ASSUME NEW w \in Workspace, ServicesDie(w) PROVE SuspectInv'
    BY <1>35 DEF ServicesDie
  <1>36. ASSUME NEW p \in Proc, ConnectionDies(p) PROVE SuspectInv'
    BY <1>36 DEF ConnectionDies
  <1>37. ASSUME NEW p \in Proc, PidReused(p) PROVE SuspectInv'
    BY <1>37 DEF PidReused
  <1>38. ASSUME NEW f \in Fingerprint, NEW w \in Workspace, LeaseAges(f, w)
       PROVE  SuspectInv'
    BY <1>38 DEF LeaseAges
  <1>39. CASE UNCHANGED vars
    BY <1>39 DEF vars
  <1>40. ASSUME NEW w \in Workspace, Begin(w) PROVE SuspectInv'
    BY <1>40, <1>1, <1>26, <1>27, <1>31 DEF Begin
  <1>41. ASSUME NEW w \in Workspace, StartStep(w) PROVE SuspectInv'
    BY <1>41, <1>2, <1>3, <1>4, <1>5, <1>6, <1>7, <1>8, <1>9, <1>10, <1>11, <1>12, <1>13,
       <1>14, <1>15, <1>16, <1>17, <1>18 DEF StartStep
  <1>42. ASSUME NEW w \in Workspace, ReleaseStep(w) PROVE SuspectInv'
    BY <1>42, <1>19, <1>20, <1>21, <1>22, <1>23 DEF ReleaseStep
  <1>43. ASSUME NEW w \in Workspace, PruneStep(w) \/ RecoverStep(w) \/ FinishRestart(w)
         PROVE SuspectInv'
    BY <1>43, <1>24, <1>25, <1>28, <1>29, <1>30, <1>32 DEF PruneStep, RecoverStep
  <1>44. CASE Environment
    BY <1>44, <1>33, <1>34, <1>35, <1>36, <1>37, <1>38 DEF Environment
  <1>45. QED
    BY <1>39, <1>40, <1>41, <1>42, <1>43, <1>44 DEF Next, Step

(* A record listed for examination is still there when its turn comes: only the
   command that holds the lock removes one, and only the one it examines. *)
LEMMA ScanStep ==
  ASSUME TypeOK, ControlType, DiskType, LockType, RegistryType, LockInv, CommandInv,
         TargetInv, ScanInv, [Next]_vars
  PROVE  ScanInv'
  <1>1. ASSUME NEW w \in Workspace, JudgeEnsure(w) PROVE ScanInv'
    <2>1. (rest' = {} /\ connLock' = None) \/ (rest' = rest /\ connLock' = connLock)
      BY <1>1
         DEF JudgeEnsure, Unwritten, Unremoved, Unlock, ClearScan, scan, Stopped, NotStopped,
             Becomes
    <2>2. QED
      BY <1>1, <2>1, JudgementStep, JudgementScan
  <1>2. ASSUME NEW w \in Workspace, JudgeSweep(w) PROVE ScanInv'
    <2>1. (rest' = {} /\ connLock' = None) \/ (rest' = rest /\ connLock' = connLock)
      BY <1>2
         DEF JudgeSweep, Unwritten, Unremoved, Unlock, ClearScan, scan, Stopped, NotStopped,
             Becomes
    <2>2. QED
      BY <1>2, <2>1, JudgementStep, JudgementScan
  <1>3. ASSUME NEW w \in Workspace, JudgeRelease(w) PROVE ScanInv'
    <2>1. (rest' = {} /\ connLock' = None) \/ (rest' = rest /\ connLock' = connLock)
      BY <1>3
         DEF JudgeRelease, Unwritten, Unremoved, Unlock, ClearScan, scan, Stopped, NotStopped,
             Becomes
    <2>2. QED
      BY <1>3, <2>1, JudgementStep, JudgementScan
  <1>4. ASSUME NEW w \in Workspace, JudgeRecover(w) PROVE ScanInv'
    <2>1. (rest' = {} /\ connLock' = None) \/ (rest' = rest /\ connLock' = connLock)
      BY <1>4
         DEF JudgeRecover, Unwritten, Unremoved, Unlock, ClearScan, scan, Stopped, NotStopped,
             Becomes
    <2>2. QED
      BY <1>4, <2>1, JudgementStep, JudgementScan
  <1> USE ConstantsAssumption, NoTargetType
          DEF ControlType, DiskType, LockType, RegistryType, LockInv, CommandInv, TargetInv,
              ScanInv, Proceed, Return, Goto, args, scan, record, Control, Waiting, Holding,
              Pruning
  <1>5. ASSUME NEW w \in Workspace, NEW f \in Fingerprint, Start(w, f) PROVE ScanInv'
    BY <1>5 DEF Start
  <1>6. ASSUME NEW w \in Workspace, ValidateReplacement(w) PROVE ScanInv'
    BY <1>6 DEF ValidateReplacement
  <1>7. ASSUME NEW w \in Workspace, Renew(w) PROVE ScanInv'
    BY <1>7 DEF Renew, AddLease
  <1>8. ASSUME NEW w \in Workspace, StopOld(w) PROVE ScanInv'
    BY <1>8 DEF StopOld
  <1>9. ASSUME NEW w \in Workspace, EnsureAcquire(w) PROVE ScanInv'
    BY <1>9 DEF EnsureAcquire, Lock, Read
  <1>10. ASSUME NEW w \in Workspace, Endpoints(w) PROVE ScanInv'
    BY <1>10 DEF Endpoints, Holds, Join, AddLease, Unlock, ClearScan
  <1>11. ASSUME NEW w \in Workspace, SweepNext(w) PROVE ScanInv'
    BY <1>11 DEF SweepNext, Holds, Read
  <1>12. ASSUME NEW w \in Workspace, SweepDone(w) PROVE ScanInv'
    BY <1>12 DEF SweepDone, Holds, Join, AddLease, Unlock, ClearScan
  <1>13. ASSUME NEW w \in Workspace, Launch(w) PROVE ScanInv'
    BY <1>13 DEF Launch, Holds
  <1>14. ASSUME NEW w \in Workspace, LaunchFails(w) PROVE ScanInv'
    BY <1>14 DEF LaunchFails, Holds, Unlock, ClearScan
  <1>15. ASSUME NEW w \in Workspace, AwaitReady(w) PROVE ScanInv'
    BY <1>15 DEF AwaitReady, Holds, Unlock, ClearScan
  <1>16. ASSUME NEW w \in Workspace, AwaitFails(w) PROVE ScanInv'
    BY <1>16 DEF AwaitFails, Holds, Unlock, ClearScan, Stopped, NotStopped, Becomes
  <1>17. ASSUME NEW w \in Workspace, SaveFailedSession(w) PROVE ScanInv'
    BY <1>17 DEF SaveFailedSession
  <1>18. ASSUME NEW w \in Workspace, SaveSession(w) PROVE ScanInv'
    BY <1>18 DEF SaveSession
  <1>19. ASSUME NEW w \in Workspace, StartServices(w) PROVE ScanInv'
    BY <1>19 DEF StartServices
  <1>20. ASSUME NEW w \in Workspace, Rollback(w) PROVE ScanInv'
    BY <1>20 DEF Rollback
  <1>21. ASSUME NEW w \in Workspace, ReleaseUnmanaged(w) PROVE ScanInv'
    BY <1>21 DEF ReleaseUnmanaged, ReleaseFails, Stopped, NotStopped, Becomes
  <1>22. ASSUME NEW w \in Workspace, ReleaseUnrecorded(w) PROVE ScanInv'
    BY <1>22 DEF ReleaseUnrecorded, ReleaseFails, Stopped, NotStopped, Becomes
  <1>23. ASSUME NEW w \in Workspace, ReleaseAcquire(w) PROVE ScanInv'
    BY <1>23 DEF ReleaseAcquire, Lock, Read
  <1>24. ASSUME NEW w \in Workspace, Clear(w) PROVE ScanInv'
    BY <1>24 DEF Clear
  <1>25. ASSUME NEW w \in Workspace, PruneProbe(w) PROVE ScanInv'
    BY <1>25 DEF PruneProbe
  <1>26. ASSUME NEW w \in Workspace, PruneRead(w) PROVE ScanInv'
    BY <1>26 DEF PruneRead
  <1>27. ASSUME NEW w \in Workspace, NEW force \in BOOLEAN, Stop(w, force) PROVE ScanInv'
    BY <1>27 DEF Stop
  <1>28. ASSUME NEW w \in Workspace, Recover(w) PROVE ScanInv'
    BY <1>28 DEF Recover
  <1>29. ASSUME NEW w \in Workspace, RecoverAcquire(w) PROVE ScanInv'
    BY <1>29 DEF RecoverAcquire, Lock
  <1>30. ASSUME NEW w \in Workspace, RecoverNext(w) PROVE ScanInv'
    BY <1>30 DEF RecoverNext, Holds, Read, Unlock, ClearScan
  <1>31. ASSUME NEW w \in Workspace, Restart(w) PROVE ScanInv'
    BY <1>31 DEF Restart
  <1>32. ASSUME NEW w \in Workspace, FinishRestart(w) PROVE ScanInv'
    BY <1>32 DEF FinishRestart
  <1>33. ASSUME NEW w \in Workspace, Cancel(w) PROVE ScanInv'
    BY <1>33 DEF Cancel
  <1>34. ASSUME NEW w \in Workspace, Crash(w) PROVE ScanInv'
    BY <1>34 DEF Crash, Unlock, ClearScan
  <1>35. ASSUME NEW w \in Workspace, ServicesDie(w) PROVE ScanInv'
    BY <1>35 DEF ServicesDie
  <1>36. ASSUME NEW p \in Proc, ConnectionDies(p) PROVE ScanInv'
    BY <1>36 DEF ConnectionDies
  <1>37. ASSUME NEW p \in Proc, PidReused(p) PROVE ScanInv'
    BY <1>37 DEF PidReused
  <1>38. ASSUME NEW f \in Fingerprint, NEW w \in Workspace, LeaseAges(f, w) PROVE ScanInv'
    BY <1>38 DEF LeaseAges
  <1>39. CASE UNCHANGED vars
    BY <1>39 DEF vars
  <1>40. ASSUME NEW w \in Workspace, Begin(w) PROVE ScanInv'
    BY <1>40, <1>5, <1>27, <1>28, <1>31 DEF Begin
  <1>41. ASSUME NEW w \in Workspace, StartStep(w) PROVE ScanInv'
    BY <1>41, <1>1, <1>2, <1>6, <1>7, <1>8, <1>9, <1>10, <1>11, <1>12, <1>13, <1>14, <1>15,
       <1>16, <1>17, <1>18, <1>19, <1>20 DEF StartStep
  <1>42. ASSUME NEW w \in Workspace, ReleaseStep(w) PROVE ScanInv'
    BY <1>42, <1>3, <1>21, <1>22, <1>23, <1>24 DEF ReleaseStep
  <1>43. ASSUME NEW w \in Workspace, PruneStep(w) \/ RecoverStep(w) \/ FinishRestart(w)
         PROVE ScanInv'
    BY <1>43, <1>4, <1>25, <1>26, <1>29, <1>30, <1>32 DEF PruneStep, RecoverStep
  <1>44. CASE Environment
    BY <1>44, <1>33, <1>34, <1>35, <1>36, <1>37, <1>38 DEF Environment
  <1>45. QED
    BY <1>39, <1>40, <1>41, <1>42, <1>43, <1>44 DEF Next, Step

(* The record a start is about to join names a connection nobody has stopped
   since it was judged: whoever could stop it needs the lock or a lease. *)
LEMMA JoinStep ==
  ASSUME TypeOK, ControlType, DiskType, LockType, RegistryType, ProcessType, LockInv,
         CommandInv, RegistryInv, TargetInv, ScanInv, JoinInv, [Next]_vars
  PROVE  JoinInv'
  <1>1. ASSUME NEW w \in Workspace, JudgeRelease(w) PROVE JoinInv'
    <2>1. Judgement(w)
      BY <1>1, JudgementStep
    <2>2. /\ pc[w] \in Holding \ {"sweep", "pruneSweep"}
          /\ pc'[w] \in {"recovering", "clear", "idle"}
      BY <1>1
         DEF JudgeRelease, Unwritten, Unremoved, Pruned, Holds, Holding, Pruning, Stopped,
             NotStopped, Becomes,
               ReleaseFails, Proceed, Return, Goto, TypeOK, ControlType
    <2>3. active' = {}
      BY <1>1, <2>2
         DEF JudgeRelease, Unwritten, Unremoved, Unlock, ClearScan, scan, Stopped, NotStopped,
             Becomes, JoinInv
    <2>4. \A v \in Workspace : pc'[v] \notin {"endpoints", "pruneSweep"}
      BY <2>1, <2>2 DEF LockInv, Judgement, Holding, Pruning
    <2>5. QED
      BY <2>3, <2>4 DEF JoinInv
  <1>2. ASSUME NEW w \in Workspace, JudgeRecover(w) PROVE JoinInv'
    <2>1. Judgement(w)
      BY <1>2, JudgementStep
    <2>2. /\ pc[w] \in Holding \ {"sweep", "pruneSweep"}
          /\ pc'[w] \in {"recovering", "clear", "idle"}
      BY <1>2
         DEF JudgeRecover, Unwritten, Unremoved, Pruned, Holds, Holding, Pruning, Stopped,
             NotStopped, Becomes,
               ReleaseFails, Proceed, Return, Goto, TypeOK, ControlType
    <2>3. active' = {}
      BY <1>2, <2>2
         DEF JudgeRecover, Unwritten, Unremoved, Unlock, ClearScan, scan, Stopped, NotStopped,
             Becomes, JoinInv
    <2>4. \A v \in Workspace : pc'[v] \notin {"endpoints", "pruneSweep"}
      BY <2>1, <2>2 DEF LockInv, Judgement, Holding, Pruning
    <2>5. QED
      BY <2>3, <2>4 DEF JoinInv
  <1>3. ASSUME NEW w \in Workspace, SweepDone(w) PROVE JoinInv'
    <2>1. pc[w] = "sweep" /\ connLock = w /\ rec' = rec /\ conn' = conn
      BY <1>3 DEF SweepDone, Holds, Join, AddLease, record
    <2>2. active' = {}
      BY <1>3 DEF SweepDone, Join, Unlock, ClearScan, scan
    <2>3. pc'[w] \in {"save", "idle", "launch"} /\ \A v \in Workspace : v # w => pc'[v] = pc[v]
      BY <1>3 DEF SweepDone, Join, Proceed, Return, Goto, TypeOK, ControlType
    <2>4. \A v \in Workspace : pc'[v] \notin {"endpoints", "pruneSweep"}
      BY <2>1, <2>3 DEF LockInv, Holding, Pruning
    <2>5. QED
      BY <2>2, <2>4 DEF JoinInv
  <1> USE ConstantsAssumption, NoTargetType
          DEF ControlType, DiskType, LockType, RegistryType, ProcessType, LockInv,
              CommandInv, RegistryInv, TargetInv, ScanInv, JoinInv, Proceed, Return, Goto,
              args, scan, record, Control, Waiting, Holding, Pruning, Launched, ConnState
  <1>4. ASSUME NEW w \in Workspace, NEW f \in Fingerprint, Start(w, f) PROVE JoinInv'
    BY <1>4 DEF Start
  <1>5. ASSUME NEW w \in Workspace, ValidateReplacement(w) PROVE JoinInv'
    BY <1>5 DEF ValidateReplacement
  <1>6. ASSUME NEW w \in Workspace, Renew(w) PROVE JoinInv'
    BY <1>6, SMTT(60) DEF Renew, AddLease
  <1>7. ASSUME NEW w \in Workspace, StopOld(w) PROVE JoinInv'
    BY <1>7 DEF StopOld
  <1>8. ASSUME NEW w \in Workspace, EnsureAcquire(w) PROVE JoinInv'
    BY <1>8 DEF EnsureAcquire, Lock, Read
  <1>9. ASSUME NEW w \in Workspace, JudgeEnsure(w) PROVE JoinInv'
    <2>1. CASE Return(w) /\ Unlock
      BY <1>9, <2>1 DEF JudgeEnsure, Unwritten, Unremoved, Pruned, Holds, Unlock, ClearScan
    <2>2. CASE /\ Proceed(w, "endpoints") /\ UNCHANGED <<connLock, scan>>
               /\ SaveLeases(cur, mem) /\ UNCHANGED conn /\ Current(rec[cur])
      BY <1>9, <2>2 DEF JudgeEnsure, Unwritten, Unremoved, Pruned, Holds, SaveLeases, Current
    <2>3. CASE /\ Proceed(w, "endpoints") /\ UNCHANGED <<connLock, scan>>
               /\ RemoveRecord(cur)
      BY <1>9, <2>3 DEF JudgeEnsure, Unwritten, Unremoved, Pruned, Holds, RemoveRecord
    <2>4. QED
      BY <1>9, <2>1, <2>2, <2>3 DEF JudgeEnsure, Unwritten, Unremoved
  <1>10. ASSUME NEW w \in Workspace, Endpoints(w) PROVE JoinInv'
    BY <1>10 DEF Endpoints, Holds, Join, AddLease, Unlock, ClearScan
  <1>11. ASSUME NEW w \in Workspace, SweepNext(w) PROVE JoinInv'
    BY <1>11 DEF SweepNext, Holds, Read
  <1>12. ASSUME NEW w \in Workspace, JudgeSweep(w) PROVE JoinInv'
    <2> DEFINE p == rec[cur]
    <2>1. pc[w] = "pruneSweep" /\ connLock = w /\ cur \in Fingerprint /\ p # None
      BY <1>12 DEF JudgeSweep, Unwritten, Unremoved, Pruned, Holds
    <2>2. CASE Return(w) /\ Unlock
      BY <2>1, <2>2 DEF Unlock, ClearScan
    <2>3. CASE /\ Proceed(w, "sweep") /\ UNCHANGED <<connLock, scan>>
               /\ RemoveRecord(cur)
               /\ UNCHANGED conn \/ Stopped(p, FALSE)
      <3>1. \A f \in active : f # cur /\ rec'[f] = rec[f] /\ rec[f] # rec[cur]
        BY <2>1, <2>3 DEF RemoveRecord
      <3>2. \A f \in active : conn'[rec[f]] = conn[rec[f]]
        BY <2>3, <3>1 DEF Stopped, Becomes
      <3>3. QED
        BY <2>1, <2>3, <3>1, <3>2
    <2>4. CASE /\ Proceed(w, "sweep") /\ SaveLeases(cur, mem)
               /\ Current(p) /\ UNCHANGED conn
               /\ active' = active \cup {cur}
               /\ UNCHANGED <<connLock, cur, mem, todo, suspect, rest, ready>>
      BY <2>1, <2>4 DEF SaveLeases, Current
    <2>5. QED
      BY <1>12, <2>2, <2>3, <2>4 DEF JudgeSweep, Unwritten, Unremoved
  <1>13. ASSUME NEW w \in Workspace, Launch(w) PROVE JoinInv'
    BY <1>13 DEF Launch, Holds, Becomes
  <1>14. ASSUME NEW w \in Workspace, LaunchFails(w) PROVE JoinInv'
    BY <1>14 DEF LaunchFails, Holds, Unlock, ClearScan
  <1>15. ASSUME NEW w \in Workspace, AwaitReady(w) PROVE JoinInv'
    BY <1>15 DEF AwaitReady, Holds, Unlock, ClearScan
  <1>16. ASSUME NEW w \in Workspace, AwaitFails(w) PROVE JoinInv'
    BY <1>16 DEF AwaitFails, Holds, Stopped, NotStopped, Becomes, Unlock, ClearScan
  <1>17. ASSUME NEW w \in Workspace, SaveFailedSession(w) PROVE JoinInv'
    BY <1>17 DEF SaveFailedSession
  <1>18. ASSUME NEW w \in Workspace, SaveSession(w) PROVE JoinInv'
    BY <1>18 DEF SaveSession
  <1>19. ASSUME NEW w \in Workspace, StartServices(w) PROVE JoinInv'
    BY <1>19 DEF StartServices
  <1>20. ASSUME NEW w \in Workspace, Rollback(w) PROVE JoinInv'
    BY <1>20 DEF Rollback
  <1>21. ASSUME NEW w \in Workspace, ReleaseUnmanaged(w) PROVE JoinInv'
    BY <1>21 DEF ReleaseUnmanaged, ReleaseFails, Stopped, NotStopped, Becomes
  <1>22. ASSUME NEW w \in Workspace, ReleaseUnrecorded(w) PROVE JoinInv'
    BY <1>22 DEF ReleaseUnrecorded, ReleaseFails, Stopped, NotStopped, Becomes
  <1>23. ASSUME NEW w \in Workspace, ReleaseAcquire(w) PROVE JoinInv'
    BY <1>23 DEF ReleaseAcquire, Lock, Read
  <1>24. ASSUME NEW w \in Workspace, Clear(w) PROVE JoinInv'
    BY <1>24 DEF Clear
  <1>25. ASSUME NEW w \in Workspace, PruneProbe(w) PROVE JoinInv'
    BY <1>25 DEF PruneProbe
  <1>26. ASSUME NEW w \in Workspace, PruneRead(w) PROVE JoinInv'
    BY <1>26 DEF PruneRead
  <1>27. ASSUME NEW w \in Workspace, NEW force \in BOOLEAN, Stop(w, force) PROVE JoinInv'
    BY <1>27 DEF Stop
  <1>28. ASSUME NEW w \in Workspace, Recover(w) PROVE JoinInv'
    BY <1>28 DEF Recover
  <1>29. ASSUME NEW w \in Workspace, RecoverAcquire(w) PROVE JoinInv'
    BY <1>29 DEF RecoverAcquire, Lock
  <1>30. ASSUME NEW w \in Workspace, RecoverNext(w) PROVE JoinInv'
    BY <1>30 DEF RecoverNext, Holds, Read, Unlock, ClearScan
  <1>31. ASSUME NEW w \in Workspace, Restart(w) PROVE JoinInv'
    BY <1>31 DEF Restart
  <1>32. ASSUME NEW w \in Workspace, FinishRestart(w) PROVE JoinInv'
    BY <1>32 DEF FinishRestart
  <1>33. ASSUME NEW w \in Workspace, Cancel(w) PROVE JoinInv'
    BY <1>33 DEF Cancel
  <1>34. ASSUME NEW w \in Workspace, Crash(w) PROVE JoinInv'
    BY <1>34 DEF Crash, Unlock, ClearScan
  <1>35. ASSUME NEW w \in Workspace, ServicesDie(w) PROVE JoinInv'
    BY <1>35 DEF ServicesDie
  <1>36. ASSUME NEW p \in Proc, ConnectionDies(p) PROVE JoinInv'
    BY <1>36 DEF ConnectionDies, Becomes
  <1>37. ASSUME NEW p \in Proc, PidReused(p) PROVE JoinInv'
    BY <1>37 DEF PidReused, Becomes
  <1>38. ASSUME NEW f \in Fingerprint, NEW w \in Workspace, LeaseAges(f, w) PROVE JoinInv'
    BY <1>38 DEF LeaseAges
  <1>39. CASE UNCHANGED vars
    BY <1>39 DEF vars
  <1>40. ASSUME NEW w \in Workspace, Begin(w) PROVE JoinInv'
    BY <1>40, <1>4, <1>27, <1>28, <1>31 DEF Begin
  <1>41. ASSUME NEW w \in Workspace, StartStep(w) PROVE JoinInv'
    BY <1>41, <1>3, <1>5, <1>6, <1>7, <1>8, <1>9, <1>10, <1>11, <1>12, <1>13, <1>14, <1>15,
       <1>16, <1>17, <1>18, <1>19, <1>20 DEF StartStep
  <1>42. ASSUME NEW w \in Workspace, ReleaseStep(w) PROVE JoinInv'
    BY <1>42, <1>1, <1>21, <1>22, <1>23, <1>24 DEF ReleaseStep
  <1>43. ASSUME NEW w \in Workspace, PruneStep(w) \/ RecoverStep(w) \/ FinishRestart(w)
         PROVE JoinInv'
    BY <1>43, <1>2, <1>25, <1>26, <1>29, <1>30, <1>32 DEF PruneStep, RecoverStep
  <1>44. CASE Environment
    BY <1>44, <1>33, <1>34, <1>35, <1>36, <1>37, <1>38 DEF Environment
  <1>45. QED
    BY <1>39, <1>40, <1>41, <1>42, <1>43, <1>44 DEF Next, Step

(* From the check that no ktctl command runs to the launch of one, nobody else
   launches one. *)
LEMMA LaunchStep ==
  ASSUME ControlType, LockType, ProcessType, LockInv, LaunchInv, [Next]_vars
  PROVE  LaunchInv'
  <1> USE ConstantsAssumption, NoTargetType
          DEF ControlType, LockType, ProcessType, LockInv, LaunchInv, Proceed, Return, Goto,
              args, Control, Waiting, Holding, Pruning, ConnState, KtctlRunning, Current
  <1>1. ASSUME NEW w \in Workspace, NEW f \in Fingerprint, Start(w, f) PROVE LaunchInv'
    BY <1>1 DEF Start
  <1>2. ASSUME NEW w \in Workspace, ValidateReplacement(w) PROVE LaunchInv'
    BY <1>2 DEF ValidateReplacement
  <1>3. ASSUME NEW w \in Workspace, Renew(w) PROVE LaunchInv'
    BY <1>3 DEF Renew
  <1>4. ASSUME NEW w \in Workspace, StopOld(w) PROVE LaunchInv'
    BY <1>4 DEF StopOld
  <1>5. ASSUME NEW w \in Workspace, EnsureAcquire(w) PROVE LaunchInv'
    BY <1>5 DEF EnsureAcquire, Lock, Read
  <1>6. ASSUME NEW w \in Workspace, JudgeEnsure(w) PROVE LaunchInv'
    BY <1>6
       DEF JudgeEnsure, Unwritten, Unremoved, Pruned, Holds, Stopped, NotStopped, Becomes,
           Unlock
  <1>7. ASSUME NEW w \in Workspace, Endpoints(w) PROVE LaunchInv'
    BY <1>7 DEF Endpoints, Holds, Join, Unlock
  <1>8. ASSUME NEW w \in Workspace, SweepNext(w) PROVE LaunchInv'
    BY <1>8 DEF SweepNext, Holds, Read
  <1>9. ASSUME NEW w \in Workspace, JudgeSweep(w) PROVE LaunchInv'
    BY <1>9
       DEF JudgeSweep, Unwritten, Unremoved, Pruned, Holds, Stopped, NotStopped, Becomes, Unlock
  <1>10. ASSUME NEW w \in Workspace, SweepDone(w) PROVE LaunchInv'
    BY <1>10 DEF SweepDone, Holds, Join, Unlock
  <1>11. ASSUME NEW w \in Workspace, Launch(w) PROVE LaunchInv'
    BY <1>11 DEF Launch, Holds, Becomes
  <1>12. ASSUME NEW w \in Workspace, LaunchFails(w) PROVE LaunchInv'
    BY <1>12 DEF LaunchFails, Holds, Unlock
  <1>13. ASSUME NEW w \in Workspace, AwaitReady(w) PROVE LaunchInv'
    BY <1>13 DEF AwaitReady, Holds, Unlock
  <1>14. ASSUME NEW w \in Workspace, AwaitFails(w) PROVE LaunchInv'
    BY <1>14 DEF AwaitFails, Holds, Stopped, NotStopped, Becomes, Unlock
  <1>15. ASSUME NEW w \in Workspace, SaveFailedSession(w) PROVE LaunchInv'
    BY <1>15 DEF SaveFailedSession
  <1>16. ASSUME NEW w \in Workspace, SaveSession(w) PROVE LaunchInv'
    BY <1>16 DEF SaveSession
  <1>17. ASSUME NEW w \in Workspace, StartServices(w) PROVE LaunchInv'
    BY <1>17 DEF StartServices
  <1>18. ASSUME NEW w \in Workspace, Rollback(w) PROVE LaunchInv'
    BY <1>18 DEF Rollback
  <1>19. ASSUME NEW w \in Workspace, ReleaseUnmanaged(w) PROVE LaunchInv'
    BY <1>19 DEF ReleaseUnmanaged, ReleaseFails, Stopped, NotStopped, Becomes
  <1>20. ASSUME NEW w \in Workspace, ReleaseUnrecorded(w) PROVE LaunchInv'
    BY <1>20 DEF ReleaseUnrecorded, ReleaseFails, Stopped, NotStopped, Becomes
  <1>21. ASSUME NEW w \in Workspace, ReleaseAcquire(w) PROVE LaunchInv'
    BY <1>21 DEF ReleaseAcquire, Lock, Read
  <1>22. ASSUME NEW w \in Workspace, JudgeRelease(w) PROVE LaunchInv'
    BY <1>22
       DEF JudgeRelease, Unwritten, Unremoved, Pruned, Holds, ReleaseFails, Stopped,
           NotStopped, Becomes,
         Unlock
  <1>23. ASSUME NEW w \in Workspace, Clear(w) PROVE LaunchInv'
    BY <1>23 DEF Clear
  <1>24. ASSUME NEW w \in Workspace, PruneProbe(w) PROVE LaunchInv'
    BY <1>24 DEF PruneProbe
  <1>25. ASSUME NEW w \in Workspace, PruneRead(w) PROVE LaunchInv'
    BY <1>25 DEF PruneRead
  <1>26. ASSUME NEW w \in Workspace, NEW force \in BOOLEAN, Stop(w, force) PROVE LaunchInv'
    BY <1>26 DEF Stop
  <1>27. ASSUME NEW w \in Workspace, Recover(w) PROVE LaunchInv'
    BY <1>27 DEF Recover
  <1>28. ASSUME NEW w \in Workspace, RecoverAcquire(w) PROVE LaunchInv'
    BY <1>28 DEF RecoverAcquire, Lock
  <1>29. ASSUME NEW w \in Workspace, RecoverNext(w) PROVE LaunchInv'
    BY <1>29 DEF RecoverNext, Holds, Unlock, Read
  <1>30. ASSUME NEW w \in Workspace, JudgeRecover(w) PROVE LaunchInv'
    BY <1>30
       DEF JudgeRecover, Unwritten, Unremoved, Pruned, Holds, Stopped, NotStopped, Becomes,
           Unlock
  <1>31. ASSUME NEW w \in Workspace, Restart(w) PROVE LaunchInv'
    BY <1>31 DEF Restart
  <1>32. ASSUME NEW w \in Workspace, FinishRestart(w) PROVE LaunchInv'
    BY <1>32 DEF FinishRestart
  <1>33. ASSUME NEW w \in Workspace, Cancel(w) PROVE LaunchInv'
    BY <1>33 DEF Cancel
  <1>34. ASSUME NEW w \in Workspace, Crash(w) PROVE LaunchInv'
    BY <1>34 DEF Crash, Unlock
  <1>35. ASSUME NEW w \in Workspace, ServicesDie(w) PROVE LaunchInv'
    BY <1>35 DEF ServicesDie
  <1>36. ASSUME NEW p \in Proc, ConnectionDies(p) PROVE LaunchInv'
    BY <1>36 DEF ConnectionDies, Becomes
  <1>37. ASSUME NEW p \in Proc, PidReused(p) PROVE LaunchInv'
    BY <1>37 DEF PidReused, Becomes
  <1>38. ASSUME NEW f \in Fingerprint, NEW w \in Workspace, LeaseAges(f, w) PROVE LaunchInv'
    BY <1>38 DEF LeaseAges
  <1>39. CASE UNCHANGED vars
    BY <1>39 DEF vars
  <1>40. ASSUME NEW w \in Workspace, Begin(w) PROVE LaunchInv'
    BY <1>40, <1>1, <1>26, <1>27, <1>31 DEF Begin
  <1>41. ASSUME NEW w \in Workspace, StartStep(w) PROVE LaunchInv'
    BY <1>41, <1>2, <1>3, <1>4, <1>5, <1>6, <1>7, <1>8, <1>9, <1>10, <1>11, <1>12, <1>13,
       <1>14, <1>15, <1>16, <1>17, <1>18 DEF StartStep
  <1>42. ASSUME NEW w \in Workspace, ReleaseStep(w) PROVE LaunchInv'
    BY <1>42, <1>19, <1>20, <1>21, <1>22, <1>23 DEF ReleaseStep
  <1>43. ASSUME NEW w \in Workspace, PruneStep(w) \/ RecoverStep(w) \/ FinishRestart(w)
         PROVE LaunchInv'
    BY <1>43, <1>24, <1>25, <1>28, <1>29, <1>30, <1>32 DEF PruneStep, RecoverStep
  <1>44. CASE Environment
    BY <1>44, <1>33, <1>34, <1>35, <1>36, <1>37, <1>38 DEF Environment
  <1>45. QED
    BY <1>39, <1>40, <1>41, <1>42, <1>43, <1>44 DEF Next, Step

(* A step that writes no ktctl record, and after which nobody sweeps or launches
   who did not before, with the same notes. *)
Sweeping == {"sweep", "pruneSweep"}
Launching == {"launch", "await"}

RecordFrame ==
    /\ \A f \in Ktctl : rec'[f] # None => rec[f] # None
    /\ \A x \in Workspace : pc'[x] \in Launching =>
          pc[x] \in Launching /\ target'[x] = target[x]
    /\ \A x \in Workspace : pc'[x] \in Sweeping =>
          /\ pc'[x] = pc[x] /\ target'[x] = target[x]
          /\ rest' = rest /\ active' = active /\ cur' = cur

LEMMA FramedRecord ==
  ASSUME SingleRecordInv, RecordFrame
  PROVE  SingleRecordInv'
  <1>1. \A f, g \in Ktctl : rec'[f] # None /\ rec'[g] # None => f = g
    BY DEF SingleRecordInv, RecordFrame
  <1>2. ASSUME NEW w \in Workspace, pc'[w] \in {"sweep", "pruneSweep"}
        PROVE  /\ target'[w] \in Ktctl
               /\ \A f \in Ktctl : rec'[f] # None =>
                     f \in rest' \cup active' \/ (pc'[w] = "pruneSweep" /\ f = cur')
    BY <1>2 DEF SingleRecordInv, RecordFrame, Sweeping
  <1>3. ASSUME NEW w \in Workspace, pc'[w] \in {"launch", "await"}, target'[w] \in Ktctl
        PROVE  \A f \in Ktctl : rec'[f] = None
    BY <1>3 DEF SingleRecordInv, RecordFrame, Launching
  <1>. QED
    BY <1>1, <1>2, <1>3 DEF SingleRecordInv

(* Who is inside a critical section is there alone.                          *)
LEMMA InsideAlone ==
  ASSUME LockInv, NEW w \in Workspace, connLock = w, NEW x \in Workspace, pc[x] \in Holding
  PROVE  x = w
  BY DEF LockInv

(* A judgement outside a sweep leaves nobody inside a critical section that
   depends on the records that are there. *)
LEMMA JudgedRecord ==
  ASSUME LockInv, NEW w \in Workspace, Judgement(w), pc'[w] # "sweep"
  PROVE  RecordFrame
  <1>1. \A f \in Fingerprint : rec'[f] # None => rec[f] # None
    BY DEF Judgement
  <1>2. \A x \in Workspace : pc'[x] \notin Sweeping \cup Launching
    <2>1. pc'[w] \notin Sweeping \cup Launching
      BY DEF Judgement, Sweeping, Launching
    <2>2. ASSUME NEW x \in Workspace, x # w PROVE pc'[x] \notin Sweeping \cup Launching
      BY <2>2, InsideAlone DEF Judgement, Sweeping, Launching, Holding, Pruning
    <2>. QED
      BY <2>1, <2>2
  <1>. QED
    BY <1>1, <1>2, ConstantsAssumption DEF RecordFrame

(* Where the commands go that a record or its connection holds up. *)
LEMMA CommandMoves ==
  ASSUME ControlType, NEW w \in Workspace
  PROVE  /\ JudgeEnsure(w) \/ JudgeRecover(w) \/ JudgeRelease(w) => pc'[w] # "sweep"
         /\ AwaitFails(w) => /\ pc'[w] \in {"idle", "failed", "failedManaged"}
                             /\ \A x \in Workspace : x # w => pc'[x] = pc[x]
         /\ ReleaseUnrecorded(w) =>
               /\ pc'[w] \in {"idle", "clear"}
               /\ \A x \in Workspace : x # w => pc'[x] = pc[x] /\ target'[x] = target[x]
  <1> USE DEF ControlType, Proceed, Return, Goto, args
  <1>1. JudgeEnsure(w) => pc'[w] # "sweep"
    BY DEF JudgeEnsure
  <1>2. JudgeRecover(w) => pc'[w] # "sweep"
    BY DEF JudgeRecover
  <1>3. JudgeRelease(w) => pc'[w] # "sweep"
    BY DEF JudgeRelease, ReleaseFails
  <1>4. ASSUME AwaitFails(w)
        PROVE  /\ pc'[w] \in {"idle", "failed", "failedManaged"}
               /\ \A x \in Workspace : x # w => pc'[x] = pc[x]
    BY <1>4 DEF AwaitFails
  <1>5. ASSUME ReleaseUnrecorded(w)
        PROVE  /\ pc'[w] \in {"idle", "clear"}
               /\ \A x \in Workspace : x # w => pc'[x] = pc[x] /\ target'[x] = target[x]
    BY <1>5 DEF ReleaseUnrecorded, ReleaseFails
  <1>. QED
    BY <1>1, <1>2, <1>3, <1>4, <1>5

(* A sweep that goes on has dropped the record it judged or found it active. *)
LEMMA SweepGoesOn ==
  ASSUME TypeOK, LockInv, NEW w \in Workspace, JudgeSweep(w), pc'[w] = "sweep"
  PROVE  /\ target' = target /\ rest' = rest /\ active \subseteq active'
         /\ rec'[cur] = None \/ cur \in active'
  <1> USE DEF TypeOK, ControlType, RegistryType
  <1>1. cur \in Fingerprint
    BY JudgementStep DEF Judgement
  <1>2. pc[w] \in Pruning
    BY JudgementStep DEF Judgement
  <1>3. ~Return(w)
    BY DEF Return, Goto
  <1>4. CASE RemoveRecord(cur) /\ Proceed(w, "sweep") /\ UNCHANGED <<connLock, scan>>
    BY <1>1, <1>4 DEF RemoveRecord, Proceed, args, scan
  <1>5. CASE active' = active \cup {cur} /\ Proceed(w, "sweep") /\ rest' = rest
    BY <1>5 DEF Proceed, args
  <1>. QED
    BY <1>3, <1>4, <1>5 DEF JudgeSweep

(* A ktctl record is written only where the sweep found none, and the sweep
   finds every one there is (activeConnectionRecords). *)
LEMMA SingleRecordStep ==
  ASSUME TypeOK, ControlType, LockType, RegistryType, LockInv, TargetInv, ScanInv,
         SingleRecordInv, [Next]_vars
  PROVE  SingleRecordInv'
  <1> USE ConstantsAssumption, NoTargetType
          DEF ControlType, LockType, RegistryType, LockInv, Proceed, Return, Goto,
              args, Control, Waiting, Holding, Pruning, record, scan, RemoveRecord, SaveLeases,
              AddLease, Sweeping, Launching
  <1>1. ASSUME NEW w \in Workspace, NEW f \in Fingerprint, Start(w, f) PROVE SingleRecordInv'
    <2>1. RecordFrame
      BY <1>1 DEF RecordFrame, Start
    <2>. QED
      BY <2>1, FramedRecord
  <1>2. ASSUME NEW w \in Workspace, ValidateReplacement(w) PROVE SingleRecordInv'
    <2>1. RecordFrame
      BY <1>2 DEF RecordFrame, ValidateReplacement
    <2>. QED
      BY <2>1, FramedRecord
  <1>3. ASSUME NEW w \in Workspace, Renew(w) PROVE SingleRecordInv'
    <2>1. RecordFrame
      BY <1>3 DEF RecordFrame, Renew
    <2>. QED
      BY <2>1, FramedRecord
  <1>4. ASSUME NEW w \in Workspace, StopOld(w) PROVE SingleRecordInv'
    <2>1. RecordFrame
      BY <1>4 DEF RecordFrame, StopOld
    <2>. QED
      BY <2>1, FramedRecord
  <1>5. ASSUME NEW w \in Workspace, EnsureAcquire(w) PROVE SingleRecordInv'
    <2>1. RecordFrame
      BY <1>5 DEF RecordFrame, EnsureAcquire, Lock, Read
    <2>. QED
      BY <2>1, FramedRecord
  <1>6. ASSUME NEW w \in Workspace, JudgeEnsure(w) PROVE SingleRecordInv'
    <2>1. pc'[w] # "sweep"
      BY <1>6, CommandMoves
    <2>2. RecordFrame
      BY <1>6, <2>1, JudgementStep, JudgedRecord
    <2>. QED
      BY <2>2, FramedRecord
  <1>7. ASSUME NEW w \in Workspace, Endpoints(w) PROVE SingleRecordInv'
    <2>1. CASE pc'[w] = "sweep"
      <3>1. rec' = rec /\ rest' = {g \in Ktctl : rec[g] # None} /\ target[w] \in Ktctl
        BY <1>7, <2>1 DEF Endpoints, Holds, Join
      <3>2. target' = target /\ \A x \in Workspace : x # w => pc'[x] = pc[x]
        BY <1>7, <2>1 DEF Endpoints, Holds, Join
      <3>3. \A x \in Workspace : x # w => pc[x] \notin Sweeping \cup Launching
        BY <1>7, InsideAlone DEF Endpoints, Holds
      <3>4. \A f, g \in Ktctl : rec'[f] # None /\ rec'[g] # None => f = g
        BY <3>1 DEF SingleRecordInv
      <3>. QED
        BY <2>1, <3>1, <3>2, <3>3, <3>4 DEF SingleRecordInv
    <2>2. CASE pc'[w] # "sweep"
      <3>1. rec' = rec /\ \A x \in Workspace : x # w => pc'[x] = pc[x]
        BY <1>7 DEF Endpoints, Join
      <3>2. pc'[w] \notin Sweeping /\ (pc'[w] \in Launching => target'[w] \notin Ktctl)
        BY <1>7, <2>2 DEF Endpoints, Holds, Join
      <3>3. \A x \in Workspace : x # w => pc[x] \notin Sweeping \cup Launching
        BY <1>7, InsideAlone DEF Endpoints, Holds
      <3>4. \A f, g \in Ktctl : rec'[f] # None /\ rec'[g] # None => f = g
        BY <3>1 DEF SingleRecordInv
      <3>. QED
        BY <3>1, <3>2, <3>3, <3>4 DEF SingleRecordInv
    <2>. QED
      BY <2>1, <2>2
  <1>8. ASSUME NEW w \in Workspace, SweepNext(w) PROVE SingleRecordInv'
    <2>1. PICK f \in rest : cur' = f /\ rest' = rest \ {f}
      BY <1>8 DEF SweepNext, Read
    <2>2. /\ pc[w] = "sweep" /\ pc'[w] = "pruneSweep"
          /\ \A x \in Workspace : x # w => pc'[x] = pc[x]
          /\ rec' = rec /\ active' = active /\ target' = target
      BY <1>8 DEF SweepNext, Holds, Read
    <2>3. \A x \in Workspace : x # w => pc[x] \notin Sweeping \cup Launching
      BY <1>8, InsideAlone DEF SweepNext, Holds
    <2>4. \A g, h \in Ktctl : rec'[g] # None /\ rec'[h] # None => g = h
      BY <2>2 DEF SingleRecordInv
    <2>5. target[w] \in Ktctl /\ \A g \in Ktctl : rec[g] # None => g \in rest \cup active
      BY <2>2 DEF SingleRecordInv
    <2>. QED
      BY <2>1, <2>2, <2>3, <2>4, <2>5 DEF SingleRecordInv
  <1>9. ASSUME NEW w \in Workspace, JudgeSweep(w) PROVE SingleRecordInv'
    <2> DEFINE Removed == \A g \in Ktctl : rec'[g] # None => rec[g] # None
               Alone == \A x \in Workspace : x # w => pc'[x] \notin Sweeping \cup Launching
    <2>1. Alone
      <3>1. \A x \in Workspace : x # w => pc'[x] = pc[x]
        BY <1>9, JudgementStep DEF Judgement
      <3>2. \A x \in Workspace : x # w => pc[x] \notin Sweeping \cup Launching
        BY <1>9, InsideAlone DEF JudgeSweep, Pruned, Holds
      <3>. QED
        BY <3>1, <3>2
    <2>2. Removed
      BY <1>9 DEF JudgeSweep, Unwritten, Unremoved
    <2>3. \A g, h \in Ktctl : rec'[g] # None /\ rec'[h] # None => g = h
      BY <2>2 DEF SingleRecordInv
    <2>4. pc[w] = "pruneSweep"
      BY <1>9 DEF JudgeSweep, Pruned, Holds
    <2>5. pc'[w] = "sweep" \/ pc'[w] \notin Sweeping \cup Launching
      BY <1>9, JudgementStep DEF Judgement
    <2>6. CASE pc'[w] = "sweep"
      <3>1. /\ target' = target /\ rest' = rest /\ active \subseteq active'
            /\ rec'[cur] = None \/ cur \in active'
        BY <1>9, <2>6, SweepGoesOn
      <3>2. /\ target[w] \in Ktctl
            /\ \A g \in Ktctl : rec[g] # None => g \in rest \cup active \cup {cur}
        BY <2>4 DEF SingleRecordInv
      <3>3. \A g \in Ktctl : rec'[g] # None => g \in rest' \cup active'
        BY <2>2, <3>1, <3>2
      <3>. QED
        BY <2>1, <2>3, <2>6, <3>1, <3>2, <3>3 DEF SingleRecordInv
    <2>7. CASE pc'[w] \notin Sweeping \cup Launching
      BY <2>1, <2>3, <2>7 DEF SingleRecordInv
    <2>. QED
      BY <2>5, <2>6, <2>7
  <1>10. ASSUME NEW w \in Workspace, SweepDone(w) PROVE SingleRecordInv'
    <2>1. /\ rec' = rec
          /\ \A x \in Workspace : x # w => pc'[x] = pc[x] /\ target'[x] = target[x]
      BY <1>10 DEF SweepDone, Join
    <2>2. \A x \in Workspace : x # w => pc[x] \notin Sweeping \cup Launching
      BY <1>10, InsideAlone DEF SweepDone, Holds
    <2>3. \A g, h \in Ktctl : rec'[g] # None /\ rec'[h] # None => g = h
      BY <2>1 DEF SingleRecordInv
    <2>4. pc'[w] \notin Sweeping /\ (pc'[w] \in Launching => active = {})
      BY <1>10 DEF SweepDone, Join
    <2>5. pc[w] = "sweep" /\ rest = {}
      BY <1>10 DEF SweepDone, Holds
    <2>6. pc'[w] \in Launching => \A g \in Ktctl : rec[g] = None
      BY <2>4, <2>5 DEF SingleRecordInv
    <2>. QED
      BY <2>1, <2>2, <2>3, <2>4, <2>6 DEF SingleRecordInv
  <1>11. ASSUME NEW w \in Workspace, Launch(w) PROVE SingleRecordInv'
    <2>1. RecordFrame
      BY <1>11 DEF RecordFrame, Launch, Holds
    <2>. QED
      BY <2>1, FramedRecord
  <1>12. ASSUME NEW w \in Workspace, LaunchFails(w) PROVE SingleRecordInv'
    <2>1. RecordFrame
      BY <1>12 DEF RecordFrame, LaunchFails, Holds, Unlock, ClearScan
    <2>. QED
      BY <2>1, FramedRecord
  <1>13. ASSUME NEW w \in Workspace, AwaitReady(w) PROVE SingleRecordInv'
    <2>1. /\ pc[w] = "await" /\ pc'[w] = "save" /\ rec' = [rec EXCEPT ![target[w]] = result[w]]
          /\ \A x \in Workspace : x # w => pc'[x] = pc[x]
      BY <1>13 DEF AwaitReady, Holds
    <2>2. \A x \in Workspace : x # w => pc[x] \notin Sweeping \cup Launching
      BY <1>13, InsideAlone DEF AwaitReady, Holds
    <2>3. \A g, h \in Ktctl : rec'[g] # None /\ rec'[h] # None => g = h
      <3>1. CASE target[w] \in Ktctl
        <4>1. \A g \in Ktctl : rec[g] = None
          BY <2>1, <3>1 DEF SingleRecordInv
        <4>. QED
          BY <2>1, <4>1
      <3>2. CASE target[w] \notin Ktctl
        <4>1. \A g \in Ktctl : rec'[g] = rec[g]
          BY <2>1, <3>2
        <4>. QED
          BY <4>1 DEF SingleRecordInv
      <3>. QED
        BY <3>1, <3>2
    <2>4. \A x \in Workspace : pc'[x] \notin Sweeping \cup Launching
      BY <2>1, <2>2
    <2>. QED
      BY <2>3, <2>4 DEF SingleRecordInv
  <1>14. ASSUME NEW w \in Workspace, AwaitFails(w) PROVE SingleRecordInv'
    <2>1. \A x \in Workspace : x # w => pc'[x] = pc[x]
      BY <1>14, CommandMoves
    <2>2. pc'[w] \in {"idle", "failed", "failedManaged"}
      BY <1>14, CommandMoves
    <2>3. \A x \in Workspace : pc'[x] \notin Sweeping \cup Launching
      BY <1>14, <2>1, <2>2, InsideAlone DEF AwaitFails, Holds
    <2>4. rec' = rec
      BY <1>14 DEF AwaitFails
    <2>5. RecordFrame
      BY <2>3, <2>4 DEF RecordFrame
    <2>. QED
      BY <2>5, FramedRecord
  <1>15. ASSUME NEW w \in Workspace, SaveFailedSession(w) PROVE SingleRecordInv'
    <2>1. RecordFrame
      BY <1>15 DEF RecordFrame, SaveFailedSession
    <2>. QED
      BY <2>1, FramedRecord
  <1>16. ASSUME NEW w \in Workspace, SaveSession(w) PROVE SingleRecordInv'
    <2>1. RecordFrame
      BY <1>16 DEF RecordFrame, SaveSession
    <2>. QED
      BY <2>1, FramedRecord
  <1>17. ASSUME NEW w \in Workspace, StartServices(w) PROVE SingleRecordInv'
    <2>1. RecordFrame
      BY <1>17 DEF RecordFrame, StartServices
    <2>. QED
      BY <2>1, FramedRecord
  <1>18. ASSUME NEW w \in Workspace, Rollback(w) PROVE SingleRecordInv'
    <2>1. RecordFrame
      BY <1>18 DEF RecordFrame, Rollback
    <2>. QED
      BY <2>1, FramedRecord
  <1>19. ASSUME NEW w \in Workspace, ReleaseUnmanaged(w) PROVE SingleRecordInv'
    <2>1. RecordFrame
      BY <1>19 DEF RecordFrame, ReleaseUnmanaged, ReleaseFails
    <2>. QED
      BY <2>1, FramedRecord
  <1>20. ASSUME NEW w \in Workspace, ReleaseUnrecorded(w) PROVE SingleRecordInv'
    <2>1. \A x \in Workspace : x # w => pc'[x] = pc[x] /\ target'[x] = target[x]
      BY <1>20, CommandMoves
    <2>2. pc'[w] \in {"idle", "clear"}
      BY <1>20, CommandMoves
    <2>3. rec' = rec /\ rest' = rest /\ active' = active /\ cur' = cur
      BY <1>20 DEF ReleaseUnrecorded
    <2>4. RecordFrame
      BY <2>1, <2>2, <2>3 DEF RecordFrame
    <2>. QED
      BY <2>4, FramedRecord
  <1>21. ASSUME NEW w \in Workspace, ReleaseAcquire(w) PROVE SingleRecordInv'
    <2>1. RecordFrame
      BY <1>21 DEF RecordFrame, ReleaseAcquire, Lock, Read
    <2>. QED
      BY <2>1, FramedRecord
  <1>22. ASSUME NEW w \in Workspace, JudgeRelease(w) PROVE SingleRecordInv'
    <2>1. pc'[w] # "sweep"
      BY <1>22, CommandMoves
    <2>2. RecordFrame
      BY <1>22, <2>1, JudgementStep, JudgedRecord
    <2>. QED
      BY <2>2, FramedRecord
  <1>23. ASSUME NEW w \in Workspace, Clear(w) PROVE SingleRecordInv'
    <2>1. RecordFrame
      BY <1>23 DEF RecordFrame, Clear
    <2>. QED
      BY <2>1, FramedRecord
  <1>24. ASSUME NEW w \in Workspace, PruneProbe(w) PROVE SingleRecordInv'
    <2>1. RecordFrame
      BY <1>24 DEF RecordFrame, PruneProbe
    <2>. QED
      BY <2>1, FramedRecord
  <1>25. ASSUME NEW w \in Workspace, PruneRead(w) PROVE SingleRecordInv'
    <2>1. RecordFrame
      BY <1>25 DEF RecordFrame, PruneRead
    <2>. QED
      BY <2>1, FramedRecord
  <1>26. ASSUME NEW w \in Workspace, NEW force \in BOOLEAN, Stop(w, force) PROVE SingleRecordInv'
    <2>1. RecordFrame
      BY <1>26 DEF RecordFrame, Stop
    <2>. QED
      BY <2>1, FramedRecord
  <1>27. ASSUME NEW w \in Workspace, Recover(w) PROVE SingleRecordInv'
    <2>1. RecordFrame
      BY <1>27 DEF RecordFrame, Recover
    <2>. QED
      BY <2>1, FramedRecord
  <1>28. ASSUME NEW w \in Workspace, RecoverAcquire(w) PROVE SingleRecordInv'
    <2>1. RecordFrame
      BY <1>28 DEF RecordFrame, RecoverAcquire, Lock
    <2>. QED
      BY <2>1, FramedRecord
  <1>29. ASSUME NEW w \in Workspace, RecoverNext(w) PROVE SingleRecordInv'
    <2>1. RecordFrame
      BY <1>29 DEF RecordFrame, RecoverNext, Holds, Unlock, ClearScan, Read
    <2>. QED
      BY <2>1, FramedRecord
  <1>30. ASSUME NEW w \in Workspace, JudgeRecover(w) PROVE SingleRecordInv'
    <2>1. pc'[w] # "sweep"
      BY <1>30, CommandMoves
    <2>2. RecordFrame
      BY <1>30, <2>1, JudgementStep, JudgedRecord
    <2>. QED
      BY <2>2, FramedRecord
  <1>31. ASSUME NEW w \in Workspace, Restart(w) PROVE SingleRecordInv'
    <2>1. RecordFrame
      BY <1>31 DEF RecordFrame, Restart
    <2>. QED
      BY <2>1, FramedRecord
  <1>32. ASSUME NEW w \in Workspace, FinishRestart(w) PROVE SingleRecordInv'
    <2>1. RecordFrame
      BY <1>32 DEF RecordFrame, FinishRestart
    <2>. QED
      BY <2>1, FramedRecord
  <1>33. ASSUME NEW w \in Workspace, Cancel(w) PROVE SingleRecordInv'
    <2>1. RecordFrame
      BY <1>33 DEF RecordFrame, Cancel
    <2>. QED
      BY <2>1, FramedRecord
  <1>34. ASSUME NEW w \in Workspace, Crash(w) PROVE SingleRecordInv'
    <2>1. RecordFrame
      BY <1>34 DEF RecordFrame, Crash, Unlock, ClearScan
    <2>. QED
      BY <2>1, FramedRecord
  <1>35. ASSUME NEW w \in Workspace, ServicesDie(w) PROVE SingleRecordInv'
    <2>1. RecordFrame
      BY <1>35 DEF RecordFrame, ServicesDie
    <2>. QED
      BY <2>1, FramedRecord
  <1>36. ASSUME NEW p \in Proc, ConnectionDies(p) PROVE SingleRecordInv'
    <2>1. RecordFrame
      BY <1>36 DEF RecordFrame, ConnectionDies
    <2>. QED
      BY <2>1, FramedRecord
  <1>37. ASSUME NEW p \in Proc, PidReused(p) PROVE SingleRecordInv'
    <2>1. RecordFrame
      BY <1>37 DEF RecordFrame, PidReused
    <2>. QED
      BY <2>1, FramedRecord
  <1>38. ASSUME NEW f \in Fingerprint, NEW w \in Workspace, LeaseAges(f, w)
         PROVE  SingleRecordInv'
    <2>1. RecordFrame
      BY <1>38 DEF RecordFrame, LeaseAges
    <2>. QED
      BY <2>1, FramedRecord
  <1>39. CASE UNCHANGED vars
    <2>1. RecordFrame
      BY <1>39 DEF RecordFrame, vars
    <2>. QED
      BY <2>1, FramedRecord
  <1>40. ASSUME NEW w \in Workspace, Begin(w) PROVE SingleRecordInv'
    BY <1>40, <1>1, <1>26, <1>27, <1>31 DEF Begin
  <1>41. ASSUME NEW w \in Workspace, StartStep(w) PROVE SingleRecordInv'
    BY <1>41, <1>2, <1>3, <1>4, <1>5, <1>6, <1>7, <1>8, <1>9, <1>10, <1>11, <1>12, <1>13,
       <1>14, <1>15, <1>16, <1>17, <1>18 DEF StartStep
  <1>42. ASSUME NEW w \in Workspace, ReleaseStep(w) PROVE SingleRecordInv'
    BY <1>42, <1>19, <1>20, <1>21, <1>22, <1>23 DEF ReleaseStep
  <1>43. ASSUME NEW w \in Workspace, PruneStep(w) \/ RecoverStep(w) \/ FinishRestart(w)
         PROVE SingleRecordInv'
    BY <1>43, <1>24, <1>25, <1>28, <1>29, <1>30, <1>32 DEF PruneStep, RecoverStep
  <1>44. CASE Environment
    BY <1>44, <1>33, <1>34, <1>35, <1>36, <1>37, <1>38 DEF Environment
  <1>45. QED
    BY <1>39, <1>40, <1>41, <1>42, <1>43, <1>44 DEF Next, Step

(* A second ktctl tunnel is never launched. *)
LEMMA ApartStep ==
  ASSUME ControlType, ProcessType, LockInv, LaunchInv, ApartInv, [Next]_vars
  PROVE  ApartInv'
  <1> USE ConstantsAssumption, NoTargetType
          DEF ControlType, ProcessType, LockInv, LaunchInv, ApartInv, Proceed, Return, Goto,
              args, Control, Waiting, Holding, Pruning, ConnState, KtctlRunning, Current
  <1>1. ASSUME NEW w \in Workspace, NEW f \in Fingerprint, Start(w, f) PROVE ApartInv'
    BY <1>1 DEF Start
  <1>2. ASSUME NEW w \in Workspace, ValidateReplacement(w) PROVE ApartInv'
    BY <1>2 DEF ValidateReplacement
  <1>3. ASSUME NEW w \in Workspace, Renew(w) PROVE ApartInv'
    BY <1>3 DEF Renew
  <1>4. ASSUME NEW w \in Workspace, StopOld(w) PROVE ApartInv'
    BY <1>4 DEF StopOld
  <1>5. ASSUME NEW w \in Workspace, EnsureAcquire(w) PROVE ApartInv'
    BY <1>5 DEF EnsureAcquire, Lock, Read
  <1>6. ASSUME NEW w \in Workspace, JudgeEnsure(w) PROVE ApartInv'
    BY <1>6
       DEF JudgeEnsure, Unwritten, Unremoved, Pruned, Holds, Stopped, NotStopped, Becomes,
           Unlock
  <1>7. ASSUME NEW w \in Workspace, Endpoints(w) PROVE ApartInv'
    BY <1>7 DEF Endpoints, Holds, Join, Unlock
  <1>8. ASSUME NEW w \in Workspace, SweepNext(w) PROVE ApartInv'
    BY <1>8 DEF SweepNext, Holds, Read
  <1>9. ASSUME NEW w \in Workspace, JudgeSweep(w) PROVE ApartInv'
    BY <1>9
       DEF JudgeSweep, Unwritten, Unremoved, Pruned, Holds, Stopped, NotStopped, Becomes, Unlock
  <1>10. ASSUME NEW w \in Workspace, SweepDone(w) PROVE ApartInv'
    BY <1>10 DEF SweepDone, Holds, Join, Unlock
  <1>11. ASSUME NEW w \in Workspace, Launch(w) PROVE ApartInv'
    BY <1>11 DEF Launch, Holds, Becomes
  <1>12. ASSUME NEW w \in Workspace, LaunchFails(w) PROVE ApartInv'
    BY <1>12 DEF LaunchFails, Holds, Unlock
  <1>13. ASSUME NEW w \in Workspace, AwaitReady(w) PROVE ApartInv'
    BY <1>13 DEF AwaitReady, Holds, Unlock
  <1>14. ASSUME NEW w \in Workspace, AwaitFails(w) PROVE ApartInv'
    BY <1>14 DEF AwaitFails, Holds, Stopped, NotStopped, Becomes, Unlock
  <1>15. ASSUME NEW w \in Workspace, SaveFailedSession(w) PROVE ApartInv'
    BY <1>15 DEF SaveFailedSession
  <1>16. ASSUME NEW w \in Workspace, SaveSession(w) PROVE ApartInv'
    BY <1>16 DEF SaveSession
  <1>17. ASSUME NEW w \in Workspace, StartServices(w) PROVE ApartInv'
    BY <1>17 DEF StartServices
  <1>18. ASSUME NEW w \in Workspace, Rollback(w) PROVE ApartInv'
    BY <1>18 DEF Rollback
  <1>19. ASSUME NEW w \in Workspace, ReleaseUnmanaged(w) PROVE ApartInv'
    BY <1>19 DEF ReleaseUnmanaged, ReleaseFails, Stopped, NotStopped, Becomes
  <1>20. ASSUME NEW w \in Workspace, ReleaseUnrecorded(w) PROVE ApartInv'
    BY <1>20 DEF ReleaseUnrecorded, ReleaseFails, Stopped, NotStopped, Becomes
  <1>21. ASSUME NEW w \in Workspace, ReleaseAcquire(w) PROVE ApartInv'
    BY <1>21 DEF ReleaseAcquire, Lock, Read
  <1>22. ASSUME NEW w \in Workspace, JudgeRelease(w) PROVE ApartInv'
    BY <1>22
       DEF JudgeRelease, Unwritten, Unremoved, Pruned, Holds, ReleaseFails, Stopped,
           NotStopped, Becomes,
         Unlock
  <1>23. ASSUME NEW w \in Workspace, Clear(w) PROVE ApartInv'
    BY <1>23 DEF Clear
  <1>24. ASSUME NEW w \in Workspace, PruneProbe(w) PROVE ApartInv'
    BY <1>24 DEF PruneProbe
  <1>25. ASSUME NEW w \in Workspace, PruneRead(w) PROVE ApartInv'
    BY <1>25 DEF PruneRead
  <1>26. ASSUME NEW w \in Workspace, NEW force \in BOOLEAN, Stop(w, force) PROVE ApartInv'
    BY <1>26 DEF Stop
  <1>27. ASSUME NEW w \in Workspace, Recover(w) PROVE ApartInv'
    BY <1>27 DEF Recover
  <1>28. ASSUME NEW w \in Workspace, RecoverAcquire(w) PROVE ApartInv'
    BY <1>28 DEF RecoverAcquire, Lock
  <1>29. ASSUME NEW w \in Workspace, RecoverNext(w) PROVE ApartInv'
    BY <1>29 DEF RecoverNext, Holds, Unlock, Read
  <1>30. ASSUME NEW w \in Workspace, JudgeRecover(w) PROVE ApartInv'
    BY <1>30
       DEF JudgeRecover, Unwritten, Unremoved, Pruned, Holds, Stopped, NotStopped, Becomes,
           Unlock
  <1>31. ASSUME NEW w \in Workspace, Restart(w) PROVE ApartInv'
    BY <1>31 DEF Restart
  <1>32. ASSUME NEW w \in Workspace, FinishRestart(w) PROVE ApartInv'
    BY <1>32 DEF FinishRestart
  <1>33. ASSUME NEW w \in Workspace, Cancel(w) PROVE ApartInv'
    BY <1>33 DEF Cancel
  <1>34. ASSUME NEW w \in Workspace, Crash(w) PROVE ApartInv'
    BY <1>34 DEF Crash, Unlock
  <1>35. ASSUME NEW w \in Workspace, ServicesDie(w) PROVE ApartInv'
    BY <1>35 DEF ServicesDie
  <1>36. ASSUME NEW p \in Proc, ConnectionDies(p) PROVE ApartInv'
    BY <1>36 DEF ConnectionDies, Becomes
  <1>37. ASSUME NEW p \in Proc, PidReused(p) PROVE ApartInv'
    BY <1>37 DEF PidReused, Becomes
  <1>38. ASSUME NEW f \in Fingerprint, NEW w \in Workspace, LeaseAges(f, w) PROVE ApartInv'
    BY <1>38 DEF LeaseAges
  <1>39. CASE UNCHANGED vars
    BY <1>39 DEF vars
  <1>40. ASSUME NEW w \in Workspace, Begin(w) PROVE ApartInv'
    BY <1>40, <1>1, <1>26, <1>27, <1>31 DEF Begin
  <1>41. ASSUME NEW w \in Workspace, StartStep(w) PROVE ApartInv'
    BY <1>41, <1>2, <1>3, <1>4, <1>5, <1>6, <1>7, <1>8, <1>9, <1>10, <1>11, <1>12, <1>13,
       <1>14, <1>15, <1>16, <1>17, <1>18 DEF StartStep
  <1>42. ASSUME NEW w \in Workspace, ReleaseStep(w) PROVE ApartInv'
    BY <1>42, <1>19, <1>20, <1>21, <1>22, <1>23 DEF ReleaseStep
  <1>43. ASSUME NEW w \in Workspace, PruneStep(w) \/ RecoverStep(w) \/ FinishRestart(w)
         PROVE ApartInv'
    BY <1>43, <1>24, <1>25, <1>28, <1>29, <1>30, <1>32 DEF PruneStep, RecoverStep
  <1>44. CASE Environment
    BY <1>44, <1>33, <1>34, <1>35, <1>36, <1>37, <1>38 DEF Environment
  <1>45. QED
    BY <1>39, <1>40, <1>41, <1>42, <1>43, <1>44 DEF Next, Step

(* The lease of a workspace that relies on a connection survives every pruning,
   and the connection is stopped by none of the seven places that stop one. *)
LEMMA LeaseStep ==
  ASSUME TypeOK, ControlType, DiskType, LockType, RegistryType, ProcessType, HistoryType,
         LockInv, CommandInv, RegistryInv, TargetInv, LeaseInv, SuspectInv, JoinInv,
         [Next]_vars
  PROVE  LeaseInv'
  <1>1. ASSUME NEW w \in Workspace, JudgeEnsure(w) PROVE LeaseInv'
    BY <1>1, JudgementStep, JudgementLease
  <1>2. ASSUME NEW w \in Workspace, JudgeSweep(w) PROVE LeaseInv'
    BY <1>2, JudgementStep, JudgementLease
  <1>3. ASSUME NEW w \in Workspace, JudgeRelease(w) PROVE LeaseInv'
    BY <1>3, JudgementStep, JudgementLease
  <1>4. ASSUME NEW w \in Workspace, JudgeRecover(w) PROVE LeaseInv'
    BY <1>4, JudgementStep, JudgementLease
  <1>5. ASSUME NEW w \in Workspace, Renew(w) PROVE LeaseInv'
    <2>1. \A x \in Workspace, p \in Proc : Protected(x, p)' => Protected(x, p)
      BY <1>5
         DEF Renew, Proceed, Return, Goto, args, disk, history, Protected, TypeOK, ControlType
    <2>2. \A f \in Fingerprint : leases[f] \subseteq leases'[f]
      BY <1>5 DEF Renew, AddLease, record, TypeOK, RegistryType
    <2>3. \A v \in Workspace : pc'[v] \in Pruning => pc[v] \in Pruning
      BY <1>5 DEF Renew, Proceed, Return, Goto, Pruning, TypeOK, ControlType
    <2>4. rec' = rec /\ conn' = conn /\ cur' = cur /\ mem' = mem
      BY <1>5 DEF Renew, AddLease, record, scan
    <2>5. QED
      BY <2>1, <2>2, <2>3, <2>4, LeaseFrame
  <1>6. ASSUME NEW w \in Workspace, Endpoints(w) PROVE LeaseInv'
    <2>1. connLock = w /\ pc[w] = "endpoints" /\ UNCHANGED <<conn, sconn, user>>
      BY <1>6 DEF Endpoints, Holds, disk, history
    <2>2. CASE rec[target[w]] # None /\ Join(w, target[w])
      <3>1. target[w] \in Fingerprint /\ conn[rec[target[w]]] # "stopped"
        BY <2>1, <2>2 DEF TypeOK, ControlType, JoinInv
      <3>2. QED
        BY <2>1, <2>2, <3>1, JoinLease
    <2>3. CASE /\ rec' = rec /\ leases' = leases
               /\ \/ Return(w)
                  \/ Proceed(w, "save") \/ Proceed(w, "launch") \/ Proceed(w, "sweep")
      <3>1. \A v \in Workspace : pc'[v] \notin Pruning
        BY <2>1, <2>3 DEF Proceed, Return, Goto, Pruning, Holding, LockInv, TypeOK, ControlType
      <3>2. result[w] = None
        BY <2>1 DEF CommandInv, Launched
      <3>3. \A x \in Workspace, p \in Proc : Protected(x, p)' => Protected(x, p)
        BY <2>1, <2>3, <3>2, ConstantsAssumption
           DEF Proceed, Return, Goto, args, Protected, TypeOK, ControlType
      <3>4. QED
        BY <2>1, <2>3, <3>1, <3>3, ConstantsAssumption DEF LeaseInv
    <2>4. QED
      BY <1>6, <2>2, <2>3 DEF Endpoints, record
  <1>7. ASSUME NEW w \in Workspace, SweepDone(w) PROVE LeaseInv'
    <2>1. connLock = w /\ pc[w] = "sweep" /\ UNCHANGED <<conn, sconn, user>>
      BY <1>7 DEF SweepDone, Holds, disk, history
    <2>2. CASE \E f \in active : Join(w, f)
      <3>1. PICK f \in Fingerprint : f \in active /\ Join(w, f)
        BY <2>2 DEF TypeOK, LockType
      <3>2. rec[f] # None /\ conn[rec[f]] # "stopped"
        BY <3>1 DEF JoinInv
      <3>3. QED
        BY <2>1, <3>1, <3>2, JoinLease
    <2>3. CASE rec' = rec /\ leases' = leases /\ (Return(w) \/ Proceed(w, "launch"))
      <3>1. \A v \in Workspace : pc'[v] \notin Pruning
        BY <2>1, <2>3 DEF Proceed, Return, Goto, Pruning, Holding, LockInv, TypeOK, ControlType
      <3>2. \A x \in Workspace, p \in Proc : Protected(x, p)' => Protected(x, p)
        BY <2>1, <2>3 DEF Proceed, Return, Goto, args, Protected, TypeOK, ControlType
      <3>3. QED
        BY <2>1, <2>3, <3>1, <3>2, ConstantsAssumption DEF LeaseInv
    <2>4. QED
      BY <1>7, <2>2, <2>3 DEF SweepDone, record
  <1>8. ASSUME NEW w \in Workspace, AwaitReady(w) PROVE LeaseInv'
    <2> DEFINE q == result[w]
    <2>1. /\ pc[w] = "await" /\ connLock = w /\ conn[q] = "running"
          /\ conn' = conn /\ sconn' = sconn /\ user' = user /\ result' = result
          /\ pc' = [pc EXCEPT ![w] = "save"]
          /\ rec' = [rec EXCEPT ![target[w]] = q]
          /\ leases' = [leases EXCEPT ![target[w]] = {w}]
      BY <1>8 DEF AwaitReady, Holds, Current, Proceed, Goto, args, disk, history
    <2>2. /\ FingerprintOf[q] = target[w] /\ target[w] \in Fingerprint
          /\ rec[target[w]] = None
      BY <2>1 DEF RegistryInv, TargetInv, TypeOK, ControlType
    <2>3. \A v \in Workspace : pc'[v] \notin Pruning
      BY <2>1 DEF LockInv, Holding, Pruning, TypeOK, ControlType
    <2>4. ASSUME NEW x \in Workspace, NEW p \in Proc, Protected(x, p)'
          PROVE  /\ conn[p] # "stopped"
                 /\ conn[p] \in {"running", "leaderless"} =>
                       rec'[FingerprintOf[p]] = p /\ x \in leases'[FingerprintOf[p]]
      <3>1. Protected(x, p) \/ (x = w /\ p = q)
        BY <2>1, <2>4 DEF Protected, TypeOK, ControlType
      <3>2. CASE x = w /\ p = q
        BY <2>1, <2>2, <3>2 DEF TypeOK, RegistryType
      <3>3. CASE Protected(x, p)
        <4>1. FingerprintOf[p] \in Fingerprint
          BY ConstantsAssumption
        <4>2. conn[p] \in {"running", "leaderless"} => FingerprintOf[p] # target[w]
          BY <2>2, <3>3, ConstantsAssumption DEF LeaseInv
        <4>3. QED
          BY <2>1, <3>3, <4>1, <4>2 DEF LeaseInv, TypeOK, RegistryType
      <3>4. QED
        BY <3>1, <3>2, <3>3
    <2>5. QED
      BY <2>1, <2>3, <2>4 DEF LeaseInv
  <1>9. ASSUME NEW w \in Workspace, SaveFailedSession(w) PROVE LeaseInv'
    <2>1. \A x \in Workspace, q \in Proc : Protected(x, q)' => Protected(x, q)
      BY <1>9 DEF SaveFailedSession, Return, Goto, history, Protected, CommandInv, MayUse,
               TypeOK, ControlType, DiskType
    <2>2. \A v \in Workspace : pc'[v] \in Pruning => pc[v] \in Pruning
      BY <1>9 DEF SaveFailedSession, Return, Goto, Pruning, TypeOK, ControlType
    <2>3. conn' = conn /\ rec' = rec /\ leases' = leases /\ cur' = cur /\ mem' = mem
      BY <1>9 DEF SaveFailedSession, record, scan
    <2>4. QED
      BY <2>1, <2>2, <2>3, LeaseFrame
  <1>10. ASSUME NEW w \in Workspace, RecoverNext(w) PROVE LeaseInv'
    <2>1. /\ pc[w] = "recovering" /\ connLock = w
          /\ UNCHANGED <<conn, rec, leases, sconn, user>>
      BY <1>10 DEF RecoverNext, Holds, record, disk, history
    <2>2. \A x \in Workspace, q \in Proc : Protected(x, q)' => Protected(x, q) /\ x # w
      BY <1>10, <2>1
         DEF RecoverNext, Proceed, Return, Goto, args, Protected, CommandInv, MayUse, Read,
                   TypeOK, ControlType
    <2>3. \A v \in Workspace : pc'[v] \in Pruning => mem' = leases[cur'] \ {w}
      BY <1>10, <2>1 DEF RecoverNext, Read, Proceed, Return, Goto, LockInv, Holding, Pruning,
                   TypeOK, ControlType
    <2>4. QED
      BY <2>1, <2>2, <2>3, ConstantsAssumption DEF LeaseInv
  <1>11. ASSUME NEW w \in Workspace, ReleaseAcquire(w) PROVE LeaseInv'
    <2>1. /\ pc[w] = "release" /\ connLock = None
          /\ UNCHANGED <<conn, rec, leases, sconn, user>>
      BY <1>11 DEF ReleaseAcquire, Lock, record, disk, history
    <2>2. \A x \in Workspace, q \in Proc : Protected(x, q)' => Protected(x, q) /\ x # w
      BY <1>11, <2>1
         DEF ReleaseAcquire, Proceed, Goto, args, Protected, CommandInv, MayUse, Read,
                   TypeOK, ControlType
    <2>3. \A v \in Workspace : pc'[v] \in Pruning => mem' = leases[cur'] \ {w}
      BY <1>11, <2>1 DEF ReleaseAcquire, Read
    <2>4. QED
      BY <2>1, <2>2, <2>3, ConstantsAssumption DEF LeaseInv
  <1>12. ASSUME NEW w \in Workspace, ReleaseUnmanaged(w) PROVE LeaseInv'
    <2> DEFINE p == sconn[w]
    <2>1. \A x \in Workspace, q \in Proc : Protected(x, q)' => Protected(x, q)
      BY <1>12 DEF ReleaseUnmanaged, ReleaseFails, Stopped, NotStopped, Becomes,
               Proceed, Return, Goto, args,
               disk, history, Protected, TypeOK, ControlType
    <2>2. pc[w] = "release" /\ p \in Proc /\ rec[FingerprintOf[p]] # p
      BY <1>12, ConstantsAssumption
         DEF ReleaseUnmanaged, CommandInv, RegistryInv, TypeOK, DiskType
    <2>3. conn[p] \in {"running", "leaderless"} => \A x \in Workspace : ~Protected(x, p)
      BY <2>2 DEF LeaseInv
    <2>4. \A q \in Proc :
             /\ conn'[q] = "stopped" => \/ conn[q] = "stopped"
                                        \/ \A x \in Workspace : ~Protected(x, q)
             /\ conn'[q] \in {"running", "leaderless"} => conn[q] \in {"running", "leaderless"}
      BY <1>12, <2>2, <2>3
         DEF ReleaseUnmanaged, Stopped, NotStopped, Becomes, Current, Unverified,
                         TypeOK, ProcessType
    <2>5. \A v \in Workspace : pc'[v] \in Pruning => pc[v] \in Pruning
      BY <1>12 DEF ReleaseUnmanaged, ReleaseFails, Stopped, NotStopped, Becomes,
               Proceed, Return, Goto, Pruning,
               TypeOK, ControlType
    <2>6. rec' = rec /\ leases' = leases /\ cur' = cur /\ mem' = mem
      BY <1>12 DEF ReleaseUnmanaged, record, scan
    <2>7. QED
      BY <2>1, <2>4, <2>5, <2>6, LeaseFrame
  <1>13. ASSUME NEW w \in Workspace, ReleaseUnrecorded(w) PROVE LeaseInv'
    <2> DEFINE p == sconn[w]
    <2>1. \A x \in Workspace, q \in Proc : Protected(x, q)' => Protected(x, q)
      BY <1>13 DEF ReleaseUnrecorded, ReleaseFails, Stopped, NotStopped, Becomes,
               Proceed, Return, Goto, args,
               disk, history, Protected, TypeOK, ControlType
    <2>2. pc[w] = "release" /\ p \in Proc /\ rec[FingerprintOf[p]] # p
      BY <1>13, ConstantsAssumption
         DEF ReleaseUnrecorded, CommandInv, RegistryInv, TypeOK, DiskType
    <2>3. conn[p] \in {"running", "leaderless"} => \A x \in Workspace : ~Protected(x, p)
      BY <2>2 DEF LeaseInv
    <2>4. \A q \in Proc :
             /\ conn'[q] = "stopped" => \/ conn[q] = "stopped"
                                        \/ \A x \in Workspace : ~Protected(x, q)
             /\ conn'[q] \in {"running", "leaderless"} => conn[q] \in {"running", "leaderless"}
      BY <1>13, <2>2, <2>3
         DEF ReleaseUnrecorded, Stopped, NotStopped, Becomes, Current, Unverified,
                         TypeOK, ProcessType
    <2>5. \A v \in Workspace : pc'[v] \in Pruning => pc[v] \in Pruning
      BY <1>13 DEF ReleaseUnrecorded, ReleaseFails, Stopped, NotStopped, Becomes,
               Proceed, Return, Goto, Pruning,
               TypeOK, ControlType
    <2>6. rec' = rec /\ leases' = leases /\ cur' = cur /\ mem' = mem
      BY <1>13 DEF ReleaseUnrecorded, record, scan
    <2>7. QED
      BY <2>1, <2>4, <2>5, <2>6, LeaseFrame
  <1>14. ASSUME NEW w \in Workspace, ServicesDie(w) PROVE LeaseInv'
    <2>1. \A x \in Workspace, q \in Proc : Protected(x, q)' => Protected(x, q)
      BY <1>14 DEF ServicesDie, args, Protected, TypeOK, HistoryType
    <2>2. /\ conn' = conn /\ rec' = rec /\ leases' = leases /\ pc' = pc /\ cur' = cur
          /\ mem' = mem
      BY <1>14 DEF ServicesDie, record, scan
    <2>3. QED
      BY <2>1, <2>2, LeaseFrame
  <1>15. ASSUME NEW p \in Proc, ConnectionDies(p) PROVE LeaseInv'
    <2>1. \A q \in Proc :
             /\ conn'[q] = "stopped" => conn[q] = "stopped"
             /\ conn'[q] \in {"running", "leaderless"} => conn[q] \in {"running", "leaderless"}
      BY <1>15 DEF ConnectionDies, Becomes, Current, TypeOK, ProcessType
    <2>2. \A x \in Workspace, q \in Proc : Protected(x, q)' => Protected(x, q)
      BY <1>15 DEF ConnectionDies, Becomes, args, disk, history, Protected
    <2>3. rec' = rec /\ leases' = leases /\ pc' = pc /\ cur' = cur /\ mem' = mem
      BY <1>15 DEF ConnectionDies, record, scan
    <2>4. QED
      BY <2>1, <2>2, <2>3, LeaseFrame
  <1> USE ConstantsAssumption, NoTargetType
          DEF ControlType, DiskType, LockType, RegistryType, ProcessType, HistoryType,
              LockInv, CommandInv, RegistryInv, TargetInv, LeaseInv, SuspectInv, JoinInv,
              Proceed, Return, Goto, args, disk, scan, record, history, Control, Waiting,
              Holding, Pruning, Launched, MayUse, ConnState, Protected, LeaseActive
  <1>16. ASSUME NEW w \in Workspace, NEW f \in Fingerprint, Start(w, f) PROVE LeaseInv'
    BY <1>16 DEF Start
  <1>17. ASSUME NEW w \in Workspace, ValidateReplacement(w) PROVE LeaseInv'
    BY <1>17 DEF ValidateReplacement
  <1>18. ASSUME NEW w \in Workspace, StopOld(w) PROVE LeaseInv'
    BY <1>18 DEF StopOld
  <1>19. ASSUME NEW w \in Workspace, EnsureAcquire(w) PROVE LeaseInv'
    BY <1>19 DEF EnsureAcquire, Lock, Read
  <1>20. ASSUME NEW w \in Workspace, SweepNext(w) PROVE LeaseInv'
    BY <1>20 DEF SweepNext, Holds, Read
  <1>21. ASSUME NEW w \in Workspace, Launch(w) PROVE LeaseInv'
    BY <1>21 DEF Launch, Holds, Becomes
  <1>22. ASSUME NEW w \in Workspace, LaunchFails(w) PROVE LeaseInv'
    BY <1>22 DEF LaunchFails, Holds, Unlock, ClearScan
  <1>23. ASSUME NEW w \in Workspace, AwaitFails(w) PROVE LeaseInv'
    BY <1>23 DEF AwaitFails, Holds, Stopped, NotStopped, Becomes, Unlock, ClearScan
  <1>24. ASSUME NEW w \in Workspace, SaveSession(w) PROVE LeaseInv'
    BY <1>24 DEF SaveSession
  <1>25. ASSUME NEW w \in Workspace, StartServices(w) PROVE LeaseInv'
    BY <1>25 DEF StartServices
  <1>26. ASSUME NEW w \in Workspace, Rollback(w) PROVE LeaseInv'
    BY <1>26 DEF Rollback
  <1>27. ASSUME NEW w \in Workspace, Clear(w) PROVE LeaseInv'
    BY <1>27 DEF Clear, EndSession
  <1>28. ASSUME NEW w \in Workspace, PruneProbe(w) PROVE LeaseInv'
    BY <1>28 DEF PruneProbe
  <1>29. ASSUME NEW w \in Workspace, PruneRead(w) PROVE LeaseInv'
    BY <1>29 DEF PruneRead
  <1>30. ASSUME NEW w \in Workspace, NEW force \in BOOLEAN, Stop(w, force) PROVE LeaseInv'
    BY <1>30 DEF Stop
  <1>31. ASSUME NEW w \in Workspace, Recover(w) PROVE LeaseInv'
    BY <1>31 DEF Recover
  <1>32. ASSUME NEW w \in Workspace, RecoverAcquire(w) PROVE LeaseInv'
    BY <1>32 DEF RecoverAcquire, Lock
  <1>33. ASSUME NEW w \in Workspace, Restart(w) PROVE LeaseInv'
    BY <1>33 DEF Restart
  <1>34. ASSUME NEW w \in Workspace, FinishRestart(w) PROVE LeaseInv'
    BY <1>34 DEF FinishRestart
  <1>35. ASSUME NEW w \in Workspace, Cancel(w) PROVE LeaseInv'
    BY <1>35 DEF Cancel
  <1>36. ASSUME NEW w \in Workspace, Crash(w) PROVE LeaseInv'
    BY <1>36 DEF Crash, Unlock, ClearScan
  <1>37. ASSUME NEW p \in Proc, PidReused(p) PROVE LeaseInv'
    BY <1>37 DEF PidReused, Becomes
  <1>38. ASSUME NEW f \in Fingerprint, NEW w \in Workspace, LeaseAges(f, w) PROVE LeaseInv'
    BY <1>38 DEF LeaseAges
  <1>39. CASE UNCHANGED vars
    BY <1>39 DEF vars
  <1>40. ASSUME NEW w \in Workspace, Begin(w) PROVE LeaseInv'
    BY <1>40, <1>16, <1>30, <1>31, <1>33 DEF Begin
  <1>41. ASSUME NEW w \in Workspace, StartStep(w) PROVE LeaseInv'
    BY <1>41, <1>1, <1>2, <1>5, <1>6, <1>7, <1>8, <1>9, <1>17, <1>18, <1>19, <1>20, <1>21,
       <1>22, <1>23, <1>24, <1>25, <1>26 DEF StartStep
  <1>42. ASSUME NEW w \in Workspace, ReleaseStep(w) PROVE LeaseInv'
    BY <1>42, <1>3, <1>11, <1>12, <1>13, <1>27 DEF ReleaseStep
  <1>43. ASSUME NEW w \in Workspace, PruneStep(w) \/ RecoverStep(w) \/ FinishRestart(w)
         PROVE LeaseInv'
    BY <1>43, <1>4, <1>10, <1>28, <1>29, <1>32, <1>34 DEF PruneStep, RecoverStep
  <1>44. CASE Environment
    BY <1>44, <1>14, <1>15, <1>35, <1>36, <1>37, <1>38 DEF Environment
  <1>45. QED
    BY <1>39, <1>40, <1>41, <1>42, <1>43, <1>44 DEF Next, Step

(* Of the places that signal a process group, those a command without --force
   reaches verify the leader first (connectionRecordState, stopConnection). *)
LEMMA UnverifiedStep ==
  ASSUME ControlType, ProcessType, ForceInv, [Next]_vars, NEW q \in Proc,
         Unverified(q), conn'[q] \in {"stopped", "killed"}
  PROVE  \E x \in Workspace : forced[x] /\ pc'[x] # pc[x]
  <1> USE ConstantsAssumption, NoTargetType
          DEF ControlType, ProcessType, ForceInv, Proceed, Return, Goto, args, Control,
              Waiting, Holding, Pruning, ConnState, Current, Unverified
  <1>1. ASSUME NEW w \in Workspace, NEW f \in Fingerprint, Start(w, f)
       PROVE  \E x \in Workspace : forced[x] /\ pc'[x] # pc[x]
    BY <1>1 DEF Start
  <1>2. ASSUME NEW w \in Workspace, ValidateReplacement(w)
       PROVE  \E x \in Workspace : forced[x] /\ pc'[x] # pc[x]
    BY <1>2 DEF ValidateReplacement
  <1>3. ASSUME NEW w \in Workspace, Renew(w)
       PROVE  \E x \in Workspace : forced[x] /\ pc'[x] # pc[x]
    BY <1>3 DEF Renew
  <1>4. ASSUME NEW w \in Workspace, StopOld(w)
       PROVE  \E x \in Workspace : forced[x] /\ pc'[x] # pc[x]
    BY <1>4 DEF StopOld
  <1>5. ASSUME NEW w \in Workspace, EnsureAcquire(w)
       PROVE  \E x \in Workspace : forced[x] /\ pc'[x] # pc[x]
    BY <1>5 DEF EnsureAcquire, Read
  <1>6. ASSUME NEW w \in Workspace, JudgeEnsure(w)
       PROVE  \E x \in Workspace : forced[x] /\ pc'[x] # pc[x]
    BY <1>6 DEF JudgeEnsure, Unwritten, Unremoved, Pruned, Holds, Stopped, NotStopped, Becomes
  <1>7. ASSUME NEW w \in Workspace, Endpoints(w)
       PROVE  \E x \in Workspace : forced[x] /\ pc'[x] # pc[x]
    BY <1>7 DEF Endpoints, Holds, Join
  <1>8. ASSUME NEW w \in Workspace, SweepNext(w)
       PROVE  \E x \in Workspace : forced[x] /\ pc'[x] # pc[x]
    BY <1>8 DEF SweepNext, Holds, Read
  <1>9. ASSUME NEW w \in Workspace, JudgeSweep(w)
       PROVE  \E x \in Workspace : forced[x] /\ pc'[x] # pc[x]
    BY <1>9 DEF JudgeSweep, Unwritten, Unremoved, Pruned, Holds, Stopped, NotStopped, Becomes
  <1>10. ASSUME NEW w \in Workspace, SweepDone(w)
       PROVE  \E x \in Workspace : forced[x] /\ pc'[x] # pc[x]
    BY <1>10 DEF SweepDone, Holds, Join
  <1>11. ASSUME NEW w \in Workspace, Launch(w)
       PROVE  \E x \in Workspace : forced[x] /\ pc'[x] # pc[x]
    BY <1>11 DEF Launch, Holds, Becomes
  <1>12. ASSUME NEW w \in Workspace, LaunchFails(w)
       PROVE  \E x \in Workspace : forced[x] /\ pc'[x] # pc[x]
    BY <1>12 DEF LaunchFails, Holds
  <1>13. ASSUME NEW w \in Workspace, AwaitReady(w)
       PROVE  \E x \in Workspace : forced[x] /\ pc'[x] # pc[x]
    BY <1>13 DEF AwaitReady, Holds
  <1>14. ASSUME NEW w \in Workspace, AwaitFails(w)
       PROVE  \E x \in Workspace : forced[x] /\ pc'[x] # pc[x]
    BY <1>14 DEF AwaitFails, Holds, Stopped, NotStopped, Becomes
  <1>15. ASSUME NEW w \in Workspace, SaveFailedSession(w)
       PROVE  \E x \in Workspace : forced[x] /\ pc'[x] # pc[x]
    BY <1>15 DEF SaveFailedSession
  <1>16. ASSUME NEW w \in Workspace, SaveSession(w)
       PROVE  \E x \in Workspace : forced[x] /\ pc'[x] # pc[x]
    BY <1>16 DEF SaveSession
  <1>17. ASSUME NEW w \in Workspace, StartServices(w)
       PROVE  \E x \in Workspace : forced[x] /\ pc'[x] # pc[x]
    BY <1>17 DEF StartServices
  <1>18. ASSUME NEW w \in Workspace, Rollback(w)
       PROVE  \E x \in Workspace : forced[x] /\ pc'[x] # pc[x]
    BY <1>18 DEF Rollback
  <1>19. ASSUME NEW w \in Workspace, ReleaseUnmanaged(w)
       PROVE  \E x \in Workspace : forced[x] /\ pc'[x] # pc[x]
    BY <1>19 DEF ReleaseUnmanaged, ReleaseFails, Stopped, NotStopped, Becomes
  <1>20. ASSUME NEW w \in Workspace, ReleaseUnrecorded(w)
       PROVE  \E x \in Workspace : forced[x] /\ pc'[x] # pc[x]
    BY <1>20 DEF ReleaseUnrecorded, ReleaseFails, Stopped, NotStopped, Becomes
  <1>21. ASSUME NEW w \in Workspace, ReleaseAcquire(w)
       PROVE  \E x \in Workspace : forced[x] /\ pc'[x] # pc[x]
    BY <1>21 DEF ReleaseAcquire, Read
  <1>22. ASSUME NEW w \in Workspace, JudgeRelease(w)
       PROVE  \E x \in Workspace : forced[x] /\ pc'[x] # pc[x]
    BY <1>22
       DEF JudgeRelease, Unwritten, Unremoved, Pruned, Holds, ReleaseFails, Stopped,
           NotStopped, Becomes
  <1>23. ASSUME NEW w \in Workspace, Clear(w)
       PROVE  \E x \in Workspace : forced[x] /\ pc'[x] # pc[x]
    BY <1>23 DEF Clear
  <1>24. ASSUME NEW w \in Workspace, PruneProbe(w)
       PROVE  \E x \in Workspace : forced[x] /\ pc'[x] # pc[x]
    BY <1>24 DEF PruneProbe
  <1>25. ASSUME NEW w \in Workspace, PruneRead(w)
       PROVE  \E x \in Workspace : forced[x] /\ pc'[x] # pc[x]
    BY <1>25 DEF PruneRead
  <1>26. ASSUME NEW w \in Workspace, NEW force \in BOOLEAN, Stop(w, force)
       PROVE  \E x \in Workspace : forced[x] /\ pc'[x] # pc[x]
    BY <1>26 DEF Stop
  <1>27. ASSUME NEW w \in Workspace, Recover(w)
       PROVE  \E x \in Workspace : forced[x] /\ pc'[x] # pc[x]
    BY <1>27 DEF Recover
  <1>28. ASSUME NEW w \in Workspace, RecoverAcquire(w)
       PROVE  \E x \in Workspace : forced[x] /\ pc'[x] # pc[x]
    BY <1>28 DEF RecoverAcquire
  <1>29. ASSUME NEW w \in Workspace, RecoverNext(w)
       PROVE  \E x \in Workspace : forced[x] /\ pc'[x] # pc[x]
    BY <1>29 DEF RecoverNext, Holds, Read
  <1>30. ASSUME NEW w \in Workspace, JudgeRecover(w)
       PROVE  \E x \in Workspace : forced[x] /\ pc'[x] # pc[x]
    BY <1>30 DEF JudgeRecover, Unwritten, Unremoved, Pruned, Holds, Stopped, NotStopped, Becomes
  <1>31. ASSUME NEW w \in Workspace, Restart(w)
       PROVE  \E x \in Workspace : forced[x] /\ pc'[x] # pc[x]
    BY <1>31 DEF Restart
  <1>32. ASSUME NEW w \in Workspace, FinishRestart(w)
       PROVE  \E x \in Workspace : forced[x] /\ pc'[x] # pc[x]
    BY <1>32 DEF FinishRestart
  <1>33. ASSUME NEW w \in Workspace, Cancel(w)
       PROVE  \E x \in Workspace : forced[x] /\ pc'[x] # pc[x]
    BY <1>33 DEF Cancel
  <1>34. ASSUME NEW w \in Workspace, Crash(w)
       PROVE  \E x \in Workspace : forced[x] /\ pc'[x] # pc[x]
    BY <1>34 DEF Crash
  <1>35. ASSUME NEW w \in Workspace, ServicesDie(w)
       PROVE  \E x \in Workspace : forced[x] /\ pc'[x] # pc[x]
    BY <1>35 DEF ServicesDie
  <1>36. ASSUME NEW p \in Proc, ConnectionDies(p)
       PROVE  \E x \in Workspace : forced[x] /\ pc'[x] # pc[x]
    BY <1>36 DEF ConnectionDies, Becomes
  <1>37. ASSUME NEW p \in Proc, PidReused(p)
       PROVE  \E x \in Workspace : forced[x] /\ pc'[x] # pc[x]
    BY <1>37 DEF PidReused, Becomes
  <1>38. ASSUME NEW f \in Fingerprint, NEW w \in Workspace, LeaseAges(f, w)
       PROVE  \E x \in Workspace : forced[x] /\ pc'[x] # pc[x]
    BY <1>38 DEF LeaseAges
  <1>39. CASE UNCHANGED vars
    BY <1>39 DEF vars
  <1>40. QED
    BY <1>1, <1>2, <1>3, <1>4, <1>5, <1>6, <1>7, <1>8, <1>9, <1>10, <1>11, <1>12, <1>13,
       <1>14, <1>15, <1>16, <1>17, <1>18, <1>19, <1>20, <1>21, <1>22, <1>23, <1>24, <1>25,
       <1>26, <1>27, <1>28, <1>29, <1>30, <1>31, <1>32, <1>33, <1>34, <1>35, <1>36, <1>37,
       <1>38, <1>39
       DEF Next, Begin, Step, StartStep, ReleaseStep, PruneStep, RecoverStep, Environment

-----------------------------------------------------------------------------

(* In the initial state there is nothing to lease and nobody to hold a lock. *)
LEMMA InitInvariant == Init => IInv
  <1> SUFFICES ASSUME Init PROVE IInv
    OBVIOUS
  <1> USE ConstantsAssumption, NoTargetType DEF Init
  <1>1. TypeOK
    BY DEF TypeOK, ControlType, DiskType, LockType, RegistryType, ProcessType, HistoryType,
           Control, ConnState
  <1>2. LockInv /\ CommandInv /\ TargetInv /\ SuspectInv /\ ScanInv /\ LaunchInv /\ ForceInv
    BY DEF LockInv, CommandInv, TargetInv, SuspectInv, ScanInv, LaunchInv, ForceInv,
           Holding, Pruning, Launched
  <1>3. RegistryInv /\ JoinInv
    BY DEF RegistryInv, JoinInv, Holding, Pruning, Launched
  <1>4. LeaseInv
    BY DEF LeaseInv, Protected
  <1>5. ApartInv /\ SingleRecordInv
    BY DEF ApartInv, SingleRecordInv, Current
  <1>6. QED
    BY <1>1, <1>2, <1>3, <1>4, <1>5 DEF IInv

(* Every step of every command and of the environment preserves it. *)
LEMMA NextInvariant == IInv /\ [Next]_vars => IInv'
  <1> SUFFICES ASSUME IInv, [Next]_vars PROVE IInv'
    OBVIOUS
  <1>1. /\ TypeOK /\ LockInv /\ CommandInv /\ RegistryInv /\ TargetInv /\ LeaseInv
        /\ SuspectInv /\ ScanInv /\ JoinInv /\ LaunchInv /\ ForceInv
        /\ ApartInv /\ SingleRecordInv
        /\ ControlType /\ DiskType /\ LockType /\ RegistryType /\ ProcessType /\ HistoryType
    BY DEF IInv, TypeOK
  <1>2. TypeOK'
    BY <1>1, TypeStep
  <1>3. LockInv' /\ CommandInv' /\ TargetInv' /\ RegistryInv'
    BY <1>1, LockStep, CommandStep, TargetStep, RegistryStep
  <1>4. SuspectInv' /\ ScanInv' /\ JoinInv' /\ LeaseInv'
    BY <1>1, SuspectStep, ScanStep, JoinStep, LeaseStep
  <1>5. LaunchInv' /\ ForceInv' /\ ApartInv' /\ SingleRecordInv'
    BY <1>1, LaunchStep, ForceStep, ApartStep, SingleRecordStep
  <1>6. QED
    BY <1>2, <1>3, <1>4, <1>5 DEF IInv

(* The inductive invariant holds in every state the registry and the commands
   of all workspaces can reach. *)
THEOREM Invariance == Spec => []IInv
  BY InitInvariant, NextInvariant, PTL DEF Spec

(* Records, sessions and the commands' local variables stay in their domains,
   whatever fails and whoever is killed. *)
THEOREM TypeCorrect == Spec => []TypeOK
  <1>1. IInv => TypeOK
    BY DEF IInv
  <1>2. QED
    BY <1>1, Invariance, PTL

(* No command of any workspace stops the connection that services started under
   a lease still use, however many workspaces share it and whatever their
   commands, their crashes and the processes do: releaseConnection,
   EnsureConnection, activeConnectionRecords and recoverUnleasedConnections
   are safe together. *)
THEOREM ConnectionKept == Spec => []UsersKeepConnection
  <1>1. IInv => UsersKeepConnection
    <2> SUFFICES ASSUME IInv, NEW w \in Workspace, user[w]
                 PROVE  sconn[w] # None /\ conn[sconn[w]] # "stopped"
      BY DEF UsersKeepConnection
    <2>1. sconn[w] # None
      BY DEF IInv, CommandInv
    <2>2. sconn[w] \in Proc /\ Protected(w, sconn[w])
      BY <2>1 DEF IInv, TypeOK, DiskType, Protected
    <2>3. QED
      BY <2>1, <2>2 DEF IInv, LeaseInv
  <1>2. QED
    BY <1>1, Invariance, PTL

(* Two ktctl tunnels of one executable never run at once, and of tunnels of
   different ones at most one is in the registry (the sweep of the ktctl records
   and the process scan of EnsureConnection, under the connection lock). *)
THEOREM SingleKtctl == Spec => []OneKtctl
  <1>1. IInv => OneKtctl
    <2> SUFFICES ASSUME IInv, NEW p \in Proc, NEW q \in Proc, p # q, Current(p), Current(q),
                        FingerprintOf[p] \in Ktctl, FingerprintOf[q] \in Ktctl
                 PROVE  ExecutableOf[p] # ExecutableOf[q] /\ ~(Recorded(p) /\ Recorded(q))
      BY DEF OneKtctl
    <2>1. ExecutableOf[p] # ExecutableOf[q]
      BY DEF IInv, ApartInv
    <2>2. ~(Recorded(p) /\ Recorded(q))
      BY ConstantsAssumption DEF IInv, SingleRecordInv, Recorded
    <2>3. QED
      BY <2>1, <2>2
  <1>2. QED
    BY <1>1, Invariance, PTL

(* A process group that Conven cannot verify, its leader gone or its PID reused,
   is signalled by a command given --force only (forceStopConnectionGroup). *)
THEOREM UnverifiedSpared == Spec => UnverifiedNeedsForce
  <1>1. IInv /\ [Next]_vars =>
           [\A p \in Proc :
               Unverified(p) /\ conn'[p] \in {"stopped", "killed"}
                   => \E w \in Workspace : forced[w] /\ pc'[w] # pc[w]]_vars
    BY UnverifiedStep DEF IInv, TypeOK
  <1>2. QED
    BY <1>1, Invariance, PTL DEF Spec, UnverifiedNeedsForce
-----------------------------------------------------------------------------
(* The ledger: what the records say of who leases and of what runs.          *)

(* The command of w goes on to one of the labels, the others stay. *)
Moves(w, labels) == pc'[w] \in labels /\ \A x \in Workspace : x # w => pc'[x] = pc[x]

(* What a judgement does to the ledger: of the record under examination it
   keeps what survived the pruning, or it removes the record with its leases;
   it leaves the other records alone, and nobody prunes any more. *)
Settled(w) ==
    /\ connLock = w /\ cur \in Fingerprint /\ rec[cur] # None
    /\ \A x \in Workspace : pc'[x] \notin Pruning
    /\ \A f \in Fingerprint :
          /\ leases'[f] \subseteq leases[f]
          /\ f # cur => rec'[f] = rec[f]
          /\ f = cur => \/ rec'[f] = rec[f]
                        \/ rec'[f] = None /\ leases'[f] = {}

(* All four judgements do. *)
LEMMA JudgementLedger ==
  ASSUME TypeOK, LockInv, ScanInv, BookInv, NEW w \in Workspace,
         JudgeEnsure(w) \/ JudgeSweep(w) \/ JudgeRelease(w) \/ JudgeRecover(w)
  PROVE  Settled(w)
  <1>1. Judgement(w)
    BY JudgementStep
  <1>2. connLock = w /\ cur \in Fingerprint /\ rec[cur] # None /\ mem \subseteq leases[cur]
    BY <1>1 DEF Judgement, ScanInv, BookInv
  <1>3. \A x \in Workspace : pc'[x] \notin Pruning
    BY <1>1 DEF LockInv, Judgement, Holding, Pruning
  <1>4. ASSUME NEW f \in Fingerprint, f # cur
        PROVE  rec'[f] = rec[f] /\ leases'[f] = leases[f]
    BY <1>1, <1>4 DEF Judgement
  <1>5. \/ rec'[cur] = rec[cur] /\ leases'[cur] \in {leases[cur], mem}
        \/ rec'[cur] = None /\ leases'[cur] = {}
    <2> USE <1>2 DEF TypeOK, RegistryType, RemoveRecord, SaveLeases, record
    <2>1. CASE JudgeEnsure(w)
      BY <2>1 DEF JudgeEnsure, Unwritten, Unremoved
    <2>2. CASE JudgeSweep(w)
      BY <2>2 DEF JudgeSweep, Unwritten, Unremoved
    <2>3. CASE JudgeRelease(w)
      BY <2>3 DEF JudgeRelease, Unwritten, Unremoved
    <2>4. CASE JudgeRecover(w)
      BY <2>4 DEF JudgeRecover, Unwritten, Unremoved
    <2>5. QED
      BY <2>1, <2>2, <2>3, <2>4
  <1>6. QED
    BY <1>2, <1>3, <1>4, <1>5 DEF Settled

(* A lease is only written into a record that is there, and removed with it:
   saveConnectionRecord writes both in one file. *)
LEMMA BookStep ==
  ASSUME TypeOK, LockInv, CommandInv, ScanInv, RegistryInv, TargetInv, JoinInv,
         BookInv, [Next]_vars
  PROVE  BookInv'
  <1> USE ConstantsAssumption, NoTargetType
          DEF BookInv, TypeOK, ControlType, DiskType, LockType, RegistryType, LockInv,
              Holds, Lock, Unlock, ClearScan, Proceed, Return, Goto, args, scan, record,
              Control, Waiting, Holding, Pruning
  <1>1. ASSUME NEW w \in Workspace, JudgeEnsure(w) PROVE BookInv'
    BY <1>1, JudgementLedger, SMTT(60) DEF Settled
  <1>2. ASSUME NEW w \in Workspace, JudgeSweep(w) PROVE BookInv'
    BY <1>2, JudgementLedger, SMTT(60) DEF Settled
  <1>3. ASSUME NEW w \in Workspace, AwaitReady(w) PROVE BookInv'
    <2>1. connLock' = None /\ \A x \in Workspace : pc'[x] \notin Pruning
      BY <1>3 DEF AwaitReady
    <2>2. \A f \in Fingerprint : rec'[f] = None => leases'[f] = {}
      BY <1>3 DEF AwaitReady, CommandInv, Launched
    <2>3. QED
      BY <2>1, <2>2
  <1>4. ASSUME NEW w \in Workspace, ReleaseUnrecorded(w) PROVE BookInv'
    <2>1. UNCHANGED <<record, cur, mem>>
      BY <1>4 DEF ReleaseUnrecorded
    <2>2. Moves(w, {"clear", "idle"})
      BY <1>4 DEF ReleaseUnrecorded, ReleaseFails, Stopped, NotStopped, Becomes, Moves
    <2>3. QED
      BY <2>1, <2>2 DEF Moves
  <1>5. ASSUME NEW w \in Workspace, JudgeRelease(w) PROVE BookInv'
    BY <1>5, JudgementLedger, SMTT(60) DEF Settled
  <1>6. ASSUME NEW w \in Workspace, JudgeRecover(w) PROVE BookInv'
    BY <1>6, JudgementLedger, SMTT(60) DEF Settled
  <1>7. ASSUME NEW w \in Workspace, NEW f \in Fingerprint, Start(w, f) PROVE BookInv'
    BY <1>7 DEF Start
  <1>8. ASSUME NEW w \in Workspace, ValidateReplacement(w) PROVE BookInv'
    BY <1>8 DEF ValidateReplacement
  <1>9. ASSUME NEW w \in Workspace, Renew(w) PROVE BookInv'
    BY <1>9, SMTT(60) DEF Renew, AddLease
  <1>10. ASSUME NEW w \in Workspace, StopOld(w) PROVE BookInv'
    BY <1>10 DEF StopOld
  <1>11. ASSUME NEW w \in Workspace, EnsureAcquire(w) PROVE BookInv'
    BY <1>11 DEF EnsureAcquire, Read
  <1>12. ASSUME NEW w \in Workspace, Endpoints(w) PROVE BookInv'
    BY <1>12, SMTT(60) DEF Endpoints, Join, AddLease
  <1>13. ASSUME NEW w \in Workspace, SweepNext(w) PROVE BookInv'
    BY <1>13 DEF SweepNext, Read
  <1>14. ASSUME NEW w \in Workspace, SweepDone(w) PROVE BookInv'
    BY <1>14, SMTT(60) DEF SweepDone, Join, AddLease, JoinInv
  <1>15. ASSUME NEW w \in Workspace, Launch(w) PROVE BookInv'
    BY <1>15 DEF Launch
  <1>16. ASSUME NEW w \in Workspace, LaunchFails(w) PROVE BookInv'
    BY <1>16 DEF LaunchFails
  <1>17. ASSUME NEW w \in Workspace, AwaitFails(w) PROVE BookInv'
    BY <1>17 DEF AwaitFails
  <1>18. ASSUME NEW w \in Workspace, SaveFailedSession(w) PROVE BookInv'
    BY <1>18 DEF SaveFailedSession
  <1>19. ASSUME NEW w \in Workspace, SaveSession(w) PROVE BookInv'
    BY <1>19 DEF SaveSession
  <1>20. ASSUME NEW w \in Workspace, StartServices(w) PROVE BookInv'
    BY <1>20 DEF StartServices
  <1>21. ASSUME NEW w \in Workspace, Rollback(w) PROVE BookInv'
    BY <1>21 DEF Rollback
  <1>22. ASSUME NEW w \in Workspace, ReleaseUnmanaged(w) PROVE BookInv'
    BY <1>22 DEF ReleaseUnmanaged, ReleaseFails
  <1>23. ASSUME NEW w \in Workspace, ReleaseAcquire(w) PROVE BookInv'
    BY <1>23 DEF ReleaseAcquire, Read
  <1>24. ASSUME NEW w \in Workspace, Clear(w) PROVE BookInv'
    BY <1>24 DEF Clear
  <1>25. ASSUME NEW w \in Workspace, PruneProbe(w) PROVE BookInv'
    BY <1>25 DEF PruneProbe
  <1>26. ASSUME NEW w \in Workspace, PruneRead(w) PROVE BookInv'
    BY <1>26 DEF PruneRead
  <1>27. ASSUME NEW w \in Workspace, Recover(w) PROVE BookInv'
    BY <1>27 DEF Recover
  <1>28. ASSUME NEW w \in Workspace, RecoverAcquire(w) PROVE BookInv'
    BY <1>28 DEF RecoverAcquire
  <1>29. ASSUME NEW w \in Workspace, RecoverNext(w) PROVE BookInv'
    BY <1>29 DEF RecoverNext, Read
  <1>30. ASSUME NEW w \in Workspace, Restart(w) PROVE BookInv'
    BY <1>30 DEF Restart
  <1>31. ASSUME NEW w \in Workspace, FinishRestart(w) PROVE BookInv'
    BY <1>31 DEF FinishRestart
  <1>32. ASSUME NEW w \in Workspace, Cancel(w) PROVE BookInv'
    BY <1>32 DEF Cancel
  <1>33. ASSUME NEW w \in Workspace, Crash(w) PROVE BookInv'
    BY <1>33 DEF Crash
  <1>34. ASSUME NEW w \in Workspace, ServicesDie(w) PROVE BookInv'
    BY <1>34 DEF ServicesDie
  <1>35. ASSUME NEW w \in Workspace, NEW force \in BOOLEAN, Stop(w, force) PROVE BookInv'
    BY <1>35 DEF Stop
  <1>36. ASSUME NEW p \in Proc, ConnectionDies(p) PROVE BookInv'
    BY <1>36 DEF ConnectionDies
  <1>37. ASSUME NEW p \in Proc, PidReused(p) PROVE BookInv'
    BY <1>37 DEF PidReused
  <1>38. ASSUME NEW f \in Fingerprint, NEW w \in Workspace, LeaseAges(f, w) PROVE BookInv'
    BY <1>38 DEF LeaseAges
  <1>39. CASE UNCHANGED vars
    BY <1>39 DEF vars
  <1>40. ASSUME NEW w \in Workspace, Begin(w) PROVE BookInv'
    BY <1>40, <1>7, <1>27, <1>30, <1>35 DEF Begin
  <1>41. ASSUME NEW w \in Workspace, StartStep(w) PROVE BookInv'
    BY <1>41, <1>1, <1>2, <1>3, <1>8, <1>9, <1>10, <1>11, <1>12, <1>13, <1>14, <1>15, <1>16,
       <1>17, <1>18, <1>19, <1>20, <1>21 DEF StartStep
  <1>42. ASSUME NEW w \in Workspace, ReleaseStep(w) PROVE BookInv'
    BY <1>42, <1>4, <1>5, <1>22, <1>23, <1>24 DEF ReleaseStep
  <1>43. ASSUME NEW w \in Workspace, PruneStep(w) \/ RecoverStep(w) \/ FinishRestart(w)
         PROVE BookInv'
    BY <1>43, <1>6, <1>25, <1>26, <1>28, <1>29, <1>31 DEF PruneStep, RecoverStep
  <1>44. CASE Environment
    BY <1>44, <1>32, <1>33, <1>34, <1>36, <1>37, <1>38 DEF Environment
  <1>45. QED
    BY <1>39, <1>40, <1>41, <1>42, <1>43, <1>44 DEF Next, Step

(* What a start retains is the connection of the configuration it asks for, and
   that stays in its record while it runs: nobody else can launch one of it. *)
LEMMA RetainStep ==
  ASSUME TypeOK, LockInv, CommandInv, RegistryInv, TargetInv, RetainInv, [Next]_vars
  PROVE  RetainInv'
  <1> USE ConstantsAssumption, NoTargetType
          DEF RetainInv, Asking, Moves, TypeOK, ControlType, DiskType, RegistryType,
              ProcessType, ConnState, LockInv, CommandInv, Proceed, Return, Goto, args,
              disk, record, Current, Unverified, Control, Waiting, Holding, Pruning,
              Launched
  <1>1. ASSUME NEW w \in Workspace, Renew(w) PROVE RetainInv'
    <2>1. UNCHANGED <<sconn, smanaged, rec, conn>> /\ pc[w] = "renew" /\ ~retained[w]
      BY <1>1 DEF Renew, AddLease
    <2>2. \A x \in Workspace : x # w => retained'[x] = retained[x] /\ target'[x] = target[x]
      <3>1. /\ \/ retained' = retained
               \/ \E b \in BOOLEAN : retained' = [retained EXCEPT ![w] = b]
            /\ target' = target \/ target' = [target EXCEPT ![w] = NoTarget]
        BY <1>1 DEF Renew
      <3>2. QED
        BY <3>1
    <2>3. \/ Moves(w, {"idle", "stopOld"}) /\ ~retained'[w]
          \/ /\ Moves(w, {"stopOld"}) /\ sconn[w] # None /\ smanaged[w]
             /\ FingerprintOf[sconn[w]] = target[w] /\ target[w] \in Ktctl
             /\ rec[target[w]] = sconn[w] /\ target' = target
      <3>1. CASE ~Renewable(w) /\ Proceed(w, "stopOld")
        BY <2>1, <3>1
      <3>2. CASE Return(w)
        BY <3>2
      <3>3. CASE Renewable(w) /\ rec[target[w]] = sconn[w] /\ Goto(w, "stopOld")
                 /\ target' = target
        BY <3>3 DEF Renewable
      <3>4. QED
        BY <1>1, <3>1, <3>2, <3>3 DEF Renew
    <2>4. QED
      BY <2>1, <2>2, <2>3
  <1>2. ASSUME NEW w \in Workspace, Launch(w) PROVE RetainInv'
    <2>1. PICK p \in Proc : /\ conn[p] = "unused" /\ FingerprintOf[p] = target[w]
                             /\ conn' = [conn EXCEPT ![p] = "running"]
                             /\ result' = [result EXCEPT ![w] = p]
      BY <1>2 DEF Launch, Becomes
    <2>2. \A x \in Workspace : sconn[x] # p
      BY <2>1 DEF RegistryInv
    <2>3. QED
      BY <1>2, <2>1, <2>2 DEF Launch, Holds
  <1>3. ASSUME NEW w \in Workspace, AwaitReady(w) PROVE RetainInv'
    <2>1. rec[target[w]] = None
      BY <1>3 DEF AwaitReady, Holds, TargetInv
    <2>2. QED
      BY <1>3, <2>1 DEF AwaitReady, Holds
  <1>4. ASSUME NEW w \in Workspace, NEW f \in Fingerprint, Start(w, f) PROVE RetainInv'
    BY <1>4 DEF Start
  <1>5. ASSUME NEW w \in Workspace, ValidateReplacement(w) PROVE RetainInv'
    BY <1>5 DEF ValidateReplacement
  <1>6. ASSUME NEW w \in Workspace, StopOld(w) PROVE RetainInv'
    BY <1>6 DEF StopOld
  <1>7. ASSUME NEW w \in Workspace, EnsureAcquire(w) PROVE RetainInv'
    BY <1>7 DEF EnsureAcquire, Lock, Read
  <1>8. ASSUME NEW w \in Workspace, JudgeEnsure(w) PROVE RetainInv'
    BY <1>8
       DEF JudgeEnsure, Unwritten, Unremoved, Pruned, Holds, RemoveRecord, SaveLeases, Stopped,
           NotStopped,
           Becomes
  <1>9. ASSUME NEW w \in Workspace, Endpoints(w) PROVE RetainInv'
    BY <1>9 DEF Endpoints, Holds, Join, AddLease, Unlock, ClearScan
  <1>10. ASSUME NEW w \in Workspace, SweepNext(w) PROVE RetainInv'
    BY <1>10 DEF SweepNext, Holds, Read
  <1>11. ASSUME NEW w \in Workspace, JudgeSweep(w) PROVE RetainInv'
    BY <1>11
       DEF JudgeSweep, Unwritten, Unremoved, Pruned, Holds, RemoveRecord, SaveLeases, Stopped,
           NotStopped, Becomes
  <1>12. ASSUME NEW w \in Workspace, SweepDone(w) PROVE RetainInv'
    BY <1>12 DEF SweepDone, Holds, Join, AddLease, Unlock, ClearScan
  <1>13. ASSUME NEW w \in Workspace, LaunchFails(w) PROVE RetainInv'
    BY <1>13 DEF LaunchFails, Holds, Unlock, ClearScan
  <1>14. ASSUME NEW w \in Workspace, AwaitFails(w) PROVE RetainInv'
    BY <1>14 DEF AwaitFails, Holds, Unlock, ClearScan, Stopped, NotStopped, Becomes
  <1>15. ASSUME NEW w \in Workspace, SaveFailedSession(w) PROVE RetainInv'
    BY <1>15 DEF SaveFailedSession
  <1>16. ASSUME NEW w \in Workspace, SaveSession(w) PROVE RetainInv'
    BY <1>16 DEF SaveSession
  <1>17. ASSUME NEW w \in Workspace, StartServices(w) PROVE RetainInv'
    BY <1>17 DEF StartServices
  <1>18. ASSUME NEW w \in Workspace, Rollback(w) PROVE RetainInv'
    BY <1>18, SMTT(60) DEF Rollback
  <1>19. ASSUME NEW w \in Workspace, ReleaseUnmanaged(w) PROVE RetainInv'
    BY <1>19 DEF ReleaseUnmanaged, ReleaseFails, Stopped, NotStopped, Becomes
  <1>20. ASSUME NEW w \in Workspace, ReleaseUnrecorded(w) PROVE RetainInv'
    BY <1>20 DEF ReleaseUnrecorded, ReleaseFails, Stopped, NotStopped, Becomes
  <1>21. ASSUME NEW w \in Workspace, ReleaseAcquire(w) PROVE RetainInv'
    BY <1>21 DEF ReleaseAcquire, Lock, Read
  <1>22. ASSUME NEW w \in Workspace, JudgeRelease(w) PROVE RetainInv'
    BY <1>22
       DEF JudgeRelease, Unwritten, Unremoved, Pruned, Holds, RemoveRecord, SaveLeases,
           ReleaseFails, Stopped,
           NotStopped, Becomes
  <1>23. ASSUME NEW w \in Workspace, Clear(w) PROVE RetainInv'
    BY <1>23 DEF Clear, EndSession
  <1>24. ASSUME NEW w \in Workspace, PruneProbe(w) PROVE RetainInv'
    BY <1>24 DEF PruneProbe
  <1>25. ASSUME NEW w \in Workspace, PruneRead(w) PROVE RetainInv'
    BY <1>25 DEF PruneRead
  <1>26. ASSUME NEW w \in Workspace, Recover(w) PROVE RetainInv'
    BY <1>26 DEF Recover
  <1>27. ASSUME NEW w \in Workspace, RecoverAcquire(w) PROVE RetainInv'
    BY <1>27 DEF RecoverAcquire, Lock
  <1>28. ASSUME NEW w \in Workspace, RecoverNext(w) PROVE RetainInv'
    BY <1>28 DEF RecoverNext, Holds, Unlock, ClearScan, Read
  <1>29. ASSUME NEW w \in Workspace, JudgeRecover(w) PROVE RetainInv'
    BY <1>29
       DEF JudgeRecover, Unwritten, Unremoved, Pruned, Holds, RemoveRecord, SaveLeases,
           Stopped, NotStopped,
           Becomes
  <1>30. ASSUME NEW w \in Workspace, Restart(w) PROVE RetainInv'
    BY <1>30 DEF Restart
  <1>31. ASSUME NEW w \in Workspace, FinishRestart(w) PROVE RetainInv'
    BY <1>31 DEF FinishRestart
  <1>32. ASSUME NEW w \in Workspace, Cancel(w) PROVE RetainInv'
    BY <1>32 DEF Cancel
  <1>33. ASSUME NEW w \in Workspace, Crash(w) PROVE RetainInv'
    BY <1>33 DEF Crash, Unlock, ClearScan
  <1>34. ASSUME NEW w \in Workspace, ServicesDie(w) PROVE RetainInv'
    BY <1>34 DEF ServicesDie
  <1>35. ASSUME NEW w \in Workspace, NEW force \in BOOLEAN, Stop(w, force) PROVE RetainInv'
    BY <1>35 DEF Stop
  <1>36. ASSUME NEW p \in Proc, ConnectionDies(p) PROVE RetainInv'
    BY <1>36 DEF ConnectionDies, Becomes
  <1>37. ASSUME NEW p \in Proc, PidReused(p) PROVE RetainInv'
    BY <1>37 DEF PidReused, Becomes
  <1>38. ASSUME NEW f \in Fingerprint, NEW w \in Workspace, LeaseAges(f, w) PROVE RetainInv'
    BY <1>38 DEF LeaseAges
  <1>39. CASE UNCHANGED vars
    BY <1>39 DEF vars
  <1>40. ASSUME NEW w \in Workspace, Begin(w) PROVE RetainInv'
    BY <1>40, <1>4, <1>26, <1>30, <1>35 DEF Begin
  <1>41. ASSUME NEW w \in Workspace, StartStep(w) PROVE RetainInv'
    BY <1>41, <1>1, <1>2, <1>3, <1>5, <1>6, <1>7, <1>8, <1>9, <1>10, <1>11, <1>12, <1>13,
       <1>14, <1>15, <1>16, <1>17, <1>18 DEF StartStep
  <1>42. ASSUME NEW w \in Workspace, ReleaseStep(w) PROVE RetainInv'
    BY <1>42, <1>19, <1>20, <1>21, <1>22, <1>23 DEF ReleaseStep
  <1>43. ASSUME NEW w \in Workspace, PruneStep(w) \/ RecoverStep(w) \/ FinishRestart(w)
         PROVE RetainInv'
    BY <1>43, <1>24, <1>25, <1>27, <1>28, <1>29, <1>31 DEF PruneStep, RecoverStep
  <1>44. CASE Environment
    BY <1>44, <1>32, <1>33, <1>34, <1>36, <1>37, <1>38 DEF Environment
  <1>45. QED
    BY <1>39, <1>40, <1>41, <1>42, <1>43, <1>44 DEF Next, Step

(* A release prunes the record of the connection its session names, with its own
   lease already dropped from what it keeps (releaseConnection). *)
LEMMA ReleaseInvStep ==
  ASSUME TypeOK, LockInv, CommandInv, ReleaseInv, [Next]_vars
  PROVE  ReleaseInv'
  <1> USE ConstantsAssumption, NoTargetType
          DEF ReleaseInv, LockType, scan, Moves, TypeOK, ControlType, DiskType,
              RegistryType, ProcessType, ConnState, LockInv, CommandInv, Proceed, Return,
              Goto, args, disk, record, Current, Unverified, Control, Waiting, Holding,
              Pruning, Launched
  <1>1. ASSUME NEW w \in Workspace, NEW f \in Fingerprint, Start(w, f) PROVE ReleaseInv'
    BY <1>1 DEF Start
  <1>2. ASSUME NEW w \in Workspace, ValidateReplacement(w) PROVE ReleaseInv'
    BY <1>2 DEF ValidateReplacement
  <1>3. ASSUME NEW w \in Workspace, Renew(w) PROVE ReleaseInv'
    BY <1>3 DEF Renew, AddLease
  <1>4. ASSUME NEW w \in Workspace, StopOld(w) PROVE ReleaseInv'
    BY <1>4 DEF StopOld
  <1>5. ASSUME NEW w \in Workspace, EnsureAcquire(w) PROVE ReleaseInv'
    BY <1>5 DEF EnsureAcquire, Lock, Read
  <1>6. ASSUME NEW w \in Workspace, JudgeEnsure(w) PROVE ReleaseInv'
    BY <1>6
       DEF JudgeEnsure, Unwritten, Unremoved, Pruned, Holds, RemoveRecord, SaveLeases, Stopped,
           NotStopped,
           Becomes
  <1>7. ASSUME NEW w \in Workspace, Endpoints(w) PROVE ReleaseInv'
    BY <1>7 DEF Endpoints, Holds, Join, AddLease, Unlock, ClearScan
  <1>8. ASSUME NEW w \in Workspace, SweepNext(w) PROVE ReleaseInv'
    BY <1>8 DEF SweepNext, Holds, Read
  <1>9. ASSUME NEW w \in Workspace, JudgeSweep(w) PROVE ReleaseInv'
    BY <1>9
       DEF JudgeSweep, Unwritten, Unremoved, Pruned, Holds, RemoveRecord, SaveLeases, Stopped,
           NotStopped, Becomes
  <1>10. ASSUME NEW w \in Workspace, SweepDone(w) PROVE ReleaseInv'
    BY <1>10 DEF SweepDone, Holds, Join, AddLease, Unlock, ClearScan
  <1>11. ASSUME NEW w \in Workspace, Launch(w) PROVE ReleaseInv'
    BY <1>11 DEF Launch, Holds, Becomes
  <1>12. ASSUME NEW w \in Workspace, LaunchFails(w) PROVE ReleaseInv'
    BY <1>12 DEF LaunchFails, Holds, Unlock, ClearScan
  <1>13. ASSUME NEW w \in Workspace, AwaitReady(w) PROVE ReleaseInv'
    BY <1>13 DEF AwaitReady, Holds, Unlock, ClearScan
  <1>14. ASSUME NEW w \in Workspace, AwaitFails(w) PROVE ReleaseInv'
    BY <1>14 DEF AwaitFails, Holds, Unlock, ClearScan, Stopped, NotStopped, Becomes
  <1>15. ASSUME NEW w \in Workspace, SaveFailedSession(w) PROVE ReleaseInv'
    BY <1>15 DEF SaveFailedSession
  <1>16. ASSUME NEW w \in Workspace, SaveSession(w) PROVE ReleaseInv'
    BY <1>16 DEF SaveSession
  <1>17. ASSUME NEW w \in Workspace, StartServices(w) PROVE ReleaseInv'
    BY <1>17 DEF StartServices
  <1>18. ASSUME NEW w \in Workspace, Rollback(w) PROVE ReleaseInv'
    BY <1>18 DEF Rollback
  <1>19. ASSUME NEW w \in Workspace, ReleaseUnmanaged(w) PROVE ReleaseInv'
    BY <1>19 DEF ReleaseUnmanaged, ReleaseFails, Stopped, NotStopped, Becomes
  <1>20. ASSUME NEW w \in Workspace, ReleaseUnrecorded(w) PROVE ReleaseInv'
    BY <1>20 DEF ReleaseUnrecorded, ReleaseFails, Stopped, NotStopped, Becomes
  <1>21. ASSUME NEW w \in Workspace, ReleaseAcquire(w) PROVE ReleaseInv'
    BY <1>21 DEF ReleaseAcquire, Lock, Read
  <1>22. ASSUME NEW w \in Workspace, JudgeRelease(w) PROVE ReleaseInv'
    BY <1>22
       DEF JudgeRelease, Unwritten, Unremoved, Pruned, Holds, RemoveRecord, SaveLeases,
           ReleaseFails, Stopped,
           NotStopped, Becomes
  <1>23. ASSUME NEW w \in Workspace, Clear(w) PROVE ReleaseInv'
    BY <1>23 DEF Clear, EndSession
  <1>24. ASSUME NEW w \in Workspace, PruneProbe(w) PROVE ReleaseInv'
    BY <1>24 DEF PruneProbe
  <1>25. ASSUME NEW w \in Workspace, PruneRead(w) PROVE ReleaseInv'
    BY <1>25 DEF PruneRead
  <1>26. ASSUME NEW w \in Workspace, Recover(w) PROVE ReleaseInv'
    BY <1>26 DEF Recover
  <1>27. ASSUME NEW w \in Workspace, RecoverAcquire(w) PROVE ReleaseInv'
    BY <1>27 DEF RecoverAcquire, Lock
  <1>28. ASSUME NEW w \in Workspace, RecoverNext(w) PROVE ReleaseInv'
    BY <1>28 DEF RecoverNext, Holds, Unlock, ClearScan, Read
  <1>29. ASSUME NEW w \in Workspace, JudgeRecover(w) PROVE ReleaseInv'
    BY <1>29
       DEF JudgeRecover, Unwritten, Unremoved, Pruned, Holds, RemoveRecord, SaveLeases,
           Stopped, NotStopped,
           Becomes
  <1>30. ASSUME NEW w \in Workspace, Restart(w) PROVE ReleaseInv'
    BY <1>30 DEF Restart
  <1>31. ASSUME NEW w \in Workspace, FinishRestart(w) PROVE ReleaseInv'
    BY <1>31 DEF FinishRestart
  <1>32. ASSUME NEW w \in Workspace, Cancel(w) PROVE ReleaseInv'
    BY <1>32 DEF Cancel
  <1>33. ASSUME NEW w \in Workspace, Crash(w) PROVE ReleaseInv'
    BY <1>33 DEF Crash, Unlock, ClearScan
  <1>34. ASSUME NEW w \in Workspace, ServicesDie(w) PROVE ReleaseInv'
    BY <1>34 DEF ServicesDie
  <1>35. ASSUME NEW w \in Workspace, NEW force \in BOOLEAN, Stop(w, force) PROVE ReleaseInv'
    BY <1>35 DEF Stop
  <1>36. ASSUME NEW p \in Proc, ConnectionDies(p) PROVE ReleaseInv'
    BY <1>36 DEF ConnectionDies, Becomes
  <1>37. ASSUME NEW p \in Proc, PidReused(p) PROVE ReleaseInv'
    BY <1>37 DEF PidReused, Becomes
  <1>38. ASSUME NEW f \in Fingerprint, NEW w \in Workspace, LeaseAges(f, w)
         PROVE  ReleaseInv'
    BY <1>38 DEF LeaseAges
  <1>39. CASE UNCHANGED vars
    BY <1>39 DEF vars
  <1>40. ASSUME NEW w \in Workspace, Begin(w) PROVE ReleaseInv'
    BY <1>40, <1>1, <1>26, <1>30, <1>35 DEF Begin
  <1>41. ASSUME NEW w \in Workspace, StartStep(w) PROVE ReleaseInv'
    BY <1>41, <1>2, <1>3, <1>4, <1>5, <1>6, <1>7, <1>8, <1>9, <1>10, <1>11, <1>12, <1>13,
       <1>14, <1>15, <1>16, <1>17, <1>18 DEF StartStep
  <1>42. ASSUME NEW w \in Workspace, ReleaseStep(w) PROVE ReleaseInv'
    BY <1>42, <1>19, <1>20, <1>21, <1>22, <1>23 DEF ReleaseStep
  <1>43. ASSUME NEW w \in Workspace, PruneStep(w) \/ RecoverStep(w) \/ FinishRestart(w)
         PROVE ReleaseInv'
    BY <1>43, <1>24, <1>25, <1>27, <1>28, <1>29, <1>31 DEF PruneStep, RecoverStep
  <1>44. CASE Environment
    BY <1>44, <1>32, <1>33, <1>34, <1>36, <1>37, <1>38 DEF Environment
  <1>45. QED
    BY <1>39, <1>40, <1>41, <1>42, <1>43, <1>44 DEF Next, Step

(* A workspace that asks for a connection has a lease on no other: it gave its
   old connection up before, or retained one of the configuration it asks for. *)
LEMMA AskingLease ==
  ASSUME RetainInv, OwnLeaseInv,
         NEW w \in Workspace, pc[w] \in Asking \ {"save"}, ~crashed[w],
         NEW f \in Fingerprint, w \in leases[f]
  PROVE  f = target[w]
  <1>1. Leased(w) # None /\ FingerprintOf[Leased(w)] = f
    BY DEF OwnLeaseInv
  <1>2. Leased(w) = sconn[w]
    BY <1>1 DEF Leased
  <1>3. retained[w]
    BY <1>1, <1>2 DEF RetainInv
  <1>4. FingerprintOf[sconn[w]] = target[w]
    BY <1>3 DEF RetainInv
  <1>5. QED
    BY <1>1, <1>2, <1>4

(* A workspace leases what its session names, or is about to name, and nothing
   else: it gives the lease up before it clears or replaces its session. *)
LEMMA OwnLeaseStep ==
  ASSUME TypeOK, LockInv, CommandInv, RegistryInv, TargetInv, ScanInv, JoinInv, BookInv,
         RetainInv, ReleaseInv, OwnLeaseInv, [Next]_vars
  PROVE  OwnLeaseInv'
  <1> USE ConstantsAssumption, NoTargetType
          DEF OwnLeaseInv, Leased, history, Moves, TypeOK, ControlType, DiskType,
              RegistryType, ProcessType, ConnState, LockInv, CommandInv, Proceed, Return,
              Goto, args, disk, record, Current, Unverified, Control, Waiting, Holding,
              Pruning, Launched
  <1>1. ASSUME NEW w \in Workspace, JudgeEnsure(w) PROVE OwnLeaseInv'
    <2>1. Judgement(w) /\ Settled(w)
      BY <1>1, JudgementStep, JudgementLedger
    <2>2. pc'[w] # "clear" /\ UNCHANGED crashed
      BY <1>1
         DEF JudgeEnsure, Unwritten, Unremoved, Pruned, Holds, RemoveRecord, SaveLeases,
             Stopped, NotStopped,
             Becomes
    <2>3. QED
      BY <2>1, <2>2 DEF Judgement, Settled
  <1>2. ASSUME NEW w \in Workspace, Endpoints(w) PROVE OwnLeaseInv'
    <2>1. ~crashed[w] => \A f \in Fingerprint : w \in leases[f] => f = target[w]
      BY <1>2, AskingLease DEF Endpoints, Holds, Asking
    <2>2. CASE rec[target[w]] # None /\ Join(w, target[w])
      <3>1. rec[target[w]] # None /\ FingerprintOf[rec[target[w]]] = target[w]
        BY <2>2 DEF RegistryInv
      <3>2. QED
        BY <1>2, <2>1, <2>2, <3>1 DEF Endpoints, Join, AddLease
    <2>3. CASE UNCHANGED record /\ Proceed(w, "save") /\ rec[target[w]] = None
      <3>1. ~crashed[w] => \A f \in Fingerprint : w \notin leases[f]
        BY <2>1, <2>3 DEF BookInv
      <3>2. QED
        BY <1>2, <2>3, <3>1 DEF Endpoints
    <2>4. UNCHANGED <<sconn, smanaged, crashed>> /\ pc[w] = "endpoints"
      BY <1>2 DEF Endpoints, Holds
    <2>5. CASE /\ UNCHANGED leases /\ Moves(w, {"idle", "launch", "sweep"})
               /\ \A x \in Workspace : x # w => result'[x] = result[x]
      BY <2>4, <2>5
    <2>6. QED
      BY <1>2, <2>2, <2>3, <2>5 DEF Endpoints
  <1>3. ASSUME NEW w \in Workspace, JudgeSweep(w) PROVE OwnLeaseInv'
    <2>1. Judgement(w) /\ Settled(w)
      BY <1>3, JudgementStep, JudgementLedger
    <2>2. pc'[w] # "clear" /\ UNCHANGED crashed
      BY <1>3
         DEF JudgeSweep, Unwritten, Unremoved, Pruned, Holds, RemoveRecord, SaveLeases,
             Stopped, NotStopped,
             Becomes
    <2>3. QED
      BY <2>1, <2>2 DEF Judgement, Settled
  <1>4. ASSUME NEW w \in Workspace, SweepDone(w) PROVE OwnLeaseInv'
    <2>1. ~crashed[w] => \A f \in Fingerprint : w \notin leases[f]
      BY <1>4, AskingLease, SMTT(60) DEF SweepDone, Holds, Asking, TargetInv, BookInv
    <2>2. CASE \E f \in active : Join(w, f)
      <3>1. PICK f \in Fingerprint : f \in active /\ Join(w, f)
        BY <2>2 DEF LockType
      <3>2. rec[f] # None /\ FingerprintOf[rec[f]] = f
        BY <3>1 DEF JoinInv, RegistryInv
      <3>3. QED
        BY <1>4, <2>1, <3>1, <3>2 DEF SweepDone, Join, AddLease
    <2>3. UNCHANGED <<sconn, smanaged, crashed>> /\ pc[w] = "sweep"
      BY <1>4 DEF SweepDone, Holds
    <2>4. CASE /\ UNCHANGED leases /\ Moves(w, {"idle", "launch"})
               /\ \A x \in Workspace : x # w => result'[x] = result[x]
      BY <2>3, <2>4
    <2>5. QED
      BY <1>4, <2>2, <2>4 DEF SweepDone
  <1>5. ASSUME NEW w \in Workspace, AwaitReady(w) PROVE OwnLeaseInv'
    <2>1. ~crashed[w] => \A f \in Fingerprint : w \notin leases[f]
      BY <1>5, AskingLease DEF AwaitReady, Holds, Asking, TargetInv, BookInv
    <2>2. result[w] # None /\ FingerprintOf[result[w]] = target[w]
      BY <1>5 DEF AwaitReady, Holds, RegistryInv
    <2>3. QED
      BY <1>5, <2>1, <2>2 DEF AwaitReady, Holds
  <1>6. ASSUME NEW w \in Workspace, AwaitFails(w) PROVE OwnLeaseInv'
    <2>1. ~crashed[w] => \A f \in Fingerprint : w \notin leases[f]
      BY <1>6, AskingLease DEF AwaitFails, Holds, Asking, TargetInv, BookInv
    <2>2. Moves(w, {"idle", "failed", "failedManaged"})
      BY <1>6 DEF AwaitFails, Stopped, NotStopped, Becomes
    <2>3. UNCHANGED <<sconn, smanaged, leases, crashed>> /\ pc[w] = "await"
      BY <1>6 DEF AwaitFails, Holds
    <2>4. \A x \in Workspace : x # w => result'[x] = result[x]
      BY <1>6 DEF AwaitFails, Stopped, NotStopped, Becomes
    <2>5. QED
      BY <2>1, <2>2, <2>3, <2>4
  <1>7. ASSUME NEW w \in Workspace, SaveSession(w) PROVE OwnLeaseInv'
    <2>1. ASSUME NEW x \in Workspace, x # w PROVE Leased(x)' = Leased(x) /\ pc'[x] = pc[x]
      BY <1>7, <2>1 DEF SaveSession
    <2>2. Leased(w)' = result[w] /\ Leased(w) = result[w] /\ pc'[w] = "services"
      <3>1. /\ pc[w] = "save" /\ pc'[w] = "services" /\ sconn'[w] = result[w]
            /\ smanaged'[w] = (result[w] # None)
        BY <1>7 DEF SaveSession
      <3>2. QED
        BY <3>1
    <2>3. UNCHANGED <<leases, crashed>>
      BY <1>7 DEF SaveSession
    <2>4. QED
      BY <2>1, <2>2, <2>3
  <1>8. ASSUME NEW w \in Workspace, ReleaseUnrecorded(w) PROVE OwnLeaseInv'
    <2>1. ~crashed[w] => \A f \in Fingerprint : w \notin leases[f]
      BY <1>8 DEF ReleaseUnrecorded, BookInv
    <2>2. Moves(w, {"clear", "idle"})
      BY <1>8 DEF ReleaseUnrecorded, ReleaseFails, Stopped, NotStopped, Becomes
    <2>3. UNCHANGED <<leases, crashed, sconn, smanaged>>
      BY <1>8 DEF ReleaseUnrecorded, ReleaseFails, Stopped, NotStopped, Becomes
    <2>4. pc[w] = "release" /\ \A x \in Workspace : x # w => result'[x] = result[x]
      BY <1>8 DEF ReleaseUnrecorded, ReleaseFails, Stopped, NotStopped, Becomes
    <2>5. QED
      BY <2>1, <2>2, <2>3, <2>4
  <1>9. ASSUME NEW w \in Workspace, JudgeRelease(w) PROVE OwnLeaseInv'
    <2>1. Judgement(w) /\ Settled(w)
      BY <1>9, JudgementStep, JudgementLedger
    <2>2. /\ cur = FingerprintOf[sconn[w]] /\ w \notin mem
          /\ smanaged[w] /\ pc[w] = "pruneRelease"
      BY <1>9 DEF JudgeRelease, Unwritten, Unremoved, Pruned, Holds, ReleaseInv
    <2>3. pc'[w] = "clear" => w \notin leases'[cur]
      BY <1>9, <2>1, <2>2
         DEF JudgeRelease, Unwritten, Unremoved, RemoveRecord, SaveLeases, ReleaseFails, Settled
    <2>4. pc'[w] = "clear" /\ ~crashed[w] => \A f \in Fingerprint : w \notin leases'[f]
      BY <2>1, <2>2, <2>3 DEF Settled
    <2>5. UNCHANGED crashed
      BY <1>9 DEF JudgeRelease, Unwritten, Unremoved
    <2>6. QED
      BY <2>1, <2>4, <2>5 DEF Judgement, Settled
  <1>10. ASSUME NEW w \in Workspace, JudgeRecover(w) PROVE OwnLeaseInv'
    <2>1. Judgement(w) /\ Settled(w)
      BY <1>10, JudgementStep, JudgementLedger
    <2>2. pc'[w] # "clear" /\ UNCHANGED crashed
      BY <1>10
         DEF JudgeRecover, Unwritten, Unremoved, Pruned, Holds, RemoveRecord, SaveLeases,
             Stopped, NotStopped,
             Becomes
    <2>3. QED
      BY <2>1, <2>2 DEF Judgement, Settled
  <1>11. ASSUME NEW w \in Workspace, Crash(w) PROVE OwnLeaseInv'
    <2>1. /\ crashed'[w]
          /\ \A x \in Workspace : x # w => crashed'[x] = crashed[x] /\ pc'[x] = pc[x]
      BY <1>11 DEF Crash, TypeOK, HistoryType
    <2>2. QED
      BY <1>11, <2>1 DEF Crash
  <1>12. ASSUME NEW w \in Workspace, NEW f \in Fingerprint, Start(w, f) PROVE OwnLeaseInv'
    BY <1>12 DEF Start
  <1>13. ASSUME NEW w \in Workspace, ValidateReplacement(w) PROVE OwnLeaseInv'
    BY <1>13 DEF ValidateReplacement
  <1>14. ASSUME NEW w \in Workspace, Renew(w) PROVE OwnLeaseInv'
    BY <1>14, SMTT(60) DEF Renew, AddLease
  <1>15. ASSUME NEW w \in Workspace, StopOld(w) PROVE OwnLeaseInv'
    BY <1>15 DEF StopOld
  <1>16. ASSUME NEW w \in Workspace, EnsureAcquire(w) PROVE OwnLeaseInv'
    BY <1>16 DEF EnsureAcquire, Lock, Read
  <1>17. ASSUME NEW w \in Workspace, SweepNext(w) PROVE OwnLeaseInv'
    BY <1>17 DEF SweepNext, Holds, Read
  <1>18. ASSUME NEW w \in Workspace, Launch(w) PROVE OwnLeaseInv'
    BY <1>18 DEF Launch, Holds, Becomes
  <1>19. ASSUME NEW w \in Workspace, LaunchFails(w) PROVE OwnLeaseInv'
    BY <1>19 DEF LaunchFails, Holds, Unlock, ClearScan
  <1>20. ASSUME NEW w \in Workspace, SaveFailedSession(w) PROVE OwnLeaseInv'
    BY <1>20 DEF SaveFailedSession
  <1>21. ASSUME NEW w \in Workspace, StartServices(w) PROVE OwnLeaseInv'
    BY <1>21 DEF StartServices
  <1>22. ASSUME NEW w \in Workspace, Rollback(w) PROVE OwnLeaseInv'
    BY <1>22 DEF Rollback
  <1>23. ASSUME NEW w \in Workspace, ReleaseUnmanaged(w) PROVE OwnLeaseInv'
    BY <1>23 DEF ReleaseUnmanaged, ReleaseFails, Stopped, NotStopped, Becomes
  <1>24. ASSUME NEW w \in Workspace, ReleaseAcquire(w) PROVE OwnLeaseInv'
    BY <1>24 DEF ReleaseAcquire, Lock, Read
  <1>25. ASSUME NEW w \in Workspace, Clear(w) PROVE OwnLeaseInv'
    BY <1>25 DEF Clear, EndSession
  <1>26. ASSUME NEW w \in Workspace, PruneProbe(w) PROVE OwnLeaseInv'
    BY <1>26 DEF PruneProbe
  <1>27. ASSUME NEW w \in Workspace, PruneRead(w) PROVE OwnLeaseInv'
    BY <1>27 DEF PruneRead
  <1>28. ASSUME NEW w \in Workspace, Recover(w) PROVE OwnLeaseInv'
    BY <1>28 DEF Recover
  <1>29. ASSUME NEW w \in Workspace, RecoverAcquire(w) PROVE OwnLeaseInv'
    BY <1>29 DEF RecoverAcquire, Lock
  <1>30. ASSUME NEW w \in Workspace, RecoverNext(w) PROVE OwnLeaseInv'
    BY <1>30 DEF RecoverNext, Holds, Unlock, ClearScan, Read
  <1>31. ASSUME NEW w \in Workspace, Restart(w) PROVE OwnLeaseInv'
    BY <1>31 DEF Restart
  <1>32. ASSUME NEW w \in Workspace, FinishRestart(w) PROVE OwnLeaseInv'
    BY <1>32 DEF FinishRestart
  <1>33. ASSUME NEW w \in Workspace, Cancel(w) PROVE OwnLeaseInv'
    BY <1>33 DEF Cancel
  <1>34. ASSUME NEW w \in Workspace, ServicesDie(w) PROVE OwnLeaseInv'
    BY <1>34 DEF ServicesDie
  <1>35. ASSUME NEW w \in Workspace, NEW force \in BOOLEAN, Stop(w, force)
         PROVE  OwnLeaseInv'
    BY <1>35 DEF Stop
  <1>36. ASSUME NEW p \in Proc, ConnectionDies(p) PROVE OwnLeaseInv'
    BY <1>36 DEF ConnectionDies, Becomes
  <1>37. ASSUME NEW p \in Proc, PidReused(p) PROVE OwnLeaseInv'
    BY <1>37 DEF PidReused, Becomes
  <1>38. ASSUME NEW f \in Fingerprint, NEW w \in Workspace, LeaseAges(f, w)
         PROVE  OwnLeaseInv'
    BY <1>38 DEF LeaseAges
  <1>39. CASE UNCHANGED vars
    BY <1>39 DEF vars
  <1>40. ASSUME NEW w \in Workspace, Begin(w) PROVE OwnLeaseInv'
    BY <1>40, <1>12, <1>28, <1>31, <1>35 DEF Begin
  <1>41. ASSUME NEW w \in Workspace, StartStep(w) PROVE OwnLeaseInv'
    BY <1>41, <1>1, <1>2, <1>3, <1>4, <1>5, <1>6, <1>7, <1>13, <1>14, <1>15, <1>16, <1>17,
       <1>18, <1>19, <1>20, <1>21, <1>22 DEF StartStep
  <1>42. ASSUME NEW w \in Workspace, ReleaseStep(w) PROVE OwnLeaseInv'
    BY <1>42, <1>8, <1>9, <1>23, <1>24, <1>25 DEF ReleaseStep
  <1>43. ASSUME NEW w \in Workspace, PruneStep(w) \/ RecoverStep(w) \/ FinishRestart(w)
         PROVE OwnLeaseInv'
    BY <1>43, <1>10, <1>26, <1>27, <1>29, <1>30, <1>32 DEF PruneStep, RecoverStep
  <1>44. CASE Environment
    BY <1>44, <1>11, <1>33, <1>34, <1>36, <1>37, <1>38 DEF Environment
  <1>45. QED
    BY <1>39, <1>40, <1>41, <1>42, <1>43, <1>44 DEF Next, Step

(* The record of a ktctl configuration names the tunnel that runs, because only
   one runs when a record is written. *)
LEMMA AloneStep ==
  ASSUME TypeOK, LockInv, CommandInv, RegistryInv, TargetInv, ApartInv,
         AloneInv, [Next]_vars
  PROVE  AloneInv'
  <1> USE ConstantsAssumption, NoTargetType
          DEF AloneInv, Moves, TypeOK, ControlType, DiskType, RegistryType, ProcessType,
              ConnState, LockInv, CommandInv, Proceed, Return, Goto, args, disk, record,
              Current, Unverified, Control, Waiting, Holding, Pruning, Launched
  <1>1. ASSUME NEW w \in Workspace, Launch(w) PROVE AloneInv'
    <2>1. PICK p \in Proc : /\ conn[p] = "unused" /\ FingerprintOf[p] = target[w]
                             /\ conn' = [conn EXCEPT ![p] = "running"]
                             /\ result' = [result EXCEPT ![w] = p]
      BY <1>1 DEF Launch, Becomes
    <2>2. rec[target[w]] = None /\ rec' = rec
      BY <1>1 DEF Launch, Holds, TargetInv
    <2>3. QED
      BY <2>1, <2>2
  <1>2. ASSUME NEW w \in Workspace, AwaitReady(w) PROVE AloneInv'
    <2>1. /\ result[w] \in Proc /\ conn[result[w]] = "running"
          /\ FingerprintOf[result[w]] = target[w]
      BY <1>2 DEF AwaitReady, Holds, RegistryInv
    <2>2. rec' = [rec EXCEPT ![target[w]] = result[w]] /\ conn' = conn
      BY <1>2 DEF AwaitReady
    <2>3. ASSUME SameExecutable, NEW q \in Proc, conn[q] = "running", FingerprintOf[q] \in Ktctl
          PROVE  rec'[FingerprintOf[q]] \in {q, None}
      <3>1. CASE FingerprintOf[q] # target[w]
        BY <2>2, <2>3, <3>1
      <3>2. CASE FingerprintOf[q] = target[w]
        <4>1. ExecutableOf[q] = ExecutableOf[result[w]]
          BY <2>1, <2>3, <3>2 DEF SameExecutable
        <4>2. q = result[w]
          BY <2>1, <2>3, <3>2, <4>1 DEF ApartInv
        <4>. QED
          BY <2>2, <3>2, <4>2
      <3>. QED
        BY <3>1, <3>2
    <2>4. QED
      BY <2>2, <2>3
  <1>3. ASSUME NEW w \in Workspace, NEW f \in Fingerprint, Start(w, f) PROVE AloneInv'
    BY <1>3 DEF Start
  <1>4. ASSUME NEW w \in Workspace, ValidateReplacement(w) PROVE AloneInv'
    BY <1>4 DEF ValidateReplacement
  <1>5. ASSUME NEW w \in Workspace, Renew(w) PROVE AloneInv'
    BY <1>5 DEF Renew, AddLease
  <1>6. ASSUME NEW w \in Workspace, StopOld(w) PROVE AloneInv'
    BY <1>6 DEF StopOld
  <1>7. ASSUME NEW w \in Workspace, EnsureAcquire(w) PROVE AloneInv'
    BY <1>7 DEF EnsureAcquire, Lock, Read
  <1>8. ASSUME NEW w \in Workspace, JudgeEnsure(w) PROVE AloneInv'
    BY <1>8
       DEF JudgeEnsure, Unwritten, Unremoved, Pruned, Holds, RemoveRecord, SaveLeases, Stopped,
           NotStopped,
           Becomes
  <1>9. ASSUME NEW w \in Workspace, Endpoints(w) PROVE AloneInv'
    BY <1>9 DEF Endpoints, Holds, Join, AddLease, Unlock, ClearScan
  <1>10. ASSUME NEW w \in Workspace, SweepNext(w) PROVE AloneInv'
    BY <1>10 DEF SweepNext, Holds, Read
  <1>11. ASSUME NEW w \in Workspace, JudgeSweep(w) PROVE AloneInv'
    BY <1>11
       DEF JudgeSweep, Unwritten, Unremoved, Pruned, Holds, RemoveRecord, SaveLeases, Stopped,
           NotStopped, Becomes
  <1>12. ASSUME NEW w \in Workspace, SweepDone(w) PROVE AloneInv'
    BY <1>12 DEF SweepDone, Holds, Join, AddLease, Unlock, ClearScan
  <1>13. ASSUME NEW w \in Workspace, LaunchFails(w) PROVE AloneInv'
    BY <1>13 DEF LaunchFails, Holds, Unlock, ClearScan
  <1>14. ASSUME NEW w \in Workspace, AwaitFails(w) PROVE AloneInv'
    BY <1>14 DEF AwaitFails, Holds, Unlock, ClearScan, Stopped, NotStopped, Becomes
  <1>15. ASSUME NEW w \in Workspace, SaveFailedSession(w) PROVE AloneInv'
    BY <1>15 DEF SaveFailedSession
  <1>16. ASSUME NEW w \in Workspace, SaveSession(w) PROVE AloneInv'
    BY <1>16 DEF SaveSession
  <1>17. ASSUME NEW w \in Workspace, StartServices(w) PROVE AloneInv'
    BY <1>17 DEF StartServices
  <1>18. ASSUME NEW w \in Workspace, Rollback(w) PROVE AloneInv'
    BY <1>18 DEF Rollback
  <1>19. ASSUME NEW w \in Workspace, ReleaseUnmanaged(w) PROVE AloneInv'
    BY <1>19 DEF ReleaseUnmanaged, ReleaseFails, Stopped, NotStopped, Becomes
  <1>20. ASSUME NEW w \in Workspace, ReleaseUnrecorded(w) PROVE AloneInv'
    BY <1>20 DEF ReleaseUnrecorded, ReleaseFails, Stopped, NotStopped, Becomes
  <1>21. ASSUME NEW w \in Workspace, ReleaseAcquire(w) PROVE AloneInv'
    BY <1>21 DEF ReleaseAcquire, Lock, Read
  <1>22. ASSUME NEW w \in Workspace, JudgeRelease(w) PROVE AloneInv'
    BY <1>22
       DEF JudgeRelease, Unwritten, Unremoved, Pruned, Holds, RemoveRecord, SaveLeases,
           ReleaseFails, Stopped,
           NotStopped, Becomes
  <1>23. ASSUME NEW w \in Workspace, Clear(w) PROVE AloneInv'
    BY <1>23 DEF Clear, EndSession
  <1>24. ASSUME NEW w \in Workspace, PruneProbe(w) PROVE AloneInv'
    BY <1>24 DEF PruneProbe
  <1>25. ASSUME NEW w \in Workspace, PruneRead(w) PROVE AloneInv'
    BY <1>25 DEF PruneRead
  <1>26. ASSUME NEW w \in Workspace, Recover(w) PROVE AloneInv'
    BY <1>26 DEF Recover
  <1>27. ASSUME NEW w \in Workspace, RecoverAcquire(w) PROVE AloneInv'
    BY <1>27 DEF RecoverAcquire, Lock
  <1>28. ASSUME NEW w \in Workspace, RecoverNext(w) PROVE AloneInv'
    BY <1>28 DEF RecoverNext, Holds, Unlock, ClearScan, Read
  <1>29. ASSUME NEW w \in Workspace, JudgeRecover(w) PROVE AloneInv'
    BY <1>29
       DEF JudgeRecover, Unwritten, Unremoved, Pruned, Holds, RemoveRecord, SaveLeases,
           Stopped, NotStopped,
           Becomes
  <1>30. ASSUME NEW w \in Workspace, Restart(w) PROVE AloneInv'
    BY <1>30 DEF Restart
  <1>31. ASSUME NEW w \in Workspace, FinishRestart(w) PROVE AloneInv'
    BY <1>31 DEF FinishRestart
  <1>32. ASSUME NEW w \in Workspace, Cancel(w) PROVE AloneInv'
    BY <1>32 DEF Cancel
  <1>33. ASSUME NEW w \in Workspace, Crash(w) PROVE AloneInv'
    BY <1>33 DEF Crash, Unlock, ClearScan
  <1>34. ASSUME NEW w \in Workspace, ServicesDie(w) PROVE AloneInv'
    BY <1>34 DEF ServicesDie
  <1>35. ASSUME NEW w \in Workspace, NEW force \in BOOLEAN, Stop(w, force) PROVE AloneInv'
    BY <1>35 DEF Stop
  <1>36. ASSUME NEW p \in Proc, ConnectionDies(p) PROVE AloneInv'
    BY <1>36 DEF ConnectionDies, Becomes
  <1>37. ASSUME NEW p \in Proc, PidReused(p) PROVE AloneInv'
    BY <1>37 DEF PidReused, Becomes
  <1>38. ASSUME NEW f \in Fingerprint, NEW w \in Workspace, LeaseAges(f, w) PROVE AloneInv'
    BY <1>38 DEF LeaseAges
  <1>39. CASE UNCHANGED vars
    BY <1>39 DEF vars
  <1>40. ASSUME NEW w \in Workspace, Begin(w) PROVE AloneInv'
    BY <1>40, <1>3, <1>26, <1>30, <1>35 DEF Begin
  <1>41. ASSUME NEW w \in Workspace, StartStep(w) PROVE AloneInv'
    BY <1>41, <1>1, <1>2, <1>4, <1>5, <1>6, <1>7, <1>8, <1>9, <1>10, <1>11, <1>12, <1>13,
       <1>14, <1>15, <1>16, <1>17, <1>18 DEF StartStep
  <1>42. ASSUME NEW w \in Workspace, ReleaseStep(w) PROVE AloneInv'
    BY <1>42, <1>19, <1>20, <1>21, <1>22, <1>23 DEF ReleaseStep
  <1>43. ASSUME NEW w \in Workspace, PruneStep(w) \/ RecoverStep(w) \/ FinishRestart(w)
         PROVE AloneInv'
    BY <1>43, <1>24, <1>25, <1>27, <1>28, <1>29, <1>31 DEF PruneStep, RecoverStep
  <1>44. CASE Environment
    BY <1>44, <1>32, <1>33, <1>34, <1>36, <1>37, <1>38 DEF Environment
  <1>45. QED
    BY <1>39, <1>40, <1>41, <1>42, <1>43, <1>44 DEF Next, Step

(* A connection that start was handed by EnsureConnection is recorded while it
   runs, and so is the one its session names from then on. *)
LEMMA RecordedStep ==
  ASSUME TypeOK, LockInv, CommandInv, RegistryInv, TargetInv, JoinInv,
         RecordedInv, [Next]_vars
  PROVE  RecordedInv'
  <1> USE ConstantsAssumption, NoTargetType
          DEF RecordedInv, Moves, TypeOK, ControlType, DiskType, RegistryType,
              ProcessType, ConnState, LockInv, CommandInv, Proceed, Return, Goto, args,
              disk, record, Current, Unverified, Control, Waiting, Holding, Pruning,
              Launched
  <1>1. ASSUME NEW w \in Workspace, Endpoints(w) PROVE RecordedInv'
    <2>1. CASE rec[target[w]] # None /\ Join(w, target[w])
      <3>1. rec[target[w]] # None /\ FingerprintOf[rec[target[w]]] = target[w]
        BY <2>1 DEF RegistryInv
      <3>2. UNCHANGED <<rec, conn, sconn, smanaged>>
        BY <1>1, <2>1 DEF Endpoints, Join, AddLease
      <3>3. QED
        BY <1>1, <2>1, <3>1, <3>2 DEF Join
    <2>2. UNCHANGED <<sconn, smanaged, conn>> /\ result[w] = None
      BY <1>1 DEF Endpoints, Holds
    <2>3. CASE /\ UNCHANGED rec /\ Moves(w, {"idle", "launch", "sweep", "save"})
               /\ \A x \in Workspace : result'[x] = result[x]
      BY <2>2, <2>3
    <2>4. QED
      BY <1>1, <2>1, <2>2, <2>3 DEF Endpoints
  <1>2. ASSUME NEW w \in Workspace, SweepDone(w) PROVE RecordedInv'
    <2>1. CASE \E f \in active : Join(w, f)
      <3>1. PICK f \in Fingerprint : f \in active /\ Join(w, f)
        BY <2>1 DEF LockType
      <3>2. rec[f] # None /\ FingerprintOf[rec[f]] = f
        BY <3>1 DEF JoinInv, RegistryInv
      <3>3. UNCHANGED <<rec, conn, sconn, smanaged>>
        BY <1>2, <3>1 DEF SweepDone, Join, AddLease
      <3>4. QED
        BY <1>2, <3>1, <3>2, <3>3 DEF Join
    <2>2. UNCHANGED <<sconn, smanaged, conn>> /\ result[w] = None
      BY <1>2 DEF SweepDone, Holds
    <2>3. CASE /\ UNCHANGED rec /\ Moves(w, {"idle", "launch"})
               /\ \A x \in Workspace : result'[x] = result[x]
      BY <2>2, <2>3
    <2>4. QED
      BY <1>2, <2>1, <2>2, <2>3 DEF SweepDone
  <1>3. ASSUME NEW w \in Workspace, Launch(w) PROVE RecordedInv'
    <2>1. PICK p \in Proc : /\ conn[p] = "unused" /\ FingerprintOf[p] = target[w]
                             /\ conn' = [conn EXCEPT ![p] = "running"]
                             /\ result' = [result EXCEPT ![w] = p]
      BY <1>3 DEF Launch, Becomes
    <2>2. \A x \in Workspace : sconn[x] # p /\ result[x] # p
      BY <2>1 DEF RegistryInv
    <2>3. QED
      BY <1>3, <2>1, <2>2 DEF Launch, Holds
  <1>4. ASSUME NEW w \in Workspace, AwaitReady(w) PROVE RecordedInv'
    <2>1. /\ rec[target[w]] = None /\ FingerprintOf[result[w]] = target[w]
          /\ result[w] \in Proc
      BY <1>4 DEF AwaitReady, Holds, TargetInv, RegistryInv
    <2>2. /\ rec' = [rec EXCEPT ![target[w]] = result[w]]
          /\ Moves(w, {"save"})
          /\ UNCHANGED <<conn, sconn, smanaged, result>>
      BY <1>4 DEF AwaitReady
    <2>3. \A f \in Fingerprint : rec[f] # None => rec'[f] = rec[f]
      BY <2>1, <2>2
    <2>4. QED
      BY <2>1, <2>2, <2>3
  <1>5. ASSUME NEW w \in Workspace, SaveFailedSession(w) PROVE RecordedInv'
    <2>1. UNCHANGED <<rec, conn>> /\ Moves(w, {"idle"})
      BY <1>5 DEF SaveFailedSession
    <2>2. \A x \in Workspace : x # w => sconn'[x] = sconn[x] /\ smanaged'[x] = smanaged[x]
                                        /\ result'[x] = result[x]
      BY <1>5 DEF SaveFailedSession, DiskType
    <2>3. "saveFails" \notin Faults => ~smanaged'[w]
      <3>1. smanaged'[w] = (pc[w] = "failedManaged")
        BY <1>5 DEF SaveFailedSession, DiskType
      <3>2. "saveFails" \notin Faults => pc[w] # "failedManaged"
        OBVIOUS
      <3>3. QED
        BY <3>1, <3>2
    <2>4. \A x \in Workspace : pc'[x] \in {"save", "failedManaged"} =>
             x # w /\ pc'[x] = pc[x]
      BY <2>1
    <2>5. ASSUME NEW x \in Workspace,
                 pc'[x] = "save", result'[x] # None, conn'[result'[x]] = "running"
          PROVE  rec'[FingerprintOf[result'[x]]] = result'[x]
      BY <2>1, <2>2, <2>4, <2>5
    <2>6. ASSUME NEW x \in Workspace, "saveFails" \notin Faults
          PROVE  /\ pc'[x] # "failedManaged"
                 /\ sconn'[x] # None /\ smanaged'[x] /\ conn'[sconn'[x]] = "running" =>
                       rec'[FingerprintOf[sconn'[x]]] = sconn'[x]
      BY <2>1, <2>2, <2>3, <2>4, <2>6
    <2>7. QED
      BY <2>5, <2>6
  <1>6. ASSUME NEW w \in Workspace, NEW f \in Fingerprint, Start(w, f) PROVE RecordedInv'
    BY <1>6 DEF Start
  <1>7. ASSUME NEW w \in Workspace, ValidateReplacement(w) PROVE RecordedInv'
    BY <1>7 DEF ValidateReplacement
  <1>8. ASSUME NEW w \in Workspace, Renew(w) PROVE RecordedInv'
    BY <1>8 DEF Renew, AddLease
  <1>9. ASSUME NEW w \in Workspace, StopOld(w) PROVE RecordedInv'
    BY <1>9 DEF StopOld
  <1>10. ASSUME NEW w \in Workspace, EnsureAcquire(w) PROVE RecordedInv'
    BY <1>10 DEF EnsureAcquire, Lock, Read
  <1>11. ASSUME NEW w \in Workspace, JudgeEnsure(w) PROVE RecordedInv'
    BY <1>11
       DEF JudgeEnsure, Unwritten, Unremoved, Pruned, Holds, RemoveRecord, SaveLeases, Stopped,
           NotStopped,
           Becomes
  <1>12. ASSUME NEW w \in Workspace, SweepNext(w) PROVE RecordedInv'
    BY <1>12 DEF SweepNext, Holds, Read
  <1>13. ASSUME NEW w \in Workspace, JudgeSweep(w) PROVE RecordedInv'
    BY <1>13
       DEF JudgeSweep, Unwritten, Unremoved, Pruned, Holds, RemoveRecord, SaveLeases, Stopped,
           NotStopped, Becomes
  <1>14. ASSUME NEW w \in Workspace, LaunchFails(w) PROVE RecordedInv'
    BY <1>14 DEF LaunchFails, Holds, Unlock, ClearScan
  <1>15. ASSUME NEW w \in Workspace, AwaitFails(w) PROVE RecordedInv'
    BY <1>15 DEF AwaitFails, Holds, Unlock, ClearScan, Stopped, NotStopped, Becomes
  <1>16. ASSUME NEW w \in Workspace, SaveSession(w) PROVE RecordedInv'
    BY <1>16 DEF SaveSession
  <1>17. ASSUME NEW w \in Workspace, StartServices(w) PROVE RecordedInv'
    BY <1>17 DEF StartServices
  <1>18. ASSUME NEW w \in Workspace, Rollback(w) PROVE RecordedInv'
    BY <1>18 DEF Rollback
  <1>19. ASSUME NEW w \in Workspace, ReleaseUnmanaged(w) PROVE RecordedInv'
    BY <1>19 DEF ReleaseUnmanaged, ReleaseFails, Stopped, NotStopped, Becomes
  <1>20. ASSUME NEW w \in Workspace, ReleaseUnrecorded(w) PROVE RecordedInv'
    BY <1>20 DEF ReleaseUnrecorded, ReleaseFails, Stopped, NotStopped, Becomes
  <1>21. ASSUME NEW w \in Workspace, ReleaseAcquire(w) PROVE RecordedInv'
    BY <1>21 DEF ReleaseAcquire, Lock, Read
  <1>22. ASSUME NEW w \in Workspace, JudgeRelease(w) PROVE RecordedInv'
    BY <1>22
       DEF JudgeRelease, Unwritten, Unremoved, Pruned, Holds, RemoveRecord, SaveLeases,
           ReleaseFails, Stopped,
           NotStopped, Becomes
  <1>23. ASSUME NEW w \in Workspace, Clear(w) PROVE RecordedInv'
    BY <1>23 DEF Clear, EndSession
  <1>24. ASSUME NEW w \in Workspace, PruneProbe(w) PROVE RecordedInv'
    BY <1>24 DEF PruneProbe
  <1>25. ASSUME NEW w \in Workspace, PruneRead(w) PROVE RecordedInv'
    BY <1>25 DEF PruneRead
  <1>26. ASSUME NEW w \in Workspace, Recover(w) PROVE RecordedInv'
    BY <1>26 DEF Recover
  <1>27. ASSUME NEW w \in Workspace, RecoverAcquire(w) PROVE RecordedInv'
    BY <1>27 DEF RecoverAcquire, Lock
  <1>28. ASSUME NEW w \in Workspace, RecoverNext(w) PROVE RecordedInv'
    BY <1>28 DEF RecoverNext, Holds, Unlock, ClearScan, Read
  <1>29. ASSUME NEW w \in Workspace, JudgeRecover(w) PROVE RecordedInv'
    BY <1>29
       DEF JudgeRecover, Unwritten, Unremoved, Pruned, Holds, RemoveRecord, SaveLeases,
           Stopped, NotStopped,
           Becomes
  <1>30. ASSUME NEW w \in Workspace, Restart(w) PROVE RecordedInv'
    BY <1>30 DEF Restart
  <1>31. ASSUME NEW w \in Workspace, FinishRestart(w) PROVE RecordedInv'
    BY <1>31 DEF FinishRestart
  <1>32. ASSUME NEW w \in Workspace, Cancel(w) PROVE RecordedInv'
    BY <1>32 DEF Cancel
  <1>33. ASSUME NEW w \in Workspace, Crash(w) PROVE RecordedInv'
    BY <1>33 DEF Crash, Unlock, ClearScan
  <1>34. ASSUME NEW w \in Workspace, ServicesDie(w) PROVE RecordedInv'
    BY <1>34 DEF ServicesDie
  <1>35. ASSUME NEW w \in Workspace, NEW force \in BOOLEAN, Stop(w, force)
         PROVE  RecordedInv'
    BY <1>35 DEF Stop
  <1>36. ASSUME NEW p \in Proc, ConnectionDies(p) PROVE RecordedInv'
    BY <1>36 DEF ConnectionDies, Becomes
  <1>37. ASSUME NEW p \in Proc, PidReused(p) PROVE RecordedInv'
    BY <1>37 DEF PidReused, Becomes
  <1>38. ASSUME NEW f \in Fingerprint, NEW w \in Workspace, LeaseAges(f, w)
         PROVE  RecordedInv'
    BY <1>38 DEF LeaseAges
  <1>39. CASE UNCHANGED vars
    BY <1>39 DEF vars
  <1>40. ASSUME NEW w \in Workspace, Begin(w) PROVE RecordedInv'
    BY <1>40, <1>6, <1>26, <1>30, <1>35 DEF Begin
  <1>41. ASSUME NEW w \in Workspace, StartStep(w) PROVE RecordedInv'
    BY <1>41, <1>1, <1>2, <1>3, <1>4, <1>5, <1>7, <1>8, <1>9, <1>10, <1>11, <1>12, <1>13,
       <1>14, <1>15, <1>16, <1>17, <1>18 DEF StartStep
  <1>42. ASSUME NEW w \in Workspace, ReleaseStep(w) PROVE RecordedInv'
    BY <1>42, <1>19, <1>20, <1>21, <1>22, <1>23 DEF ReleaseStep
  <1>43. ASSUME NEW w \in Workspace, PruneStep(w) \/ RecoverStep(w) \/ FinishRestart(w)
         PROVE RecordedInv'
    BY <1>43, <1>24, <1>25, <1>27, <1>28, <1>29, <1>31 DEF PruneStep, RecoverStep
  <1>44. CASE Environment
    BY <1>44, <1>32, <1>33, <1>34, <1>36, <1>37, <1>38 DEF Environment
  <1>45. QED
    BY <1>39, <1>40, <1>41, <1>42, <1>43, <1>44 DEF Next, Step

(* A step of one command loses no connection if those it had in its hands or in
   its session are found elsewhere, and no running one is struck from its record. *)
LEMMA FoundFrame ==
  ASSUME FoundInv, NEW w \in Workspace, Moves(w, Control),
         \A x \in Workspace : x # w => sconn'[x] = sconn[x] /\ result'[x] = result[x],
         orphan \subseteq orphan',
         \A q \in Proc : conn'[q] = "running" =>
            /\ conn[q] = "running"
            /\ rec[FingerprintOf[q]] = q => rec'[FingerprintOf[q]] = q
            /\ (pc[w] \in Launched /\ result[w] = q) \/ (pc[w] # "clear" /\ sconn[w] = q) =>
                  \/ rec'[FingerprintOf[q]] = q
                  \/ pc'[w] \in Launched /\ result'[w] = q
                  \/ pc'[w] # "clear" /\ sconn'[w] = q
  PROVE  FoundInv'
  <1> SUFFICES ASSUME NEW q \in Proc, conn'[q] = "running"
               PROVE  \/ rec'[FingerprintOf[q]] = q
                      \/ q \in orphan'
                      \/ \E x \in Workspace : pc'[x] \in Launched /\ result'[x] = q
                      \/ \E x \in Workspace : pc'[x] # "clear" /\ sconn'[x] = q
    BY DEF FoundInv, Current
  <1>1. \/ rec[FingerprintOf[q]] = q
        \/ q \in orphan
        \/ \E x \in Workspace : pc[x] \in Launched /\ result[x] = q
        \/ \E x \in Workspace : pc[x] # "clear" /\ sconn[x] = q
    BY DEF FoundInv, Current
  <1>2. CASE rec[FingerprintOf[q]] = q \/ q \in orphan
    BY <1>2
  <1>3. ASSUME NEW x \in Workspace, pc[x] \in Launched /\ result[x] = q
        PROVE  \/ rec'[FingerprintOf[q]] = q
               \/ \E y \in Workspace : pc'[y] \in Launched /\ result'[y] = q
               \/ \E y \in Workspace : pc'[y] # "clear" /\ sconn'[y] = q
    BY <1>3 DEF Moves
  <1>4. ASSUME NEW x \in Workspace, pc[x] # "clear" /\ sconn[x] = q
        PROVE  \/ rec'[FingerprintOf[q]] = q
               \/ \E y \in Workspace : pc'[y] \in Launched /\ result'[y] = q
               \/ \E y \in Workspace : pc'[y] # "clear" /\ sconn'[y] = q
    BY <1>4 DEF Moves
  <1>5. QED
    BY <1>1, <1>2, <1>3, <1>4

(* No step loses a running connection: a session that is given up has stopped its
   own or left it in its record, and so has a start whose attempt failed. *)
LEMMA FoundStep ==
  ASSUME RecordsSuffice, TypeOK, LockInv, CommandInv, RegistryInv, TargetInv, ScanInv,
         RetainInv, ReleaseInv, AloneInv, RecordedInv, FoundInv, [Next]_vars
  PROVE  FoundInv'
  <1> USE ConstantsAssumption, NoTargetType
          DEF history, Moves, TypeOK, ControlType, DiskType, RegistryType, ProcessType,
              ConnState, LockInv, CommandInv, Proceed, Return, Goto, args, disk, record,
              Current, Unverified, Control, Waiting, Holding, Pruning, Launched
  <1>1. ASSUME NEW w \in Workspace, AwaitReady(w) PROVE FoundInv'
    <2>1. /\ rec[target[w]] = None /\ FingerprintOf[result[w]] = target[w]
          /\ result[w] \in Proc
      BY <1>1 DEF AwaitReady, Holds, TargetInv, RegistryInv
    <2>2. /\ rec' = [rec EXCEPT ![target[w]] = result[w]]
          /\ Moves(w, {"save"})
          /\ UNCHANGED <<conn, sconn, result, orphan>>
      BY <1>1 DEF AwaitReady
    <2>3. \A f \in Fingerprint : rec[f] # None => rec'[f] = rec[f]
      BY <2>1, <2>2
    <2>4. QED
      BY <2>1, <2>2, <2>3, FoundFrame
  <1>2. ASSUME NEW w \in Workspace, AwaitFails(w) PROVE FoundInv'
    <2>1. UNCHANGED <<sconn, rec, orphan>> /\ pc[w] = "await"
      BY <1>2 DEF AwaitFails, Holds
    <2>2. \A q \in Proc : conn'[q] = "running" => conn[q] = "running"
      BY <1>2 DEF AwaitFails, Stopped, NotStopped, Becomes
    <2>3. \/ Moves(w, {"idle"}) /\ conn'[result[w]] # "running"
             /\ \A x \in Workspace : x # w => result'[x] = result[x]
          \/ Moves(w, {"failed", "failedManaged"})
             /\ result' = result
      BY <1>2 DEF AwaitFails, Holds, Stopped, NotStopped, Becomes
    <2>4. QED
      BY <2>1, <2>2, <2>3, FoundFrame
  <1>3. ASSUME NEW w \in Workspace, SaveFailedSession(w) PROVE FoundInv'
    <2>1. /\ UNCHANGED <<rec, conn, orphan>> /\ Moves(w, {"idle"})
          /\ pc[w] \in {"failed", "failedManaged"}
          /\ sconn' = [sconn EXCEPT ![w] = result[w]]
          /\ \A x \in Workspace : x # w => result'[x] = result[x]
      BY <1>3 DEF SaveFailedSession
    <2>2. sconn[w] # None /\ conn[sconn[w]] = "running" =>
             rec[FingerprintOf[sconn[w]]] = sconn[w]
      BY <1>3 DEF SaveFailedSession, RetainInv, Asking
    <2>3. QED
      BY <2>1, <2>2, FoundFrame
  <1>4. ASSUME NEW w \in Workspace, SaveSession(w) PROVE FoundInv'
    <2>1. /\ UNCHANGED <<rec, conn, orphan>> /\ Moves(w, {"services"}) /\ pc[w] = "save"
          /\ sconn' = [sconn EXCEPT ![w] = result[w]]
          /\ \A x \in Workspace : x # w => result'[x] = result[x]
      BY <1>4 DEF SaveSession
    <2>2. sconn[w] # None /\ conn[sconn[w]] = "running" =>
             rec[FingerprintOf[sconn[w]]] = sconn[w]
      BY <2>1 DEF RetainInv, Asking
    <2>3. QED
      BY <2>1, <2>2, FoundFrame
  <1>5. ASSUME NEW w \in Workspace, JudgeRelease(w) PROVE FoundInv'
    <2>1. Judgement(w) /\ UNCHANGED orphan
      BY <1>5, JudgementStep DEF JudgeRelease, Unwritten, Unremoved
    <2>2. /\ rec[cur] # None /\ cur = FingerprintOf[sconn[w]] /\ smanaged[w]
          /\ pc[w] = "pruneRelease"
      BY <1>5 DEF JudgeRelease, Unwritten, Unremoved, Pruned, Holds, ReleaseInv, ScanInv
    <2>3. sconn[w] # None /\ conn[sconn[w]] = "running" => rec[cur] = sconn[w]
      <3>1. CASE Ktctl = Fingerprint /\ SameExecutable
        BY <2>1, <2>2, <3>1 DEF AloneInv, Judgement
      <3>2. CASE "saveFails" \notin Faults
        BY <2>2, <3>2 DEF RecordedInv
      <3>3. QED
        BY <3>1, <3>2 DEF RecordsSuffice
    <2>4. \A q \in Proc : conn'[q] = "running" => conn[q] = "running"
      BY <1>5 DEF JudgeRelease, Unwritten, Unremoved, Stopped, NotStopped, Becomes
    <2>5. ASSUME NEW q \in Proc, conn'[q] = "running", rec[FingerprintOf[q]] = q
          PROVE  rec'[FingerprintOf[q]] = q
      BY <2>1, <2>5 DEF Judgement
    <2>6. Moves(w, Control)
      BY <2>1 DEF Judgement
    <2>7. QED
      BY <2>1, <2>2, <2>3, <2>4, <2>5, <2>6, FoundFrame, SMTT(60) DEF Judgement
  <1>6. ASSUME NEW w \in Workspace, Recover(w) PROVE FoundInv'
    <2>1. /\ Moves(w, {"recover"}) /\ pc[w] = "idle"
          /\ UNCHANGED <<rec, conn, sconn, result, orphan>>
      BY <1>6 DEF Recover
    <2>2. QED
      BY <2>1, FoundFrame
  <1>7. ASSUME NEW w \in Workspace, RecoverNext(w) PROVE FoundInv'
    <2>0. /\ pc[w] = "recovering" /\ UNCHANGED <<rec, conn, sconn, orphan>>
          /\ Proceed(w, "pruneRecover") \/ Return(w)
      BY <1>7 DEF RecoverNext, Holds
    <2>1. Moves(w, {"pruneRecover", "idle"})
      BY <2>0
    <2>2. \A x \in Workspace : x # w => result'[x] = result[x]
      BY <2>0
    <2>3. QED
      BY <2>0, <2>1, <2>2, FoundFrame
  <1>8. ASSUME NEW w \in Workspace, NEW f \in Fingerprint, Start(w, f) PROVE FoundInv'
    BY <1>8 DEF Start, FoundInv
  <1>9. ASSUME NEW w \in Workspace, ValidateReplacement(w) PROVE FoundInv'
    BY <1>9 DEF ValidateReplacement, FoundInv
  <1>10. ASSUME NEW w \in Workspace, Renew(w) PROVE FoundInv'
    BY <1>10 DEF Renew, FoundInv, AddLease
  <1>11. ASSUME NEW w \in Workspace, StopOld(w) PROVE FoundInv'
    BY <1>11, SMTT(60) DEF StopOld, FoundInv
  <1>12. ASSUME NEW w \in Workspace, EnsureAcquire(w) PROVE FoundInv'
    BY <1>12 DEF EnsureAcquire, FoundInv, Lock, Read
  <1>13. ASSUME NEW w \in Workspace, JudgeEnsure(w) PROVE FoundInv'
    BY <1>13, SMTT(60)
       DEF JudgeEnsure, Unwritten, Unremoved, FoundInv, Pruned, Holds, RemoveRecord,
           SaveLeases, Stopped,
           NotStopped, Becomes
  <1>14. ASSUME NEW w \in Workspace, Endpoints(w) PROVE FoundInv'
    BY <1>14, SMTT(60) DEF Endpoints, FoundInv, Holds, Join, AddLease, Unlock, ClearScan
  <1>15. ASSUME NEW w \in Workspace, SweepNext(w) PROVE FoundInv'
    BY <1>15 DEF SweepNext, FoundInv, Holds, Read
  <1>16. ASSUME NEW w \in Workspace, JudgeSweep(w) PROVE FoundInv'
    BY <1>16, SMTT(60)
       DEF JudgeSweep, Unwritten, Unremoved, FoundInv, Pruned, Holds, RemoveRecord, SaveLeases,
           Stopped,
           NotStopped, Becomes
  <1>17. ASSUME NEW w \in Workspace, SweepDone(w) PROVE FoundInv'
    BY <1>17, SMTT(60) DEF SweepDone, FoundInv, Holds, Join, AddLease, Unlock, ClearScan
  <1>18. ASSUME NEW w \in Workspace, Launch(w) PROVE FoundInv'
    BY <1>18 DEF Launch, FoundInv, Holds, Becomes
  <1>19. ASSUME NEW w \in Workspace, LaunchFails(w) PROVE FoundInv'
    BY <1>19 DEF LaunchFails, FoundInv, Holds, Unlock, ClearScan
  <1>20. ASSUME NEW w \in Workspace, StartServices(w) PROVE FoundInv'
    BY <1>20 DEF StartServices, FoundInv
  <1>21. ASSUME NEW w \in Workspace, Rollback(w) PROVE FoundInv'
    BY <1>21, SMTT(60) DEF Rollback, FoundInv
  <1>22. ASSUME NEW w \in Workspace, ReleaseUnmanaged(w) PROVE FoundInv'
    BY <1>22, SMTT(60)
       DEF ReleaseUnmanaged, FoundInv, ReleaseFails, Stopped, NotStopped, Becomes
  <1>23. ASSUME NEW w \in Workspace, ReleaseUnrecorded(w) PROVE FoundInv'
    BY <1>23, SMTT(60)
       DEF ReleaseUnrecorded, FoundInv, ReleaseFails, Stopped, NotStopped, Becomes
  <1>24. ASSUME NEW w \in Workspace, ReleaseAcquire(w) PROVE FoundInv'
    BY <1>24 DEF ReleaseAcquire, FoundInv, Lock, Read
  <1>25. ASSUME NEW w \in Workspace, Clear(w) PROVE FoundInv'
    <2>0. /\ pc[w] = "clear" /\ UNCHANGED <<rec, conn, orphan>>
          /\ Proceed(w, "ensure") \/ Return(w)
      BY <1>25 DEF Clear
    <2>1. Moves(w, {"ensure", "idle"})
      BY <2>0
    <2>2. \A x \in Workspace : x # w => result'[x] = result[x] /\ sconn'[x] = sconn[x]
      <3>1. \A x \in Workspace : x # w => sconn'[x] = sconn[x]
        BY <1>25 DEF Clear, EndSession
      <3>2. \A x \in Workspace : x # w => result'[x] = result[x]
        BY <2>0
      <3>. QED
        BY <3>1, <3>2
    <2>3. QED
      BY <2>0, <2>1, <2>2, FoundFrame
  <1>26. ASSUME NEW w \in Workspace, PruneProbe(w) PROVE FoundInv'
    BY <1>26 DEF PruneProbe, FoundInv
  <1>27. ASSUME NEW w \in Workspace, PruneRead(w) PROVE FoundInv'
    BY <1>27 DEF PruneRead, FoundInv
  <1>28. ASSUME NEW w \in Workspace, RecoverAcquire(w) PROVE FoundInv'
    BY <1>28 DEF RecoverAcquire, FoundInv, Lock
  <1>29. ASSUME NEW w \in Workspace, JudgeRecover(w) PROVE FoundInv'
    BY <1>29, SMTT(60)
       DEF JudgeRecover, Unwritten, Unremoved, FoundInv, Pruned, Holds, RemoveRecord,
           SaveLeases, Stopped,
           NotStopped, Becomes
  <1>30. ASSUME NEW w \in Workspace, Restart(w) PROVE FoundInv'
    BY <1>30 DEF Restart, FoundInv
  <1>31. ASSUME NEW w \in Workspace, FinishRestart(w) PROVE FoundInv'
    BY <1>31, SMTT(60) DEF FinishRestart, FoundInv
  <1>32. ASSUME NEW w \in Workspace, Cancel(w) PROVE FoundInv'
    BY <1>32, SMTT(60) DEF Cancel, FoundInv
  <1>33. ASSUME NEW w \in Workspace, Crash(w) PROVE FoundInv'
    BY <1>33 DEF Crash, FoundInv, Unlock, ClearScan
  <1>34. ASSUME NEW w \in Workspace, ServicesDie(w) PROVE FoundInv'
    BY <1>34 DEF ServicesDie, FoundInv
  <1>35. ASSUME NEW w \in Workspace, NEW force \in BOOLEAN, Stop(w, force) PROVE FoundInv'
    BY <1>35 DEF Stop, FoundInv
  <1>36. ASSUME NEW p \in Proc, ConnectionDies(p) PROVE FoundInv'
    BY <1>36 DEF ConnectionDies, FoundInv, Becomes
  <1>37. ASSUME NEW p \in Proc, PidReused(p) PROVE FoundInv'
    BY <1>37 DEF PidReused, FoundInv, Becomes
  <1>38. ASSUME NEW f \in Fingerprint, NEW w \in Workspace, LeaseAges(f, w) PROVE FoundInv'
    BY <1>38 DEF LeaseAges, FoundInv
  <1>39. CASE UNCHANGED vars
    BY <1>39 DEF FoundInv, vars
  <1>40. ASSUME NEW w \in Workspace, Begin(w) PROVE FoundInv'
    BY <1>40, <1>6, <1>8, <1>30, <1>35 DEF Begin
  <1>41. ASSUME NEW w \in Workspace, StartStep(w) PROVE FoundInv'
    BY <1>41, <1>1, <1>2, <1>3, <1>4, <1>9, <1>10, <1>11, <1>12, <1>13, <1>14, <1>15, <1>16,
       <1>17, <1>18, <1>19, <1>20, <1>21 DEF StartStep
  <1>42. ASSUME NEW w \in Workspace, ReleaseStep(w) PROVE FoundInv'
    BY <1>42, <1>5, <1>22, <1>23, <1>24, <1>25 DEF ReleaseStep
  <1>43. ASSUME NEW w \in Workspace, PruneStep(w) \/ RecoverStep(w) \/ FinishRestart(w)
         PROVE FoundInv'
    BY <1>43, <1>7, <1>26, <1>27, <1>28, <1>29, <1>31 DEF PruneStep, RecoverStep
  <1>44. CASE Environment
    BY <1>44, <1>32, <1>33, <1>34, <1>36, <1>37, <1>38 DEF Environment
  <1>45. QED
    BY <1>39, <1>40, <1>41, <1>42, <1>43, <1>44 DEF Next, Step

-----------------------------------------------------------------------------

(* In the initial state nothing is leased, retained or running. *)
LEMMA LedgerInit == Init => LedgerInv
  BY ConstantsAssumption
     DEF Init, LedgerInv, BookInv, RetainInv, ReleaseInv, OwnLeaseInv, AloneInv,
         RecordedInv,
         FoundInv, Leased, Asking, Launched, Pruning, Current

(* Every step of every command and of the environment keeps the ledger. *)
LEMMA LedgerNext == IInv /\ LedgerInv /\ [Next]_vars => LedgerInv'
  <1> SUFFICES ASSUME IInv, LedgerInv, [Next]_vars PROVE LedgerInv'
    OBVIOUS
  <1>1. /\ TypeOK /\ LockInv /\ CommandInv /\ RegistryInv /\ TargetInv
        /\ ScanInv /\ JoinInv /\ ApartInv
    BY DEF IInv
  <1>2. /\ BookInv /\ RetainInv /\ ReleaseInv /\ OwnLeaseInv /\ AloneInv /\ RecordedInv
        /\ RecordsSuffice => FoundInv
    BY DEF LedgerInv
  <1>3. BookInv' /\ RetainInv' /\ ReleaseInv'
    BY <1>1, <1>2, BookStep, RetainStep, ReleaseInvStep
  <1>4. OwnLeaseInv'
    BY <1>1, <1>2, OwnLeaseStep
  <1>5. AloneInv' /\ RecordedInv'
    BY <1>1, <1>2, AloneStep, RecordedStep
  <1>6. RecordsSuffice => FoundInv'
    BY <1>1, <1>2, FoundStep
  <1>7. QED
    BY <1>3, <1>4, <1>5, <1>6 DEF LedgerInv, RecordsSuffice

(* What the records say of who leases and of what runs is true in every state
   the registry and the commands of all workspaces can reach. *)
THEOREM Ledger == Spec => []LedgerInv
  BY InitInvariant, NextInvariant, LedgerInit, LedgerNext, PTL DEF Spec

(* Nothing of a workspace is left to keep a connection alive once its session is
   gone, whichever of its commands ended it and whichever failed, unless one of
   them was killed: releaseConnection drops the lease before the session is
   cleared, and a start that fails has not written one. *)
THEOREM NoLeaseLeft == Spec => []NoLeaseWithoutSession
  <1>1. LedgerInv => NoLeaseWithoutSession
    <2> SUFFICES ASSUME LedgerInv, NEW w \in Workspace,
                        pc[w] = "idle", sconn[w] = None, ~crashed[w]
                 PROVE  \A f \in Fingerprint : w \notin leases[f]
      BY DEF NoLeaseWithoutSession
    <2>1. Leased(w) = None
      BY DEF Leased
    <2>2. QED
      BY <2>1 DEF LedgerInv, OwnLeaseInv
  <1>2. QED
    BY <1>1, Ledger, PTL

(* No running connection is lost: it is in its record, in a session or in the
   hands of a command, as long as records can be written or all connections are
   ktctl tunnels.  With a command driver whose record could not be written, a
   session may name one process and the record a second one that another
   workspace launched: releaseConnection then stops what the record names, or
   leaves it to its users, and the session that named the first is cleared. *)
THEOREM ConnectionsFound ==
  ASSUME RecordsSuffice
  PROVE  Spec => []NoLostConnection
  <1>1. LedgerInv => NoLostConnection
    <2> SUFFICES ASSUME LedgerInv, NEW p \in Proc, Current(p)
                 PROVE  \/ rec[FingerprintOf[p]] = p
                        \/ \E w \in Workspace : p \in {sconn[w], result[w]}
                        \/ p \in orphan
      BY DEF NoLostConnection
    <2>1. QED
      BY RecordsSuffice DEF LedgerInv, FoundInv
  <1>2. QED
    BY <1>1, Ledger, PTL
=============================================================================
