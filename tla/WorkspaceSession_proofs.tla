----------------------- MODULE WorkspaceSession_proofs -----------------------
(***************************************************************************)
(* Proofs about WorkspaceSession for any services, watchers and versions,  *)
(* any startup order and any faults. IInv is inductive, and each of its    *)
(* parts has a lemma that takes it over a step, by the actions that touch  *)
(* it. The parts lean on each other: what is alive is known because what a *)
(* loop has visited is down, and a fingerprint is true because the process *)
(* it was recorded for is gone before the next one is built. At the end    *)
(* HotReload is shown to implement WorkspaceSession.                       *)
(***************************************************************************)
EXTENDS WorkspaceSessionInvariant, HotReload, FiniteSetTheorems, WellFoundedInduction, TLAPS

(* A command that returns leaves: only what is left of the artifacts differs. *)
USE DEF Return, ReturnWith

(* A set of services that are not none has a first one in the startup order, *)
(* and a last one.                                                           *)
LEMMA Ordered ==
  ASSUME NEW S \in SUBSET Service, S # {}
  PROVE  First(S) \in S /\ Last(S) \in S
  <1> DEFINE HasEnds(T) == /\ \E s \in T : \A t \in T : Rank[s] <= Rank[t]
                           /\ \E s \in T : \A t \in T : Rank[t] <= Rank[s]
             Bad == {T \in SUBSET Service : T # {} /\ ~HasEnds(T)}
             Sizes == {Cardinality(T) : T \in Bad}
             Less == OpToRel(<, Nat)
  <1>1. \A T \in SUBSET Service : IsFiniteSet(T) /\ Cardinality(T) \in Nat
    BY ConstantsAssumption, FS_Subset, FS_CardinalityType
  <1>2. Bad = {}
    <2>1. SUFFICES ASSUME Bad # {} PROVE FALSE
      OBVIOUS
    <2>2. Sizes \subseteq Nat /\ Sizes # {}
      BY <1>1, <2>1
    <2>3. PICK n \in Sizes : \A m \in Sizes : <<m, n>> \notin Less
      <3> HIDE DEF Sizes, Less
      <3>. QED
        BY <2>2, NatLessThanWellFounded, WFMin DEF Less
    <2>4. \A m \in Sizes : ~(m < n)
      BY <2>2, <2>3 DEF OpToRel
    <2>5. PICK T \in Bad : Cardinality(T) = n
      OBVIOUS
    <2>6. PICK x \in T : TRUE
      OBVIOUS
    <2>7. T \ {x} \notin Bad
      <3>1. Cardinality(T \ {x}) = n - 1
        BY <1>1, <2>5, <2>6, FS_RemoveElement
      <3>2. n \in Nat
        BY <2>2
      <3>3. SUFFICES ASSUME T \ {x} \in Bad PROVE Cardinality(T \ {x}) \in Sizes
        BY <2>4, <3>1, <3>2
      <3>. QED
        BY <3>3
    <2>8. \A s, t \in T : Rank[s] \in Nat /\ Rank[t] \in Nat
      BY ConstantsAssumption
    <2>9. HasEnds(T)
      <3>1. CASE T \ {x} = {}
        BY <2>6, <2>8, <3>1
      <3>2. CASE T \ {x} # {}
        <4>1. HasEnds(T \ {x})
          BY <2>7, <3>2
        <4>2. PICK a \in T \ {x} : \A t \in T \ {x} : Rank[a] <= Rank[t]
          BY <4>1
        <4>3. PICK b \in T \ {x} : \A t \in T \ {x} : Rank[t] <= Rank[b]
          BY <4>1
        <4>4. \E s \in T : \A t \in T : Rank[s] <= Rank[t]
          BY <2>8, <4>2
        <4>5. \E s \in T : \A t \in T : Rank[t] <= Rank[s]
          BY <2>8, <4>3
        <4>. QED
          BY <4>4, <4>5
      <3>. QED
        BY <3>1, <3>2
    <2>. QED
      BY <2>9
  <1>3. HasEnds(S)
    BY <1>2
  <1>. QED
    BY <1>3 DEF First, Last

-----------------------------------------------------------------------------
(* The parts of TypeOK.                                                      *)

SessionOK(x) == x \in Session /\ \A s \in Service \ Listed(x) : x.fp[s] = None

SessionsType == SessionOK(disk) /\ SessionOK(mem) /\ SessionOK(orig) /\ SessionOK(token)

WorldType ==
    /\ os \in [Proc \cup Watcher -> {"off", "up", "stuck"}]
    /\ source \in [Service -> Version]
    /\ built \in [Service -> MaybeVersion] /\ unbuilt \subseteq Service
    /\ orphan \subseteq Proc
    /\ faults \in FaultSets

Steps == {"replaceHot", "replaceStop", "release", "clear", "connect", "saveNew",
          "fingerprint", "build", "start", "saveStarted", "verify", "final", "hot",
          "saveHot", "finish", "rollbackHot", "rollbackStop", "restore", "cleanupHot",
          "cleanupStop", "stopHot", "stopServices", "stopSave", "restartStop"}

LocalsType ==
    /\ pc \in Steps \cup {"idle"}
    /\ actor \in Actor \cup {None}
    /\ pc = "idle" <=> actor = None
    /\ kind \in {"none", "start", "restart", "stop"}
    /\ targets \subseteq Service /\ started \subseteq Service
    /\ fps \in [Service -> MaybeVersion] /\ artifact \in [Service -> MaybeVersion]
    /\ retained \in BOOLEAN /\ forced \in BOOLEAN /\ skip \in BOOLEAN

TodoType ==
    /\ todo \subseteq Service /\ failed \subseteq Service
    /\ pc \in {"fingerprint", "build", "start", "restartStop"} => todo # {}

LEMMA TypeParts ==
  TypeOK <=> SessionsType /\ WorldType /\ LocalsType /\ TodoType
  BY DEF TypeOK, SessionsType, SessionOK, WorldType, LocalsType, TodoType, Steps

(* What the operators on sessions do to the parts of a session.              *)
LEMMA NoSessionType ==
  /\ SessionOK(NoSession) /\ Listed(NoSession) = {}
  /\ NoSession.services = NoSlots /\ NoSession.fp = NoVersions
  /\ NoSession.hot = None /\ NoSession.conn = FALSE
  /\ NoSlots \in [Service -> 0 .. Slots] /\ NoVersions \in [Service -> MaybeVersion]
  BY ConstantsAssumption
  DEF SessionOK, NoSession, Session, NoSlots, NoVersions, Listed, MaybeVersion

LEMMA KeepParts ==
  ASSUME NEW x, SessionOK(x), NEW S
  PROVE  /\ SessionOK(Keep(x, S))
         /\ \A s \in Service : s \in S => Keep(x, S).services[s] = x.services[s]
         /\ \A s \in Service : s \notin S => Keep(x, S).services[s] = 0
         /\ \A s \in Service : s \in S => Keep(x, S).fp[s] = x.fp[s]
         /\ \A s \in Service : s \notin S => Keep(x, S).fp[s] = None
         /\ Keep(x, S).hot = x.hot
         /\ Keep(x, S).conn = x.conn
  <1>0. x \in Session /\ \A s \in Service : x.services[s] = 0 => x.fp[s] = None
    BY DEF SessionOK, Listed
  <1>1. /\ Keep(x, S).services = [s \in Service |-> IF s \in S THEN x.services[s] ELSE 0]
        /\ Keep(x, S).fp = [s \in Service |-> IF s \in S THEN x.fp[s] ELSE None]
        /\ Keep(x, S).selected = S \cap Listed(x)
        /\ Keep(x, S).exists = x.exists
        /\ Keep(x, S).hot = x.hot
        /\ Keep(x, S).conn = x.conn
    BY <1>0 DEF Keep, Session
  <1>2. /\ [s \in Service |-> IF s \in S THEN x.services[s] ELSE 0] \in [Service -> 0 .. Slots]
        /\ [s \in Service |-> IF s \in S THEN x.fp[s] ELSE None] \in [Service -> MaybeVersion]
        /\ S \cap Listed(x) \in SUBSET Service
    BY <1>0, ConstantsAssumption DEF Session, MaybeVersion, Listed
  <1>3. Keep(x, S) \in Session
    BY <1>0, <1>1, <1>2 DEF Keep, Session
  <1>4. \A s \in Service \ Listed(Keep(x, S)) : Keep(x, S).fp[s] = None
    BY <1>0, <1>1 DEF Listed
  <1>. QED
    BY <1>1, <1>3, <1>4 DEF SessionOK

LEMMA ListParts ==
  ASSUME NEW x, SessionOK(x), NEW s \in Service, NEW slot \in 0 .. Slots,
         NEW version \in MaybeVersion, slot = 0 => version = None
  PROVE  /\ SessionOK(List(x, s, slot, version))
         /\ List(x, s, slot, version).services = [x.services EXCEPT ![s] = slot]
         /\ List(x, s, slot, version).fp = [x.fp EXCEPT ![s] = version]
         /\ List(x, s, slot, version).hot = x.hot
  BY ConstantsAssumption DEF SessionOK, Session, List, Listed

LEMMA FlagsType ==
  ASSUME NEW x, SessionOK(x), NEW h \in Watcher \cup {None}, NEW c \in BOOLEAN
  PROVE  /\ SessionOK([x EXCEPT !.hot = h])
         /\ SessionOK([x EXCEPT !.conn = c])
         /\ SessionOK([x EXCEPT !.hot = h, !.conn = c])
  BY DEF SessionOK, Session, Listed

(* Stopping processes and watchers revives none.                             *)
Calms ==
    /\ os' \in [Proc \cup Watcher -> {"off", "up", "stuck"}]
    /\ \A p \in Proc \cup Watcher : os[p] = "off" => os'[p] = "off"
    /\ \A p \in Proc \cup Watcher : os'[p] = "up" => os[p] = "up"

LEMMA StopsCalm ==
  ASSUME WorldType, NEW p, Stops(p) \/ StopFails(p)
  PROVE  Calms
  BY DEF WorldType, Stops, StopFails, Calms

LEMMA StopsListedCalm ==
  ASSUME WorldType, NEW x, NEW s, StopsListed(x, s) \/ StopListedFails(x, s)
  PROVE  Calms
  <1>1. CASE UNCHANGED os
    BY <1>1 DEF Calms, WorldType
  <1>2. CASE Stops(Process(x, s)) \/ StopFails(Process(x, s))
    BY <1>2, StopsCalm
  <1>. QED
    BY <1>1, <1>2 DEF StopsListed, StopListedFails

LEMMA StopsWatcherCalm ==
  ASSUME WorldType, NEW x, StopsWatcher(x) \/ StopWatcherFails(x)
  PROVE  Calms
  <1>1. CASE UNCHANGED os
    BY <1>1 DEF Calms, WorldType
  <1>2. CASE Stops(x.hot) \/ StopFails(x.hot)
    BY <1>2, StopsCalm
  <1>. QED
    BY <1>1, <1>2 DEF StopsWatcher, StopWatcherFails

-----------------------------------------------------------------------------
(* TypeOK.                                                                   *)

LEMMA ReturnSessions ==
  ASSUME Leave, SessionOK(disk'), SessionOK(token')
  PROVE  SessionsType'
  BY NoSessionType DEF Leave, SessionsType

(* A loop that stops what is left: one of its steps is about one service.    *)
LEMMA Loops ==
  ASSUME TypeOK, ReplaceStop \/ RollbackStop \/ CleanupStop \/ StopServices
  PROVE  \E s \in todo : StopTodo(pc, s)
  <1>1. todo # {} => First(todo) \in todo /\ Last(todo) \in todo
    BY Ordered DEF TypeOK
  <1>. QED
    BY <1>1 DEF ReplaceStop, RollbackStop, CleanupStop, StopServices, StopTodo

(* What every command does when it begins.                                   *)
LEMMA Begins ==
  ASSUME UserCommand \/ WatcherRestarts
  PROVE  \/ UNCHANGED <<disk, os, world, pc, command, mem, locals, todo, failed, rest>>
            /\ token' \in {disk, NoSession}
         \/ /\ mem' = disk /\ orig' = disk
            /\ UNCHANGED <<disk, os, world, token, rest>>
  BY ZenonT(60)
     DEF UserCommand, WatcherRestarts, AskReplacement, Decline, StartFresh, StartReplacement,
         Stop,
         Restart, Begin

(* The environment leaves sessions and commands alone unless it kills one.   *)
LEMMA Surroundings ==
  ASSUME Environment
  PROVE  \/ Unaffected
         \/ /\ Crash
            /\ UNCHANGED <<disk, world>>
            /\ token' \in {token, NoSession}
  BY DEF Environment, ProcessEnds, WatcherExits, Edit, Crash

LEMMA SessionsStep ==
  ASSUME TypeOK, WorkInv, [Next]_vars
  PROVE  SessionsType'
  <1> USE DEF vars, world, locals, command, rest, Goto
  <1>0. /\ SessionOK(disk) /\ SessionOK(mem) /\ SessionOK(orig) /\ SessionOK(token)
        /\ SessionOK(NoSession)
        /\ mem.conn \in BOOLEAN /\ mem.hot \in Watcher \cup {None}
        /\ \A s \in Service : orig.fp[s] \in MaybeVersion /\ orig.services[s] \in 0 .. Slots
        /\ \A s \in Service : orig.services[s] = 0 => orig.fp[s] = None
    BY TypeParts, NoSessionType DEF SessionsType, SessionOK, Session, Listed
  <1>1. CASE UserCommand \/ WatcherRestarts
    BY <1>0, <1>1, Begins DEF SessionsType
  <1>2. CASE Environment
    <2>1. CASE Unaffected
      BY <1>0, <2>1 DEF Unaffected, SessionsType
    <2>2. CASE Crash
      <3>1. Leave
        BY <2>2 DEF Crash, Killed
      <3>2. SessionOK(disk') /\ SessionOK(token')
        BY <1>0, <2>2 DEF Crash
      <3>. QED
        BY <3>1, <3>2, ReturnSessions
    <2>. QED
      BY <1>2, <2>1, <2>2, Surroundings
  <1>3. CASE ReplaceStop \/ RollbackStop \/ CleanupStop \/ StopServices
    <2>1. UNCHANGED <<disk, mem, orig, token>>
      BY <1>3 DEF ReplaceStop, RollbackStop, CleanupStop, StopServices, StopTodo
    <2>. QED
      BY <1>0, <2>1 DEF SessionsType
  <1>4. CASE Fingerprint \/ Build \/ PrepareFails \/ StartServiceFails \/ VerifyFails \/ WatcherKept
             \/ StartWatcherFails \/ FinishStart \/ RestartStop
    <2>1. /\ UNCHANGED <<disk, token>>
          /\ UNCHANGED <<mem, orig>> \/ Leave
      BY <1>4 DEF Fingerprint, Build, PrepareFails, StartServiceFails, VerifyFails, WatcherKept,
                  StartWatcherFails, FinishStart, RestartStop, Abort, Undo, Rollback,
                  RollbackGroup
    <2>. QED
      BY <1>0, <2>1, ReturnSessions DEF SessionsType
  <1>5. CASE ReplaceHot \/ ReleaseOld
    <2>1. /\ SessionOK([mem EXCEPT !.hot = None])
          /\ SessionOK([mem EXCEPT !.conn = @ /\ retained])
      BY <1>0, FlagsType, TypeParts DEF LocalsType
    <2>2. /\ disk' = disk /\ token' \in {token, NoSession}
          /\ \/ Leave
             \/ /\ mem' \in {[mem EXCEPT !.hot = None], [mem EXCEPT !.conn = @ /\ retained]}
                /\ orig' = orig
      BY <1>5 DEF ReplaceHot, ReleaseOld
    <2>. QED
      BY <1>0, <2>1, <2>2, ReturnSessions DEF SessionsType
  <1>6. CASE ReplaceSave
    <2>1. SessionOK(Keep(mem, failed)) /\ SessionOK(Keep(mem, {}))
      BY <1>0, KeepParts
    <2>2. /\ token' = NoSession /\ disk' \in {disk, Keep(mem, failed)}
          /\ Leave \/ (mem' = Keep(mem, {}) /\ orig' = orig)
      BY <1>6 DEF ReplaceSave, Save, SaveFails
    <2>. QED
      BY <1>0, <2>1, <2>2, ReturnSessions DEF SessionsType
  <1>7. CASE ClearOld \/ SaveNew \/ SaveStarted \/ FinalCheck \/ FinishRestart \/ RestoreSave
    <2>1. /\ token' = token /\ disk' \in {disk, NoSession, mem}
          /\ Leave \/ UNCHANGED <<mem, orig>>
      BY <1>7 DEF ClearOld, SaveNew, SaveStarted, FinalCheck, FinishRestart, RestoreSave, Save,
                  SaveFails, Undo, Rollback, RollbackGroup
    <2>. QED
      BY <1>0, <2>1, ReturnSessions DEF SessionsType
  <1>8. CASE Connect
    <2>1. \A c \in BOOLEAN :
             /\ SessionOK([NoSession EXCEPT !.exists = TRUE, !.conn = c])
             /\ SessionOK([NoSession EXCEPT !.exists = TRUE, !.selected = targets, !.conn = c])
      BY <1>0, TypeParts DEF LocalsType, SessionOK, Session, Listed
    <2>2. /\ token' = token
          /\ \E c \in BOOLEAN :
                \/ /\ mem' = [NoSession EXCEPT !.exists = TRUE, !.selected = targets, !.conn = c]
                   /\ UNCHANGED <<disk, orig>>
                \/ /\ disk' \in {disk, [NoSession EXCEPT !.exists = TRUE, !.conn = TRUE]}
                   /\ Leave
      BY <1>8 DEF Connect, Save, SaveFails
    <2>. QED
      BY <1>0, <2>1, <2>2, ReturnSessions DEF SessionsType
  <1>9. CASE StartService
    <2>1. PICK s \in Service, i \in 1 .. Slots, v \in MaybeVersion : mem' = List(mem, s, i, v)
      <3>1. First(todo) \in Service
        BY <1>9, Ordered DEF StartService, TypeOK
      <3>2. None \in MaybeVersion
        BY DEF MaybeVersion
      <3>. QED
        BY <1>0, <1>9, <3>1, <3>2 DEF StartService, FreeSlot
    <2>2. SessionOK(mem')
      <3>1. i \in 0 .. Slots /\ i # 0
        BY ConstantsAssumption
      <3>2. SessionOK(List(mem, s, i, v))
        BY <1>0, <3>1, ListParts
      <3>. QED
        BY <2>1, <3>2
    <2>. QED
      BY <1>0, <1>9, <2>2 DEF StartService, SessionsType
  <1>10. CASE Verify
    <2>. DEFINE verified == [mem EXCEPT !.fp =
                               [s \in Service |-> IF s \in started THEN fps[s] ELSE @[s]]]
    <2>1. SessionOK(verified)
      <3>1. fps \in [Service -> MaybeVersion] /\ started \subseteq Listed(mem)
        BY <1>10, TypeParts DEF LocalsType, WorkInv, Starting, Verify
      <3>. QED
        BY <1>0, <3>1 DEF SessionOK, Session, Listed
    <2>2. /\ token' = token /\ disk' \in {disk, verified}
          /\ Leave \/ (mem' \in {mem, verified} /\ orig' = orig)
      BY <1>10 DEF Verify, Save, SaveFails, Abort, Rollback
    <2>. QED
      BY <1>0, <2>1, <2>2, ReturnSessions DEF SessionsType
  <1>11. CASE StartWatcher \/ SaveHot \/ RollbackHot \/ StopHot \/ CleanupHot
    <2>1. /\ token' = token /\ disk' \in {disk, mem}
          /\ \/ Leave
             \/ orig' = orig /\ \E h \in Watcher \cup {None} : mem' \in {mem, [mem EXCEPT !.hot = h]}
      BY <1>11
         DEF StartWatcher, SaveHot, RollbackHot, StopHot, CleanupHot, Killed, Save, SaveFails
    <2>2. \A h \in Watcher \cup {None} : SessionOK([mem EXCEPT !.hot = h])
      BY <1>0, FlagsType
    <2>. QED
      BY <1>0, <2>1, <2>2, ReturnSessions DEF SessionsType
  <1>12. CASE RollbackSave \/ CleanupSave \/ StopSave
    <2>1. \A S, k : k \in BOOLEAN => SessionOK([Keep(mem, S) EXCEPT !.conn = @ /\ k])
      BY <1>0, KeepParts, FlagsType
    <2>2. \A S : SessionOK(Keep(mem, S))
      BY <1>0, KeepParts
    <2>3. /\ token' = token /\ Leave
          /\ \/ disk' \in {disk, NoSession, mem}
             \/ \E S : disk' = Keep(mem, S)
             \/ \E S, k : k \in BOOLEAN /\ disk' = [Keep(mem, S) EXCEPT !.conn = @ /\ k]
      BY <1>12 DEF RollbackSave, CleanupSave, StopSave, SaveOrClear, SaveFails
    <2>. QED
      BY <1>0, <2>1, <2>2, <2>3, ReturnSessions
  <1>13. CASE RestoreStop
    <2>1. Last(todo) \in Service
      BY <1>13, Ordered DEF RestoreStop, TypeOK
    <2>2. SessionOK(List(mem, Last(todo), orig.services[Last(todo)], orig.fp[Last(todo)]))
      BY <1>0, <2>1, ListParts
    <2>. QED
      BY <1>0, <1>13, <2>2 DEF RestoreStop, SessionsType
  <1>14. CASE StopLast
    <2>. DEFINE left == Keep(mem, (Listed(mem) \ targets) \cup failed)
    <2>1. SessionOK(left) /\ left.conn \in BOOLEAN
      BY <1>0, KeepParts
    <2>2. \A k \in BOOLEAN : /\ SessionOK([left EXCEPT !.hot = None, !.conn = @ /\ k])
                             /\ SessionOK([left EXCEPT !.conn = @ /\ k])
      <3> HIDE DEF left
      <3>. QED
        BY <2>1, FlagsType
    <2>3. /\ UNCHANGED <<disk, token, orig>>
          /\ \/ mem' = left
             \/ \E k \in BOOLEAN : mem' \in {[left EXCEPT !.hot = None, !.conn = @ /\ k],
                                             [left EXCEPT !.conn = @ /\ k]}
      BY <1>14 DEF StopLast
    <2>. QED
      BY <1>0, <2>1, <2>2, <2>3 DEF SessionsType
  <1>15. CASE UNCHANGED vars
    BY <1>0, <1>15 DEF SessionsType
  <1>. QED
    BY <1>1, <1>2, <1>3, <1>4, <1>5, <1>6, <1>7, <1>8, <1>9, <1>10, <1>11, <1>12, <1>13, <1>14,
       <1>15 DEF Next, Step

(* A killed command leaves processes, and the processes are still there.     *)
LEMMA KilledWorld ==
  ASSUME WorldType, Killed
  PROVE  orphan' \subseteq Proc /\ faults' \in FaultSets
  BY DEF WorldType, Killed

LEMMA WorldStep ==
  ASSUME TypeOK, [Next]_vars
  PROVE  WorldType'
  <1> USE DEF vars, world, locals, command, rest, Goto
  <1>0. WorldType
    BY TypeParts
  <1>1. CASE UserCommand \/ WatcherRestarts
    BY <1>0, <1>1, Begins DEF WorldType
  <1>2. CASE Environment
    <2>1. CASE \E p \in Proc \cup Watcher : ProcessEnds(p) \/ WatcherExits(p)
      BY <1>0, <2>1 DEF ProcessEnds, WatcherExits, Unaffected, WorldType
    <2>2. CASE \E s \in Service : Edit(s)
      BY <1>0, <2>2 DEF Edit, Unaffected, WorldType
    <2>3. CASE Crash
      BY <1>0, <2>3, KilledWorld DEF Crash, WorldType
    <2>. QED
      BY <1>2, <2>1, <2>2, <2>3 DEF Environment
  <1>3. CASE ReplaceStop \/ RollbackStop \/ CleanupStop \/ StopServices
    BY <1>0, <1>3, Loops, StopsListedCalm DEF StopTodo, Calms, WorldType
  <1>4. CASE ReplaceHot \/ RollbackHot \/ StopHot
    BY <1>0, <1>4, StopsWatcherCalm DEF ReplaceHot, RollbackHot, StopHot, Calms, WorldType
  <1>5. CASE StopLast
    BY <1>0, <1>5, StopsWatcherCalm DEF StopLast, Calms, WorldType
  <1>6. CASE SaveHot
    BY <1>0, <1>6, StopsWatcherCalm DEF SaveHot, Calms, WorldType
  <1>7. CASE CleanupHot
    <2>1. CASE mem.hot = actor
      BY <1>0, <1>7, <2>1, KilledWorld DEF CleanupHot, WorldType
    <2>2. CASE mem.hot # actor
      BY <1>0, <1>7, <2>2, StopsWatcherCalm DEF CleanupHot, Calms, WorldType
    <2>. QED
      BY <2>1, <2>2
  <1>8. CASE RestoreStop \/ RestartStop
    BY <1>0, <1>8, StopsListedCalm DEF RestoreStop, RestartStop, Calms, WorldType
  <1>9. CASE StartService
    <2>1. artifact \in [Service -> MaybeVersion]
      BY TypeParts DEF LocalsType
    <2>2. \E s \in Service, i \in 1 .. Slots :
             /\ os' = [os EXCEPT ![<<s, i>>] = "up"]
             /\ built' = [built EXCEPT ![s] = artifact[s]]
             /\ unbuilt' = IF skip THEN unbuilt \cup {s} ELSE unbuilt \ {s}
             /\ orphan' = orphan \ {<<s, i>>}
             /\ UNCHANGED <<source, faults>>
      <3>1. First(todo) \in Service
        BY <1>9, Ordered DEF StartService, TypeOK
      <3>. QED
        BY <1>9, <3>1 DEF StartService, FreeSlot
    <2>. QED
      BY <1>0, <2>1, <2>2 DEF WorldType
  <1>10. CASE StartWatcher
    BY <1>0, <1>10 DEF StartWatcher, WorldType
  <1>11. CASE ReplaceSave \/ ReleaseOld \/ ClearOld \/ Connect \/ SaveNew \/ Fingerprint \/ Build
              \/ PrepareFails \/ StartServiceFails \/ SaveStarted \/ Verify \/ VerifyFails
    <2>1. UNCHANGED <<os, source, built, unbuilt, orphan, faults>>
      BY <1>11 DEF ReplaceSave, ReleaseOld, ClearOld, Connect, SaveNew, Fingerprint, Build,
                   PrepareFails, StartServiceFails, SaveStarted, Verify, VerifyFails
    <2>. QED
      BY <1>0, <2>1 DEF WorldType
  <1>12. CASE FinalCheck \/ WatcherKept \/ StartWatcherFails \/ FinishStart \/ FinishRestart
              \/ RollbackSave \/ RestoreSave \/ CleanupSave \/ StopSave \/ UNCHANGED vars
    <2>1. UNCHANGED <<os, source, built, unbuilt, orphan, faults>>
      BY <1>12 DEF FinalCheck, WatcherKept, StartWatcherFails, FinishStart, FinishRestart,
                   RollbackSave, RestoreSave, CleanupSave, StopSave
    <2>. QED
      BY <1>0, <2>1 DEF WorldType
  <1>. QED
    BY <1>1, <1>2, <1>3, <1>4, <1>5, <1>6, <1>7, <1>8, <1>9, <1>10, <1>11, <1>12 DEF Next, Step

(* A command that begins, goes on to a step or returns keeps its locals      *)
(* typed.                                                                    *)
LEMMA ReturnLocals ==
  ASSUME Leave, artifact' \in [Service -> MaybeVersion]
  PROVE  LocalsType'
  BY NoSessionType DEF Leave, LocalsType

LEMMA ReturnTodo ==
  ASSUME Leave
  PROVE  TodoType'
  BY DEF Leave, TodoType

LEMMA GotoLocals ==
  ASSUME LocalsType, pc # "idle", pc' \in Steps, UNCHANGED <<command, targets, forced>>,
         started' \subseteq Service, retained' \in BOOLEAN,
         fps' \in [Service -> MaybeVersion], artifact' \in [Service -> MaybeVersion]
  PROVE  LocalsType'
  BY DEF LocalsType, Steps, command

LEMMA BeginLocals ==
  ASSUME LocalsType, NEW who \in Actor, NEW what \in {"start", "restart", "stop"},
         NEW step \in Steps, Begin(who, what, step), targets' \subseteq Service,
         fps' \in [Service -> MaybeVersion], retained' \in BOOLEAN, forced' \in BOOLEAN
  PROVE  LocalsType'
  <1>1. None \notin Actor /\ step # "idle"
    BY ConstantsAssumption DEF Steps
  <1>2. artifact' \in [Service -> MaybeVersion] /\ started' = {}
    BY DEF Begin, LocalsType
  <1>3. pc' = step /\ actor' = who /\ kind' = what
    BY DEF Begin
  <1>4. skip' \in BOOLEAN
    BY DEF Begin
  <1>. QED
    BY <1>1, <1>2, <1>3, <1>4 DEF LocalsType

LEMMA LocalsStep ==
  ASSUME TypeOK, WorkInv, [Next]_vars
  PROVE  LocalsType'
  <1> USE DEF vars, world, locals, command, rest, Goto
  <1>0. LocalsType
    BY TypeParts
  <1>0a. /\ targets \subseteq Service /\ started \subseteq Service
         /\ retained \in BOOLEAN /\ \A k \in BOOLEAN : (retained /\ k) \in BOOLEAN
         /\ fps \in [Service -> MaybeVersion] /\ artifact \in [Service -> MaybeVersion]
         /\ \A s \in Service : source[s] \in MaybeVersion
         /\ None \in MaybeVersion
    BY <1>0, TypeParts DEF LocalsType, WorldType, MaybeVersion
  <1> DEFINE Left == Leave /\ artifact' \in {artifact, Reset, NoVersions}
  <1>0b. \A x \in {artifact, Reset, NoVersions} : x \in [Service -> MaybeVersion]
    BY <1>0a, NoSessionType DEF Reset
  <1>0c. Left => LocalsType'
    BY <1>0b, ReturnLocals
  <1>1. CASE UserCommand \/ WatcherRestarts
    <2>0. /\ Cli \in Actor /\ Watcher \subseteq Actor /\ NoVersions \in [Service -> MaybeVersion]
          /\ {"release", "replaceHot", "stopHot", "stopServices", "hot", "build"} \subseteq Steps
      BY NoSessionType DEF Actor, Steps
    <2>1. CASE AskReplacement \/ Decline
      BY <1>0, <2>1 DEF AskReplacement, Decline, LocalsType
    <2>2. ASSUME NEW S \in SUBSET Service, StartFresh(S)
          PROVE  LocalsType'
      BY <1>0, <2>0, <2>2, BeginLocals DEF StartFresh
    <2>3. ASSUME NEW S \in SUBSET Service, StartReplacement(S)
          PROVE  LocalsType'
      <3>1. disk.conn \in BOOLEAN
        BY TypeParts DEF SessionsType, SessionOK, Session
      <3>. QED
        BY <1>0, <2>0, <2>3, <3>1, BeginLocals DEF StartReplacement
    <2>4. ASSUME NEW S \in SUBSET Service, NEW all \in BOOLEAN, NEW force \in BOOLEAN,
                 Stop(S, all, force)
          PROVE  LocalsType'
      BY <1>0, <2>0, <2>4, BeginLocals DEF Stop
    <2>5. ASSUME NEW who \in Actor, NEW S \in SUBSET Service, NEW R \in SUBSET Service,
                 Restart(who, S, R)
          PROVE  LocalsType'
      <3>1. targets' \subseteq Service
        <4>1. Planned(disk) \subseteq Service
          BY TypeParts DEF SessionsType, SessionOK, Session, Planned, Listed
        <4>. QED
          BY <2>5, <4>1 DEF Restart, RestartTargets
      <3>2. fps' \in [Service -> MaybeVersion]
        BY <1>0a, <2>5 DEF Restart
      <3>. QED
        BY <1>0, <2>0, <2>5, <3>1, <3>2, BeginLocals DEF Restart
    <2>. QED
      <3>1. CASE UserCommand
        BY <2>0, <2>1, <2>2, <2>3, <2>4, <2>5, <3>1 DEF UserCommand
      <3>2. CASE WatcherRestarts
        BY <2>0, <2>5, <3>2 DEF WatcherRestarts
      <3>. QED
        BY <1>1, <3>1, <3>2
  <1>2. CASE Environment
    <2>1. Left \/ UNCHANGED <<pc, command, locals>>
      BY <1>2, Surroundings DEF Unaffected, Crash, Killed
    <2>. QED
      <3> HIDE DEF Left
      <3>. QED
        BY <1>0, <1>0c, <2>1 DEF LocalsType
  <1>3. CASE ReplaceStop \/ RollbackStop \/ CleanupStop \/ StopServices \/ UNCHANGED vars
    <2>1. UNCHANGED <<pc, command, locals>>
      BY <1>3 DEF ReplaceStop, RollbackStop, CleanupStop, StopServices, StopTodo
    <2>. QED
      BY <1>0, <2>1 DEF LocalsType
  <1>4. CASE ReplaceHot \/ ReplaceSave \/ ReleaseOld \/ SaveNew \/ PrepareFails
             \/ StartServiceFails \/ SaveStarted \/ VerifyFails \/ FinalCheck \/ WatcherKept
    <2>1. \/ Left
          \/ pc # "idle" /\ pc' \in Steps /\ UNCHANGED <<command, locals>>
      BY <1>4 DEF ReplaceHot, ReplaceSave, ReleaseOld, SaveNew, PrepareFails,
                  StartServiceFails, SaveStarted, VerifyFails, FinalCheck, WatcherKept, Abort,
                  Undo,
                  Rollback, RollbackGroup, Steps
    <2>. QED
      <3> HIDE DEF Left
      <3>. QED
        BY <1>0, <1>0a, <1>0c, <2>1, GotoLocals
  <1>5. CASE StartWatcher \/ StartWatcherFails \/ SaveHot \/ FinishStart \/ FinishRestart
             \/ RollbackHot \/ RollbackSave \/ RestoreStop \/ RestoreSave \/ CleanupHot
             \/ CleanupSave \/ StopHot \/ StopLast \/ StopSave \/ RestartStop
    <2>1. \/ Left
          \/ pc # "idle" /\ pc' \in Steps /\ UNCHANGED <<command, locals>>
      BY <1>5
         DEF StartWatcher, StartWatcherFails, SaveHot, FinishStart, FinishRestart, RollbackHot,
                  RollbackSave, RestoreStop, RestoreSave, CleanupHot, CleanupSave, StopHot,
                  StopLast,
                  StopSave, RestartStop, Abort, Rollback, Killed, Steps
    <2>. QED
      <3> HIDE DEF Left
      <3>. QED
        BY <1>0, <1>0a, <1>0c, <2>1, GotoLocals
  <1>6. CASE Connect
    <2>1. \/ Left
          \/ /\ pc # "idle" /\ pc' \in Steps /\ retained' \in BOOLEAN
             /\ UNCHANGED <<command, targets, forced, started, fps, artifact>>
      BY <1>0a, <1>6 DEF Connect, Steps
    <2>. QED
      <3> HIDE DEF Left
      <3>. QED
        BY <1>0, <1>0a, <1>0c, <2>1, GotoLocals
  <1>7. CASE Fingerprint \/ Build \/ StartService
    <2>1. First(todo) \in Service
      BY <1>7, Ordered DEF Fingerprint, Build, StartService, TypeOK
    <2>2. /\ pc # "idle" /\ pc' \in Steps /\ started' \subseteq Service
          /\ fps' \in [Service -> MaybeVersion] /\ artifact' \in [Service -> MaybeVersion]
          /\ UNCHANGED <<command, targets, forced, retained>>
      BY <1>0a, <1>7, <2>1 DEF Fingerprint, Build, StartService, Steps
    <2>. QED
      BY <1>0, <1>0a, <2>2, GotoLocals
  <1>8. CASE Verify
    <2>1. \/ Left
          \/ /\ pc # "idle" /\ pc' \in Steps /\ started' \in {started, {}}
             /\ UNCHANGED <<command, targets, forced, retained, fps, artifact>>
      BY <1>8 DEF Verify, Abort, Rollback, Steps
    <2>. QED
      <3> HIDE DEF Left
      <3>. QED
        BY <1>0, <1>0a, <1>0c, <2>1, GotoLocals
  <1>9. CASE ClearOld
    <2>1. \/ Left
          \/ /\ pc # "idle" /\ pc' \in Steps /\ artifact' = Reset
             /\ UNCHANGED <<command, targets, forced, retained, started, fps>>
      BY <1>9 DEF ClearOld, Steps
    <2>. QED
      <3> HIDE DEF Left
      <3>. QED
        BY <1>0, <1>0a, <1>0b, <1>0c, <2>1, GotoLocals
  <1>. QED
    BY <1>1, <1>2, <1>3, <1>4, <1>5, <1>6, <1>7, <1>8, <1>9 DEF Next, Step

(* A loop has work left where its step needs some.                           *)
LEMMA TodoStep ==
  ASSUME TypeOK, KindInv, WorkInv, [Next]_vars
  PROVE  TodoType'
  <1> USE DEF vars, world, locals, command, rest, Goto
  <1>0. /\ TodoType /\ targets \subseteq Service /\ started \subseteq Service
        /\ \A x \in {disk, mem} : Listed(x) \subseteq Service
    BY TypeParts DEF LocalsType, Listed
  <1>1. CASE UserCommand \/ WatcherRestarts
    <2>1. CASE AskReplacement \/ Decline
      BY <1>0, <2>1 DEF AskReplacement, Decline, TodoType
    <2>2. ASSUME NEW S \in SUBSET Service, StartFresh(S) \/ StartReplacement(S)
          PROVE  TodoType'
      BY <1>0, <2>2 DEF StartFresh, StartReplacement, Begin, TodoType
    <2>3. ASSUME NEW S \in SUBSET Service, NEW all \in BOOLEAN, NEW force \in BOOLEAN,
                 Stop(S, all, force)
          PROVE  TodoType'
      BY <1>0, <2>3 DEF Stop, Begin, TodoType
    <2>4. ASSUME NEW who, NEW S \in SUBSET Service, NEW R, Restart(who, S, R)
          PROVE  TodoType'
      <3>1. Planned(disk) \subseteq Service
        BY TypeParts DEF SessionsType, SessionOK, Session, Planned, Listed
      <3>2. failed' = {} /\ todo' \subseteq Service /\ (todo' = {} => pc' = "hot")
        BY <2>4, <3>1 DEF Restart, RestartTargets, Begin
      <3>. QED
        BY <3>2 DEF TodoType
    <2>. QED
      <3>1. CASE UserCommand
        BY <2>1, <2>2, <2>3, <2>4, <3>1 DEF UserCommand
      <3>2. CASE WatcherRestarts
        BY <2>4, <3>2 DEF WatcherRestarts
      <3>. QED
        BY <1>1, <3>1, <3>2
  <1>2. CASE Environment
    BY <1>0, <1>2, Surroundings, ReturnTodo DEF Unaffected, Crash, Killed, TodoType
  <1>3. CASE ReplaceStop \/ RollbackStop \/ CleanupStop \/ StopServices
    <2>1. pc \in {"replaceStop", "rollbackStop", "cleanupStop", "stopServices"}
      BY <1>3 DEF ReplaceStop, RollbackStop, CleanupStop, StopServices, StopTodo
    <2>. QED
      BY <1>0, <1>3, <2>1, Loops DEF StopTodo, TodoType
  <1>4. CASE SaveNew
    <2>1. targets # {}
      BY <1>4 DEF SaveNew, KindInv, OfStart, WorkInv
    <2>. QED
      BY <1>0, <1>4, <2>1, ReturnTodo DEF SaveNew, TodoType
  <1>5. CASE Build \/ RestartStop
    <2>1. todo \subseteq targets /\ todo # {}
      BY <1>0, <1>5 DEF Build, RestartStop, WorkInv, Building, TodoType
    <2>2. First(todo) \in todo /\ Last(todo) \in todo
      BY <1>0, <2>1, Ordered
    <2>3. \/ Leave
          \/ failed' = failed /\ todo' = targets
          \/ /\ failed' = failed
             /\ \E s \in todo : todo # {s} /\ todo' = todo \ {s}
      BY <1>5, <2>2 DEF Build, RestartStop
    <2>. QED
      BY <1>0, <2>1, <2>3, ReturnTodo DEF TodoType
  <1>6. CASE Fingerprint \/ StartService \/ SaveStarted \/ Verify
    BY <1>0, <1>6, ReturnTodo
    DEF Fingerprint, StartService, SaveStarted, Verify, Undo, Abort, Rollback, RollbackGroup,
        TodoType
  <1>7. CASE ReplaceHot \/ ReplaceSave \/ ReleaseOld \/ ClearOld \/ Connect \/ PrepareFails
             \/ StartServiceFails \/ VerifyFails \/ FinalCheck \/ WatcherKept
    BY <1>0, <1>7, ReturnTodo
    DEF ReplaceHot, ReplaceSave, ReleaseOld, ClearOld, Connect, PrepareFails, StartServiceFails,
        VerifyFails, FinalCheck, WatcherKept, Undo, Abort, Rollback, RollbackGroup, TodoType
  <1>8. CASE StartWatcher \/ StartWatcherFails \/ SaveHot \/ FinishStart \/ FinishRestart
             \/ RollbackHot \/ RollbackSave \/ RestoreStop \/ RestoreSave
    BY <1>0, <1>8, ReturnTodo
    DEF StartWatcher, StartWatcherFails, SaveHot, FinishStart, FinishRestart, RollbackHot,
        RollbackSave, RestoreStop, RestoreSave, Abort, Rollback, TodoType
  <1>9. CASE CleanupHot \/ CleanupSave \/ StopHot \/ StopLast \/ StopSave \/ UNCHANGED vars
    BY <1>0, <1>9, ReturnTodo
    DEF CleanupHot, CleanupSave, StopHot, StopLast, StopSave, Killed, TodoType
  <1>. QED
    BY <1>1, <1>2, <1>3, <1>4, <1>5, <1>6, <1>7, <1>8, <1>9 DEF Next, Step

LEMMA TypeStep ==
  ASSUME TypeOK, KindInv, WorkInv, [Next]_vars
  PROVE  TypeOK'
  BY TypeParts, SessionsStep, WorldStep, LocalsStep, TodoStep, PTL

-----------------------------------------------------------------------------
(* Which command is at which step.                                           *)
LEMMA KindStep ==
  ASSUME TypeOK, KindInv, [Next]_vars
  PROVE  KindInv'
  <1> USE DEF vars, world, locals, command, rest, Goto, KindInv, OfStart, OfRestart, OfStop, Starting,
              Finishing
  <1>1. CASE UserCommand \/ WatcherRestarts
    BY <1>1
       DEF UserCommand, WatcherRestarts, AskReplacement, Decline, StartFresh, StartReplacement,
                Stop, Restart, Begin
  <1>2. CASE Environment
    BY <1>2, Surroundings DEF Unaffected, Crash, Killed, Leave
  <1>3. CASE ReplaceStop \/ RollbackStop \/ CleanupStop \/ StopServices \/ UNCHANGED vars
    <2>1. UNCHANGED <<pc, actor, kind>>
      BY <1>3 DEF ReplaceStop, RollbackStop, CleanupStop, StopServices, StopTodo
    <2>. QED
      BY <2>1
  <1>4. CASE ReplaceHot \/ ReplaceSave \/ ReleaseOld \/ ClearOld \/ Connect \/ SaveNew
    BY <1>4 DEF ReplaceHot, ReplaceSave, ReleaseOld, ClearOld, Connect, SaveNew, Leave
  <1>5. CASE Fingerprint \/ Build \/ PrepareFails \/ StartService \/ StartServiceFails \/ SaveStarted
    BY <1>5
       DEF Fingerprint, Build, PrepareFails, StartService, StartServiceFails, SaveStarted, Undo,
                Abort, Rollback, RollbackGroup, Leave
  <1>6. CASE Verify \/ VerifyFails \/ FinalCheck \/ WatcherKept \/ StartWatcher \/ StartWatcherFails
    BY <1>6
       DEF Verify, VerifyFails, FinalCheck, WatcherKept, StartWatcher, StartWatcherFails, Undo,
                Abort, Rollback, RollbackGroup, Leave
  <1>7. CASE SaveHot \/ FinishStart \/ FinishRestart \/ RollbackHot \/ RollbackSave
    BY <1>7 DEF SaveHot, FinishStart, FinishRestart, RollbackHot, RollbackSave, Rollback, Leave
  <1>8. CASE RestoreStop \/ RestoreSave \/ CleanupHot \/ CleanupSave \/ StopHot \/ StopLast \/ StopSave
             \/ RestartStop
    BY <1>8 DEF RestoreStop, RestoreSave, CleanupHot, CleanupSave, StopHot, StopLast, StopSave,
                RestartStop, Killed, Leave
  <1>. QED
    BY <1>1, <1>2, <1>3, <1>4, <1>5, <1>6, <1>7, <1>8 DEF Next, Step

(* Work left is work on the targets.                                         *)
LEMMA WorkStep ==
  ASSUME TypeOK, KindInv, WorkInv, [Next]_vars
  PROVE  WorkInv'
  <1> USE DEF vars, world, locals, command, rest, Goto, Building, Starting, Replacing, BeforeStart
  <1>1. CASE UserCommand \/ WatcherRestarts
    <2>1. CASE AskReplacement \/ Decline
      BY <2>1 DEF AskReplacement, Decline, WorkInv
    <2>2. ASSUME NEW S \in (SUBSET Service) \ {{}}, StartFresh(S) \/ StartReplacement(S)
          PROVE  WorkInv'
      BY <2>2 DEF StartFresh, StartReplacement, Begin, WorkInv
    <2>3. ASSUME NEW S, NEW all, NEW force, Stop(S, all, force)
          PROVE  WorkInv'
      BY <2>3 DEF Stop, Begin, WorkInv
    <2>4. ASSUME NEW who, NEW S, NEW R, Restart(who, S, R)
          PROVE  WorkInv'
      BY <2>4 DEF Restart, Begin, WorkInv
    <2>. QED
      BY <1>1, <2>1, <2>2, <2>3, <2>4 DEF UserCommand, WatcherRestarts
  <1>2. CASE Environment
    BY <1>2, Surroundings DEF Unaffected, Crash, Killed, Leave, WorkInv
  <1>3. CASE ReplaceStop \/ RollbackStop \/ CleanupStop \/ StopServices
    <2>1. /\ UNCHANGED <<pc, kind, locals>>
          /\ pc \in {"replaceStop", "rollbackStop", "cleanupStop", "stopServices"}
      BY <1>3 DEF ReplaceStop, RollbackStop, CleanupStop, StopServices, StopTodo
    <2>. QED
      BY <2>1 DEF WorkInv
  <1>4. CASE ReplaceHot \/ ReplaceSave \/ ReleaseOld \/ ClearOld \/ Connect \/ SaveNew \/ UNCHANGED vars
    BY <1>4 DEF ReplaceHot, ReplaceSave, ReleaseOld, ClearOld, Connect, SaveNew, Leave, WorkInv
  <1>5. CASE Fingerprint \/ Build \/ PrepareFails
    BY <1>5 DEF Fingerprint, Build, PrepareFails, Abort, Rollback, Leave, WorkInv
  <1>6. CASE StartService
    <2>1. First(todo) \in todo
      BY <1>6, Ordered DEF StartService, TypeOK
    <2>2. PICK i \in 1 .. Slots, v \in MaybeVersion : mem' = List(mem, First(todo), i, v)
      BY <1>6, <2>1 DEF StartService, FreeSlot, MaybeVersion, TypeOK, Session
    <2>3. Listed(mem') = Listed(mem) \cup {First(todo)}
      BY <2>1, <2>2 DEF List, Listed, TypeOK, Session
    <2>. QED
      BY <1>6, <2>1, <2>3 DEF StartService, WorkInv
  <1>7. CASE StartServiceFails \/ SaveStarted \/ Verify \/ VerifyFails
    BY <1>7 DEF StartServiceFails, SaveStarted, Verify, VerifyFails, Undo, Abort, Rollback,
                RollbackGroup, Leave, WorkInv, KindInv
  <1>8. CASE FinalCheck \/ WatcherKept \/ StartWatcher \/ StartWatcherFails \/ SaveHot \/ FinishStart
             \/ FinishRestart \/ RollbackHot \/ RollbackSave
    BY <1>8 DEF FinalCheck, WatcherKept, StartWatcher, StartWatcherFails, SaveHot, FinishStart,
                FinishRestart, RollbackHot, RollbackSave, Abort, Rollback, Leave, WorkInv
  <1>9. CASE RestoreStop \/ RestoreSave \/ CleanupHot \/ CleanupSave \/ StopHot \/ StopLast \/ StopSave
             \/ RestartStop
    BY <1>9 DEF RestoreStop, RestoreSave, CleanupHot, CleanupSave, StopHot, StopLast, StopSave,
                RestartStop, Killed, Leave, WorkInv
  <1>. QED
    BY <1>1, <1>2, <1>3, <1>4, <1>5, <1>6, <1>7, <1>8, <1>9 DEF Next, Step

-----------------------------------------------------------------------------
(* Processes.                                                                *)

LEMMA Processes ==
  /\ \A p \in Proc : p[1] \in Service /\ p[2] \in 1 .. Slots /\ p = <<p[1], p[2]>>
  /\ \A s \in Service, i \in 1 .. Slots : <<s, i>> \in Proc
  /\ \A p \in Proc : p \notin Watcher
  BY ConstantsAssumption DEF Proc

(* What a session lists is a process, and a process it names is the one it   *)
(* lists.                                                                    *)
LEMMA ListedProcess ==
  ASSUME NEW x \in Session
  PROVE  /\ \A s \in Service : x.services[s] # 0 => Process(x, s) \in Proc
         /\ \A p \in Proc : Names(x, p) => p = Process(x, p[1]) /\ x.services[p[1]] # 0
         /\ \A p \in Proc, s \in Service : p = Process(x, s) => p[1] = s /\ p[2] = x.services[s]
  <1>1. \A s \in Service : x.services[s] \in 0 .. Slots
    BY DEF Session
  <1>2. \A s \in Service : x.services[s] # 0 => x.services[s] \in 1 .. Slots
    BY <1>1, ConstantsAssumption
  <1>. QED
    BY <1>2, Processes DEF Process, Names

(* No process comes to life but by StartService, and none resists being      *)
(* stopped unless processes may.                                             *)
Calmer ==
    /\ \A p \in Proc : os[p] = "off" => os'[p] = "off"
    /\ \A p \in Proc : os'[p] = "up" => os[p] = "up"
    /\ \A p \in Proc : os'[p] = "stuck" => os[p] = "stuck" \/ May("stopFails") \/ May("stuck")

LEMMA StopsCalmer ==
  ASSUME TypeOK, ResistInv, NEW q, Stops(q) \/ StopFails(q), q \in Proc \cup Watcher
  PROVE  Calmer
  <1>1. os \in [Proc \cup Watcher -> {"off", "up", "stuck"}]
    BY DEF TypeOK
  <1>2. CASE Stops(q)
    BY <1>1, <1>2 DEF Stops, Calmer
  <1>3. CASE StopFails(q) /\ q \in Proc
    BY <1>1, <1>3 DEF StopFails, Calmer, ResistInv
  <1>4. CASE StopFails(q) /\ q \in Watcher
    BY <1>1, <1>4, Processes DEF StopFails, Calmer
  <1>. QED
    BY <1>2, <1>3, <1>4

LEMMA Loosening ==
  ASSUME TypeOK, ResistInv, [Next]_vars
  PROVE  Calmer \/ StartService
  <1> USE DEF vars, world, locals, command, rest
  <1>1. UNCHANGED os => Calmer
    BY DEF Calmer
  <1>2. ASSUME NEW s \in Service, StopsListed(mem, s) \/ StopListedFails(mem, s)
        PROVE  Calmer
    BY <1>1, <1>2, StopsCalmer, ListedProcess DEF StopsListed, StopListedFails, TypeOK
  <1>3. ASSUME StopsWatcher(mem) \/ StopWatcherFails(mem)
        PROVE  Calmer
    <2>1. mem.hot # None => mem.hot \in Watcher
      BY DEF TypeOK, Session
    <2>. QED
      BY <1>1, <1>3, <2>1, StopsCalmer DEF StopsWatcher, StopWatcherFails
  <1>4. CASE UserCommand \/ WatcherRestarts
    BY <1>1, <1>4, Begins
  <1>5. CASE Environment
    <2>1. os \in [Proc \cup Watcher -> {"off", "up", "stuck"}]
      BY DEF TypeOK
    <2>2. CASE \E p \in Proc \cup Watcher : ProcessEnds(p) \/ WatcherExits(p)
      BY <2>1, <2>2 DEF ProcessEnds, WatcherExits, Calmer
    <2>3. CASE Crash
      BY <2>1, <2>3 DEF Crash, Calmer
    <2>. QED
      BY <1>1, <1>5, <2>2, <2>3 DEF Environment, Edit
  <1>5a. todo # {} => First(todo) \in Service /\ Last(todo) \in Service
    BY Ordered DEF TypeOK
  <1>6. CASE ReplaceStop \/ RollbackStop \/ CleanupStop \/ StopServices
    BY <1>2, <1>5a, <1>6 DEF ReplaceStop, RollbackStop, CleanupStop, StopServices, StopTodo
  <1>7. CASE RestoreStop \/ RestartStop
    BY <1>1, <1>2, <1>5a, <1>7 DEF RestoreStop, RestartStop
  <1>8. CASE ReplaceHot \/ SaveHot \/ RollbackHot \/ StopHot \/ StopLast
    BY <1>1, <1>3, <1>8 DEF ReplaceHot, SaveHot, RollbackHot, StopHot, StopLast
  <1>9. CASE CleanupHot
    <2>1. CASE os' = [os EXCEPT ![actor] = "off"]
      BY <2>1 DEF Calmer, TypeOK
    <2>. QED
      BY <1>3, <1>9, <2>1 DEF CleanupHot
  <1>10. CASE StartWatcher
    BY <1>10, Processes DEF StartWatcher, Calmer, TypeOK
  <1>11. CASE ReplaceSave \/ ReleaseOld \/ ClearOld \/ Connect \/ SaveNew \/ Fingerprint \/ Build
              \/ PrepareFails \/ StartServiceFails \/ SaveStarted \/ Verify \/ VerifyFails
    BY <1>1, <1>11 DEF ReplaceSave, ReleaseOld, ClearOld, Connect, SaveNew, Fingerprint, Build,
                       PrepareFails, StartServiceFails, SaveStarted, Verify, VerifyFails
  <1>12. CASE FinalCheck \/ WatcherKept \/ StartWatcherFails \/ FinishStart \/ FinishRestart
              \/ RollbackSave \/ RestoreSave \/ CleanupSave \/ StopSave \/ UNCHANGED vars
    BY <1>1, <1>12 DEF FinalCheck, WatcherKept, StartWatcherFails, FinishStart, FinishRestart,
                       RollbackSave, RestoreSave, CleanupSave, StopSave
  <1>. QED
    BY <1>4, <1>5, <1>6, <1>7, <1>8, <1>9, <1>10, <1>11, <1>12 DEF Next, Step

(* Without faults that make processes resist, no stop of a service fails.    *)
LEMMA NothingResists ==
  ASSUME TypeOK, ResistInv, ~May("stopFails"), ~May("stuck"), NEW s \in Service
  PROVE  ~StopListedFails(mem, s)
  BY ListedProcess DEF TypeOK, ResistInv, StopListedFails, StopFails

LEMMA FaultsKept ==
  ASSUME [Next]_vars
  PROVE  faults' = faults
  <1> USE DEF vars, rest, Killed
  <1>1. CASE UserCommand \/ WatcherRestarts
    BY <1>1, Begins
  <1>2. CASE Environment
    BY <1>2 DEF Environment, ProcessEnds, WatcherExits, Edit, Unaffected, Crash
  <1>3. CASE ReplaceHot \/ ReplaceStop \/ ReplaceSave \/ ReleaseOld \/ ClearOld \/ Connect \/ SaveNew
             \/ Fingerprint \/ Build \/ PrepareFails \/ StartService \/ StartServiceFails \/ SaveStarted
    BY <1>3
       DEF ReplaceHot, ReplaceStop, ReplaceSave, ReleaseOld, ClearOld, Connect, SaveNew,
           StopTodo,
                Fingerprint, Build, PrepareFails, StartService, StartServiceFails, SaveStarted
  <1>4. CASE Verify \/ VerifyFails \/ FinalCheck \/ WatcherKept \/ StartWatcher \/ StartWatcherFails
             \/ SaveHot \/ FinishStart \/ FinishRestart \/ RollbackHot \/ RollbackStop \/ RollbackSave
    BY <1>4
       DEF Verify, VerifyFails, FinalCheck, WatcherKept, StartWatcher, StartWatcherFails,
           SaveHot,
                FinishStart, FinishRestart, RollbackHot, RollbackStop, RollbackSave, StopTodo
  <1>5. CASE RestoreStop \/ RestoreSave \/ CleanupHot \/ CleanupStop \/ CleanupSave \/ StopHot
             \/ StopServices \/ StopLast \/ StopSave \/ RestartStop \/ UNCHANGED vars
    BY <1>5
       DEF RestoreStop, RestoreSave, CleanupHot, CleanupStop, CleanupSave, StopHot,
           StopServices,
                StopLast, StopSave, RestartStop, StopTodo
  <1>. QED
    BY <1>1, <1>2, <1>3, <1>4, <1>5 DEF Next, Step

LEMMA ResistStep ==
  ASSUME TypeOK, ResistInv, [Next]_vars
  PROVE  ResistInv'
  <1> USE DEF vars, world, locals, command, rest, Goto
  <1>1. SUFFICES ASSUME ~May("stopFails"), ~May("stuck")
                 PROVE  (\A p \in Proc : os'[p] # "stuck") /\ (pc' = "rollbackStop" => failed' = {})
    BY FaultsKept DEF ResistInv, May
  <1>2. \A p \in Proc : os'[p] # "stuck"
    <2>1. CASE Calmer
      BY <1>1, <2>1 DEF Calmer, ResistInv
    <2>2. CASE StartService
      BY <1>1, <2>2 DEF StartService, ResistInv, TypeOK
    <2>. QED
      BY <2>1, <2>2, Loosening
  <1>3. ASSUME pc' = "rollbackStop"
        PROVE  failed' = {}
    <2>1. pc = "rollbackStop" => failed = {}
      BY <1>1 DEF ResistInv
    <2>2. CASE RollbackHot
      BY <2>2 DEF RollbackHot
    <2>3. CASE RollbackStop
      <3>1. todo # {} => Last(todo) \in Service
        BY Ordered DEF TypeOK
      <3>. QED
        BY <1>1, <2>1, <2>3, <3>1, NothingResists DEF RollbackStop, StopTodo
    <2>4. CASE UserCommand \/ WatcherRestarts
      BY <1>3, <2>1, <2>4 DEF UserCommand, WatcherRestarts, AskReplacement, Decline, StartFresh,
                              StartReplacement, Stop, Restart, Begin
    <2>5. CASE Environment
      BY <1>3, <2>1, <2>5, Surroundings DEF Unaffected, Crash, Killed, Leave
    <2>6. CASE ReplaceHot \/ ReplaceStop \/ ReplaceSave \/ ReleaseOld \/ ClearOld \/ Connect \/ SaveNew
               \/ Fingerprint \/ Build \/ PrepareFails \/ StartService \/ StartServiceFails
               \/ SaveStarted
      BY <1>3, <2>6
         DEF ReplaceHot, ReplaceStop, ReplaceSave, ReleaseOld, ClearOld, Connect, SaveNew,
                Fingerprint, Build, PrepareFails, StartService, StartServiceFails, SaveStarted,
                StopTodo, Abort, Undo, Rollback, RollbackGroup, Leave
    <2>7. CASE Verify \/ VerifyFails \/ FinalCheck \/ WatcherKept \/ StartWatcher \/ StartWatcherFails
               \/ SaveHot \/ FinishStart \/ FinishRestart \/ RollbackSave
      BY <1>3, <2>7
         DEF Verify, VerifyFails, FinalCheck, WatcherKept, StartWatcher, StartWatcherFails,
                SaveHot, FinishStart, FinishRestart, RollbackSave, Abort, Undo, Rollback,
                RollbackGroup, Leave
    <2>8. CASE RestoreStop \/ RestoreSave \/ CleanupHot \/ CleanupStop \/ CleanupSave \/ StopHot
               \/ StopServices \/ StopLast \/ StopSave \/ RestartStop
      BY <1>3, <2>8 DEF RestoreStop, RestoreSave, CleanupHot, CleanupStop, CleanupSave, StopHot,
                StopServices, StopLast, StopSave, RestartStop, StopTodo, Killed, Leave
    <2>9. CASE UNCHANGED vars
      BY <1>3, <2>1, <2>9
    <2>. QED
      BY <2>2, <2>3, <2>4, <2>5, <2>6, <2>7, <2>8, <2>9 DEF Next, Step
  <1>. QED
    BY <1>2, <1>3

-----------------------------------------------------------------------------
(* No process is lost: KnownInv, SavedInv and DownInv, where what cannot be  *)
(* stopped can be written.                                                   *)

Kept == KnownInv /\ SavedInv /\ DownInv

(* A command returns when the file names what is alive and in its copy.      *)
LEMMA ReturnKept ==
  ASSUME TypeOK, KnownInv, pc # "idle", Leave, Calmer, UNCHANGED orphan,
         \A s \in Service : mem.services[s] # 0 /\ os'[Process(mem, s)] # "off"
                               => \/ disk'.services[s] = mem.services[s]
                                  \/ Process(mem, s) \in orphan
  PROVE  Kept'
  <1>1. KnownInv'
    <2>1. SUFFICES ASSUME NEW p \in Proc, os'[p] # "off", p \notin orphan
                   PROVE  disk'.services[p[1]] = p[2]
      BY DEF KnownInv, Knows, Alive, Names, Leave
    <2>2. mem.services[p[1]] = p[2]
      BY <2>1 DEF KnownInv, Knows, Alive, Names, Calmer
    <2>3. p[1] \in Service /\ p = Process(mem, p[1]) /\ mem.services[p[1]] # 0
      BY <2>2, Processes, ListedProcess DEF TypeOK, Names
    <2>. QED
      BY <2>1, <2>2, <2>3
  <1>2. SavedInv'
    BY NoSessionType DEF SavedInv, Saved, Leave, NoSlots
  <1>3. DownInv'
    BY DEF DownInv, Leave, Quiet, Starting
  <1>. QED
    BY <1>1, <1>2, <1>3 DEF Kept

(* It may return without writing the file where everything is saved.         *)
LEMMA ReturnUnsaved ==
  ASSUME TypeOK, KnownInv, pc # "idle", Leave, Calmer, UNCHANGED <<orphan, disk>>,
         \A s \in Service : Saved(s)
  PROVE  Kept'
  <1>1. ASSUME NEW s \in Service, mem.services[s] # 0, os'[Process(mem, s)] # "off"
        PROVE  disk'.services[s] = mem.services[s] \/ Process(mem, s) \in orphan
    BY <1>1, ListedProcess DEF Saved, Alive, Calmer, TypeOK
  <1>. QED
    BY <1>1, ReturnKept

(* What is known, saved and gone stays so while nothing comes to life.       *)
LEMMA CalmKnown ==
  ASSUME KnownInv, Calmer, UNCHANGED orphan, pc # "idle", pc' # "idle",
         mem'.services = mem.services
  PROVE  KnownInv'
  BY DEF KnownInv, Knows, Alive, Names, Calmer

LEMMA CalmDown ==
  ASSUME Calmer, UNCHANGED orphan, NEW S, Down(S)
  PROVE  \A p \in Proc : p[1] \in S /\ os'[p] # "off" => p \in orphan'
  BY DEF Down, Alive, Calmer

LEMMA CalmSaved ==
  ASSUME TypeOK, Calmer, UNCHANGED orphan, NEW s \in Service, Saved(s), mem'.services[s] \in {mem.services[s], 0},
         disk'.services[s] = disk.services[s]
  PROVE  Saved(s)'
  BY ListedProcess DEF TypeOK, Saved, Alive, Calmer, Process

(* Stopping the process a session lists for s leaves none of s alive.        *)
LEMMA StoppedDown ==
  ASSUME TypeOK, KnownInv, pc # "idle", NEW s \in Service, StopsListed(mem, s)
  PROVE  \A p \in Proc : p[1] = s /\ os'[p] # "off" => p \in orphan
  <1>1. SUFFICES ASSUME NEW p \in Proc, p[1] = s, os'[p] # "off", p \notin orphan
                 PROVE  FALSE
    OBVIOUS
  <1>2. os[p] # "off"
    BY <1>1, ListedProcess DEF StopsListed, Stops, TypeOK
  <1>3. Names(mem, p)
    BY <1>1, <1>2 DEF KnownInv, Knows, Alive
  <1>4. p = Process(mem, s) /\ mem.services[s] # 0
    BY <1>1, <1>3, ListedProcess DEF TypeOK
  <1>. QED
    BY <1>1, <1>4 DEF StopsListed, Stops, TypeOK

LEMMA CommandsKeep ==
  ASSUME TypeOK, Kept, UserCommand \/ WatcherRestarts
  PROVE  Kept'
  <1> USE DEF world, locals, command, rest
  <1>1. CASE AskReplacement \/ Decline
    BY <1>1
       DEF AskReplacement, Decline, Kept, KnownInv, Knows, Names, Alive, SavedInv, Saved,
           Process,
                DownInv, Down
  <1>2. ASSUME NEW who, NEW what, NEW step, Begin(who, what, step), step # "idle",
               UNCHANGED <<disk, os, orphan>>
        PROVE  /\ KnownInv' /\ SavedInv'
               /\ \A p \in Proc : os'[p] # "off" => p \in orphan \/ Names(disk, p)
               /\ pc' = step /\ kind' = what
    BY <1>2 DEF Begin, Kept, KnownInv, Knows, Names, Alive, SavedInv, Saved, Process
  <1>3. ASSUME NEW S, StartFresh(S)
        PROVE  Kept'
    <2>1. KnownInv' /\ SavedInv' /\ pc' = "release" /\ UNCHANGED <<os, orphan>>
      BY <1>2, <1>3 DEF StartFresh
    <2>2. \A p \in Proc : os[p] # "off" => p \in orphan
      <3>1. \A s \in Service : disk.services[s] # 0 => os[Process(disk, s)] = "off"
        BY <1>3, ListedProcess DEF StartFresh, Up, Stuck, Listed, TypeOK
      <3>2. \A p \in Proc : os[p] # "off" => p \in orphan \/ Names(disk, p)
        BY <1>2, <1>3 DEF StartFresh
      <3>. QED
        BY <3>1, <3>2, ListedProcess, Processes DEF TypeOK
    <2>3. DownInv'
      BY <2>1, <2>2 DEF DownInv, Down, Quiet, Starting, Alive
    <2>. QED
      BY <2>1, <2>3 DEF Kept
  <1>4. ASSUME NEW S, StartReplacement(S)
        PROVE  Kept'
    <2>1. /\ KnownInv' /\ SavedInv' /\ pc' = "replaceHot" /\ UNCHANGED <<os, orphan>>
          /\ todo' = Listed(disk)
      BY <1>2, <1>4 DEF StartReplacement
    <2>2. \A p \in Proc : os[p] # "off" /\ p[1] \notin Listed(disk) => p \in orphan
      <3>1. \A p \in Proc : os[p] # "off" => p \in orphan \/ Names(disk, p)
        BY <1>2, <1>4 DEF StartReplacement
      <3>. QED
        BY <3>1, ListedProcess, Processes DEF Listed, TypeOK
    <2>3. DownInv'
      BY <2>1, <2>2 DEF DownInv, Down, Quiet, Starting, Alive
    <2>. QED
      BY <2>1, <2>3 DEF Kept
  <1>5. ASSUME NEW S, NEW all, NEW force, Stop(S, all, force)
        PROVE  Kept'
    <2>1. /\ KnownInv' /\ SavedInv' /\ pc' \in {"stopHot", "stopServices"}
          /\ targets' \subseteq todo'
      BY <1>2, <1>5 DEF Stop
    <2>2. DownInv'
      BY <2>1 DEF DownInv, Down, Quiet, Starting
    <2>. QED
      BY <2>1, <2>2 DEF Kept
  <1>6. ASSUME NEW who, NEW S, NEW R, Restart(who, S, R)
        PROVE  Kept'
    <2>1. KnownInv' /\ SavedInv' /\ pc' \in {"hot", "build"} /\ kind' = "restart"
      BY <1>2, <1>6 DEF Restart
    <2>2. DownInv'
      BY <2>1 DEF DownInv, Down, Quiet, Starting
    <2>. QED
      BY <2>1, <2>2 DEF Kept
  <1>. QED
    BY <1>1, <1>3, <1>4, <1>5, <1>6 DEF UserCommand, WatcherRestarts

LEMMA EnvironmentKeeps ==
  ASSUME TypeOK, ResistInv, Kept, Environment
  PROVE  Kept'
  <1> USE DEF vars, world, locals, command, rest
  <1>1. CASE Unaffected /\ Calmer
    <2>1. KnownInv'
      BY <1>1 DEF Kept, KnownInv, Knows, Names, Alive, Calmer, Unaffected
    <2>2. \A s \in Service : Saved(s) => Saved(s)'
      BY <1>1, CalmSaved DEF Unaffected
    <2>3. SavedInv'
      BY <1>1, <2>2 DEF Kept, SavedInv, Unaffected, May
    <2>4. DownInv'
      BY <1>1 DEF Kept, DownInv, Down, Alive, Calmer, Unaffected, Quiet, Starting
    <2>. QED
      BY <2>1, <2>3, <2>4 DEF Kept
  <1>2. CASE Crash
    <2>1. KnownInv'
      <3>1. SUFFICES ASSUME NEW p \in Proc, os'[p] # "off", p \notin orphan'
                     PROVE  Names(disk, p)
        BY <1>2 DEF Crash, Killed, Leave, KnownInv, Knows, Alive, Names
      <3>2. os[p] # "off"
        BY <1>2, <3>1 DEF Crash, TypeOK
      <3>. QED
        BY <1>2, <3>1, <3>2 DEF Crash, Killed, Leave, Kept, KnownInv, Knows, Alive
    <2>2. SavedInv'
      BY <1>2, NoSessionType DEF Crash, Killed, SavedInv, Saved, Leave, NoSlots
    <2>3. DownInv'
      BY <1>2 DEF Crash, Killed, DownInv, Leave, Quiet, Starting
    <2>. QED
      BY <2>1, <2>2, <2>3 DEF Kept
  <1>3. StartService => FALSE
    BY Surroundings DEF Unaffected, Crash, Killed, Leave, StartService, Goto
  <1>4. Calmer
    BY <1>3, Loosening DEF Next
  <1>. QED
    BY <1>1, <1>2, <1>4, Surroundings

LEMMA LoopsKeep ==
  ASSUME TypeOK, ResistInv, Kept, ReplaceStop \/ RollbackStop \/ CleanupStop \/ StopServices
  PROVE  Kept'
  <1> USE DEF vars, world, locals, command, rest
  <1>1. PICK s \in todo : StopTodo(pc, s)
    BY Loops
  <1>2. /\ pc \in {"replaceStop", "rollbackStop", "cleanupStop", "stopServices"}
        /\ s \in Service
        /\ UNCHANGED <<disk, mem, pc, kind, targets, orphan, faults>>
        /\ todo' = todo \ {s}
    BY <1>1 DEF ReplaceStop, RollbackStop, CleanupStop, StopServices, StopTodo, TypeOK
  <1>3. Calmer
    <2>1. StartService => FALSE
      BY <1>2 DEF StartService, Goto
    <2>. QED
      BY <2>1, Loosening DEF Next, Step
  <1>4. KnownInv'
    BY <1>2, <1>3, CalmKnown DEF Kept
  <1>5. SavedInv'
    <2>1. \A t \in Service : Saved(t) => Saved(t)'
      BY <1>2, <1>3, CalmSaved
    <2>. QED
      BY <1>2, <2>1 DEF Kept, SavedInv
  <1>6. DownInv'
    <2>1. CASE StopsListed(mem, s) /\ UNCHANGED failed
      <3>1. \A p \in Proc : p[1] = s /\ os'[p] # "off" => p \in orphan
        BY <1>2, <2>1, StoppedDown DEF Kept
      <3>. QED
        BY <1>2, <1>3, <2>1, <3>1 DEF Kept, DownInv, Down, Alive, Calmer, Quiet, Starting
    <2>2. CASE failed' = failed \cup {s}
      BY <1>2, <1>3, <2>2 DEF Kept, DownInv, Down, Alive, Calmer, Quiet, Starting
    <2>. QED
      BY <1>1, <2>1, <2>2 DEF StopTodo
  <1>. QED
    BY <1>4, <1>5, <1>6 DEF Kept

(* Steps that neither touch a process nor change what the command's copy     *)
(* lists.                                                                    *)
LEMMA QuietSteps ==
  ASSUME TypeOK, Kept, pc # "idle", pc' # "idle", UNCHANGED <<orphan, faults>>, Calmer,
         mem'.services = mem.services,
         disk'.services = disk.services \/ disk' = mem \/ disk' = mem'
  PROVE  /\ KnownInv'
         /\ \A s \in Service : Saved(s) => Saved(s)'
         /\ disk' = mem \/ disk' = mem' => \A s \in Service : Saved(s)'
  <1>1. KnownInv'
    BY CalmKnown DEF Kept
  <1>2. \A s \in Service : disk'.services[s] = mem'.services[s] => Saved(s)'
    BY DEF Saved
  <1>3. \A s \in Service : disk'.services = disk.services /\ Saved(s) => Saved(s)'
    BY CalmSaved
  <1>. QED
    BY <1>1, <1>2, <1>3

LEMMA PreparationKeeps ==
  ASSUME TypeOK, KindInv, ResistInv, Kept, [Next]_vars,
         ReplaceHot \/ ReleaseOld \/ SaveNew \/ Fingerprint \/ Build \/ PrepareFails
  PROVE  Kept'
  <1> USE DEF vars, world, locals, command, rest, Goto
  <1>0. Calmer /\ UNCHANGED orphan /\ pc # "idle" /\ faults' = faults
        /\ pc \in {"replaceHot", "release", "saveNew", "fingerprint", "build"}
    <2>1. StartService => FALSE
      BY DEF ReplaceHot, ReleaseOld, SaveNew, Fingerprint, Build, PrepareFails, StartService
    <2>. QED
      BY <2>1, Loosening, FaultsKept
      DEF ReplaceHot, ReleaseOld, SaveNew, Fingerprint, Build, PrepareFails
  <1>1. CASE Leave
    <2>1. disk' = disk
      BY <1>1
         DEF ReplaceHot, ReleaseOld, SaveNew, Fingerprint, Build, PrepareFails, SaveFails, Leave
    <2>. QED
      BY <1>0, <1>1, <2>1, ReturnUnsaved DEF Kept, SavedInv
  <1>2. CASE ~Leave
    <2>1. /\ mem'.services = mem.services /\ pc' # "idle"
          /\ disk' = disk \/ disk' = mem
          /\ UNCHANGED <<kind, targets>>
      BY <1>2
         DEF ReplaceHot, ReleaseOld, SaveNew, Fingerprint, Build, PrepareFails, Save, SaveFails,
                  Abort, Rollback, Leave, TypeOK, Session
    <2>2. KnownInv' /\ \A s \in Service : Saved(s)'
      BY <1>0, <2>1, QuietSteps DEF Kept, SavedInv
    <2>3. SavedInv'
      BY <2>2 DEF SavedInv
    <2>4. DownInv'
      <3>1. CASE ReplaceHot
        BY <1>0, <1>2, <3>1 DEF ReplaceHot, Kept, DownInv, Down, Alive, Calmer, Quiet, Starting
      <3>2. CASE ReleaseOld \/ SaveNew \/ Fingerprint
        <4>1. Down(Service) /\ pc' \in Quiet \cup {"build"}
          BY <1>2, <3>2 DEF ReleaseOld, SaveNew, Fingerprint, Kept, DownInv, Quiet
        <4>. QED
          BY <1>0, <4>1 DEF DownInv, Down, Alive, Calmer, Quiet, Starting
      <3>3. CASE Build
        <4>1. kind = "start" => Down(Service)
          BY <3>3 DEF Build, Kept, DownInv
        <4>2. \/ kind = "start" /\ pc' \in {"fingerprint", "start"} /\ todo' \subseteq Service
              \/ kind # "start" /\ pc' = "build"
              \/ kind # "start" /\ pc' = "restartStop" /\ todo' = targets
          BY <3>3 DEF Build, TypeOK
        <4>. QED
          BY <1>0, <2>1, <4>1, <4>2 DEF DownInv, Down, Alive, Calmer, Quiet, Starting
      <3>4. CASE PrepareFails
        <4>1. pc' = "rollbackHot"
          BY <1>2, <3>4 DEF PrepareFails, Abort, Rollback
        <4>. QED
          BY <4>1 DEF DownInv, Quiet, Starting
      <3>. QED
        BY <3>1, <3>2, <3>3, <3>4
    <2>. QED
      BY <2>2, <2>3, <2>4 DEF Kept
  <1>. QED
    BY <1>1, <1>2

LEMMA ReplacementKeeps ==
  ASSUME TypeOK, ResistInv, Kept, [Next]_vars, ReplaceSave
  PROVE  Kept'
  <1> USE DEF vars, world, locals, command, rest, Goto
  <1>0. /\ Calmer /\ UNCHANGED <<os, orphan, faults>> /\ pc = "replaceStop" /\ todo = {}
        /\ KnownInv
    BY DEF ReplaceSave, Calmer, Kept
  <1>1. \A p \in Proc : os[p] # "off" => p \in orphan \/ p[1] \in failed
    BY <1>0, Processes DEF Kept, DownInv, Down, Alive
  <1>2. \A s \in Service : Saved(s)
    BY <1>0 DEF Kept, SavedInv
  <1>3. SessionOK(mem)
    BY TypeParts DEF SessionsType
  <1>4. CASE Leave /\ disk' = disk
    BY <1>0, <1>2, <1>4, ReturnUnsaved
  <1>5. CASE Leave /\ disk' = Keep(mem, failed)
    <2>1. KnownInv'
      <3>1. SUFFICES ASSUME NEW p \in Proc, os[p] # "off", p \notin orphan
                     PROVE  disk'.services[p[1]] = p[2]
        BY <1>0, <1>5 DEF KnownInv, Knows, Alive, Names, Leave
      <3>2. mem.services[p[1]] = p[2] /\ p[1] \in failed /\ p[1] \in Service
        BY <1>0, <1>1, <3>1, Processes DEF KnownInv, Knows, Alive, Names
      <3>. QED
        BY <1>3, <1>5, <3>2, KeepParts
    <2>2. SavedInv'
      BY <1>5, NoSessionType DEF SavedInv, Saved, Leave, NoSlots
    <2>3. DownInv'
      BY <1>5 DEF DownInv, Leave, Quiet, Starting
    <2>. QED
      BY <2>1, <2>2, <2>3 DEF Kept
  <1>6. CASE failed = {} /\ mem' = Keep(mem, {}) /\ pc' = "release"
    <2>1. \A p \in Proc : os[p] # "off" => p \in orphan
      BY <1>1, <1>6
    <2>2. KnownInv'
      BY <1>0, <2>1 DEF KnownInv, Knows, Alive
    <2>3. SavedInv'
      BY <1>3, <1>6, KeepParts DEF SavedInv, Saved
    <2>4. DownInv'
      BY <1>0, <1>6, <2>1 DEF DownInv, Down, Alive, Quiet, Starting
    <2>. QED
      BY <2>2, <2>3, <2>4 DEF Kept
  <1>. QED
    BY <1>4, <1>5, <1>6 DEF ReplaceSave, SaveFails, Save

(* While nothing runs, nothing can be lost: the old session is cleared, and  *)
(* a connection found.                                                       *)
LEMMA ClearingKeeps ==
  ASSUME TypeOK, Kept, ClearOld \/ Connect
  PROVE  Kept'
  <1> USE DEF vars, world, locals, command, rest, Goto
  <1>1. /\ UNCHANGED <<os, orphan>> /\ pc \in Quiet
        /\ pc' \in {"idle", "connect", "saveNew"}
        /\ mem' = mem \/ mem' = NoSession \/ mem'.services = NoSlots
    BY DEF ClearOld, Connect, Quiet, Leave, NoSession
  <1>2. \A p \in Proc : os[p] # "off" => p \in orphan
    BY <1>1, Processes DEF Kept, DownInv, Down, Alive
  <1>3. KnownInv'
    BY <1>1, <1>2 DEF KnownInv, Knows, Alive
  <1>4. SavedInv'
    <2>1. ASSUME NEW s \in Service, mem'.services[s] # 0
          PROVE  Alive(Process(mem, s))' => Process(mem', s) \in orphan'
      <3>1. mem' = mem
        BY <1>1, <2>1, NoSessionType DEF NoSlots
      <3>2. Process(mem, s) \in Proc
        BY <2>1, <3>1, ListedProcess DEF TypeOK
      <3>3. Process(mem, s) \in orphan \/ os[Process(mem, s)] = "off"
        BY <1>2, <3>2
      <3>. QED
        BY <1>1, <3>1, <3>3 DEF Alive, Process
    <2>. QED
      BY <1>1, <2>1 DEF SavedInv, Saved
  <1>5. DownInv'
    BY <1>1, <1>2 DEF DownInv, Down, Alive, Quiet, Starting
  <1>. QED
    BY <1>3, <1>4, <1>5 DEF Kept

(* A service is started in place of one that is gone.                        *)
LEMMA StartKeeps ==
  ASSUME TypeOK, WorkInv, Kept, StartService
  PROVE  Kept'
  <1> USE DEF Goto
  <1>0. PICK i \in FreeSlot(First(todo)) :
           /\ os' = [os EXCEPT ![<<First(todo), i>>] = "up"]
           /\ mem' = List(mem, First(todo), i, IF kind = "start" THEN None ELSE orig.fp[First(todo)])
           /\ orphan' = orphan \ {<<First(todo), i>>}
    BY DEF StartService
  <1> DEFINE s == First(todo)
             new == <<s, i>>
  <1>1. /\ s \in todo /\ s \in Service /\ i \in 1 .. Slots /\ new \in Proc
        /\ os[new] = "off" /\ i # 0
    BY <1>0, Ordered, Processes, ConstantsAssumption DEF StartService, TypeOK, FreeSlot, Alive
  <1>2. mem'.services = [mem.services EXCEPT ![s] = i]
    BY <1>0 DEF List, TypeOK, Session
  <1>3. /\ pc = "start" /\ pc' = "saveStarted" /\ todo' = todo \ {s} /\ started' = started \cup {s}
        /\ UNCHANGED <<disk, kind>>
    BY DEF StartService, command
  <1> HIDE DEF s
  <1>4. \A p \in Proc : p # new => os'[p] = os[p] /\ (p \in orphan' <=> p \in orphan)
    BY <1>0, <1>1 DEF TypeOK, s
  <1>5. \A p \in Proc : p[1] = s /\ os[p] # "off" => p \in orphan
    BY <1>1, <1>3 DEF Kept, DownInv, Down, Alive, Starting
  <1>6. KnownInv'
    <2>1. SUFFICES ASSUME NEW p \in Proc, os'[p] # "off", p \notin orphan'
                   PROVE  mem'.services[p[1]] = p[2]
      BY <1>3 DEF KnownInv, Knows, Names, Alive
    <2>2. CASE p = new
      BY <1>1, <1>2, <2>2 DEF TypeOK, Session
    <2>3. CASE p # new
      <3>1. p[1] # s /\ p[1] \in Service
        BY <1>4, <1>5, <2>1, <2>3, Processes
      <3>2. mem.services[p[1]] = p[2]
        BY <1>3, <1>4, <2>1, <2>3 DEF Kept, KnownInv, Knows, Names, Alive
      <3>. QED
        BY <1>2, <3>1, <3>2 DEF TypeOK, Session
    <2>. QED
      BY <2>2, <2>3
  <1>7. SavedInv'
    <2>1. ASSUME NEW t \in Service, t # s
          PROVE  Saved(t)'
      <3>1. Saved(t)
        BY <1>3 DEF Kept, SavedInv
      <3>2. mem'.services[t] = mem.services[t]
        BY <1>2, <2>1 DEF TypeOK, Session
      <3>3. mem.services[t] # 0 => Process(mem, t) \in Proc /\ Process(mem, t) # new
        BY <2>1, ListedProcess DEF TypeOK, Process
      <3>. QED
        BY <1>3, <1>4, <3>1, <3>2, <3>3 DEF Saved, Alive, Process
    <2>. QED
      BY <1>3, <2>1 DEF SavedInv
  <1>8. DownInv'
    <2>1. ASSUME NEW p \in Proc, p[1] \in todo', os'[p] # "off"
          PROVE  p \in orphan'
      <3>1. p # new
        BY <1>3, <2>1
      <3>. QED
        BY <1>3, <1>4, <2>1, <3>1 DEF Kept, DownInv, Down, Alive, Starting
    <2>. QED
      BY <1>3, <2>1 DEF DownInv, Down, Alive, Quiet, Starting
  <1>. QED
    BY <1>6, <1>7, <1>8 DEF Kept

LEMMA StartingKeeps ==
  ASSUME TypeOK, KindInv, WorkInv, ResistInv, Kept, [Next]_vars,
         StartServiceFails \/ SaveStarted \/ Verify \/ VerifyFails
  PROVE  Kept'
  <1> USE DEF vars, world, locals, command, rest, Goto
  <1>0. /\ Calmer /\ UNCHANGED <<os, orphan, faults>>
        /\ pc \in Starting
        /\ pc # "idle"
    BY DEF StartServiceFails, SaveStarted, Verify, VerifyFails, Starting, Calmer
  <1>1. CASE Leave
    <2>1. disk' = disk /\ pc = "verify"
      BY <1>1
         DEF StartServiceFails, SaveStarted, Verify, VerifyFails, Undo, Rollback, RollbackGroup,
                  Leave, SaveFails
    <2>. QED
      BY <1>0, <1>1, <2>1, ReturnUnsaved DEF Kept, SavedInv
  <1>2. CASE ~Leave
    <2>1. /\ mem'.services = mem.services
          /\ \/ pc' \in {"start", "verify", "final", "hot"} /\ todo' = todo /\ disk' = mem'
             \/ pc' = "rollbackHot"
             \/ pc' = "restore" /\ disk' = disk /\ todo' = started
      BY <1>2 DEF StartServiceFails, SaveStarted, Verify, VerifyFails, Undo, Abort, Rollback,
                  RollbackGroup, Save, SaveFails, TypeOK, Session
    <2>2. KnownInv'
      BY <1>0, <2>1, CalmKnown DEF Kept
    <2>3. SavedInv'
      <3>1. CASE disk' = mem' /\ pc' \in {"start", "verify", "final", "hot"}
        BY <3>1 DEF SavedInv, Saved
      <3>2. CASE pc' = "rollbackHot"
        BY <3>2 DEF SavedInv
      <3>3. CASE pc' = "restore" /\ disk' = disk /\ todo' = started
        <4>1. \A s \in Service \ started : Saved(s)
          BY <1>0, <3>3 DEF Kept, SavedInv, Starting
        <4>2. \A s \in Service \ started : Saved(s)'
          BY <1>0, <2>1, <3>3, <4>1, CalmSaved
        <4>. QED
          BY <3>3, <4>2 DEF SavedInv
      <3>. QED
        BY <2>1, <3>1, <3>2, <3>3
    <2>4. DownInv'
      BY <1>0, <2>1 DEF Kept, DownInv, Down, Alive, Quiet, Starting
    <2>. QED
      BY <2>2, <2>3, <2>4 DEF Kept
  <1>. QED
    BY <1>1, <1>2

LEMMA FinishingKeeps ==
  ASSUME TypeOK, KindInv, ResistInv, Kept, [Next]_vars,
         \/ FinalCheck \/ WatcherKept \/ StartWatcher \/ StartWatcherFails \/ SaveHot
         \/ FinishStart \/ FinishRestart
  PROVE  Kept'
  <1> USE DEF vars, world, locals, command, rest, Goto
  <1>0. Calmer /\ UNCHANGED orphan /\ pc # "idle" /\ pc \in {"final"} \cup Finishing
    <2>1. StartService => FALSE
      BY DEF FinalCheck, WatcherKept, StartWatcher, StartWatcherFails, SaveHot, FinishStart,
             FinishRestart, StartService
    <2>. QED
      BY <2>1, Loosening
      DEF FinalCheck, WatcherKept, StartWatcher, StartWatcherFails, SaveHot, FinishStart,
          FinishRestart, Finishing
  <1>1. \A s \in Service : Saved(s)
    BY <1>0 DEF Kept, SavedInv, Finishing
  <1>2. disk' \in {disk, mem}
    BY DEF FinalCheck, WatcherKept, StartWatcher, StartWatcherFails, SaveHot, FinishStart,
           FinishRestart, Save, SaveFails
  <1>3. CASE Leave
    <2>1. CASE disk' = disk
      BY <1>0, <1>1, <1>3, <2>1, ReturnUnsaved DEF Kept
    <2>2. CASE disk' = mem
      BY <1>0, <1>3, <2>2, ReturnKept DEF Kept
    <2>. QED
      BY <1>2, <2>1, <2>2
  <1>4. CASE ~Leave
    <2>1. /\ mem'.services = mem.services
          /\ pc' \in Finishing \cup {"rollbackHot", "cleanupHot"}
      BY <1>4
         DEF FinalCheck, WatcherKept, StartWatcher, StartWatcherFails, SaveHot, FinishStart,
                  FinishRestart, Finishing, Abort, Rollback, TypeOK, Session
    <2>2. KnownInv'
      BY <1>0, <2>1, CalmKnown DEF Kept, Finishing
    <2>3. \A s \in Service : Saved(s)'
      <3>1. CASE disk' = disk
        BY <1>0, <1>1, <2>1, <3>1, CalmSaved
      <3>2. CASE disk' = mem
        BY <2>1, <3>2 DEF Saved
      <3>. QED
        BY <1>2, <3>1, <3>2
    <2>4. DownInv'
      BY <2>1 DEF DownInv, Quiet, Starting, Finishing
    <2>. QED
      BY <2>2, <2>3, <2>4 DEF Kept, SavedInv
  <1>. QED
    BY <1>3, <1>4

(* A session that lists nothing is cleared rather than written.              *)
LEMMA ClearedServices ==
  ASSUME NEW x, SaveOrClear(x)
  PROVE  \A s \in Service : disk'.services[s] = x.services[s]
  BY NoSessionType DEF SaveOrClear, Vacant, Listed, NoSlots

LEMMA UndoingKeeps ==
  ASSUME TypeOK, KindInv, ResistInv, StopsOrSaves, Kept, [Next]_vars,
         RollbackHot \/ RollbackSave \/ RestoreStop \/ RestoreSave
  PROVE  Kept'
  <1> USE DEF vars, world, locals, command, rest, Goto
  <1>0. Calmer /\ UNCHANGED <<orphan, faults>> /\ KnownInv /\ pc # "idle"
        /\ pc \in {"rollbackHot", "rollbackStop", "restore"}
    <2>1. StartService => FALSE
      BY DEF RollbackHot, RollbackSave, RestoreStop, RestoreSave, StartService
    <2>. QED
      BY <2>1, Loosening, FaultsKept
         DEF RollbackHot, RollbackSave, RestoreStop, RestoreSave, Kept
  <1>00. SessionOK(mem) /\ SessionOK(orig)
    BY TypeParts DEF SessionsType
  <1>1. CASE RollbackHot
    <2>1. mem'.services = mem.services /\ pc' = "rollbackStop" /\ todo' = Listed(mem)
      BY <1>1 DEF RollbackHot, TypeOK, Session
    <2>2. KnownInv'
      BY <1>0, <2>1, CalmKnown
    <2>3. SavedInv'
      BY <2>1 DEF SavedInv
    <2>4. \A p \in Proc : p[1] \notin Listed(mem) /\ os[p] # "off" => p \in orphan
      BY <1>0, Processes, ListedProcess DEF KnownInv, Knows, Alive, Listed, TypeOK
    <2>5. DownInv'
      BY <1>0, <2>1, <2>4 DEF DownInv, Down, Alive, Calmer, Quiet, Starting
    <2>. QED
      BY <2>2, <2>3, <2>5 DEF Kept
  <1>2. CASE RollbackSave
    <2>0. pc = "rollbackStop" /\ todo = {} /\ Leave /\ UNCHANGED os
      BY <1>2 DEF RollbackSave
    <2>1. \A p \in Proc : p[1] \notin failed /\ os[p] # "off" => p \in orphan
      BY <2>0, Processes DEF Kept, DownInv, Down, Alive
    <2>2. \A s \in Service : mem.services[s] # 0 => Process(mem, s) \in Proc /\ Process(mem, s)[1] = s
      BY ListedProcess DEF TypeOK
    <2>3. \A s \in Service : mem.services[s] # 0 /\ os[Process(mem, s)] # "off"
                                => s \in failed \/ Process(mem, s) \in orphan
      BY <2>1, <2>2
    <2>4. CASE SaveFails
      <3>1. failed = {}
        BY <2>0, <2>4 DEF SaveFails, StopsOrSaves, ResistInv
      <3>. QED
        BY <1>0, <2>0, <2>3, <3>1, ReturnKept
    <2>5. ASSUME NEW k, k \in BOOLEAN, SaveOrClear([Keep(mem, failed) EXCEPT !.conn = @ /\ k])
          PROVE  Kept'
      <3>1. \A s \in Service : disk'.services[s] = Keep(mem, failed).services[s]
        <4>1. [Keep(mem, failed) EXCEPT !.conn = @ /\ k].services = Keep(mem, failed).services
          BY <1>00, KeepParts DEF SessionOK, Session
        <4>. QED
          BY <2>5, <4>1, ClearedServices, ZenonT(60)
      <3>2. \A s \in failed : s \in Service => disk'.services[s] = mem.services[s]
        BY <1>00, <3>1, KeepParts
      <3>. QED
        BY <1>0, <2>0, <2>3, <3>2, ReturnKept
    <2>. QED
      BY <1>2, <2>4, <2>5 DEF RollbackSave
  <1>3. CASE RestoreStop
    <2>00. PICK s \in Service : s = Last(todo) /\ s \in todo
      BY <1>3, Ordered DEF RestoreStop, TypeOK
    <2>0. pc = "restore" /\ pc' = "restore" /\ todo' = todo \ {s} /\ UNCHANGED <<disk, kind>>
      BY <1>3, <2>00 DEF RestoreStop
    <2>1. CASE StopsListed(mem, s) /\ mem' = List(mem, s, orig.services[s], orig.fp[s])
      <3>1. \A p \in Proc : p[1] = s /\ os'[p] # "off" => p \in orphan
        BY <1>0, <2>0, <2>1, StoppedDown
      <3>2. mem'.services = [mem.services EXCEPT ![s] = orig.services[s]]
        BY <2>1 DEF List, TypeOK, Session
      <3>3. \A t \in Service : t # s => mem'.services[t] = mem.services[t]
        BY <3>2 DEF TypeOK, Session
      <3>4. KnownInv'
        <4>1. SUFFICES ASSUME NEW p \in Proc, os'[p] # "off", p \notin orphan
                       PROVE  mem'.services[p[1]] = p[2]
          BY <1>0, <2>0 DEF KnownInv, Knows, Names, Alive
        <4>2. p[1] # s /\ p[1] \in Service
          BY <3>1, <4>1, Processes
        <4>3. mem.services[p[1]] = p[2]
          BY <1>0, <4>1 DEF KnownInv, Knows, Names, Alive, Calmer
        <4>. QED
          BY <3>3, <4>2, <4>3
      <3>5. ASSUME NEW t \in Service, t # s, Saved(t)
            PROVE  Saved(t)'
        BY <1>0, <2>0, <3>3, <3>5, CalmSaved
      <3>6. Saved(s)'
        <4>1. mem'.services[s] = orig.services[s]
          BY <2>0, <3>2 DEF TypeOK, Session
        <4>2. mem'.services[s] # 0 => Process(mem', s) \in Proc /\ Process(mem', s)[1] = s
          BY <2>0, <4>1, ListedProcess DEF TypeOK, Process
        <4>3. mem'.services[s] # 0 /\ os'[Process(mem', s)] # "off" => Process(mem', s) \in orphan'
          BY <1>0, <3>1, <4>2
        <4>. QED
          BY <4>3 DEF Saved, Alive, Process
      <3>7. SavedInv'
        BY <1>0, <2>0, <3>5, <3>6 DEF SavedInv, Kept, May
      <3>8. DownInv'
        BY <2>0 DEF DownInv, Quiet, Starting
      <3>. QED
        BY <3>4, <3>7, <3>8 DEF Kept
    <2>2. CASE StopListedFails(mem, s) /\ UNCHANGED mem
      <3>1. KnownInv'
        BY <1>0, <2>0, <2>2, CalmKnown
      <3>2. ~May("saveFails")
        BY <2>0, <2>2, NothingResists DEF StopsOrSaves
      <3>3. SavedInv'
        BY <1>0, <2>0, <3>2 DEF SavedInv, May
      <3>4. DownInv'
        BY <2>0 DEF DownInv, Quiet, Starting
      <3>. QED
        BY <3>1, <3>3, <3>4 DEF Kept
    <2>. QED
      BY <1>3, <2>00, <2>1, <2>2 DEF RestoreStop
  <1>4. CASE RestoreSave
    <2>0. pc = "restore" /\ todo = {} /\ Leave /\ UNCHANGED os
      BY <1>4 DEF RestoreSave
    <2>1. CASE disk' = mem
      BY <1>0, <2>0, <2>1, ReturnKept
    <2>2. CASE SaveFails
      <3>1. \A s \in Service : Saved(s)
        BY <2>0, <2>2 DEF SaveFails, Kept, SavedInv
      <3>. QED
        BY <1>0, <2>0, <2>2, <3>1, ReturnUnsaved DEF SaveFails
    <2>. QED
      BY <1>4, <2>1, <2>2 DEF RestoreSave, Save
  <1>. QED
    BY <1>1, <1>2, <1>3, <1>4

LEMMA CleaningKeeps ==
  ASSUME TypeOK, KindInv, ResistInv, Kept, [Next]_vars, CleanupHot \/ CleanupSave
  PROVE  Kept'
  <1> USE DEF vars, world, locals, command, rest, Goto
  <1>0. /\ Calmer /\ KnownInv /\ pc # "idle" /\ pc \in {"cleanupHot", "cleanupStop"}
        /\ \A s \in Service : Saved(s)
    <2>1. StartService => FALSE
      BY DEF CleanupHot, CleanupSave, StartService
    <2>. QED
      BY <2>1, Loosening DEF CleanupHot, CleanupSave, Kept, SavedInv
  <1>1. CASE CleanupHot /\ mem.hot = actor
    <2>1. Killed /\ UNCHANGED disk /\ \A p \in Proc : os'[p] = os[p] \/ os'[p] = "off"
      BY <1>1 DEF CleanupHot, TypeOK
    <2>2. KnownInv'
      BY <1>0, <2>1 DEF Killed, Leave, KnownInv, Knows, Names, Alive
    <2>3. SavedInv'
      BY <2>1, NoSessionType DEF Killed, SavedInv, Saved, Leave, NoSlots
    <2>4. DownInv'
      BY <2>1 DEF Killed, DownInv, Leave, Quiet, Starting
    <2>. QED
      BY <2>2, <2>3, <2>4 DEF Kept
  <1>2. CASE CleanupHot /\ mem.hot # actor
    <2>1. /\ mem'.services = mem.services /\ pc' = "cleanupStop"
          /\ todo' = targets \cap Listed(mem) /\ UNCHANGED <<targets, disk, orphan>>
      BY <1>2 DEF CleanupHot, TypeOK, Session
    <2>2. KnownInv'
      BY <1>0, <2>1, CalmKnown
    <2>3. SavedInv'
      BY <1>0, <2>1, CalmSaved DEF SavedInv
    <2>4. \A p \in Proc : p[1] \notin Listed(mem) /\ os[p] # "off" => p \in orphan
      BY <1>0, Processes, ListedProcess DEF KnownInv, Knows, Alive, Listed, TypeOK
    <2>5. DownInv'
      BY <1>0, <2>1, <2>4 DEF DownInv, Down, Alive, Calmer, Quiet, Starting
    <2>. QED
      BY <2>2, <2>3, <2>5 DEF Kept
  <1>3. CASE CleanupSave
    <2>0. pc = "cleanupStop" /\ todo = {} /\ Leave /\ UNCHANGED <<os, orphan>>
      BY <1>3 DEF CleanupSave
    <2> DEFINE S == (Listed(mem) \ targets) \cup failed
    <2>1. CASE SaveFails
      BY <1>0, <2>0, <2>1, ReturnUnsaved DEF SaveFails
    <2>2. CASE SaveOrClear(Keep(mem, S))
      <3>1. \A p \in Proc : p[1] \in targets \ failed /\ os[p] # "off" => p \in orphan
        BY <2>0 DEF Kept, DownInv, Down, Alive
      <3>2. \A s \in Service : s \in S => disk'.services[s] = mem.services[s]
        BY <2>2, TypeParts, KeepParts, ClearedServices DEF SessionsType
      <3>3. ASSUME NEW s \in Service, mem.services[s] # 0, os'[Process(mem, s)] # "off"
            PROVE  disk'.services[s] = mem.services[s] \/ Process(mem, s) \in orphan
        <4>1. Process(mem, s) \in Proc /\ Process(mem, s)[1] = s
          BY <3>3, ListedProcess DEF TypeOK
        <4>. QED
          BY <2>0, <3>1, <3>2, <3>3, <4>1 DEF Listed
      <3>. QED
        BY <1>0, <2>0, <3>3, ReturnKept
    <2>. QED
      BY <1>3, <2>1, <2>2 DEF CleanupSave
  <1>. QED
    BY <1>1, <1>2, <1>3

LEMMA StoppingKeeps ==
  ASSUME TypeOK, KindInv, ResistInv, Kept, [Next]_vars,
         StopHot \/ StopLast \/ StopSave \/ RestartStop
  PROVE  Kept'
  <1> USE DEF vars, world, locals, command, rest, Goto
  <1>0. /\ Calmer /\ KnownInv /\ pc # "idle" /\ UNCHANGED <<orphan, faults>>
        /\ pc \in {"stopHot", "stopServices", "stopSave", "restartStop"}
        /\ \A s \in Service : Saved(s)
    <2>1. StartService => FALSE
      BY DEF StopHot, StopLast, StopSave, RestartStop, StartService
    <2>. QED
      BY <2>1, Loosening, FaultsKept
         DEF StopHot, StopLast, StopSave, RestartStop, Kept, SavedInv
  <1>1. CASE StopHot
    <2>1. CASE Leave
      BY <1>0, <1>1, <2>1, ReturnUnsaved DEF StopHot
    <2>2. CASE pc' = "stopServices"
      <3>1. mem'.services = mem.services /\ UNCHANGED <<disk, targets, todo, failed>>
        BY <1>1, <2>2 DEF StopHot, Leave, TypeOK, Session
      <3>2. KnownInv'
        BY <1>0, <2>2, <3>1, CalmKnown
      <3>3. SavedInv'
        BY <1>0, <2>2, <3>1, CalmSaved DEF SavedInv
      <3>4. DownInv'
        BY <1>0, <1>1, <2>2, <3>1
           DEF StopHot, Kept, DownInv, Down, Alive, Calmer, Quiet, Starting
      <3>. QED
        BY <3>2, <3>3, <3>4 DEF Kept
    <2>. QED
      BY <1>1, <2>1, <2>2 DEF StopHot
  <1>2. CASE StopLast
    <2> DEFINE left == Keep(mem, (Listed(mem) \ targets) \cup failed)
    <2>0. pc = "stopServices" /\ todo = {} /\ pc' = "stopSave" /\ UNCHANGED disk
      BY <1>2 DEF StopLast
    <2>1. /\ SessionOK(left)
          /\ \A s \in Service : left.services[s] \in {mem.services[s], 0}
          /\ \A s \in Service : s \in (Listed(mem) \ targets) \cup failed
                                   => left.services[s] = mem.services[s]
      BY TypeParts, KeepParts DEF SessionsType
    <2>2. mem'.services = left.services
      BY <1>2, <2>1 DEF StopLast, SessionOK, Session
    <2> HIDE DEF left
    <2>3. KnownInv'
      <3>1. SUFFICES ASSUME NEW p \in Proc, os'[p] # "off", p \notin orphan
                     PROVE  mem'.services[p[1]] = p[2]
        BY <1>0, <2>0 DEF KnownInv, Knows, Names, Alive
      <3>2. os[p] # "off" /\ Names(mem, p)
        BY <1>0, <3>1 DEF Calmer, KnownInv, Knows, Alive
      <3>3. p[1] \in Service /\ mem.services[p[1]] # 0
        BY <3>2, Processes, ListedProcess DEF TypeOK
      <3>4. p[1] \notin targets \ failed
        BY <2>0, <3>1, <3>2 DEF Kept, DownInv, Down, Alive
      <3>. QED
        BY <2>1, <2>2, <3>2, <3>3, <3>4 DEF Names, Listed
    <2>4. SavedInv'
      BY <1>0, <2>0, <2>1, <2>2, CalmSaved DEF SavedInv
    <2>5. DownInv'
      BY <2>0 DEF DownInv, Quiet, Starting
    <2>. QED
      BY <2>3, <2>4, <2>5 DEF Kept
  <1>3. CASE StopSave
    <2>1. Leave /\ (disk' = disk \/ SaveOrClear(mem))
      BY <1>3 DEF StopSave, SaveFails
    <2>2. CASE disk' = disk
      BY <1>0, <2>1, <2>2, ReturnUnsaved
    <2>3. CASE SaveOrClear(mem)
      BY <1>0, <2>1, <2>3, ClearedServices, ReturnKept
    <2>. QED
      BY <2>1, <2>2, <2>3
  <1>4. CASE RestartStop
    <2>0. PICK s \in Service : s = Last(todo) /\ s \in todo
      BY <1>4, Ordered DEF RestartStop, TypeOK
    <2>1. CASE Leave
      BY <1>0, <1>4, <2>1, ReturnUnsaved DEF RestartStop
    <2>2. CASE StopsListed(mem, s) /\ UNCHANGED <<command, mem, locals, failed>>
               /\ \/ todo = {s} /\ todo' = targets /\ pc' = "start"
                  \/ todo' = todo \ {s} /\ pc' = "restartStop"
      <3>0. disk' = disk
        BY <1>4 DEF RestartStop
      <3>1. \A p \in Proc : p[1] = s /\ os'[p] # "off" => p \in orphan
        BY <1>0, <2>2, StoppedDown
      <3>2. KnownInv'
        BY <1>0, <2>2, CalmKnown
      <3>3. SavedInv'
        BY <1>0, <2>2, <3>0, CalmSaved DEF SavedInv
      <3>4. \A p \in Proc : p[1] \in targets \ todo /\ os[p] # "off" => p \in orphan
        BY <1>4 DEF RestartStop, Kept, DownInv, Down, Alive
      <3>5. DownInv'
        BY <1>0, <2>2, <3>1, <3>4 DEF DownInv, Down, Alive, Calmer, Quiet, Starting
      <3>. QED
        BY <3>2, <3>3, <3>5 DEF Kept
    <2>. QED
      BY <1>4, <2>0, <2>1, <2>2 DEF RestartStop
  <1>. QED
    BY <1>1, <1>2, <1>3, <1>4

LEMMA KeptStep ==
  ASSUME TypeOK, KindInv, WorkInv, ResistInv, StopsOrSaves, Kept, [Next]_vars
  PROVE  Kept'
  <1>1. CASE UNCHANGED vars
    BY <1>1
       DEF vars, world, locals, command, rest, Kept, KnownInv, Knows, Names, Alive, SavedInv,
                Saved, Process, May, DownInv, Down
  <1>. QED
    BY <1>1, CommandsKeep, EnvironmentKeeps, LoopsKeep, PreparationKeeps, ReplacementKeeps,
       ClearingKeeps, StartKeeps, StartingKeeps, FinishingKeeps, UndoingKeeps, CleaningKeeps,
       StoppingKeeps DEF Next, Step

-----------------------------------------------------------------------------
(* The sessions a command has before it.                                     *)

(* A replacing start works on the session the user was shown.                *)
LEMMA ShownStep ==
  ASSUME TypeOK, KindInv, ShownInv, [Next]_vars
  PROVE  ShownInv'
  <1> USE DEF vars, world, locals, command, rest, Goto, ShownInv
  <1>1. CASE UserCommand \/ WatcherRestarts
    BY <1>1
       DEF UserCommand, WatcherRestarts, AskReplacement, Decline, StartFresh, StartReplacement,
                Stop, Restart, Begin
  <1>2. CASE Environment
    BY <1>2, Surroundings DEF Unaffected, Crash, Killed, Leave
  <1>3. CASE ReplaceHot
    <2>1. mem' = [mem EXCEPT !.hot = None] => mem'.services = mem.services
      BY DEF TypeOK, Session
    <2>. QED
      BY <1>3, <2>1 DEF ReplaceHot, Leave
  <1>4. CASE ReplaceStop \/ RollbackStop \/ CleanupStop \/ StopServices \/ UNCHANGED vars
    <2>1. UNCHANGED <<pc, mem, orig, token>>
      BY <1>4 DEF ReplaceStop, RollbackStop, CleanupStop, StopServices, StopTodo
    <2>. QED
      BY <2>1
  <1>5. CASE ReplaceSave \/ ReleaseOld \/ ClearOld \/ Connect \/ SaveNew \/ Fingerprint \/ Build
             \/ PrepareFails \/ StartService \/ StartServiceFails \/ SaveStarted \/ Verify \/ VerifyFails
    <2>1. pc' \notin {"replaceHot", "replaceStop"}
      BY <1>5 DEF ReplaceSave, ReleaseOld, ClearOld, Connect, SaveNew, Fingerprint, Build,
                PrepareFails, StartService, StartServiceFails, SaveStarted, Verify,
                VerifyFails, Undo,
                Abort, Rollback, RollbackGroup, Leave
    <2>. QED
      BY <2>1
  <1>6. CASE FinalCheck \/ WatcherKept \/ StartWatcher \/ StartWatcherFails \/ SaveHot \/ FinishStart
             \/ FinishRestart \/ RollbackHot \/ RollbackSave
    <2>1. pc' \notin {"replaceHot", "replaceStop"}
      BY <1>6
         DEF FinalCheck, WatcherKept, StartWatcher, StartWatcherFails, SaveHot, FinishStart,
                FinishRestart, RollbackHot, RollbackSave, Abort, Rollback, Leave
    <2>. QED
      BY <2>1
  <1>7. CASE RestoreStop \/ RestoreSave \/ CleanupHot \/ CleanupSave \/ StopHot \/ StopLast \/ StopSave
             \/ RestartStop
    <2>1. pc' \notin {"replaceHot", "replaceStop"}
      BY <1>7
         DEF RestoreStop, RestoreSave, CleanupHot, CleanupSave, StopHot, StopLast, StopSave,
                RestartStop, Killed, Leave
    <2>. QED
      BY <2>1
  <1>. QED
    BY <1>1, <1>2, <1>3, <1>4, <1>5, <1>6, <1>7 DEF Next, Step

(* Until a start lists processes of its own, it lists those it found; then   *)
(* it lists its targets.                                                     *)
LEMMA StartStep ==
  ASSUME TypeOK, KindInv, WorkInv, ResistInv, StartInv, [Next]_vars
  PROVE  StartInv'
  <1> USE DEF vars, world, locals, command, rest, Goto, OfStart, OfRestart, OfStop, Starting, Building,
              Finishing
  <1>0. /\ SessionOK(mem) /\ SessionOK(disk) /\ None \notin Watcher
        /\ \A h, c : /\ [mem EXCEPT !.hot = h].services = mem.services
                     /\ [mem EXCEPT !.hot = h].hot = h
                     /\ [mem EXCEPT !.conn = c].services = mem.services
    BY TypeParts, ConstantsAssumption DEF SessionsType, SessionOK, Session, Actor
  <1>1. CASE UserCommand \/ WatcherRestarts
    BY <1>1
       DEF UserCommand, WatcherRestarts, AskReplacement, Decline, StartFresh, StartReplacement,
                Stop, Restart, Begin, StartInv, KindInv, Listed, Process
  <1>2. CASE Leave
    BY <1>2 DEF Leave, StartInv
  <1>3. CASE pc' \in {"rollbackHot", "restore", "cleanupHot", "cleanupStop", "stopHot",
                      "stopServices", "stopSave", "restartStop", "replaceHot", "replaceStop"}
             /\ kind' = kind
    BY <1>3 DEF StartInv
  <1>4. CASE Environment
    <2>1. CASE Unaffected
      <3>1. Calmer
        <4>1. StartService => FALSE
          BY <2>1 DEF Unaffected, StartService
        <4>. QED
          BY <4>1, Loosening
      <3>2. \A s \in Listed(mem) : os[Process(mem, s)] = "off" => os'[Process(mem, s)] = "off"
        BY <3>1, ListedProcess DEF Calmer, Listed, TypeOK
      <3>. QED
        BY <2>1, <3>2 DEF Unaffected, StartInv, Listed, Process
    <2>2. CASE Crash
      BY <1>2, <2>2 DEF Crash, Killed
    <2>. QED
      BY <1>4, <2>1, <2>2, Surroundings
  <1>5. CASE ReplaceHot \/ ReplaceStop \/ CleanupStop \/ StopServices
    BY <1>2, <1>3, <1>5 DEF ReplaceHot, ReplaceStop, CleanupStop, StopServices, StopTodo
  <1>6. CASE ReplaceSave
    <2>1. Keep(mem, {}).services = NoSlots
      BY <1>0 DEF Keep, NoSlots, SessionOK, Session
    <2>. QED
      BY <1>2, <1>6, <2>1 DEF ReplaceSave, StartInv
  <1>7. CASE ReleaseOld \/ ClearOld
    BY <1>0, <1>2, <1>7, ZenonT(60) DEF ReleaseOld, ClearOld, StartInv
  <1>8. CASE Connect
    BY <1>2, <1>8 DEF Connect, StartInv, NoSession
  <1>9. CASE SaveNew \/ Fingerprint
    BY <1>2, <1>9 DEF SaveNew, Save, Fingerprint, StartInv, KindInv
  <1>10. CASE Build
    <2>1. kind = "start" => Listed(mem) = {}
      BY <1>10 DEF Build, StartInv, Listed, NoSlots
    <2>. QED
      BY <1>10, <2>1 DEF Build, StartInv, Listed
  <1>11. CASE PrepareFails \/ StartServiceFails \/ VerifyFails \/ StartWatcherFails \/ FinishStart
    BY <1>2, <1>3, <1>11
       DEF PrepareFails, StartServiceFails, VerifyFails, StartWatcherFails, FinishStart,
                             Undo, Abort, Rollback, RollbackGroup
  <1>12. CASE StartService
    <2>1. First(todo) \in todo
      BY <1>12, Ordered DEF StartService, TypeOK
    <2>2. PICK i \in 1 .. Slots, v \in MaybeVersion : mem' = List(mem, First(todo), i, v)
      BY <1>12, <2>1 DEF StartService, FreeSlot, MaybeVersion, TypeOK, Session
    <2>3. Listed(mem') = Listed(mem) \cup {First(todo)}
      BY <2>1, <2>2 DEF List, Listed, TypeOK, Session
    <2>. QED
      BY <1>12, <2>1, <2>3 DEF StartService, StartInv, WorkInv
  <1>13. CASE SaveStarted
    BY <1>2, <1>3, <1>13 DEF SaveStarted, Undo, Rollback, RollbackGroup, StartInv, Listed
  <1>14. CASE Verify
    <2>1. mem' = mem \/ mem'.services = mem.services \/ Leave
      BY <1>0, <1>14 DEF Verify, Abort, Rollback, SessionOK, Session
    <2>. QED
      BY <1>2, <1>3, <1>14, <2>1 DEF Verify, Abort, Rollback, StartInv, Listed
  <1>15. CASE FinalCheck
    BY <1>3, <1>15 DEF FinalCheck, Save, Rollback, StartInv, Listed
  <1>16. CASE WatcherKept
    BY <1>16 DEF WatcherKept, StartInv, KindInv, Listed
  <1>17. CASE StartWatcher
    BY <1>0, <1>17 DEF StartWatcher, StartInv, Listed
  <1>18. CASE SaveHot
    BY <1>2, <1>3, <1>18 DEF SaveHot, Save, StartInv, Listed
  <1>19. CASE FinishRestart \/ RollbackSave \/ RestoreStop \/ RestoreSave \/ CleanupHot \/ CleanupSave
    BY <1>2, <1>3, <1>19 DEF FinishRestart, RollbackSave, RestoreStop, RestoreSave, CleanupHot,
                             CleanupSave, Killed
  <1>20. CASE StopHot \/ StopLast \/ StopSave
    BY <1>2, <1>3, <1>20 DEF StopHot, StopLast, StopSave
  <1>21. CASE RestartStop
    BY <1>2, <1>3, <1>21 DEF RestartStop, StartInv, KindInv
  <1>22. CASE RollbackHot
    <2>1. mem'.services = mem.services
      BY <1>0, <1>22 DEF RollbackHot
    <2>. QED
      BY <1>22, <2>1 DEF RollbackHot, StartInv, KindInv, Listed
  <1>23. CASE RollbackStop
    <2>1. PICK s \in Service : s = Last(todo) /\ s \in todo
      BY <1>23, Ordered DEF RollbackStop, StopTodo, TypeOK
    <2>2. Calmer
      <3>1. StartService => FALSE
        BY <1>23 DEF RollbackStop, StopTodo, StartService
      <3>. QED
        BY <3>1, Loosening
    <2>3. \A t \in Listed(mem) : os[Process(mem, t)] = "off" => os'[Process(mem, t)] = "off"
      BY <2>2, ListedProcess DEF Calmer, Listed, TypeOK
    <2>4. /\ UNCHANGED <<pc, kind, mem, targets>> /\ pc = "rollbackStop" /\ todo' = todo \ {s}
          /\ \/ StopsListed(mem, s) /\ failed' = failed
             \/ failed' = failed \cup {s}
      BY <1>23, <2>1 DEF RollbackStop, StopTodo
    <2>5. StopsListed(mem, s) /\ s \in Listed(mem) => os'[Process(mem, s)] = "off"
      BY ListedProcess DEF StopsListed, Stops, Listed, TypeOK
    <2>. QED
      BY <2>3, <2>4, <2>5 DEF StartInv, KindInv, Listed, Process
  <1>24. CASE UNCHANGED vars
    BY <1>24 DEF StartInv, Listed, Process
  <1>. QED
    BY <1>1, <1>4, <1>5, <1>6, <1>7, <1>8, <1>9, <1>10, <1>11, <1>12, <1>13, <1>14, <1>15,
       <1>16,
       <1>17, <1>18, <1>19, <1>20, <1>21, <1>22, <1>23, <1>24 DEF Next, Step

(* A restart leaves the entries it is not about alone.                       *)
LEMMA RestartStep ==
  ASSUME TypeOK, KindInv, WorkInv, RestartInv, [Next]_vars
  PROVE  RestartInv'
  <1> USE DEF vars, world, locals, command, rest, Goto, OfStart, OfRestart, OfStop, Starting, Finishing
  <1>0. \A h, c, f : /\ [mem EXCEPT !.hot = h].services = mem.services
                     /\ [mem EXCEPT !.conn = c].services = mem.services
                     /\ [mem EXCEPT !.fp = f].services = mem.services
    BY DEF TypeOK, Session
  <1>1. CASE UserCommand \/ WatcherRestarts
    BY <1>1
       DEF UserCommand, WatcherRestarts, AskReplacement, Decline, StartFresh, StartReplacement,
                Stop, Restart, Begin, RestartInv
  <1>2. CASE Leave \/ kind' # "restart"
    BY <1>2 DEF Leave, RestartInv
  <1>3. CASE Environment
    BY <1>2, <1>3, Surroundings DEF Unaffected, Crash, Killed, RestartInv
  <1>4. CASE ReplaceStop \/ RollbackStop \/ CleanupStop \/ StopServices \/ UNCHANGED vars
    <2>1. UNCHANGED <<pc, kind, mem, disk, orig, targets>>
      BY <1>4 DEF ReplaceStop, RollbackStop, CleanupStop, StopServices, StopTodo
    <2>. QED
      BY <2>1 DEF RestartInv
  <1>5. CASE ReplaceHot \/ ReplaceSave \/ ReleaseOld \/ ClearOld \/ Connect \/ SaveNew \/ Fingerprint
             \/ FinalCheck \/ FinishStart \/ RollbackHot \/ RollbackSave \/ StopHot \/ StopLast
             \/ StopSave
    <2>1. kind # "restart"
      BY <1>5 DEF ReplaceHot, ReplaceSave, ReleaseOld, ClearOld, Connect, SaveNew, Fingerprint,
                  FinalCheck, FinishStart, RollbackHot, RollbackSave, StopHot, StopLast,
                  StopSave,
                  KindInv
    <2>2. Leave \/ kind' = kind
      BY <1>5 DEF ReplaceHot, ReplaceSave, ReleaseOld, ClearOld, Connect, SaveNew, Fingerprint,
                  FinalCheck, FinishStart, RollbackHot, RollbackSave, StopHot, StopLast,
                  StopSave,
                  Rollback
    <2>. QED
      BY <1>2, <2>1, <2>2
  <1>6. CASE Build \/ PrepareFails \/ StartServiceFails \/ VerifyFails \/ WatcherKept \/ StartWatcherFails
             \/ RestartStop
    <2>1. \/ Leave
          \/ /\ UNCHANGED <<kind, mem, disk, orig, targets>>
             /\ pc' \in {"build", "restartStop"} => pc \in {"build", "restartStop"} \/ kind = "start"
      BY <1>6
         DEF Build, PrepareFails, StartServiceFails, VerifyFails, WatcherKept,
             StartWatcherFails,
                  RestartStop, Undo, Abort, Rollback, RollbackGroup
    <2>. QED
      BY <1>2, <2>1 DEF RestartInv
  <1>7. CASE StartService
    <2>1. First(todo) \in targets /\ targets \subseteq Service
      BY <1>7, Ordered DEF StartService, TypeOK, WorkInv
    <2>2. PICK i, v : mem' = List(mem, First(todo), i, v)
      BY <1>7 DEF StartService
    <2>3. \A s \in Service \ targets : mem'.services[s] = mem.services[s]
      BY <2>1, <2>2 DEF List, TypeOK, Session
    <2>. QED
      BY <1>7, <2>3 DEF StartService, RestartInv
  <1>8. CASE SaveStarted \/ Verify \/ SaveHot \/ FinishRestart \/ StartWatcher
    <2>1. CASE Verify
      <3>1. \/ Leave
            \/ \E f : mem' = [mem EXCEPT !.fp = f] /\ disk' = mem'
            \/ UNCHANGED <<mem, disk>>
        BY <2>1 DEF Verify, Abort, Rollback, Save, SaveFails
      <3>2. \/ Leave
            \/ pc' \notin {"build", "restartStop"} /\ UNCHANGED <<kind, targets>>
        BY <2>1 DEF Verify, Abort, Rollback
      <3>. QED
        BY <1>0, <1>2, <3>1, <3>2 DEF RestartInv
    <2>2. CASE SaveStarted \/ SaveHot \/ FinishRestart \/ StartWatcher
      <3>1. \/ Leave
            \/ /\ mem' = mem \/ \E h : mem' = [mem EXCEPT !.hot = h]
               /\ disk' \in {disk, mem} /\ pc' \notin {"build", "restartStop"}
               /\ UNCHANGED <<kind, targets>>
        BY <2>2
           DEF SaveStarted, SaveHot, FinishRestart, StartWatcher, Undo, Rollback, RollbackGroup,
                    Save, SaveFails
      <3>. QED
        BY <1>0, <1>2, <3>1 DEF RestartInv
    <2>. QED
      BY <1>8, <2>1, <2>2
  <1>9. CASE RestoreStop
    <2>1. Last(todo) \in targets /\ targets \subseteq Service
      BY <1>9, Ordered DEF RestoreStop, TypeOK, WorkInv
    <2>2. mem' = mem \/ \E i, v : mem' = List(mem, Last(todo), i, v)
      BY <1>9 DEF RestoreStop
    <2>3. ASSUME NEW i, NEW v, mem' = List(mem, Last(todo), i, v)
          PROVE  mem'.services = [mem.services EXCEPT ![Last(todo)] = i]
      BY <2>3 DEF List, TypeOK, Session
    <2>4. \A s \in Service \ targets : mem'.services[s] = mem.services[s]
      <3>1. mem' = mem \/ \E i : mem'.services = [mem.services EXCEPT ![Last(todo)] = i]
        BY <2>2, <2>3
      <3>2. mem.services \in [Service -> 0 .. Slots]
        BY DEF TypeOK, Session
      <3>. QED
        BY <2>1, <3>1, <3>2
    <2>5. UNCHANGED <<pc, kind, disk, targets>> /\ pc = "restore"
      BY <1>9 DEF RestoreStop
    <2>. QED
      BY <2>4, <2>5 DEF RestartInv
  <1>10. CASE RestoreSave \/ CleanupSave
    BY <1>2, <1>10 DEF RestoreSave, CleanupSave
  <1>11. CASE CleanupHot
    <2>1. \/ Leave
          \/ /\ mem'.services = mem.services /\ UNCHANGED <<kind, targets, disk>>
             /\ pc' = "cleanupStop"
      BY <1>0, <1>11 DEF CleanupHot, Killed
    <2>. QED
      BY <1>2, <2>1 DEF RestartInv
  <1>. QED
    BY <1>1, <1>3, <1>4, <1>5, <1>6, <1>7, <1>8, <1>9, <1>10, <1>11 DEF Next, Step

(* The process a service had is gone before a new one is built for it.       *)
LEMMA GoneStep ==
  ASSUME TypeOK, KindInv, WorkInv, ResistInv, StartInv, RestartInv, GoneInv, [Next]_vars
  PROVE  GoneInv'
  <1> USE DEF vars, world, locals, command, rest, Goto, Starting
  <1>0. /\ \A f : [mem EXCEPT !.fp = f].services = mem.services
        /\ NoSlots \in [Service -> 0 .. Slots]
    BY NoSessionType DEF TypeOK, Session
  <1>1. CASE pc' \notin Starting \cup {"restartStop", "restore"}
    BY <1>1 DEF GoneInv
  <1>2. Calmer \/ StartService
    BY Loosening
  <1>3. ASSUME NEW s \in Service, Gone(orig, s), Calmer, UNCHANGED orig
        PROVE  Gone(orig, s)'
    BY <1>3, ListedProcess DEF Gone, Calmer, TypeOK, Process
  <1>4. CASE UNCHANGED <<disk, pc, kind, mem, orig, targets, todo>> /\ Calmer
    BY <1>3, <1>4 DEF GoneInv, TypeOK
  <1>5. CASE StartService
    <2>1. PICK s \in Service : s = First(todo) /\ s \in todo
      BY <1>5, Ordered DEF StartService, TypeOK
    <2>2. PICK i \in FreeSlot(s) : /\ os' = [os EXCEPT ![<<s, i>>] = "up"]
                                   /\ \E v : mem' = List(mem, s, i, v)
      BY <1>5, <2>1 DEF StartService
    <2>3. mem'.services = [mem.services EXCEPT ![s] = i]
      BY <2>2 DEF List, TypeOK, Session
    <2>4. \A t \in Service : t # s => mem'.services[t] = mem.services[t]
      BY <2>3 DEF TypeOK, Session
    <2>5. ASSUME NEW t \in Service, Gone(orig, t)
          PROVE  Gone(orig, t)'
      <3>1. orig' = orig /\ orig.services[s] # i
        BY <1>5, <2>2 DEF StartService, FreeSlot
      <3>2. orig.services[t] # 0 => Process(orig, t) # <<s, i>> /\ Process(orig, t) \in Proc
        BY <3>1, ListedProcess DEF TypeOK, Process
      <3>. QED
        BY <2>2, <2>5, <3>1, <3>2 DEF Gone, TypeOK, Process
    <2>6. /\ pc = "start" /\ pc' = "saveStarted" /\ todo' = todo \ {s}
          /\ UNCHANGED <<disk, kind, orig, targets>>
      BY <1>5, <2>1 DEF StartService
    <2>. QED
      BY <2>4, <2>5, <2>6 DEF GoneInv, TypeOK
  <1>6. CASE Calmer /\ (UserCommand \/ WatcherRestarts)
    <2>1. \/ UNCHANGED <<disk, pc, kind, mem, orig, targets, todo>>
          \/ pc' \in {"release", "replaceHot", "stopHot", "stopServices", "hot", "build"}
      BY <1>6
         DEF UserCommand, WatcherRestarts, AskReplacement, Decline, StartFresh,
             StartReplacement,
                  Stop, Restart, Begin
    <2>. QED
      BY <1>1, <1>4, <1>6, <2>1
  <1>7. CASE Calmer /\ Environment
    <2>1. \/ UNCHANGED <<disk, pc, kind, mem, orig, targets, todo>>
          \/ pc' = "idle"
      BY <1>7, Surroundings DEF Unaffected, Crash, Killed, Leave
    <2>. QED
      BY <1>1, <1>4, <1>7, <2>1
  <1>8. CASE ReplaceHot \/ ReplaceStop \/ ReplaceSave \/ ReleaseOld \/ ClearOld \/ Connect \/ SaveNew
             \/ Fingerprint \/ PrepareFails
    <2>1. pc' \notin Starting \cup {"restartStop", "restore"}
      BY <1>8 DEF ReplaceHot, ReplaceStop, ReplaceSave, ReleaseOld, ClearOld, Connect, SaveNew,
                  Fingerprint, PrepareFails, StopTodo, Abort, Rollback, Leave
    <2>. QED
      BY <1>1, <2>1
  <1>9. CASE FinalCheck \/ WatcherKept \/ StartWatcher \/ StartWatcherFails \/ SaveHot \/ FinishStart
             \/ FinishRestart \/ RollbackHot \/ RollbackStop \/ RollbackSave \/ RestoreSave
    <2>1. pc' \notin Starting \cup {"restartStop", "restore"}
      BY <1>9
         DEF FinalCheck, WatcherKept, StartWatcher, StartWatcherFails, SaveHot, FinishStart,
                  FinishRestart, RollbackHot, RollbackStop, RollbackSave, RestoreSave, StopTodo,
                  Abort, Rollback, Leave
    <2>. QED
      BY <1>1, <2>1
  <1>10. CASE CleanupHot \/ CleanupStop \/ CleanupSave \/ StopHot \/ StopServices \/ StopLast \/ StopSave
    <2>1. pc' \notin Starting \cup {"restartStop", "restore"}
      BY <1>10
         DEF CleanupHot, CleanupStop, CleanupSave, StopHot, StopServices, StopLast, StopSave,
                   StopTodo, Killed, Leave
    <2>. QED
      BY <1>1, <2>1
  <1>11. CASE Build
    <2>1. /\ UNCHANGED <<disk, kind, mem, orig, targets, os>> /\ pc = "build"
          /\ \/ pc' \in {"fingerprint", "build"}
             \/ pc' = "start" /\ kind = "start" /\ todo' = targets
             \/ pc' = "restartStop" /\ kind = "restart" /\ todo' = targets
      BY <1>11 DEF Build, KindInv
    <2>2. kind = "start" => \A s \in Service : mem.services[s] = 0 /\ disk.services[s] = 0
      BY <2>1 DEF StartInv, Building, NoSlots
    <2>. QED
      BY <2>1, <2>2 DEF GoneInv, TypeOK
  <1>12. CASE Calmer /\ RestartStop
    <2>1. PICK s \in Service : s = Last(todo) /\ s \in todo
      BY <1>12, Ordered DEF RestartStop, TypeOK
    <2>2. CASE Leave
      BY <1>1, <2>2 DEF Leave
    <2>3. CASE StopsListed(mem, s) /\ UNCHANGED <<command, mem, locals, failed>>
               /\ \/ todo = {s} /\ todo' = targets /\ pc' = "start"
                  \/ todo' = todo \ {s} /\ pc' = "restartStop"
      <3>1. disk' = disk /\ kind = "restart" /\ pc = "restartStop" /\ todo \subseteq targets
        BY <1>12 DEF RestartStop, KindInv, OfRestart, WorkInv
      <3>2. mem.services = disk.services /\ mem.services = orig.services
        BY <3>1 DEF RestartInv
      <3>3. Gone(orig, s)'
        BY <2>3, <3>2, ListedProcess DEF Gone, StopsListed, Stops, TypeOK, Process
      <3>4. \A t \in targets \ todo' : Gone(orig, t)' \/ pc' = "start"
        BY <1>3, <1>12, <2>3, <3>1, <3>3 DEF GoneInv, TypeOK
      <3>5. pc' = "start" => \A t \in targets : Gone(orig, t)'
        BY <1>3, <1>12, <2>3, <3>1, <3>3 DEF GoneInv, TypeOK
      <3>. QED
        BY <2>3, <3>1, <3>2, <3>4, <3>5 DEF GoneInv, TypeOK
    <2>. QED
      BY <1>12, <2>1, <2>2, <2>3 DEF RestartStop
  <1>13. CASE Calmer /\ (StartServiceFails \/ SaveStarted \/ Verify \/ VerifyFails)
    <2>1. /\ pc \in Starting
          /\ \/ pc' \notin Starting \cup {"restartStop", "restore"}
             \/ /\ pc' \in Starting /\ UNCHANGED <<kind, orig, targets, todo>>
                /\ mem'.services = mem.services /\ disk'.services = mem.services
             \/ pc' = "restore" /\ UNCHANGED <<kind, orig, targets>>
      BY <1>0, <1>13
         DEF StartServiceFails, SaveStarted, Verify, VerifyFails, Undo, Abort, Rollback,
                         RollbackGroup, Leave, Save, SaveFails
    <2>. QED
      BY <1>3, <1>13, <2>1 DEF GoneInv, TypeOK
  <1>14. CASE Calmer /\ RestoreStop
    <2>1. pc = "restore" /\ pc' = "restore" /\ UNCHANGED <<kind, orig, targets>>
      BY <1>14 DEF RestoreStop
    <2>. QED
      BY <1>3, <1>14, <2>1 DEF GoneInv, TypeOK
  <1>15. UNCHANGED vars => UNCHANGED <<disk, pc, kind, mem, orig, targets, todo>> /\ Calmer
    BY DEF Calmer
  <1>. QED
    BY <1>2, <1>4, <1>5, <1>6, <1>7, <1>8, <1>9, <1>10, <1>11, <1>12, <1>13, <1>14, <1>15
       DEF Next, Step

-----------------------------------------------------------------------------
(* A fingerprint is no newer than what its process was built from.           *)

(* What was so of a session x and will be after the step.                    *)
DatedNext(x) == \A s \in Service : x.fp[s] # None => x.fp[s] <= source'[s]
FreshNext(x) ==
    /\ DatedNext(x)
    /\ \A s \in Service \ unbuilt' : x.services[s] # 0 /\ os'[Process(x, s)] = "up"
                                       => NoNewer(x.fp[s], built'[s])

LEMMA FreshPrimed ==
  ASSUME FreshNext(disk'), FreshNext(mem'), DatedNext(orig'), kind' = "restart" => FreshNext(orig')
  PROVE  FreshInv'
  BY DEF FreshInv, FreshSession, Dated, FreshNext, DatedNext, Up, Listed, Process

LEMMA FreshNothing ==
  ASSUME NEW x, \A s \in Service : x.fp[s] = None
  PROVE  FreshNext(x) /\ DatedNext(x)
  BY DEF FreshNext, DatedNext, NoNewer

(* The steps that start no service: sources only grow.                       *)
Ageing ==
    /\ Calmer
    /\ built' = built /\ unbuilt' = unbuilt
    /\ source' \in [Service -> Version]
    /\ \A s \in Service : source[s] <= source'[s]

LEMMA VersionsOrdered ==
  ASSUME NEW a \in MaybeVersion, a # None, NEW b \in Version, NEW c \in Version, a <= b, b <= c
  PROVE  a <= c
  BY ConstantsAssumption DEF MaybeVersion, Version

LEMMA DatedAges ==
  ASSUME TypeOK, Ageing, NEW x \in Session, Dated(x)
  PROVE  DatedNext(x)
  <1>1. SUFFICES ASSUME NEW s \in Service, x.fp[s] # None PROVE x.fp[s] <= source'[s]
    BY DEF DatedNext
  <1>2. x.fp[s] \in MaybeVersion /\ source[s] \in Version /\ source'[s] \in Version
    BY DEF TypeOK, Session, Ageing
  <1>. QED
    BY <1>1, <1>2, VersionsOrdered DEF Dated, Ageing

LEMMA FreshAges ==
  ASSUME TypeOK, Ageing, NEW x \in Session, FreshSession(x)
  PROVE  FreshNext(x)
  <1>1. DatedNext(x)
    BY DatedAges DEF FreshSession
  <1>. QED
    BY <1>1, ListedProcess DEF FreshNext, FreshSession, Ageing, Calmer, Up, Listed

(* A session whose entries are those of others is as fresh as they are.      *)
Entries(y, X) ==
    \A s \in Service : \/ y.fp[s] = None
                       \/ \E x \in X : y.services[s] = x.services[s] /\ y.fp[s] = x.fp[s]

LEMMA FreshEntries ==
  ASSUME NEW X, \A x \in X : FreshNext(x), NEW y, Entries(y, X)
  PROVE  FreshNext(y)
  BY DEF FreshNext, DatedNext, Entries, NoNewer, Process

LEMMA KeepEntries ==
  ASSUME NEW x, SessionOK(x), NEW S
  PROVE  Entries(Keep(x, S), {x})
  BY KeepParts DEF Entries

(* No step but StartService builds anything, and without reverts sources     *)
(* only grow.                                                                *)
LEMMA Ages ==
  ASSUME TypeOK, ResistInv, NoReverts, [Next]_vars, ~StartService
  PROVE  Ageing
  <1> USE DEF vars, world, locals, command, rest
  <1>1. \A s \in Service : source[s] \in Version /\ source[s] <= source[s]
    BY DEF TypeOK, Version
  <1>2. Calmer
    BY Loosening
  <1>3. CASE UNCHANGED <<source, built, unbuilt>>
    BY <1>1, <1>2, <1>3 DEF Ageing, TypeOK
  <1>4. CASE \E s \in Service : Edit(s)
    <2>1. PICK s \in Service, v \in Version : v = source[s] + 1 /\ source' = [source EXCEPT ![s] = v]
                                              /\ UNCHANGED <<built, unbuilt>>
      BY <1>4 DEF Edit, NoReverts
    <2>2. source[s] <= v
      BY <1>1, <2>1 DEF Version
    <2>. QED
      BY <1>1, <1>2, <2>1, <2>2 DEF Ageing, TypeOK
  <1>5. CASE UserCommand \/ WatcherRestarts
    BY <1>3, <1>5, Begins
  <1>6. CASE Environment
    BY <1>3, <1>4, <1>6 DEF Environment, ProcessEnds, WatcherExits, Crash
  <1>7. CASE ReplaceHot \/ ReplaceStop \/ ReplaceSave \/ ReleaseOld \/ ClearOld \/ Connect \/ SaveNew
             \/ Fingerprint \/ Build \/ PrepareFails \/ StartServiceFails \/ SaveStarted
    BY <1>3, <1>7
       DEF ReplaceHot, ReplaceStop, ReplaceSave, ReleaseOld, ClearOld, Connect, SaveNew,
                StopTodo, Fingerprint, Build, PrepareFails, StartServiceFails, SaveStarted
  <1>8. CASE Verify \/ VerifyFails \/ FinalCheck \/ WatcherKept \/ StartWatcher \/ StartWatcherFails
             \/ SaveHot \/ FinishStart \/ FinishRestart \/ RollbackHot \/ RollbackStop \/ RollbackSave
    BY <1>3, <1>8
       DEF Verify, VerifyFails, FinalCheck, WatcherKept, StartWatcher, StartWatcherFails,
                SaveHot, FinishStart, FinishRestart, RollbackHot, RollbackStop, RollbackSave,
                StopTodo
  <1>9. CASE RestoreStop \/ RestoreSave \/ CleanupHot \/ CleanupStop \/ CleanupSave \/ StopHot
             \/ StopServices \/ StopLast \/ StopSave \/ RestartStop \/ UNCHANGED vars
    BY <1>3, <1>9 DEF RestoreStop, RestoreSave, CleanupHot, CleanupStop, CleanupSave, StopHot,
                StopServices, StopLast, StopSave, RestartStop, StopTodo
  <1>. QED
    BY <1>5, <1>6, <1>7, <1>8, <1>9 DEF Next, Step

(* A command that returns has nothing of its own.                            *)
LEMMA ReturnFresh ==
  ASSUME Leave, FreshNext(disk')
  PROVE  FreshInv'
  <1>1. mem' = NoSession /\ orig' = NoSession /\ kind' = "none"
    BY DEF Leave
  <1>2. FreshNext(NoSession) /\ DatedNext(NoSession)
    <2>1. \A s \in Service : NoSession.fp[s] = None
      BY NoSessionType DEF NoVersions
    <2>. QED
      BY <2>1, FreshNothing
  <1>. QED
    BY <1>1, <1>2, FreshPrimed

(* One that goes on keeps the session it found.                              *)
LEMMA GoesOnFresh ==
  ASSUME FreshInv, DatedNext(orig), kind = "restart" => FreshNext(orig),
         FreshNext(disk'), FreshNext(mem'), orig' = orig, kind' = kind
  PROVE  FreshInv'
  BY FreshPrimed

(* Steps that start nothing and record no fingerprint.                       *)
LEMMA CalmFresh ==
  ASSUME TypeOK, KindInv, FreshInv, Ageing, [Next]_vars, ~StartService, ~Verify
  PROVE  FreshInv'
  <1> USE DEF vars, world, locals, command, rest, Goto
  <1>0. /\ SessionOK(disk) /\ SessionOK(mem) /\ SessionOK(orig)
        /\ disk \in Session /\ mem \in Session /\ orig \in Session
    BY TypeParts DEF SessionsType, SessionOK
  <1>1. FreshNext(disk) /\ FreshNext(mem)
    BY <1>0, FreshAges DEF FreshInv
  <1>2. DatedNext(orig) /\ (kind = "restart" => FreshNext(orig)) /\ DatedNext(disk)
    BY <1>0, <1>1, DatedAges, FreshAges DEF FreshInv, FreshNext
  <1>3. ASSUME NEW x, SessionOK(x), FreshNext(x)
        PROVE  /\ \A h : FreshNext([x EXCEPT !.hot = h])
               /\ \A c : FreshNext([x EXCEPT !.conn = c])
               /\ \A h, c : FreshNext([x EXCEPT !.hot = h, !.conn = c])
    <2>1. x \in Session
      BY <1>3 DEF SessionOK
    <2>2. ASSUME NEW y, y.services = x.services, y.fp = x.fp PROVE FreshNext(y)
      BY <1>3, <2>2 DEF FreshNext, DatedNext, Process
    <2>3. \A h, c : /\ [x EXCEPT !.hot = h].services = x.services
                    /\ [x EXCEPT !.hot = h].fp = x.fp
                    /\ [x EXCEPT !.conn = c].services = x.services
                    /\ [x EXCEPT !.conn = c].fp = x.fp
                    /\ [x EXCEPT !.hot = h, !.conn = c].services = x.services
                    /\ [x EXCEPT !.hot = h, !.conn = c].fp = x.fp
      BY <2>1 DEF Session
    <2>. QED
      BY <2>2, <2>3
  <1>4. \A S : SessionOK(Keep(mem, S)) /\ FreshNext(Keep(mem, S))
    <2>1. SUFFICES ASSUME NEW S PROVE SessionOK(Keep(mem, S)) /\ FreshNext(Keep(mem, S))
      OBVIOUS
    <2>2. Entries(Keep(mem, S), {mem})
      BY <1>0, KeepEntries
    <2>. QED
      BY <1>0, <1>1, <2>2, KeepParts, FreshEntries
  <1>5. \A c, S : /\ FreshNext(NoSession)
                  /\ FreshNext([NoSession EXCEPT !.exists = TRUE, !.conn = c])
                  /\ FreshNext([NoSession EXCEPT !.exists = TRUE, !.selected = S, !.conn = c])
    <2>1. \A c, S, s : s \in Service =>
              /\ NoSession.fp[s] = None
              /\ [NoSession EXCEPT !.exists = TRUE, !.conn = c].fp[s] = None
              /\ [NoSession EXCEPT !.exists = TRUE, !.selected = S, !.conn = c].fp[s] = None
      BY DEF NoSession, NoVersions
    <2>. QED
      BY <2>1, FreshNothing
  <1>6. CASE UserCommand \/ WatcherRestarts
    <2>1. CASE UNCHANGED <<disk, mem, orig, kind>>
      BY <1>1, <1>2, <2>1, FreshPrimed
    <2>2. CASE mem' = disk /\ orig' = disk /\ disk' = disk
      BY <1>1, <1>2, <2>2, FreshPrimed
    <2>. QED
      BY <1>6, <2>1, <2>2, Begins
  <1>7. CASE Environment
    <2>1. CASE Unaffected
      BY <1>1, <1>2, <2>1, FreshPrimed DEF Unaffected
    <2>2. CASE Crash
      BY <1>1, <2>2, ReturnFresh DEF Crash, Killed
    <2>. QED
      BY <1>7, <2>1, <2>2, Surroundings
  <1>8. CASE /\ disk' \in {disk, mem, NoSession}
             /\ Leave \/ UNCHANGED <<mem, orig, kind>>
    BY <1>1, <1>2, <1>5, <1>8, ReturnFresh, FreshPrimed
  <1>9. CASE ReplaceStop \/ RollbackStop \/ CleanupStop \/ StopServices \/ UNCHANGED vars
    <2>1. UNCHANGED <<disk, mem, orig, kind>>
      BY <1>9 DEF ReplaceStop, RollbackStop, CleanupStop, StopServices, StopTodo
    <2>. QED
      BY <1>8, <2>1
  <1>10. CASE Fingerprint \/ Build \/ PrepareFails \/ StartServiceFails \/ VerifyFails \/ WatcherKept
              \/ StartWatcherFails \/ FinishStart \/ RestartStop
    <2>1. /\ disk' = disk
          /\ UNCHANGED <<mem, orig, kind>> \/ Leave
      BY <1>10
         DEF Fingerprint, Build, PrepareFails, StartServiceFails, VerifyFails, WatcherKept,
                  StartWatcherFails, FinishStart, RestartStop, Abort, Undo, Rollback,
                  RollbackGroup
    <2>. QED
      BY <1>8, <2>1
  <1>11. CASE ClearOld \/ SaveNew \/ SaveStarted \/ FinalCheck \/ FinishRestart \/ RestoreSave
    <2>1. /\ disk' \in {disk, NoSession, mem}
          /\ Leave \/ UNCHANGED <<mem, orig, kind>>
      BY <1>11 DEF ClearOld, SaveNew, SaveStarted, FinalCheck, FinishRestart, RestoreSave, Save,
                  SaveFails, Undo, Rollback, RollbackGroup
    <2>. QED
      BY <1>8, <2>1
  <1>12. CASE ReplaceHot \/ ReleaseOld \/ StartWatcher \/ SaveHot \/ RollbackHot \/ StopHot \/ CleanupHot
    <2>1. /\ disk' \in {disk, mem}
          /\ \/ Leave
             \/ /\ UNCHANGED <<orig, kind>>
                /\ \/ mem' = mem
                   \/ \E h : mem' = [mem EXCEPT !.hot = h]
                   \/ \E c : mem' = [mem EXCEPT !.conn = c]
      BY <1>12
         DEF ReplaceHot, ReleaseOld, StartWatcher, SaveHot, RollbackHot, StopHot, CleanupHot,
                   Killed, Save, SaveFails
    <2>2. FreshNext(disk')
      BY <1>1, <2>1
    <2>3. mem' = mem \/ (\E h : mem' = [mem EXCEPT !.hot = h]) \/ (\E c : mem' = [mem EXCEPT !.conn = c])
             => FreshNext(mem')
      <3>1. /\ \A h : FreshNext([mem EXCEPT !.hot = h])
            /\ \A c : FreshNext([mem EXCEPT !.conn = c])
        BY <1>0, <1>1, <1>3
      <3>2. ASSUME NEW y, FreshNext(y), mem' = y PROVE FreshNext(mem')
        BY <3>2
      <3>. QED
        BY <1>1, <3>1, <3>2
    <2>. QED
      BY <1>2, <2>1, <2>2, <2>3, ReturnFresh, FreshPrimed
  <1>13. CASE ReplaceSave
    <2>1. /\ disk' \in {disk, Keep(mem, failed)}
          /\ Leave \/ (mem' = Keep(mem, {}) /\ UNCHANGED <<orig, kind>>)
      BY <1>13 DEF ReplaceSave, Save, SaveFails
    <2>. QED
      BY <1>1, <1>2, <1>4, <2>1, ReturnFresh, FreshPrimed
  <1>14. CASE Connect
    <2>1. \E c :
             \/ /\ mem' = [NoSession EXCEPT !.exists = TRUE, !.selected = targets, !.conn = c]
                /\ UNCHANGED <<disk, orig, kind>>
             \/ /\ disk' \in {disk, [NoSession EXCEPT !.exists = TRUE, !.conn = TRUE]}
                /\ Leave
      BY <1>14 DEF Connect, Save, SaveFails
    <2>2. FreshNext(disk') /\ (Leave \/ (FreshNext(mem') /\ UNCHANGED <<orig, kind>>))
      BY <1>1, <1>5, <2>1, ZenonT(60)
    <2>. QED
      BY <1>2, <2>2, ReturnFresh, FreshPrimed
  <1>15. CASE RollbackSave \/ CleanupSave \/ StopSave
    <2>1. /\ Leave
          /\ \/ disk' \in {disk, NoSession, mem}
             \/ \E S : disk' = Keep(mem, S)
             \/ \E S, c : disk' = [Keep(mem, S) EXCEPT !.conn = c]
      BY <1>15 DEF RollbackSave, CleanupSave, StopSave, SaveOrClear, SaveFails
    <2>2. \A S, c : FreshNext([Keep(mem, S) EXCEPT !.conn = c])
      BY <1>3, <1>4
    <2>3. FreshNext(disk')
      <3>1. ASSUME NEW y, FreshNext(y), disk' = y PROVE FreshNext(disk')
        BY <3>1
      <3>. QED
        BY <1>1, <1>4, <1>5, <2>1, <2>2, <3>1
    <2>. QED
      BY <2>1, <2>3, ReturnFresh
  <1>16. CASE RestoreStop
    <2>1. PICK s \in Service : s = Last(todo)
      BY <1>16, Ordered DEF RestoreStop, TypeOK
    <2>2. mem' = mem \/ mem' = List(mem, s, orig.services[s], orig.fp[s])
      BY <1>16, <2>1 DEF RestoreStop
    <2>3. Entries(List(mem, s, orig.services[s], orig.fp[s]), {mem, orig})
      <3>1. /\ List(mem, s, orig.services[s], orig.fp[s]).services
                  = [mem.services EXCEPT ![s] = orig.services[s]]
            /\ List(mem, s, orig.services[s], orig.fp[s]).fp = [mem.fp EXCEPT ![s] = orig.fp[s]]
        BY <1>0 DEF List, Session
      <3>2. mem.services \in [Service -> 0 .. Slots] /\ mem.fp \in [Service -> MaybeVersion]
        BY <1>0 DEF Session
      <3>. QED
        BY <3>1, <3>2 DEF Entries
    <2>4. kind = "restart" /\ UNCHANGED <<disk, orig, kind>>
      BY <1>16 DEF RestoreStop, KindInv, OfRestart
    <2>5. FreshNext(mem')
      BY <1>1, <1>2, <2>2, <2>3, <2>4, FreshEntries
    <2>. QED
      BY <1>1, <1>2, <2>4, <2>5, FreshPrimed
  <1>17. CASE StopLast
    <2>1. /\ UNCHANGED <<disk, orig, kind>>
          /\ \/ mem' = Keep(mem, (Listed(mem) \ targets) \cup failed)
             \/ \E h, c : mem' = [Keep(mem, (Listed(mem) \ targets) \cup failed)
                                    EXCEPT !.hot = h, !.conn = c]
             \/ \E c : mem' = [Keep(mem, (Listed(mem) \ targets) \cup failed) EXCEPT !.conn = c]
      BY <1>17 DEF StopLast
    <2>2. FreshNext(mem')
      <3>. DEFINE left == Keep(mem, (Listed(mem) \ targets) \cup failed)
      <3>1. SessionOK(left) /\ FreshNext(left)
        BY <1>4
      <3>. HIDE DEF left
      <3>2. /\ \A h, c : FreshNext([left EXCEPT !.hot = h, !.conn = c])
            /\ \A c : FreshNext([left EXCEPT !.conn = c])
        BY <1>3, <3>1
      <3>3. ASSUME NEW y, FreshNext(y), mem' = y PROVE FreshNext(mem')
        BY <3>3
      <3>. QED
        BY <2>1, <3>1, <3>2, <3>3 DEF left
    <2>. QED
      BY <1>1, <1>2, <2>1, <2>2, FreshPrimed
  <1>. QED
    BY <1>6, <1>7, <1>9, <1>10, <1>11, <1>12, <1>13, <1>14, <1>15, <1>16, <1>17 DEF Next, Step

(* Verify records the fingerprints of what the command built and started.    *)
LEMMA VerifyFresh ==
  ASSUME TypeOK, KindInv, WorkInv, ArtifactInv, FreshInv, Ageing, Verify
  PROVE  FreshInv'
  <1> USE DEF vars, world, locals, command, rest, Goto, Starting
  <1>0. disk \in Session /\ mem \in Session /\ orig \in Session
    BY DEF TypeOK
  <1>1. FreshNext(disk) /\ FreshNext(mem)
    BY <1>0, FreshAges DEF FreshInv
  <1>2. DatedNext(orig) /\ (kind = "restart" => FreshNext(orig))
    BY <1>0, DatedAges, FreshAges DEF FreshInv
  <1>. DEFINE verified == [mem EXCEPT !.fp =
                             [s \in Service |-> IF s \in started THEN fps[s] ELSE @[s]]]
  <1>3. /\ verified.services = mem.services
        /\ \A s \in Service : verified.fp[s] = IF s \in started THEN fps[s] ELSE mem.fp[s]
    BY <1>0 DEF Session
  <1>4. \A s \in started : /\ s \notin unbuilt' => NoNewer(fps[s], built'[s])
                           /\ fps[s] # None => fps[s] <= source[s]
    <2>1. pc \in Starting /\ started \subseteq targets /\ targets \subseteq Service
      BY DEF Verify, WorkInv, TypeOK
    <2>2. ASSUME NEW s \in started, s \notin unbuilt'
          PROVE  NoNewer(fps[s], built'[s])
      <3>1. built'[s] = artifact[s] /\ ~skip
        BY <2>1, <2>2 DEF ArtifactInv, Ageing, TypeOK
      <3>2. BuiltAfter(s)
        BY <2>1, <3>1 DEF ArtifactInv
      <3>. QED
        BY <3>1, <3>2 DEF BuiltAfter
    <2>. QED
      BY <2>1, <2>2 DEF ArtifactInv
  <1>5. \A s \in started : fps[s] # None => fps[s] <= source'[s]
    <2>1. \A s \in started : s \in Service /\ fps[s] \in MaybeVersion
                             /\ source[s] \in Version /\ source'[s] \in Version
      BY DEF TypeOK, Ageing
    <2>. QED
      BY <1>4, <2>1, VersionsOrdered DEF Ageing
  <1>6. FreshNext(verified)
    <2>. HIDE DEF verified
    <2>. QED
      BY <1>1, <1>3, <1>4, <1>5 DEF FreshNext, DatedNext, NoNewer, Process
  <1>7. \/ Leave /\ disk' \in {disk, verified}
        \/ disk' \in {disk, verified} /\ mem' \in {mem, verified} /\ UNCHANGED <<orig, kind>>
    BY DEF Verify, Save, SaveFails, Abort, Rollback
  <1>. QED
    BY <1>1, <1>2, <1>6, <1>7, ReturnFresh, FreshPrimed

(* A new process is built after the fingerprint that is listed with it, and  *)
(* its predecessor does not run any more.                                    *)
LEMMA StartFreshly ==
  ASSUME TypeOK, KindInv, WorkInv, GoneInv, ArtifactInv, FreshInv, StartService
  PROVE  FreshInv'
  <1> USE DEF Starting
  <1>0. disk \in Session /\ mem \in Session /\ orig \in Session
    BY DEF TypeOK
  <1>1. PICK s \in Service : s = First(todo) /\ s \in todo
    BY Ordered DEF StartService, TypeOK
  <1>2. PICK i \in FreeSlot(s) :
          /\ os' = [os EXCEPT ![<<s, i>>] = "up"]
          /\ built' = [built EXCEPT ![s] = artifact[s]]
          /\ unbuilt' = IF skip THEN unbuilt \cup {s} ELSE unbuilt \ {s}
          /\ mem' = List(mem, s, i, IF kind = "start" THEN None ELSE orig.fp[s])
    BY <1>1 DEF StartService
  <1>3. pc = "start" /\ UNCHANGED <<disk, source, orig, kind>> /\ kind \in {"start", "restart"}
    BY DEF StartService, command, KindInv
  <1>4. s \in targets /\ (s \notin unbuilt' => NoNewer(orig.fp[s], artifact[s]))
    <2>1. s \in targets
      BY <1>1, <1>3 DEF WorkInv
    <2>2. CASE skip
      BY <1>2, <2>1, <2>2
    <2>3. CASE ~skip
      BY <1>3, <2>1, <2>3 DEF ArtifactInv, BuiltAfter
    <2>. QED
      BY <2>1, <2>2, <2>3
  <1>5. /\ mem'.services = [mem.services EXCEPT ![s] = i]
        /\ mem'.fp = [mem.fp EXCEPT ![s] = IF kind = "start" THEN None ELSE orig.fp[s]]
    BY <1>0, <1>2 DEF List, Session
  <1>6. /\ mem.services \in [Service -> 0 .. Slots] /\ mem.fp \in [Service -> MaybeVersion]
        /\ built \in [Service -> MaybeVersion] /\ os \in [Proc \cup Watcher -> {"off", "up", "stuck"}]
    BY <1>0 DEF Session, TypeOK
  <1>7. DatedNext(disk) /\ DatedNext(orig)
    BY <1>3 DEF DatedNext, Dated, FreshInv, FreshSession
  <1>8. ASSUME NEW x \in Session, FreshSession(x), NEW t \in Service \ unbuilt', t # s,
               x.services[t] # 0, os'[Process(x, t)] = "up"
        PROVE  NoNewer(x.fp[t], built'[t])
    <2>1. Process(x, t) \in Proc /\ Process(x, t) # <<s, i>>
      BY <1>8, ListedProcess DEF Process
    <2>2. os[Process(x, t)] = "up" /\ built'[t] = built[t] /\ t \notin unbuilt
      BY <1>2, <1>6, <1>8, <2>1
    <2>. QED
      BY <1>8, <2>2 DEF FreshSession, Up, Listed
  <1>9. ASSUME NEW x \in {disk, orig}, FreshSession(x), kind = "start" => x = disk
        PROVE  x.services[s] # 0 => os'[Process(x, s)] # "up"
    <2>1. SUFFICES ASSUME x.services[s] # 0 PROVE os'[Process(x, s)] # "up"
      OBVIOUS
    <2>2. kind = "restart" /\ x.services[s] = orig.services[s] /\ Gone(orig, s)
      BY <1>1, <1>3, <1>4, <1>9, <2>1 DEF GoneInv
    <2>3. x.services[s] # i
      BY <1>2 DEF FreeSlot
    <2>4. os[Process(x, s)] = "off" /\ Process(x, s) \in Proc
      BY <1>0, <2>1, <2>2, ListedProcess DEF Gone, Process
    <2>. QED
      BY <1>2, <1>6, <2>3, <2>4 DEF Process
  <1>10. FreshNext(disk)
    BY <1>0, <1>7, <1>8, <1>9 DEF FreshNext, FreshInv
  <1>11. kind = "restart" => FreshNext(orig)
    BY <1>0, <1>7, <1>8, <1>9 DEF FreshNext, FreshInv
  <1>12. FreshNext(mem')
    <2>1. mem'.fp[s] # None => orig.fp[s] # None /\ mem'.fp[s] = orig.fp[s] /\ built'[s] = artifact[s]
      BY <1>2, <1>5, <1>6
    <2>2. /\ s \notin unbuilt' => NoNewer(mem'.fp[s], built'[s])
          /\ mem'.fp[s] # None => mem'.fp[s] <= source'[s]
      BY <1>3, <1>4, <2>1 DEF NoNewer, FreshInv, Dated
    <2>3. ASSUME NEW t \in Service, t # s
          PROVE  mem'.services[t] = mem.services[t] /\ mem'.fp[t] = mem.fp[t]
      BY <1>5, <1>6, <2>3
    <2>4. ASSUME NEW t \in Service
          PROVE  /\ mem'.fp[t] # None => mem'.fp[t] <= source'[t]
                 /\ t \notin unbuilt' /\ mem'.services[t] # 0 /\ os'[Process(mem', t)] = "up"
                        => NoNewer(mem'.fp[t], built'[t])
      <3>1. CASE t = s
        BY <2>2, <3>1
      <3>2. CASE t # s
        BY <1>0, <1>3, <1>8, <2>3, <3>2 DEF FreshInv, FreshSession, Dated, Process
      <3>. QED
        BY <3>1, <3>2
    <2>. QED
      BY <2>4 DEF FreshNext, DatedNext
  <1>. QED
    BY <1>3, <1>7, <1>10, <1>11, <1>12, FreshPrimed

LEMMA FreshStep ==
  ASSUME TypeOK, KindInv, WorkInv, ResistInv, GoneInv, NoReverts, ArtifactInv, FreshInv, [Next]_vars
  PROVE  FreshInv'
  <1>1. CASE StartService
    BY <1>1, StartFreshly
  <1>2. CASE ~StartService
    <2>1. Ageing
      BY <1>2, Ages
    <2>. QED
      BY <1>2, <2>1, CalmFresh, VerifyFresh
  <1>. QED
    BY <1>1, <1>2

(* What a command builds is newer than the fingerprints.                     *)
LEMMA ArtifactStep ==
  ASSUME TypeOK, KindInv, WorkInv, ResistInv, NoReverts, ArtifactInv, FreshInv, [Next]_vars
  PROVE  ArtifactInv'
  <1> USE DEF vars, world, locals, command, rest, Goto, Starting, Building, Replacing
  <1>0. /\ \A s \in Service : /\ fps[s] \in MaybeVersion /\ source[s] \in Version
                              /\ artifact[s] \in MaybeVersion
        /\ \A s \in Service : NoVersions[s] = None
        /\ \A s \in Service : source[s] <= source[s] /\ source[s] # None
        /\ targets \subseteq Service /\ todo \subseteq Service /\ started \subseteq Service
        /\ fps \in [Service -> MaybeVersion] /\ artifact \in [Service -> MaybeVersion]
    BY ConstantsAssumption DEF TypeOK, NoVersions, Version
  <1>1. StartService \/ Ageing
    BY Ages
  <1>2. \A s \in Service : fps[s] # None => fps[s] <= source'[s]
    <2>1. CASE StartService
      BY <2>1 DEF StartService, ArtifactInv
    <2>2. CASE Ageing
      BY <1>0, <2>2, VersionsOrdered DEF Ageing, ArtifactInv
    <2>. QED
      BY <1>1, <2>1, <2>2
  <1>3. CASE Leave
    BY <1>0, <1>3 DEF Leave, ArtifactInv
  <1>4. CASE UNCHANGED fps /\ pc' \notin {"restartStop"} \cup Building \cup Starting
    BY <1>2, <1>4 DEF ArtifactInv
  <1>5. CASE UNCHANGED <<fps, artifact, orig, targets, todo, started, pc, skip, built, unbuilt>>
    BY <1>2, <1>5 DEF ArtifactInv, BuiltAfter
  <1>6. CASE UserCommand \/ WatcherRestarts
    <2>1. CASE UNCHANGED <<pc, command, locals, todo, world>>
      BY <1>5, <2>1
    <2>2. CASE /\ started' = {} /\ source' = source
               /\ \/ pc' \in Replacing /\ fps' = NoVersions
                  \/ pc' \in {"stopHot", "stopServices"} /\ fps' = NoVersions
                  \/ /\ pc' \in {"hot", "build"} /\ targets' = todo'
                     /\ fps' = [s \in Service |-> IF s \in targets' THEN source[s] ELSE None]
      <3>1. \A s \in Service : fps'[s] # None => fps'[s] <= source'[s]
        BY <1>0, <2>2
      <3>2. pc' \in Building => targets' \ todo' = {}
        BY <2>2
      <3>3. pc' \notin Starting \cup {"restartStop"}
        BY <2>2
      <3>. QED
        BY <3>1, <3>2, <3>3 DEF ArtifactInv
    <2>3. CASE AskReplacement \/ Decline
      BY <2>1, <2>3 DEF AskReplacement, Decline
    <2>4. CASE \E S \in (SUBSET Service) \ {{}} : StartFresh(S) \/ StartReplacement(S)
      BY <2>2, <2>4 DEF StartFresh, StartReplacement, Begin
    <2>5. CASE \E S \in SUBSET Service, all, force \in BOOLEAN : Stop(S, all, force)
      BY <2>2, <2>5 DEF Stop, Begin
    <2>6. CASE \E who, S, replanned : Restart(who, S, replanned)
      BY <2>2, <2>6 DEF Restart, Begin
    <2>. QED
      BY <1>6, <2>3, <2>4, <2>5, <2>6 DEF UserCommand, WatcherRestarts
  <1>7. CASE Environment
    <2>1. CASE Unaffected
      <3>1. UNCHANGED <<built, unbuilt>>
        BY <1>7, <2>1 DEF Environment, ProcessEnds, WatcherExits, Edit, Crash, Unaffected
      <3>. QED
        BY <1>5, <2>1, <3>1 DEF Unaffected
    <2>2. CASE Crash
      BY <1>3, <2>2 DEF Crash, Killed
    <2>. QED
      BY <1>7, <2>1, <2>2, Surroundings
  <1>8. CASE ReplaceHot \/ ReplaceSave \/ ReleaseOld \/ ClearOld \/ Connect
    <2>1. \/ Leave
          \/ UNCHANGED fps /\ pc' \in Replacing
      BY <1>8 DEF ReplaceHot, ReplaceSave, ReleaseOld, ClearOld, Connect
    <2>. QED
      BY <1>3, <1>4, <2>1
  <1>9. CASE ReplaceStop \/ RollbackStop \/ CleanupStop \/ StopServices
    <2>1. UNCHANGED <<fps, pc>> /\ pc \in {"replaceStop", "rollbackStop", "cleanupStop", "stopServices"}
      BY <1>9 DEF ReplaceStop, RollbackStop, CleanupStop, StopServices, StopTodo
    <2>. QED
      BY <1>4, <2>1
  <1>10. CASE PrepareFails \/ StartServiceFails \/ VerifyFails \/ FinalCheck \/ WatcherKept \/ StartWatcher
              \/ StartWatcherFails \/ SaveHot \/ FinishStart \/ FinishRestart
    <2>1. \/ Leave
          \/ /\ UNCHANGED fps
             /\ pc' \in {"rollbackHot", "restore", "hot", "finish", "saveHot", "cleanupHot"}
      BY <1>10
         DEF PrepareFails, StartServiceFails, VerifyFails, FinalCheck, WatcherKept,
             StartWatcher,
                   StartWatcherFails, SaveHot, FinishStart, FinishRestart, Abort, Undo,
                   Rollback,
                   RollbackGroup
    <2>. QED
      BY <1>3, <1>4, <2>1
  <1>11. CASE RollbackHot \/ RollbackSave \/ RestoreStop \/ RestoreSave \/ CleanupHot \/ CleanupSave
              \/ StopHot \/ StopLast \/ StopSave
    <2>1. \/ Leave
          \/ /\ UNCHANGED fps
             /\ pc' \in {"rollbackStop", "restore", "cleanupStop", "stopServices", "stopSave"}
      BY <1>11 DEF RollbackHot, RollbackSave, RestoreStop, RestoreSave, CleanupHot, CleanupSave,
                   StopHot, StopLast, StopSave, Killed
    <2>. QED
      BY <1>3, <1>4, <2>1
  <1>12. CASE SaveNew
    <2>1. CASE pc' = "fingerprint" /\ todo' = targets /\ pc = "saveNew"
               /\ UNCHANGED <<fps, artifact, orig, targets, started>>
      BY <1>2, <2>1 DEF ArtifactInv
    <2>. QED
      BY <1>3, <1>12, <2>1 DEF SaveNew
  <1>13. CASE Fingerprint
    <2>1. First(todo) \in todo
      BY <1>13, Ordered DEF Fingerprint, TypeOK
    <2>2. PICK s \in Service : s = First(todo)
      BY <1>0, <2>1
    <2>3. /\ s \in todo /\ s \in targets /\ pc = "fingerprint" /\ pc' = "build"
          /\ fps' = [fps EXCEPT ![s] = source[s]]
          /\ UNCHANGED <<artifact, orig, targets, started, todo, source, skip>>
      BY <1>13, <2>1, <2>2 DEF Fingerprint, WorkInv
    <2>4. /\ fps'[s] = source[s]
          /\ \A t \in Service : t # s => fps'[t] = fps[t]
      BY <1>0, <2>3
    <2>5. \A t \in Service : fps'[t] # None => fps'[t] <= source'[t]
      BY <1>0, <1>2, <2>3, <2>4
    <2>6. ~skip' => \A t \in targets' \ todo' : BuiltAfter(t)'
      BY <1>0, <2>3, <2>4 DEF ArtifactInv, BuiltAfter
    <2>. QED
      BY <2>3, <2>5, <2>6 DEF ArtifactInv
  <1>14. CASE Build
    <2>1. First(todo) \in todo
      BY <1>14, Ordered DEF Build, TypeOK
    <2>2. PICK s \in Service : s = First(todo)
      BY <1>0, <2>1
    <2>3. /\ s \in todo /\ s \in targets /\ pc = "build" /\ started = {} /\ todo \subseteq targets
          /\ ~skip => artifact' = [artifact EXCEPT ![s] = source[s]]
          /\ UNCHANGED <<fps, orig, targets, started, source, skip>>
          /\ \/ todo' = todo \ {s} /\ pc' \in {"fingerprint", "build"}
             \/ todo = {s} /\ pc' \in {"start", "restartStop"}
      BY <1>14, <2>1, <2>2 DEF Build, WorkInv, BeforeStart
    <2>4. /\ fps[s] # None => fps[s] <= source[s]
          /\ orig.fp[s] # None => orig.fp[s] <= source[s]
      BY DEF ArtifactInv, FreshInv, Dated
    <2>5. ~skip => /\ artifact'[s] = source[s]
                   /\ \A t \in Service : t # s => artifact'[t] = artifact[t]
      BY <1>0, <2>3
    <2>6. ASSUME ~skip', NEW t \in (targets \ todo) \cup {s}
          PROVE  BuiltAfter(t)'
      <3>1. CASE t = s
        BY <1>0, <2>3, <2>4, <2>5, <2>6, <3>1 DEF BuiltAfter, NoNewer
      <3>2. CASE t # s
        <4>1. BuiltAfter(t)
          BY <2>3, <2>6, <3>2 DEF ArtifactInv
        <4>. QED
          BY <1>0, <2>3, <2>5, <2>6, <3>2, <4>1 DEF BuiltAfter
      <3>. QED
        BY <3>1, <3>2
    <2>7. /\ pc' \in Building => targets' \ todo' = (targets \ todo) \cup {s}
          /\ pc' \notin Building => targets' = (targets \ todo) \cup {s}
      BY <2>3
    <2>. QED
      BY <1>2, <2>3, <2>6, <2>7 DEF ArtifactInv
  <1>15. CASE StartService
    <2>1. First(todo) \in todo
      BY <1>15, Ordered DEF StartService, TypeOK
    <2>2. PICK s \in Service : s = First(todo)
      BY <1>0, <2>1
    <2>3. /\ pc = "start" /\ pc' = "saveStarted" /\ started' = started \cup {s}
          /\ built' = [built EXCEPT ![s] = artifact[s]]
          /\ unbuilt' = IF skip THEN unbuilt \cup {s} ELSE unbuilt \ {s}
          /\ UNCHANGED <<fps, artifact, orig, targets, skip>>
      BY <1>15, <2>2 DEF StartService
    <2>4. built \in [Service -> MaybeVersion]
      BY DEF TypeOK
    <2>5. \A t \in started' : built'[t] = artifact'[t] /\ (t \in unbuilt' <=> skip')
      BY <1>0, <2>3, <2>4 DEF ArtifactInv
    <2>6. ~skip' => \A t \in targets' : BuiltAfter(t)'
      BY <2>3 DEF ArtifactInv, BuiltAfter
    <2>. QED
      BY <1>2, <2>3, <2>5, <2>6 DEF ArtifactInv
  <1>16. CASE SaveStarted \/ Verify
    <2>1. \/ Leave
          \/ UNCHANGED fps /\ pc' \in {"rollbackHot", "restore", "final", "hot"}
          \/ /\ UNCHANGED <<fps, artifact, orig, targets, built, unbuilt, skip>> /\ pc \in Starting
             /\ pc' \in {"start", "verify"} /\ started' \subseteq started
      BY <1>16 DEF SaveStarted, Verify, Abort, Undo, Rollback, RollbackGroup
    <2>. QED
      BY <1>2, <1>3, <1>4, <2>1 DEF ArtifactInv, BuiltAfter
  <1>17. CASE RestartStop
    <2>1. \/ Leave
          \/ /\ UNCHANGED <<fps, artifact, orig, targets, started, skip>> /\ pc = "restartStop"
             /\ pc' \in {"start", "restartStop"}
      BY <1>17 DEF RestartStop
    <2>2. pc = "restartStop" => started = {}
      BY DEF WorkInv, BeforeStart
    <2>. QED
      BY <1>2, <1>3, <2>1, <2>2 DEF ArtifactInv, BuiltAfter
  <1>18. CASE UNCHANGED vars
    BY <1>5, <1>18
  <1>. QED
    BY <1>6, <1>7, <1>8, <1>9, <1>10, <1>11, <1>12, <1>13, <1>14, <1>15, <1>16, <1>17, <1>18
    DEF Next, Step

-----------------------------------------------------------------------------
(* The invariant.                                                            *)

LEMMA InitialInvariant ==
  ASSUME Init
  PROVE  IInv
  <1>1. /\ \A p \in Proc \cup Watcher : os[p] = "off"
        /\ \A s \in Service : /\ NoSession.services[s] = 0 /\ NoSession.fp[s] = None
                              /\ NoVersions[s] = None
    BY DEF Init, NoSession, NoSlots, NoVersions
  <1>2. TypeOK
    <2>1. SessionsType
      BY NoSessionType DEF Init, SessionsType
    <2>2. WorldType
      <3>1. 0 \in Version
        BY ConstantsAssumption DEF Version
      <3>. QED
        BY <3>1, NoSessionType DEF Init, WorldType
    <2>3. LocalsType /\ TodoType
      BY NoSessionType DEF Init, LocalsType, TodoType
    <2>. QED
      BY <2>1, <2>2, <2>3, TypeParts
  <1>3. KindInv /\ WorkInv
    BY
       DEF Init, KindInv, WorkInv, OfStart, OfRestart, OfStop, Starting, Building, Finishing,
           Replacing,
           BeforeStart
  <1>4. LossInv
    <2>1. ResistInv /\ KnownInv /\ SavedInv
      BY <1>1 DEF Init, ResistInv, KnownInv, SavedInv, Saved, Alive
    <2>2. DownInv
      BY DEF Init, DownInv, Quiet, Starting
    <2>. QED
      BY <2>1, <2>2 DEF LossInv
  <1>5. SessionsInv
    BY DEF Init, SessionsInv, ShownInv, StartInv, RestartInv, GoneInv, Starting
  <1>6. SourceInv
    BY <1>1
       DEF Init, SourceInv, ArtifactInv, FreshInv, FreshSession, Dated, NoNewer, Up, Listed,
                Building, Starting, Replacing
  <1>. QED
    BY <1>2, <1>3, <1>4, <1>5, <1>6 DEF IInv

LEMMA InductiveInvariant ==
  ASSUME IInv, [Next]_vars
  PROVE  IInv'
  <1>1. TypeOK' /\ KindInv' /\ WorkInv'
    BY TypeStep, KindStep, WorkStep DEF IInv
  <1>2. /\ StopsOrSaves' <=> StopsOrSaves
        /\ NoReverts' <=> NoReverts
    BY FaultsKept DEF StopsOrSaves, NoReverts, May
  <1>3. ResistInv'
    BY ResistStep DEF IInv, LossInv
  <1>4. LossInv'
    BY <1>2, <1>3, KeptStep DEF IInv, LossInv, Kept
  <1>5. SessionsInv'
    BY ShownStep, StartStep, RestartStep, GoneStep DEF IInv, LossInv, SessionsInv
  <1>6. SourceInv'
    BY <1>2, ArtifactStep, FreshStep DEF IInv, LossInv, SessionsInv, SourceInv
  <1>. QED
    BY <1>1, <1>4, <1>5, <1>6 DEF IInv

(* Every reachable state satisfies the inductive invariant.                  *)
THEOREM Invariance == Spec => []IInv
  BY InitialInvariant, InductiveInvariant, PTL DEF Spec

(* What may go wrong in a behaviour is settled at its beginning.             *)
LEMMA FaultsSettled ==
  /\ Spec /\ StopsOrSaves => []StopsOrSaves
  /\ Spec /\ NoReverts => []NoReverts
  <1>1. [Next]_vars => /\ StopsOrSaves => StopsOrSaves'
                       /\ NoReverts => NoReverts'
    BY FaultsKept DEF StopsOrSaves, NoReverts, May
  <1>. QED
    BY <1>1, PTL DEF Spec

(* The session file, the processes and the commands keep their shape.        *)
THEOREM TypeCorrect == Spec => []TypeOK
  BY Invariance, PTL DEF IInv

(* Unless the session cannot be written while processes resist being         *)
(* stopped, every process that is alive stays known: to the session file, to *)
(* the running command, or as one that a killed command left.                *)
THEOREM NothingLost == Spec /\ StopsOrSaves => []NoLostService
  <1>1. IInv /\ StopsOrSaves => NoLostService
    BY DEF IInv, LossInv, KnownInv, Knows, NoLostService
  <1>. QED
    BY <1>1, Invariance, FaultsSettled, PTL

(* Under the same condition no service runs twice.                           *)
THEOREM OneInstance == Spec /\ StopsOrSaves => []SingleInstance
  <1>1. ASSUME IInv, StopsOrSaves, NEW s \in Service, NEW i \in 1 .. Slots, NEW j \in 1 .. Slots,
               Alive(<<s, i>>), Alive(<<s, j>>), i # j
        PROVE  {<<s, i>>, <<s, j>>} \cap orphan # {}
    <2>1. <<s, i>> \in Proc /\ <<s, j>> \in Proc
      BY Processes
    <2>. QED
      BY <1>1, <2>1 DEF IInv, LossInv, KnownInv, Knows, Names
  <1>2. IInv /\ StopsOrSaves => SingleInstance
    BY <1>1 DEF SingleInstance
  <1>. QED
    BY <1>2, Invariance, FaultsSettled, PTL

(* As long as no source returns to an earlier content, a fingerprint in the  *)
(* session is no newer than what the running process was built from.         *)
THEOREM FingerprintsTrue == Spec /\ NoReverts => []NoStaleFingerprint
  <1>1. IInv /\ NoReverts => NoStaleFingerprint
    BY DEF IInv, SourceInv, FreshInv, FreshSession, NoNewer, NoStaleFingerprint
  <1>. QED
    BY <1>1, Invariance, FaultsSettled, PTL

(* A replacing start stops the processes of the session that the user was    *)
(* shown, and no others.                                                     *)
THEOREM ReplacesWhatWasShown == Spec => ReplacementConfirmed
  <1>1. IInv => \A s \in Service : pc = "replaceStop" /\ s \in todo /\ s \notin todo' =>
                   mem.services[s] = token.services[s]
    BY DEF IInv, SessionsInv, ShownInv
  <1>. QED
    BY <1>1, Invariance, PTL DEF ReplacementConfirmed, Spec

(* A restart leaves the entries of services it is not about alone, also when *)
(* it fails, rolls back or cleans up.                                        *)
THEOREM RestartSparesOthers == Spec => RestartSpares
  <1>1. ASSUME IInv, [Next]_vars, kind = "restart", NEW s \in Service \ targets
        PROVE  disk'.services[s] = disk.services[s]
    <2> USE DEF vars, OfStart, OfRestart, OfStop
    <2>0. /\ SessionOK(mem) /\ mem \in Session
          /\ mem.services[s] = disk.services[s]
          /\ KindInv /\ pc # "idle"
      BY <1>1, TypeParts DEF IInv, SessionsType, SessionOK, SessionsInv, RestartInv, KindInv
    <2>1. CASE disk' = disk
      BY <2>1
    <2>2. CASE disk' = mem
      BY <2>0, <2>2
    <2>3. CASE UserCommand \/ WatcherRestarts \/ Environment
      BY <2>1, <2>3, Begins, Surroundings DEF Unaffected
    <2>4. CASE ReplaceSave \/ ClearOld \/ Connect \/ SaveNew \/ FinalCheck \/ RollbackSave \/ StopSave
      BY <1>1, <2>0, <2>4
         DEF ReplaceSave, ClearOld, Connect, SaveNew, FinalCheck, RollbackSave, StopSave,
                              KindInv
    <2>5. CASE SaveStarted \/ SaveHot \/ FinishRestart \/ RestoreSave
      <3>1. disk' \in {disk, mem}
        BY <2>5 DEF SaveStarted, SaveHot, FinishRestart, RestoreSave, Save, SaveFails
      <3>. QED
        BY <2>1, <2>2, <3>1
    <2>6. CASE Verify
      <3>1. disk' = disk \/ \E f : disk' = [mem EXCEPT !.fp = f]
        BY <2>6 DEF Verify, Save, SaveFails
      <3>2. \A f : [mem EXCEPT !.fp = f].services = mem.services
        BY <2>0 DEF Session
      <3>. QED
        BY <2>0, <3>1, <3>2
    <2>7. CASE CleanupSave
      <3>. DEFINE left == Keep(mem, (Listed(mem) \ targets) \cup failed)
      <3>1. left.services[s] = mem.services[s]
        BY <1>1, <2>0, KeepParts DEF Listed
      <3>2. disk' \in {disk, left} \/ (Vacant(left) /\ disk' = NoSession)
        BY <2>7 DEF CleanupSave, SaveOrClear, SaveFails
      <3>3. Vacant(left) => left.services[s] = 0
        BY DEF Vacant, Listed
      <3>4. NoSession.services[s] = 0
        BY NoSessionType DEF NoSlots
      <3>. HIDE DEF left
      <3>. QED
        BY <2>0, <3>1, <3>2, <3>3, <3>4
    <2>8. CASE ReplaceHot \/ ReplaceStop \/ ReleaseOld \/ Fingerprint \/ Build \/ PrepareFails
               \/ StartService \/ StartServiceFails \/ VerifyFails \/ WatcherKept \/ StartWatcher
               \/ StartWatcherFails \/ FinishStart
      BY <2>1, <2>8
         DEF ReplaceHot, ReplaceStop, StopTodo, ReleaseOld, Fingerprint, Build, PrepareFails,
                        StartService, StartServiceFails, VerifyFails, WatcherKept, StartWatcher,
                        StartWatcherFails, FinishStart
    <2>9. CASE RollbackHot \/ RollbackStop \/ RestoreStop \/ CleanupHot \/ CleanupStop \/ StopHot
               \/ StopServices \/ StopLast \/ RestartStop \/ UNCHANGED vars
      BY <2>1, <2>9
         DEF RollbackHot, RollbackStop, StopTodo, RestoreStop, CleanupHot, CleanupStop, StopHot,
                        StopServices, StopLast, RestartStop
    <2>. QED
      BY <1>1, <2>3, <2>4, <2>5, <2>6, <2>7, <2>8, <2>9 DEF Next, Step
  <1>2. IInv /\ [Next]_vars => (kind = "restart" =>
           \A s \in Service \ targets : disk'.services[s] = disk.services[s])
    BY <1>1
  <1>. QED
    BY <1>2, Invariance, PTL DEF RestartSpares, Spec

(* Unless the session cannot be written while processes resist being         *)
(* stopped, a start that is not killed leaves all it was asked for, or       *)
(* nothing that is not in the session.                                       *)
THEOREM StartsAllOrNothing == Spec /\ StopsOrSaves => StartAllOrNothing
  <1>. DEFINE Complete == disk' = mem /\ Listed(mem) = targets /\ mem.hot # None
              Undone(s) == \/ os'[Process(mem, s)] = "off"
                           \/ s \in failed /\ disk'.services[s] = mem.services[s]
  <1>1. ASSUME IInv, StopsOrSaves, [Next]_vars, kind = "start", pc # "idle", pc' = "idle", ~Crash
        PROVE  Complete \/ \A s \in Listed(mem) : (mem.services[s] # orig.services[s]) => Undone(s)
    <2> USE DEF vars, world, locals, command, rest, Goto, OfStart, OfRestart, OfStop
    <2>0. SessionOK(mem) /\ KindInv
      BY <1>1, TypeParts DEF IInv, SessionsType
    <2>1. CASE mem.services = orig.services
      BY <2>1
    <2>2. CASE mem.services = NoSlots
      BY <2>2 DEF Listed, NoSlots
    <2>3. CASE FinishStart
      BY <1>1, <2>3 DEF FinishStart, Rollback, IInv, SessionsInv, StartInv, Finishing
    <2>4. CASE RollbackSave
      <3>1. ASSUME NEW s \in Listed(mem), s \notin failed
            PROVE  os'[Process(mem, s)] = "off"
        BY <1>1, <2>4, <3>1 DEF RollbackSave, IInv, SessionsInv, StartInv
      <3>2. ASSUME NEW s \in Listed(mem), s \in failed
            PROVE  disk'.services[s] = mem.services[s]
        <4>1. May("stopFails") \/ May("stuck")
          BY <1>1, <2>4, <3>2 DEF RollbackSave, IInv, LossInv, ResistInv
        <4>2. ~May("saveFails")
          BY <1>1, <4>1 DEF StopsOrSaves
        <4>3. PICK k : disk' = IF Vacant([Keep(mem, failed) EXCEPT !.conn = @ /\ k])
                                  THEN NoSession ELSE [Keep(mem, failed) EXCEPT !.conn = @ /\ k]
          BY <2>4, <4>2 DEF RollbackSave, SaveOrClear, SaveFails
        <4>4. /\ Keep(mem, failed).services[s] = mem.services[s]
              /\ Keep(mem, failed) \in Session
              /\ s \in Service
          BY <2>0, <3>2, KeepParts DEF SessionOK, Listed
        <4>5. [Keep(mem, failed) EXCEPT !.conn = @ /\ k].services[s] = mem.services[s]
          BY <4>4 DEF Session
        <4>6. ~Vacant([Keep(mem, failed) EXCEPT !.conn = @ /\ k])
          BY <3>2, <4>4, <4>5 DEF Vacant, Listed
        <4>. QED
          BY <4>3, <4>5, <4>6
      <3>. QED
        BY <3>1, <3>2
    <2>5. CASE ReplaceHot \/ ReplaceSave \/ ReleaseOld \/ ClearOld \/ Connect \/ SaveNew
      <3>1. pc \in {"replaceHot", "replaceStop", "release", "clear", "connect", "saveNew"}
        BY <2>5 DEF ReplaceHot, ReplaceSave, ReleaseOld, ClearOld, Connect, SaveNew
      <3>2. mem.services \in {orig.services, NoSlots}
        BY <1>1, <3>1 DEF IInv, SessionsInv, ShownInv, StartInv
      <3>. QED
        BY <2>1, <2>2, <3>2
    <2>6. CASE UserCommand \/ WatcherRestarts \/ Environment
      BY <1>1, <2>6, Surroundings
         DEF Unaffected, UserCommand, WatcherRestarts, AskReplacement, Decline,
         StartFresh, StartReplacement, Stop, Restart, Begin
    <2>7. CASE ReplaceStop \/ Fingerprint \/ Build \/ PrepareFails \/ StartService \/ StartServiceFails
               \/ SaveStarted \/ Verify \/ VerifyFails \/ FinalCheck
      BY <1>1, <2>7 DEF ReplaceStop, StopTodo, Fingerprint, Build, PrepareFails, StartService,
         StartServiceFails, SaveStarted, Verify, VerifyFails, FinalCheck, Abort, Undo, Rollback
    <2>8. CASE WatcherKept \/ StartWatcher \/ StartWatcherFails \/ SaveHot \/ FinishRestart \/ RollbackHot
               \/ RollbackStop \/ RestoreStop \/ RestoreSave \/ UNCHANGED vars
      BY <1>1, <2>0, <2>8
         DEF WatcherKept, StartWatcher, StartWatcherFails, SaveHot, FinishRestart,
         RollbackHot, RollbackStop, StopTodo, RestoreStop, RestoreSave, Abort, Rollback, KindInv
    <2>9. CASE CleanupHot \/ CleanupStop \/ CleanupSave \/ StopHot \/ StopServices \/ StopLast \/ StopSave
               \/ RestartStop
      BY <1>1, <2>0, <2>9
         DEF CleanupHot, CleanupStop, CleanupSave, StopHot, StopServices, StopTodo,
         StopLast, StopSave, RestartStop, KindInv
    <2>. QED
      BY <1>1, <2>3, <2>4, <2>5, <2>6, <2>7, <2>8, <2>9 DEF Next, Step
  <1>2. IInv /\ StopsOrSaves /\ [Next]_vars =>
          (kind = "start" /\ pc # "idle" /\ pc' = "idle" /\ ~Crash =>
             \/ disk' = mem /\ Listed(mem) = targets /\ mem.hot # None
             \/ \A s \in Listed(mem) : (mem.services[s] # orig.services[s]) =>
                  \/ os'[Process(mem, s)] = "off"
                  \/ s \in failed /\ disk'.services[s] = mem.services[s])
    BY <1>1
  <1>. QED
    BY <1>2, Invariance, FaultsSettled, PTL DEF StartAllOrNothing, Spec
-----------------------------------------------------------------------------
(* Beside the watchers of HotReload.                                         *)

(* A watcher that is up is at one of its stages; one that restarts a service *)
(* is where it waits for that. Only a command of the user saves the session  *)
(* with a watcher it started.                                                *)
WatchersKnown ==
    /\ stage \in [Watcher -> {"off", "register", "first", "watch", "attempt"}]
    /\ queue \in [Watcher -> SUBSET Service]
    /\ \A h \in Watcher : stage[h] # "off" <=> os[h] = "up"
    /\ actor \in Watcher => stage[actor] = "attempt"
    /\ pc = "saveHot" => actor = Cli

(* A step keeps the command's actor or ends the command, and only the start  *)
(* of a watcher, in a user's command, leads to saving it.                    *)
LEMMA StepActor ==
  ASSUME Step, pc = "saveHot" => actor = Cli
  PROVE  /\ actor' \in {actor, None}
         /\ pc' = "saveHot" => actor' = Cli
  <1> USE DEF command, Leave, Goto, Rollback, RollbackGroup, Abort, Undo
  <1>1. CASE ReplaceHot \/ ReplaceStop \/ ReplaceSave \/ ReleaseOld \/ ClearOld \/ Connect \/ SaveNew
    BY <1>1
       DEF ReplaceHot, ReplaceStop, ReplaceSave, ReleaseOld, ClearOld, Connect, SaveNew,
           StopTodo
  <1>2. CASE Fingerprint \/ Build \/ PrepareFails \/ StartService \/ StartServiceFails \/ SaveStarted
    BY <1>2 DEF Fingerprint, Build, PrepareFails, StartService, StartServiceFails, SaveStarted
  <1>3. CASE Verify \/ VerifyFails \/ FinalCheck \/ WatcherKept \/ StartWatcher \/ StartWatcherFails
    BY <1>3 DEF Verify, VerifyFails, FinalCheck, WatcherKept, StartWatcher, StartWatcherFails
  <1>4. CASE SaveHot \/ FinishStart \/ FinishRestart \/ RollbackHot \/ RollbackStop \/ RollbackSave
    BY <1>4
       DEF SaveHot, FinishStart, FinishRestart, RollbackHot, RollbackStop, RollbackSave,
           StopTodo
  <1>5. CASE RestoreStop \/ RestoreSave \/ CleanupHot \/ CleanupStop \/ CleanupSave \/ StopHot
             \/ StopServices \/ StopLast \/ StopSave \/ RestartStop
    BY <1>5
       DEF RestoreStop, RestoreSave, CleanupHot, CleanupStop, CleanupSave, StopHot,
           StopServices,
       StopLast, StopSave, RestartStop, StopTodo, Killed
  <1>. QED
    BY <1>1, <1>2, <1>3, <1>4, <1>5 DEF Step

(* Stopping a service is not about watchers.                                 *)
LEMMA ServiceStops ==
  ASSUME TypeOK, NEW s \in Service, StopsListed(mem, s) \/ StopListedFails(mem, s), NEW h \in Watcher
  PROVE  os'[h] = os[h]
  <1>1. mem.services[s] # 0 => Process(mem, s) # h
    BY ListedProcess, Processes DEF TypeOK
  <1>2. os \in [Proc \cup Watcher -> {"off", "up", "stuck"}]
    BY DEF TypeOK
  <1>. QED
    BY <1>1, <1>2 DEF StopsListed, StopListedFails, Stops, StopFails

(* The restart of a watcher does not stop that watcher unless it ends with   *)
(* it, and a step with which it ends is about no other watcher.              *)
LEMMA WatcherRestartSteps ==
  ASSUME TypeOK, KindInv, WatchersKnown, Step, actor \in Watcher
  PROVE  /\ \A h \in Watcher : pc' = "idle" /\ h # actor => os'[h] = os[h]
         /\ actor' = None \/ os'[actor] = os[actor]
  <1> USE DEF vars, world, locals, command, rest, Goto
  <1>0. /\ actor # Cli /\ actor # None /\ kind \notin {"start", "stop"}
        /\ pc \notin OfStart \cup OfStop \cup {"saveHot", "idle"}
        /\ os \in [Proc \cup Watcher -> {"off", "up", "stuck"}]
    <2>1. actor # Cli /\ actor # None
      BY ConstantsAssumption DEF Actor
    <2>2. kind \notin {"start", "stop"} /\ pc # "saveHot"
      BY <2>1 DEF KindInv, WatchersKnown
    <2>3. pc \notin OfStart \cup OfStop
      BY <2>2 DEF KindInv
    <2>. QED
      BY <2>1, <2>2, <2>3 DEF TypeOK
  <1>a. todo # {} => First(todo) \in Service /\ Last(todo) \in Service
    BY Ordered DEF TypeOK
  <1>1. /\ ~(ReplaceHot \/ ReplaceStop \/ ReplaceSave \/ ReleaseOld \/ ClearOld \/ Connect \/ SaveNew)
        /\ ~(Fingerprint \/ FinalCheck \/ RollbackHot \/ RollbackStop \/ RollbackSave)
        /\ ~(StopHot \/ StopServices \/ StopLast \/ StopSave)
        /\ ~(StartWatcher \/ StartWatcherFails \/ SaveHot \/ FinishStart)
    <2>1. pc \notin {"replaceHot", "replaceStop", "release", "clear", "connect", "saveNew", "fingerprint",
                     "final", "rollbackHot", "rollbackStop", "stopHot", "stopServices", "stopSave", "saveHot"}
      BY <1>0 DEF OfStart, OfStop
    <2>2. ~(ReplaceHot \/ ReplaceStop \/ ReplaceSave \/ ReleaseOld \/ ClearOld \/ Connect \/ SaveNew)
      BY <2>1
         DEF ReplaceHot, ReplaceStop, ReplaceSave, ReleaseOld, ClearOld, Connect, SaveNew,
             StopTodo
    <2>3. ~(Fingerprint \/ FinalCheck \/ RollbackHot \/ RollbackStop \/ RollbackSave)
      BY <2>1 DEF Fingerprint, FinalCheck, RollbackHot, RollbackStop, RollbackSave, StopTodo
    <2>4. ~(StopHot \/ StopServices \/ StopLast \/ StopSave)
      BY <2>1 DEF StopHot, StopServices, StopLast, StopSave, StopTodo
    <2>5. ~(StartWatcher \/ StartWatcherFails \/ SaveHot \/ FinishStart)
      BY <1>0, <2>1 DEF StartWatcher, StartWatcherFails, SaveHot, FinishStart
    <2>. QED
      BY <2>2, <2>3, <2>4, <2>5
  <1>2. CASE Build \/ PrepareFails \/ StartServiceFails \/ SaveStarted \/ Verify \/ VerifyFails
             \/ WatcherKept \/ FinishRestart \/ RestoreSave \/ CleanupSave
    BY <1>2 DEF Build, PrepareFails, StartServiceFails, SaveStarted, Verify, VerifyFails,
       WatcherKept, FinishRestart, RestoreSave, CleanupSave
  <1>3. CASE StartService
    <2>1. PICK i \in 1 .. Slots : os' = [os EXCEPT ![<<First(todo), i>>] = "up"]
      BY <1>3 DEF StartService, FreeSlot
    <2>2. First(todo) \in Service
      BY <1>3, <1>a DEF StartService, TypeOK
    <2>3. \A h \in Watcher : os'[h] = os[h]
      BY <1>0, <2>1, <2>2, Processes
    <2>. QED
      BY <2>3
  <1>4. CASE RestoreStop \/ CleanupStop \/ RestartStop
    <2>1. UNCHANGED os \/ \E s \in Service : StopsListed(mem, s) \/ StopListedFails(mem, s)
      <3>1. CASE RestoreStop
        BY <1>a, <3>1 DEF RestoreStop
      <3>2. CASE CleanupStop
        BY <1>a, <3>2 DEF CleanupStop, StopTodo
      <3>3. CASE RestartStop
        BY <1>a, <3>3 DEF RestartStop
      <3>. QED
        BY <1>4, <3>1, <3>2, <3>3
    <2>. QED
      BY <2>1, ServiceStops
  <1>5. CASE CleanupHot
    <2>1. CASE mem.hot = actor
      BY <1>0, <1>5, <2>1 DEF CleanupHot, Killed, Leave
    <2>2. CASE mem.hot # actor
      <3>1. pc' = "cleanupStop"
        BY <1>5, <2>2 DEF CleanupHot
      <3>2. os'[actor] = os[actor]
        BY <1>0, <1>5, <2>2 DEF CleanupHot, StopsWatcher, StopWatcherFails, Stops, StopFails
      <3>. QED
        BY <3>1, <3>2
    <2>. QED
      BY <2>1, <2>2
  <1>. QED
    BY <1>1, <1>2, <1>3, <1>4, <1>5 DEF Step

(* Every step beside watchers is one of WorkspaceSession: a watcher that     *)
(* ends does so as a watcher may, and restarts what a watcher may.           *)
LEMMA WatchersStep ==
  ASSUME TypeOK, WatchersKnown, [WatchNext]_allVars
  PROVE  [Next]_vars
  <1>1. ASSUME NEW h \in Watcher, GiveUp(h) \/ WatchEnds(h)
        PROVE  WatcherExits(h)
    <2>1. os[h] = "up" /\ h # actor
      BY <1>1 DEF GiveUp, WatchEnds, WatchersKnown
    <2>. QED
      BY <1>1, <2>1 DEF GiveUp, WatchEnds, Exit, WatcherExits, Unaffected, session
  <1>2. ASSUME NEW h \in Watcher, Attempt(h)
        PROVE  WatcherRestarts
    <2>1. os[h] = "up" /\ queue[h] \subseteq Service
      BY <1>2 DEF Attempt, WatchersKnown
    <2>. QED
      BY <1>2, <2>1 DEF Attempt, WatcherRestarts
  <1>3. ASSUME NEW h \in Watcher, Register(h) \/ Tick(h) \/ Locked(h) \/ Rejected(h)
        PROVE  UNCHANGED vars
    BY <1>3 DEF Register, Tick, Locked, Rejected
  <1>4. Ends => Environment
    BY DEF Ends, Environment
  <1>. QED
    BY <1>1, <1>2, <1>3, <1>4 DEF WatchNext, Watch, Next, Environment, allVars

(* What Follow makes of a step that leaves the running watcher where it is,  *)
(* or ends its restart.                                                      *)
LEMMA FollowKnown ==
  ASSUME TypeOK, WatchersKnown, Follow,
         actor' \in Watcher => pc' # "idle",
         actor' \in Watcher => actor' = actor /\ os'[actor] = os[actor],
         actor \in Watcher /\ pc' = "idle" /\ os'[actor] = "up" =>
            \A h \in Watcher : h # actor => os'[h] = os[h],
         pc' = "saveHot" => actor' = Cli
  PROVE  WatchersKnown'
  <1>1. CASE actor \in Watcher /\ pc' = "idle" /\ os'[actor] = "up"
    <2>1. PICK s \in targets : Attempted(actor, s)
      BY <1>1 DEF Follow
    <2>2. /\ stage' \in [Watcher -> {"off", "register", "first", "watch", "attempt"}]
          /\ stage'[actor] \in {"watch", "attempt"}
          /\ \A h \in Watcher : h # actor => stage'[h] = stage[h]
      BY <1>1, <2>1 DEF Attempted, WatchersKnown
    <2>3. queue' \in [Watcher -> SUBSET Service]
      BY <1>1, <2>1 DEF Attempted, WatchersKnown
    <2>. QED
      BY <1>1, <2>2, <2>3 DEF WatchersKnown
  <1>2. CASE ~(actor \in Watcher /\ pc' = "idle" /\ os'[actor] = "up")
    <2>1. /\ stage' = [h \in Watcher |-> IF os'[h] # "up" THEN "off"
                                         ELSE IF os[h] # "up" THEN "register" ELSE stage[h]]
          /\ queue' = Clean(queue, {})
      BY <1>2 DEF Follow
    <2>2. queue' \in [Watcher -> SUBSET Service]
      BY <2>1 DEF Clean, WatchersKnown
    <2>3. /\ stage' \in [Watcher -> {"off", "register", "first", "watch", "attempt"}]
          /\ \A h \in Watcher : stage'[h] # "off" <=> os'[h] = "up"
      BY <2>1 DEF WatchersKnown
    <2>4. actor' \in Watcher => stage'[actor'] = "attempt"
      BY <2>1 DEF WatchersKnown
    <2>. QED
      BY <2>2, <2>3, <2>4 DEF WatchersKnown
  <1>. QED
    BY <1>1, <1>2

LEMMA WatchersKnownStep ==
  ASSUME TypeOK, TypeOK', KindInv, WatchersKnown, [WatchNext]_allVars
  PROVE  WatchersKnown'
  <1>0. /\ pc = "idle" <=> actor = None
        /\ pc' = "idle" <=> actor' = None
        /\ None \notin Watcher /\ Cli \notin Watcher /\ Cli # None
        /\ os \in [Proc \cup Watcher -> {"off", "up", "stuck"}]
        /\ actor \in Watcher \cup {Cli, None}
    BY ConstantsAssumption DEF TypeOK, Actor
  <1>1. CASE Step /\ Follow
    <2>1. pc' = "saveHot" => actor' = Cli
      BY <1>1, StepActor DEF WatchersKnown
    <2>2. CASE actor \in Watcher
      BY <1>0, <1>1, <2>1, <2>2, StepActor, WatcherRestartSteps, FollowKnown DEF WatchersKnown
    <2>3. CASE actor \notin Watcher
      <3>1. actor' \notin Watcher
        BY <1>0, <1>1, <2>3, StepActor DEF WatchersKnown
      <3>. QED
        BY <1>0, <1>1, <2>1, <2>3, <3>1, FollowKnown
    <2>. QED
      BY <2>2, <2>3
  <1>2. CASE UserCommand /\ Follow
    <2>1. CASE AskReplacement \/ Decline
      <3>1. UNCHANGED <<os, pc, actor>>
        BY <2>1 DEF AskReplacement, Decline, command
      <3>. QED
        BY <1>0, <1>2, <3>1, FollowKnown DEF WatchersKnown
    <2>2. ASSUME NEW what, NEW step, Begin(Cli, what, step), step # "saveHot", UNCHANGED os
          PROVE  WatchersKnown'
      BY <1>0, <1>2, <2>2, FollowKnown DEF Begin
    <2>3. ASSUME NEW S, StartFresh(S) \/ StartReplacement(S)
          PROVE  WatchersKnown'
      BY <2>2, <2>3 DEF StartFresh, StartReplacement
    <2>4. ASSUME NEW S, NEW all, NEW force, Stop(S, all, force)
          PROVE  WatchersKnown'
      BY <2>2, <2>4 DEF Stop
    <2>5. ASSUME NEW S, NEW replanned, Restart(Cli, S, replanned)
          PROVE  WatchersKnown'
      BY <2>2, <2>5 DEF Restart
    <2>. QED
      BY <1>2, <2>1, <2>3, <2>4, <2>5 DEF UserCommand
  <1>3. CASE Ends /\ Follow
    <2>1. CASE Crash
      <3>1. pc' = "idle" /\ actor' = None
        BY <2>1 DEF Crash, Killed, Leave
      <3>2. actor \in Watcher => os'[actor] = "off"
        BY <1>0, <2>1 DEF Crash
      <3>. QED
        BY <1>0, <1>3, <3>1, <3>2, FollowKnown
    <2>2. ASSUME NEW p \in Proc \cup Watcher, ProcessEnds(p)
          PROVE  WatchersKnown'
      <3>1. UNCHANGED <<pc, actor>>
        BY <2>2 DEF ProcessEnds, Unaffected, command
      <3>2. actor \in Watcher => os'[actor] = os[actor]
        BY <1>0, <2>2 DEF ProcessEnds
      <3>. QED
        BY <1>0, <1>3, <3>1, <3>2, FollowKnown DEF WatchersKnown
    <2>. QED
      BY <1>3, <2>1, <2>2 DEF Ends
  <1>4. ASSUME NEW s \in Service, Edit(s), Follow
        PROVE  WatchersKnown'
    <2>1. UNCHANGED <<os, pc, actor>>
      BY <1>4 DEF Edit, Unaffected, command
    <2>. QED
      BY <1>0, <1>4, <2>1, FollowKnown DEF WatchersKnown
  <1>5. ASSUME NEW h \in Watcher, GiveUp(h) \/ WatchEnds(h)
        PROVE  WatchersKnown'
    <2>1. Follow /\ UNCHANGED <<pc, actor>> /\ os' = [os EXCEPT ![h] = "off"]
      BY <1>5 DEF GiveUp, WatchEnds, Exit, session, command
    <2>2. h # actor
      BY <1>5 DEF GiveUp, WatchEnds, WatchersKnown
    <2>. QED
      BY <1>0, <2>1, <2>2, FollowKnown DEF WatchersKnown
  <1>6. ASSUME NEW h \in Watcher, Register(h) \/ Tick(h) \/ Locked(h) \/ Rejected(h)
        PROVE  WatchersKnown'
    <2>1. UNCHANGED <<os, pc, actor>>
      BY <1>6 DEF Register, Tick, Locked, Rejected, vars, command
    <2>2. \E q \in SUBSET Service : queue' \in {queue, [queue EXCEPT ![h] = q]}
      <3>1. CASE Tick(h)
        BY <3>1 DEF Tick, Listed
      <3>2. CASE Rejected(h)
        <4>1. \A s : queue[h] \ {s} \in SUBSET Service
          BY DEF WatchersKnown
        <4>. QED
          BY <3>2, <4>1 DEF Rejected, Attempted
      <3>3. CASE Register(h) \/ Locked(h)
        BY <3>3 DEF Register, Locked
      <3>. QED
        BY <1>6, <3>1, <3>2, <3>3
    <2>3. \E g \in {"register", "first", "watch", "attempt"} : stage' = [stage EXCEPT ![h] = g]
      BY <1>6 DEF Register, Tick, Locked, Rejected, Attempted
    <2>4. stage[h] # "off" /\ h # actor
      BY <1>0, <1>6 DEF Register, Tick, Locked, Rejected, WatchersKnown
    <2>. QED
      BY <2>1, <2>2, <2>3, <2>4 DEF WatchersKnown
  <1>7. ASSUME NEW h \in Watcher, Attempt(h)
        PROVE  WatchersKnown'
    <2>1. UNCHANGED <<os, stage, queue>> /\ actor' = h /\ stage[h] = "attempt" /\ pc' # "saveHot"
      BY <1>7 DEF Attempt, Restart, Begin, watchers
    <2>. QED
      BY <2>1 DEF WatchersKnown
  <1>8. CASE UNCHANGED allVars
    BY <1>8 DEF allVars, vars, watchers, command, WatchersKnown
  <1>. QED
    BY <1>1, <1>2, <1>3, <1>4, <1>5, <1>6, <1>7, <1>8 DEF WatchNext, Watch

(* The watchers do to the session, the sources and the processes only what   *)
(* WorkspaceSession lets watchers do: all that is proved of the commands     *)
(* holds beside the watchers as they are.                                    *)
THEOREM WatchersImplement == WatchSpec => Spec
  <1>1. WatchInit => Init /\ IInv /\ WatchersKnown
    <2>1. WatchInit => WatchersKnown
      BY ConstantsAssumption DEF WatchInit, Init, WatchersKnown, Actor
    <2>. QED
      BY <2>1, InitialInvariant DEF WatchInit
  <1>2. IInv /\ WatchersKnown /\ [WatchNext]_allVars => [Next]_vars /\ IInv' /\ WatchersKnown'
    <2>1. SUFFICES ASSUME IInv, WatchersKnown, [WatchNext]_allVars
                   PROVE  [Next]_vars /\ IInv' /\ WatchersKnown'
      OBVIOUS
    <2>2. [Next]_vars
      BY <2>1, WatchersStep DEF IInv
    <2>3. IInv'
      BY <2>1, <2>2, InductiveInvariant
    <2>. QED
      BY <2>1, <2>2, <2>3, WatchersKnownStep DEF IInv
  <1>. QED
    BY <1>1, <1>2, PTL DEF WatchSpec, Spec

(* A watcher's restart and the user's replacement may interleave in any way: *)
(* a start still replaces no session but the one its user was shown.         *)
THEOREM WatchersReplaceNothing == WatchSpec => ReplacementConfirmed
  BY WatchersImplement, ReplacesWhatWasShown

=============================================================================
