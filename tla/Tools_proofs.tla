----------------------------- MODULE Tools_proofs -----------------------------
(***************************************************************************)
(* Proofs about the tools around the workspace.                            *)
(*                                                                         *)
(* Plugins: what conven or its user put into a store is not lost unseen,   *)
(* whatever commands run beside each other, die, or meet somebody who      *)
(* writes there without conven.  The lock makes it so: its holder is where *)
(* only a holder can be, and what it found under the lock is still there   *)
(* when it renames, unless somebody without conven wrote it.               *)
(*                                                                         *)
(* RuntimeConfig: a directory of configuration is published whole or not   *)
(* at all, and a service reads only what passed the preflight that         *)
(* followed the last build.  The order of the patches makes the draft      *)
(* right: a local route, once written, is written over by what disables    *)
(* its binding alone, and the guards touch no binding.                     *)
(*                                                                         *)
(* KtctlAttempt: for any number of attempts, probes and lists, any drivers *)
(* and any faults.  IInv is inductive: one lemma for each of its conjuncts.*)
(* The steps of the call seldom change the world and the world never       *)
(* changes the call; two lemmas say so, and the others use them.           *)
(***************************************************************************)
EXTENDS Plugins, RuntimeConfig, KtctlAttempt, Orders_proofs

-----------------------------------------------------------------------------
(* Plugins                                                                   *)

Locked == {"locked", "written", "checked"}

Entries ==
  [by : Commands \cup {"old", "outsider", None}, is : {"whole", "odd", "absent"}]

\* The types of what the properties are about
PluginTypeOK ==
  /\ task \in [Commands -> Tasks] /\ DOMAIN at = Commands /\ DOMAIN sees = Commands
  /\ DOMAIN entry = Stores /\ DOMAIN temps = Stores /\ DOMAIN ran = Commands
  /\ holder \in [Stores -> Commands \cup {None}]
  /\ \A s \in Stores : temps[s] \subseteq Commands
  /\ outsiders \in Nat

\* Whoever holds a lock is at work in that store, and nobody is without its lock.
OneHolder ==
  /\ \A s \in Stores, c \in Commands : holder[s] = c => s = Store(c) /\ at[c] \in Locked
  /\ \A c \in Commands : at[c] \in Locked =>
       task[c].does # "run" /\ Store(c) \in Stores /\ holder[Store(c)] = c

\* A command about to rename found what is there, but for the writes of others.
FoundIsThere ==
  \A c \in Commands : at[c] = "checked" =>
    /\ c \in agreed
    /\ \/ entry[Store(c)] \in {sees[c], NoFile} \/ entry[Store(c)].by = "outsider"

TemporariesHeld ==
  \A s \in Stores, c \in Commands : c \in temps[s] /\ at[c] # "dead" => holder[s] = c

\* Without --global, what goes to the global store missed the plugin in the workspace's.
GlobalMissed ==
  \A c \in Commands : Store(c) = "either" =>
    /\ at[c] \in {"global list", "select", "global", "run global"} => c \in missed
    /\ ran[c].store = "global" => c \in missed

PluginInv == PluginTypeOK /\ OneHolder /\ FoundIsThere /\ TemporariesHeld /\ GlobalMissed

LEMMA PluginInvInit == PluginInit => PluginInv
  <1> SUFFICES ASSUME PluginInit PROVE PluginInv
    OBVIOUS
  <1>1. /\ \A c \in Commands : at[c] = "begin" /\ ran[c].store = None /\ None # "global"
        /\ \A s \in Stores : temps[s] = {} /\ holder[s] = None
    BY DEF PluginInit, None
  <1>2. PluginTypeOK
    BY DEF PluginInit, PluginTypeOK
  <1>3. OneHolder /\ FoundIsThere /\ TemporariesHeld /\ GlobalMissed
    BY <1>1, PluginAssumption DEF OneHolder, FoundIsThere, TemporariesHeld, GlobalMissed, Locked
  <1>. QED
    BY <1>2, <1>3 DEF PluginInv

-----------------------------------------------------------------------------
(* The steps, by what they do to the lock                                    *)

\* A step of a command without the lock that takes none and touches no file
Aside(c, l) ==
  /\ at[c] \notin Locked \cup Ends /\ l \notin Locked /\ Go(c, l)
  /\ agreed \subseteq agreed' /\ DOMAIN ran' = DOMAIN ran
  /\ UNCHANGED <<task, sees, files, outsiders>>

LEMMA AsideStep ==
  ASSUME PluginInv, NEW c \in Commands, NEW l, Aside(c, l)
  PROVE  PluginTypeOK' /\ OneHolder' /\ FoundIsThere' /\ TemporariesHeld'
  <1>1. \A d \in Commands : at'[d] = IF d = c THEN l ELSE at[d]
    BY DEF Aside, Go, PluginInv, PluginTypeOK
  <1>2. PluginTypeOK'
    BY DEF Aside, Go, files, PluginInv, PluginTypeOK
  <1>3. OneHolder'
    BY <1>1 DEF Aside, files, PluginInv, OneHolder, Store
  <1>4. FoundIsThere'
    BY <1>1 DEF Aside, files, PluginInv, FoundIsThere, Store, Locked
  <1>5. TemporariesHeld'
    BY <1>1 DEF Aside, files, PluginInv, TemporariesHeld, Ends
  <1>. QED
    BY <1>2, <1>3, <1>4, <1>5

\* A step that gives the lock up, whatever it does to the entry
Gives(c, l) ==
  /\ at[c] \in Locked /\ l \notin Locked /\ Leave(c, l)
  /\ DOMAIN entry' = Stores /\ \A s \in Stores \ {Store(c)} : entry'[s] = entry[s]
  /\ UNCHANGED <<task, sees, agreed, missed, ran, outsiders>>

LEMMA GivesStep ==
  ASSUME PluginInv, NEW c \in Commands, NEW l, Gives(c, l)
  PROVE  PluginTypeOK' /\ OneHolder' /\ FoundIsThere' /\ TemporariesHeld'
  <1>1. /\ \A d \in Commands : at'[d] = IF d = c THEN l ELSE at[d]
        /\ Store(c) \in Stores /\ holder[Store(c)] = c
        /\ \A d \in Commands : d # c /\ at[d] \in Locked => Store(d) # Store(c)
    BY DEF Gives, Leave, Go, PluginInv, PluginTypeOK, OneHolder
  <1>2. /\ \A s \in Stores : holder'[s] = IF s = Store(c) THEN None ELSE holder[s]
        /\ \A s \in Stores : temps'[s] = IF s = Store(c) THEN temps[s] \ {c} ELSE temps[s]
        /\ DOMAIN holder' = Stores /\ DOMAIN temps' = Stores
    BY DEF Gives, Leave, Unlock, PluginInv, PluginTypeOK
  <1>3. PluginTypeOK'
    BY <1>1 DEF Gives, Leave, Unlock, Go, PluginInv, PluginTypeOK
  <1>4. OneHolder'
    <2>1. \A s \in Stores, d \in Commands :
            holder'[s] = d => s # Store(c) /\ holder[s] = d /\ d # c
      BY <1>1, <1>2, PluginAssumption DEF PluginInv, OneHolder
    <2>2. \A d \in Commands : at'[d] \in Locked => d # c /\ at[d] \in Locked /\ Store(d) # Store(c)
      BY <1>1 DEF Gives
    <2>. QED
      BY <1>1, <1>2, <2>1, <2>2 DEF Gives, PluginInv, OneHolder, Store
  <1>5. FoundIsThere'
    <2>1. \A d \in Commands : at'[d] = "checked" =>
            at[d] = "checked" /\ Store(d) \in Stores \ {Store(c)}
      BY <1>1 DEF Gives, PluginInv, OneHolder, Locked
    <2>. QED
      BY <2>1 DEF Gives, PluginInv, FoundIsThere, Store
  <1>6. TemporariesHeld'
    <2>1. \A s \in Stores, d \in Commands : d \in temps'[s] /\ at'[d] # "dead" =>
            s # Store(c) /\ holder[s] = d
      <3> SUFFICES ASSUME NEW s \in Stores, NEW d \in Commands, d \in temps'[s], at'[d] # "dead"
                   PROVE  s # Store(c) /\ holder[s] = d
        OBVIOUS
      <3>1. d \in temps[s] /\ (s = Store(c) => d # c) /\ (d = c \/ at[d] # "dead")
        BY <1>1, <1>2
      <3>2. at[c] # "dead"
        BY DEF Gives, Locked
      <3>. QED
        BY <1>1, <3>1, <3>2 DEF PluginInv, TemporariesHeld
    <2>. QED
      BY <1>2, <2>1 DEF TemporariesHeld
  <1>. QED
    BY <1>3, <1>4, <1>5, <1>6

\* The steps of a holder that keeps the lock
LEMMA LockStep ==
  ASSUME PluginInv, NEW c \in Commands, Lock(c)
  PROVE  PluginTypeOK' /\ OneHolder' /\ FoundIsThere' /\ TemporariesHeld'
  <1>1. /\ \A d \in Commands : at'[d] = IF d = c THEN "locked" ELSE at[d]
        /\ task[c].does # "run" /\ Store(c) \in Stores /\ holder[Store(c)] = None
    BY PluginAssumption DEF Lock, Go, PluginInv, PluginTypeOK, Store
  <1>2. /\ \A s \in Stores : holder'[s] = IF s = Store(c) THEN c ELSE holder[s]
        /\ UNCHANGED <<task, sees, entry, temps, agreed>>
    BY DEF Lock, PluginInv, PluginTypeOK
  <1>3. PluginTypeOK'
    BY <1>1 DEF Lock, Go, PluginInv, PluginTypeOK
  <1>4. OneHolder'
    <2>1. \A d \in Commands : at[d] \in Locked => Store(d) # Store(c) /\ d # c
      BY <1>1, PluginAssumption DEF Lock, Locked, PluginInv, OneHolder
    <2>. QED
      BY <1>1, <1>2, <2>1 DEF PluginInv, OneHolder, Store, Locked
  <1>5. FoundIsThere' /\ TemporariesHeld'
    <2>1. \A s \in Stores, d \in Commands : d \in temps[s] /\ at[d] # "dead" => s # Store(c)
      BY <1>1, PluginAssumption DEF PluginInv, TemporariesHeld
    <2>2. at[c] # "dead"
      BY DEF Lock
    <2>. QED
      BY <1>1, <1>2, <2>1, <2>2 DEF PluginInv, FoundIsThere, TemporariesHeld, Store
  <1>. QED
    BY <1>3, <1>4, <1>5

LEMMA HoldingStep ==
  ASSUME PluginInv, NEW c \in Commands,
         Prepare(c) \/ (Recheck(c) /\ at'[c] = "checked")
  PROVE  PluginTypeOK' /\ OneHolder' /\ FoundIsThere' /\ TemporariesHeld'
  <1>1. at[c] \in {"locked", "written"} /\ Store(c) \in Stores /\ holder[Store(c)] = c
    BY DEF Prepare, Recheck, PluginInv, OneHolder, Locked
  <1>2. CASE Prepare(c)
    <2>1. /\ \A d \in Commands : at'[d] = IF d = c THEN "written" ELSE at[d]
          /\ \A d \in Commands \ {c} : sees'[d] = sees[d]
          /\ \A s \in Stores : temps'[s] = IF s = Store(c) THEN temps[s] \cup {c} ELSE temps[s]
          /\ UNCHANGED <<task, entry, holder, agreed>>
      BY <1>2 DEF Prepare, Go, PluginInv, PluginTypeOK
    <2>2. PluginTypeOK'
      BY <1>2, <2>1 DEF Prepare, Go, PluginInv, PluginTypeOK
    <2>3. OneHolder'
      BY <1>1, <2>1 DEF PluginInv, OneHolder, Store, Locked
    <2>4. FoundIsThere'
      <3> SUFFICES ASSUME NEW d \in Commands, at'[d] = "checked"
                   PROVE  /\ d \in agreed
                          /\ \/ entry[Store(d)] \in {sees'[d], NoFile}
                             \/ entry[Store(d)].by = "outsider"
        BY <2>1 DEF FoundIsThere, Store
      <3>1. d # c /\ at[d] = "checked" /\ sees'[d] = sees[d]
        BY <2>1
      <3>. QED
        BY <3>1 DEF PluginInv, FoundIsThere
    <2>5. TemporariesHeld'
      <3>1. \A t \in Stores, d \in Commands : d \in temps'[t] =>
              d \in temps[t] \/ (t = Store(c) /\ d = c)
        BY <2>1
      <3>2. \A d \in Commands : at'[d] # "dead" => at[d] # "dead" \/ d = c
        BY <2>1
      <3>3. at[c] # "dead"
        BY <1>1
      <3>. QED
        BY <1>1, <2>1, <3>1, <3>2, <3>3 DEF PluginInv, TemporariesHeld
    <2>. QED
      BY <2>2, <2>3, <2>4, <2>5
  <1>3. CASE Recheck(c) /\ at'[c] = "checked"
    <2>1. /\ Go(c, "checked") /\ entry[Store(c)] = sees[c] /\ c \in agreed
          /\ UNCHANGED <<task, sees, entry, temps, holder, agreed, ran, outsiders>>
      <3>1. at'[c] # "refused"
        BY <1>3
      <3>. QED
        BY <1>3, <3>1 DEF Recheck, Leave, Go, PluginInv, PluginTypeOK
    <2>2. \A d \in Commands : at'[d] = IF d = c THEN "checked" ELSE at[d]
      BY <2>1 DEF Go, PluginInv, PluginTypeOK
    <2>3. PluginTypeOK'
      BY <2>1 DEF Go, PluginInv, PluginTypeOK
    <2>4. OneHolder' /\ FoundIsThere' /\ TemporariesHeld'
      BY <1>1, <2>1, <2>2 DEF PluginInv, OneHolder, FoundIsThere, TemporariesHeld, Store, Locked
    <2>. QED
      BY <2>3, <2>4
  <1>. QED
    BY <1>2, <1>3

\* The lock goes with the process; the temporary file stays, and is of the dead.
LEMMA DieStep ==
  ASSUME PluginInv, NEW c \in Commands, Die(c)
  PROVE  PluginTypeOK' /\ OneHolder' /\ FoundIsThere' /\ TemporariesHeld'
  <1>1. /\ \A d \in Commands : at'[d] = IF d = c THEN "dead" ELSE at[d]
        /\ \A s \in Stores : holder'[s] = IF holder[s] = c THEN None ELSE holder[s]
        /\ UNCHANGED <<task, sees, entry, temps, agreed>>
    BY DEF Die, Go, PluginInv, PluginTypeOK
  <1>2. PluginTypeOK'
    BY DEF Die, Go, PluginInv, PluginTypeOK
  <1>3. OneHolder'
    BY <1>1, PluginAssumption DEF PluginInv, OneHolder, Store, Locked
  <1>4. FoundIsThere' /\ TemporariesHeld'
    BY <1>1 DEF PluginInv, FoundIsThere, TemporariesHeld, Store
  <1>. QED
    BY <1>2, <1>3, <1>4

\* What somebody without conven leaves is his or nothing.
LEMMA OutsiderStep ==
  ASSUME PluginInv, Outsider
  PROVE  PluginTypeOK' /\ OneHolder' /\ FoundIsThere' /\ TemporariesHeld'
  <1>1. /\ \A s \in Stores : entry'[s] = entry[s] \/ entry'[s] = NoFile
                             \/ entry'[s].by = "outsider"
        /\ UNCHANGED <<task, at, sees, temps, holder, agreed>>
    BY DEF Outsider, File, PluginInv, PluginTypeOK
  <1>2. PluginTypeOK'
    BY DEF Outsider, PluginInv, PluginTypeOK
  <1>3. OneHolder' /\ TemporariesHeld'
    BY <1>1 DEF PluginInv, OneHolder, TemporariesHeld, Store
  <1>4. FoundIsThere'
    <2>1. \A c \in Commands : at[c] = "checked" => Store(c) \in Stores
      BY DEF PluginInv, OneHolder, Locked
    <2>. QED
      BY <1>1, <2>1 DEF PluginInv, FoundIsThere, Store
  <1>. QED
    BY <1>2, <1>3, <1>4

-----------------------------------------------------------------------------
(* Every step                                                                *)

\* Which steps are of which sort
LEMMA StepSorts ==
  ASSUME PluginInv, NEW c \in Commands,
         CommandMoves(c) \/ UserMoves(c) \/ Die(c)
  PROVE  \/ \E l : Aside(c, l)
         \/ \E l : Gives(c, l)
         \/ Lock(c) \/ Prepare(c) \/ (Recheck(c) /\ at'[c] = "checked") \/ Die(c)
  <1> USE DEF PluginInv, PluginTypeOK, OneHolder, Locked, Ends, files
  <1>1. CASE FindsEntry(c)
    <2>1. Gives(c, "done") \/ Gives(c, "ask")
      BY <1>1 DEF FindsEntry, Gives
    <2>. QED
      BY <2>1
  <1>2. CASE Fails(c)
    <2>1. Gives(c, "refused")
      BY <1>2 DEF Fails, Gives
    <2>. QED
      BY <2>1
  <1>3. CASE Link(c)
    <2>1. Gives(c, "done") \/ Gives(c, "ask")
      BY <1>3 DEF Link, Gives
    <2>. QED
      BY <2>1
  <1>4. CASE Recheck(c)
    <2>1. Go(c, "checked") \/ Gives(c, "refused")
      BY <1>4 DEF Recheck, Gives
    <2>2. Go(c, "checked") => at'[c] = "checked"
      BY DEF Go
    <2>. QED
      BY <1>4, <2>1, <2>2
  <1>5. CASE Rename(c)
    <2>1. Gives(c, "done")
      BY <1>5 DEF Rename, Gives
    <2>. QED
      BY <2>1
  <1>6. CASE Uninstall(c)
    <2>1. Gives(c, "done") \/ Gives(c, "refused")
      BY <1>6 DEF Uninstall, Gives
    <2>. QED
      BY <2>1
  <1>7. CASE RunUnnamed(c)
    <2>1. Aside(c, "workspace") \/ Aside(c, "global list")
      BY <1>7 DEF RunUnnamed, Aside
    <2>. QED
      BY <2>1
  <1>8. CASE ListGlobal(c)
    <2>1. Aside(c, "select") \/ Aside(c, "refused")
      BY <1>8 DEF ListGlobal, Aside
    <2>. QED
      BY <2>1
  <1>9. CASE RunNamed(c)
    <2>1. Aside(c, "workspace") \/ Aside(c, "global")
      BY <1>9 DEF RunNamed, Aside
    <2>. QED
      BY <2>1
  <1>10. CASE Look(c)
    <2>1. PICK l \in {"run workspace", "run global", "global", "refused"} : Go(c, l)
      BY <1>10 DEF Look, Running, Stores
    <2>2. Aside(c, l)
      BY <1>10, <2>1 DEF Look, Aside, Stores
    <2>. QED
      BY <2>2
  <1>11. CASE Execute(c)
    <2>1. Aside(c, "done") \/ Aside(c, "refused")
      BY <1>11 DEF Execute, Running, Aside
    <2>. QED
      BY <2>1
  <1>12. CASE Agree(c)
    <2>1. Aside(c, "begin")
      BY <1>12 DEF Agree, Aside
    <2>. QED
      BY <2>1
  <1>13. CASE Decline(c)
    <2>1. Aside(c, "refused")
      BY <1>13 DEF Decline, Aside
    <2>. QED
      BY <2>1
  <1>14. CASE Select(c)
    <2>1. Aside(c, "global") \/ Aside(c, "refused")
      BY <1>14 DEF Select, Aside
    <2>. QED
      BY <2>1
  <1>. QED
    BY <1>1, <1>2, <1>3, <1>4, <1>5, <1>6, <1>7, <1>8, <1>9, <1>10, <1>11, <1>12, <1>13, <1>14
       DEF CommandMoves, UserMoves

\* No step takes a command to the global store that missed nothing.
LEMMA GlobalMissedStep ==
  ASSUME PluginInv, [PluginNext]_pluginVars
  PROVE  GlobalMissed'
  <1> USE DEF PluginInv
  <1> DEFINE Global(l) == l \in {"global list", "select", "global", "run global"}
  <1>1. ASSUME NEW c \in Commands, NEW d \in Commands, Store(d) = "either",
               CommandMoves(c) \/ UserMoves(c) \/ Die(c)
        PROVE  /\ task' = task /\ missed \subseteq missed'
               /\ Global(at'[d]) => d \in missed'
               /\ ran'[d].store = "global" => d \in missed'
    <2>1. CASE d # c
      <3>1. at'[d] = at[d] /\ ran'[d] = ran[d] /\ task' = task /\ missed \subseteq missed'
        BY <1>1, <2>1 DEF CommandMoves, UserMoves, Lock, FindsEntry, Prepare, Fails, Link,
           Recheck,
           Rename, Uninstall, RunUnnamed, ListGlobal, RunNamed, Look, Execute, Agree, Decline,
           Select, Die, Leave, Go, PluginTypeOK
      <3>. QED
        BY <1>1, <3>1 DEF GlobalMissed
    <2>2. CASE d = c /\ (UserMoves(c) \/ Die(c) \/ Lock(c) \/ FindsEntry(c) \/ Prepare(c)
                         \/ Fails(c) \/ Link(c) \/ Recheck(c) \/ Rename(c) \/ Uninstall(c))
      <3>1. ran' = ran /\ task' = task /\ missed' = missed
        BY <2>2 DEF UserMoves, Lock, FindsEntry, Prepare, Fails, Link, Recheck, Rename,
           Uninstall,
           Agree, Decline, Select, Die
      <3>2. ~Global(at'[c]) \/ at[c] = "select"
        BY <2>2 DEF UserMoves, Lock, FindsEntry, Prepare, Fails, Link, Recheck, Rename,
           Uninstall,
           Agree, Decline, Select, Die, Leave, Go, PluginTypeOK
      <3>. QED
        BY <1>1, <2>2, <3>1, <3>2 DEF GlobalMissed
    <2>3. CASE d = c /\ (RunUnnamed(c) \/ ListGlobal(c) \/ RunNamed(c) \/ Look(c))
      <3>1. ran' = ran /\ task' = task /\ missed \subseteq missed'
        BY <2>3 DEF RunUnnamed, ListGlobal, RunNamed, Look
      <3>2. \/ ~Global(at'[c]) \/ Global(at[c]) \/ c \in missed'
        BY <1>1, <2>3 DEF RunUnnamed, ListGlobal, RunNamed, Look, Running, Stores, Go,
           PluginTypeOK
      <3>. QED
        BY <1>1, <2>3, <3>1, <3>2 DEF GlobalMissed
    <2>4. CASE d = c /\ Execute(c)
      <3>1. /\ task' = task /\ missed' = missed /\ ~Global(at'[c])
            /\ ran'[c].store = ran[c].store \/ (ran'[c].store = "global" => at[c] = "run global")
        <4>1. PICK t \in Stores :
                /\ at[c] = Running(t)
                /\ \/ Go(c, "refused") /\ UNCHANGED ran
                   \/ /\ Go(c, "done")
                      /\ ran' = [ran EXCEPT ![c] = [file |-> entry[t], store |-> t]]
          BY <2>4 DEF Execute
        <4>2. ran'[c].store = ran[c].store \/ ran'[c].store = t
          BY <4>1 DEF PluginTypeOK
        <4>3. t = "global" => at[c] = "run global"
          BY <4>1 DEF Running
        <4>4. ~Global(at'[c])
          BY <4>1 DEF Go, PluginTypeOK
        <4>. QED
          BY <2>4, <4>2, <4>3, <4>4 DEF Execute
      <3>. QED
        BY <1>1, <2>4, <3>1 DEF GlobalMissed
    <2>. QED
      BY <1>1, <2>1, <2>2, <2>3, <2>4 DEF CommandMoves
  <1>2. CASE \E c \in Commands : CommandMoves(c) \/ UserMoves(c) \/ Die(c)
    <2>1. task' = task
      BY <1>2 DEF CommandMoves, UserMoves, Lock, FindsEntry, Prepare, Fails, Link, Recheck,
         Rename, Uninstall, RunUnnamed, ListGlobal, RunNamed, Look, Execute, Agree, Decline,
         Select, Die
    <2>. QED
      BY <1>1, <1>2, <2>1 DEF GlobalMissed, Store
  <1>3. CASE Outsider \/ UNCHANGED pluginVars
    BY <1>3 DEF Outsider, pluginVars, GlobalMissed, Store
  <1>. QED
    BY <1>2, <1>3 DEF PluginNext

LEMMA PluginInvStep == PluginInv /\ [PluginNext]_pluginVars => PluginInv'
  <1> SUFFICES ASSUME PluginInv, [PluginNext]_pluginVars PROVE PluginInv'
    OBVIOUS
  <1>1. ASSUME NEW c \in Commands, CommandMoves(c) \/ UserMoves(c) \/ Die(c)
        PROVE  PluginTypeOK' /\ OneHolder' /\ FoundIsThere' /\ TemporariesHeld'
    BY <1>1, StepSorts, AsideStep, GivesStep, LockStep, HoldingStep, DieStep
  <1>2. CASE UNCHANGED pluginVars
    <2>0. UNCHANGED <<task, at, sees, entry, temps, holder, agreed, ran, outsiders>>
      BY <1>2 DEF pluginVars, files
    <2>1. PluginTypeOK' /\ OneHolder'
      BY <2>0 DEF PluginInv, PluginTypeOK, OneHolder, Store
    <2>2. FoundIsThere'
      BY <2>0 DEF PluginInv, FoundIsThere, Store
    <2>3. TemporariesHeld'
      BY <2>0 DEF PluginInv, TemporariesHeld
    <2>. QED
      BY <2>1, <2>2, <2>3, GlobalMissedStep DEF PluginInv
  <1>. QED
    BY <1>1, <1>2, OutsiderStep, GlobalMissedStep DEF PluginNext, PluginInv

\* A store's lock has one holder, who is at work there, what a replacement found under
\* it is there until it renames, and only its holder or the dead have a temporary file
\* in the store (lockPluginDirectory, replacePlugin).
THEOREM PluginInvariance == PluginSpec => []PluginInv
  <1>. QED
    BY PluginInvInit, PluginInvStep, PTL DEF PluginSpec

-----------------------------------------------------------------------------
(* What is kept                                                              *)

LEMMA KeptStep ==
  ASSUME PluginInv, [PluginNext]_pluginVars, NEW s \in Stores,
         entry[s] # NoFile, entry'[s] # entry[s]
  PROVE  \/ outsiders' # outsiders \/ entry[s].by = "outsider"
         \/ /\ holder[s] # None
            /\ \/ task[holder[s]].does = "remove"
               \/ holder[s] \in agreed /\ sees[holder[s]] = entry[s]
  <1> USE DEF PluginInv
  <1>1. CASE Outsider
    BY <1>1 DEF Outsider, PluginTypeOK
  <1>2. ASSUME NEW c \in Commands, Rename(c)
        PROVE  entry[s].by = "outsider"
               \/ (holder[s] = c /\ c \in agreed /\ sees[c] = entry[s])
    <2>1. s = Store(c) /\ at[c] = "checked"
      BY <1>2 DEF Rename, PluginTypeOK
    <2>. QED
      BY <2>1 DEF FoundIsThere, OneHolder, Locked
  <1>3. ASSUME NEW c \in Commands, Uninstall(c)
        PROVE  holder[s] = c /\ task[c].does = "remove"
    <2>1. s = Store(c) /\ at[c] = "locked" /\ task[c].does = "remove"
      BY <1>3 DEF Uninstall, PluginTypeOK
    <2>. QED
      BY <2>1 DEF OneHolder, Locked
  <1>4. ASSUME NEW c \in Commands, Link(c) PROVE FALSE
    BY <1>4 DEF Link, PluginTypeOK
  <1>5. \/ Outsider \/ \E c \in Commands : Rename(c) \/ Uninstall(c) \/ Link(c)
    BY DEF PluginNext, pluginVars, files, CommandMoves, UserMoves, Lock, FindsEntry, Prepare,
       Fails, Recheck, RunUnnamed, ListGlobal, RunNamed, Look, Execute, Agree, Decline, Select, Die
  <1>. QED
    BY <1>1, <1>2, <1>3, <1>4, <1>5, PluginAssumption

\* What is in a store is lost to a removal, to a replacement agreed to by the user of
\* a command that found exactly this under the lock, or to somebody without conven;
\* the global plugin is never run for one that is in the workspace; and only the
\* killed leave a temporary file: for every number of commands, whatever each does.
THEOREM PluginsAreKept == PluginSpec => PluginsKept
  <1>1. PluginInv => RunsTheRightOne /\ NoTemporaryLeft
    BY DEF PluginInv, GlobalMissed, RunsTheRightOne, TemporariesHeld, NoTemporaryLeft,
       PluginTypeOK
  <1>2. PluginInv /\ [PluginNext]_pluginVars =>
          [\A s \in Stores : entry[s] # NoFile /\ entry'[s] # entry[s] =>
             \/ outsiders' # outsiders \/ entry[s].by = "outsider"
             \/ /\ holder[s] # None
                /\ \/ task[holder[s]].does = "remove"
                   \/ holder[s] \in agreed /\ sees[holder[s]] = entry[s]]_pluginVars
    BY KeptStep
  <1>. QED
    BY <1>1, <1>2, PluginInvariance, PTL DEF PluginSpec, PluginsKept, EntriesKept
-----------------------------------------------------------------------------
(* RuntimeConfig                                                             *)

\* One directory after the other is planned, written and published, and its draft is
\* a document as soon as something is written to it.
ConfigTypeOK ==
  /\ setup \in Setups /\ current \in Nat \ {0} /\ item \in Nat \ {0}
  /\ target \in [Services -> Documents \cup {Nothing}] /\ DOMAIN read = Services
  /\ stage \in {"copy", "fetch", "pause", "merge", "patch", "guard", "verify",
                "publish", "sweep", "check"} => current <= Len(Targeted)
  /\ stage \in {"merge", "patch", "guard", "verify", "publish"} => draft \in Documents
  /\ stage \in {"fetch", "pause"} /\ setup.source = "repository" => setup.repository # Nothing

\* The patches of the policy, of the server and of the service come before the routes,
\* and these before what is disabled: a route, once written, is not written over.
Declarations(s) == s.policy \o s.server \o s.service
RoutedLocally(b, d) == b \notin Range(setup.disabled) => d.node[b] = LocalRoute

DraftInv ==
  /\ stage = "patch" => \A i \in 1 .. item - 1 :
       i \in DOMAIN Patches(setup) /\ i > Len(Declarations(setup))
       /\ Patches(setup)[i].field = "whole" => RoutedLocally(Patches(setup)[i].key, draft)
  /\ stage \in {"guard", "verify", "publish"} =>
       \A b \in setup.local \cap Range(setup.routes) : RoutedLocally(b, draft)
  /\ stage = "publish" => Verified(setup, draft)
  /\ stage \in {"stage", "check", "inspect", "ask", "build", "launch", "running", "failed"} =>
       draft = Nothing

\* What the last preflight accepted is there until a build starts; its clients of
\* Consul are asked for, and none is left over when it has passed.
PreflightInv ==
  /\ stage \in {"ask", "launch"} => \A s \in Services :
       /\ Accepted(setup, target[s])
       /\ setup.source # "host" => Clients(target[s]) \subseteq unasked \cup failing \cup passed
  /\ stage = "build" => \A s \in Services : target[s] # Nothing
  /\ stage = "launch" => unasked = {} /\ failing = {}
  /\ stage \notin {"launch", "running", "failed", "killed"} => \A s \in Services : read[s] = Nothing

ConfigInv ==
  /\ ConfigTypeOK /\ DraftInv /\ PreflightInv /\ TargetIsWhole /\ LaunchedIsolated

-----------------------------------------------------------------------------
(* Documents                                                                 *)

Kinds(n) ==
  \/ n = Absent \/ n = Alias
  \/ \E v \in Values : n = Scalar(v)
  \/ \E t \in DiscovTypes, x \in DirectTargets : n = Client(t, x)

LEMMA NodesAre == \A n : n \in Nodes <=> Kinds(n)
  <1>1. \A n : n \in [kind : {"scalar"}, value : Values] <=> \E v \in Values : n = Scalar(v)
    <2>1. ASSUME NEW n \in [kind : {"scalar"}, value : Values]
          PROVE  n.value \in Values /\ n = [kind |-> "scalar", value |-> n.value]
      OBVIOUS
    <2>2. ASSUME NEW v \in Values
          PROVE  [kind |-> "scalar", value |-> v] \in [kind : {"scalar"}, value : Values]
      OBVIOUS
    <2>. QED
      BY <2>1, <2>2 DEF Scalar
  <1>2. \A n : n \in [kind : {"mapping"}, discovType : DiscovTypes, target : DirectTargets]
                <=> \E t \in DiscovTypes, x \in DirectTargets : n = Client(t, x)
    BY DEF Client
  <1>. QED
    BY <1>1, <1>2 DEF Nodes, Kinds

LEMMA KindsDiffer ==
  /\ Absent.kind = "absent" /\ Alias.kind = "alias"
  /\ \A v : Scalar(v).kind = "scalar" /\ Scalar(v).value = v
  /\ \A t, x : /\ Client(t, x).kind = "mapping" /\ Client(t, x).discovType = t
               /\ Client(t, x).target = x
  BY DEF Absent, Alias, Scalar, Client

LEMMA DocumentsAre ==
  ASSUME NEW d \in Documents
  PROVE  /\ d = [form |-> d.form, anchored |-> d.anchored, node |-> d.node]
         /\ d.anchored \in BOOLEAN /\ d.node \in [Settings \cup Bindings -> Nodes]
         /\ \A k \in Settings \cup Bindings : Resolved(d, k) \in Nodes
         /\ d # Nothing
  <1>1. /\ d = [form |-> d.form, anchored |-> d.anchored, node |-> d.node]
        /\ d.form \in {"plain", "merge", "broken"} /\ d.anchored \in BOOLEAN
        /\ d.node \in [Settings \cup Bindings -> Nodes]
    BY DEF Documents
  <1>2. d # Nothing
    BY <1>1 DEF Nothing
  <1>3. \A k \in Settings \cup Bindings : Resolved(d, k) \in Nodes
    BY <1>1, SharedAssumption DEF Resolved
  <1>. QED
    BY <1>1, <1>2, <1>3

LEMMA ReplacedIs ==
  ASSUME NEW d \in Documents, NEW k \in Settings \cup Bindings, NEW n \in Nodes
  PROVE  /\ Replaced(d, k, n) \in Documents
         /\ Replaced(d, k, n).node = [d.node EXCEPT ![k] = n]
  <1>1. /\ d.form \in {"plain", "merge", "broken"} /\ d.anchored \in BOOLEAN
        /\ d.node \in [Settings \cup Bindings -> Nodes]
    BY DEF Documents
  <1>2. Replaced(d, k, n) = [form |-> d.form, anchored |-> d.anchored /\ k # Shared,
                             node |-> [d.node EXCEPT ![k] = n]]
    BY DEF Replaced, Document
  <1>3. [d.node EXCEPT ![k] = n] \in [Settings \cup Bindings -> Nodes]
    BY <1>1
  <1>. QED
    BY <1>1, <1>2, <1>3 DEF Documents

\* A patch changes the node it is for.
LEMMA PatchedIs ==
  ASSUME NEW d \in Documents, NEW p, p.key \in Settings \cup Bindings, CanPatch(d, p),
         \/ p.field = "whole" /\ p.value \in Nodes
         \/ p.field = "discovType" /\ p.value \in DiscovTypes
  PROVE  /\ Patched(d, p) \in Documents
         /\ \A k \in Settings \cup Bindings : k # p.key => Patched(d, p).node[k] = d.node[k]
         /\ p.field = "whole" => Patched(d, p).node[p.key] = p.value
  <1>1. CASE p.field = "whole"
    <2>1. Patched(d, p) = Replaced(d, p.key, p.value)
      BY <1>1 DEF Patched
    <2>2. p.value \in Nodes
      BY <1>1
    <2>3. d.node \in [Settings \cup Bindings -> Nodes]
      BY DocumentsAre
    <2>4. /\ Replaced(d, p.key, p.value) \in Documents
          /\ Replaced(d, p.key, p.value).node = [d.node EXCEPT ![p.key] = p.value]
      <3>1. PICK k \in Settings \cup Bindings : k = p.key
        OBVIOUS
      <3>2. PICK n \in Nodes : n = p.value
        BY <2>2
      <3>3. Replaced(d, k, n) \in Documents /\ Replaced(d, k, n).node = [d.node EXCEPT ![k] = n]
        BY ReplacedIs
      <3>. QED
        BY <3>1, <3>2, <3>3
    <2>. QED
      BY <2>1, <2>3, <2>4
  <1>2. CASE p.field = "discovType"
    <2>. DEFINE old == d.node[p.key]
                x == IF old = Absent THEN "none" ELSE old.target
    <2>1. old \in Nodes /\ old.kind \in {"absent", "mapping"}
      BY <1>2, DocumentsAre DEF CanPatch
    <2>2. x \in DirectTargets
      <3>1. Kinds(old)
        BY <2>1, NodesAre
      <3>2. "none" \in DirectTargets
        BY DEF DirectTargets
      <3>. HIDE DEF old
      <3>3. old # Alias /\ \A v \in Values : old # Scalar(v)
        BY <2>1, KindsDiffer
      <3>. QED
        <4>1. CASE old = Absent
          BY <3>2, <4>1
        <4>2. CASE old # Absent
          <5>1. PICK t \in DiscovTypes, y \in DirectTargets : old = Client(t, y)
            BY <3>1, <3>3, <4>2, Zenon DEF Kinds
          <5>2. old.target = y
            BY <5>1 DEF Client
          <5>. QED
            BY <4>2, <5>1, <5>2
        <4>. QED
          BY <4>1, <4>2
    <2>. HIDE DEF x
    <2>3. Client(p.value, x) \in Nodes
      BY <1>2, <2>2, NodesAre DEF Kinds
    <2>5. /\ d.form \in {"plain", "merge", "broken"} /\ d.anchored \in BOOLEAN
          /\ d.node \in [Settings \cup Bindings -> Nodes]
      BY DEF Documents
    <2>. DEFINE nodes == [d.node EXCEPT ![p.key] = Client(p.value, x)]
    <2>6. Patched(d, p) = [form |-> d.form, anchored |-> d.anchored, node |-> nodes]
      BY <1>2 DEF Patched, Document, x
    <2>7. nodes \in [Settings \cup Bindings -> Nodes]
      BY <2>3, <2>5
    <2>. HIDE DEF nodes
    <2>8. Patched(d, p) \in Documents
      <3>1. [form |-> d.form, anchored |-> d.anchored, node |-> nodes] \in Documents
        BY <2>5, <2>7 DEF Documents
      <3>. QED
        BY <2>6, <3>1
    <2>. USE DEF nodes
    <2>. QED
      BY <2>5, <2>6, <2>8, <1>2
  <1>. QED
    BY <1>1, <1>2

LEMMA MergedIs ==
  ASSUME NEW a \in Documents, NEW r \in Documents \cup {Nothing}, NEW b \in SUBSET Bindings
  PROVE  Merged(a, r, b) \in Documents
  <1>. DEFINE missing == {x \in b : a.node[x] = Absent}
              taken == IF r = Nothing THEN {}
                       ELSE {x \in missing : Route(Resolved(r, x)) = "active"}
              clone == [k \in DOMAIN a.node |-> Resolved(a, k)]
              nodes == [k \in Settings \cup Bindings |->
                          IF k \in taken THEN Resolved(r, k) ELSE Resolved(a, k)]
  <1>1. taken \subseteq Bindings /\ (taken # {} => r \in Documents)
    OBVIOUS
  <1>. HIDE DEF taken
  <1>2. nodes \in [Settings \cup Bindings -> Nodes]
    BY <1>1, DocumentsAre
  <1>3. Expanded(a) = [form |-> a.form, anchored |-> FALSE, node |-> clone]
    BY DEF Expanded, Document
  <1>4. DOMAIN clone = Settings \cup Bindings
    BY DocumentsAre
  <1>5. Merged(a, r, b) = [form |-> a.form, anchored |-> FALSE, node |-> nodes]
    <2>1. Expanded(a).form = a.form /\ Expanded(a).anchored = FALSE /\ Expanded(a).node = clone
      BY <1>3
    <2>2. Merged(a, r, b) = Document(a.form, FALSE,
            [k \in DOMAIN clone |-> IF k \in taken THEN Resolved(r, k) ELSE clone[k]])
      BY <2>1 DEF Merged, taken
    <2>3. [k \in DOMAIN clone |-> IF k \in taken THEN Resolved(r, k) ELSE clone[k]] = nodes
      BY <1>4
    <2>. QED
      BY <2>2, <2>3 DEF Document
  <1>6. a.form \in {"plain", "merge", "broken"}
    BY DEF Documents
  <1>. QED
    BY <1>2, <1>5, <1>6 DEF Documents

LEMMA RouteIs ==
  ASSUME NEW n \in Nodes
  PROVE  Route(n) \in {"invalid", "incomplete", "inactive", "active"}
  <1>1. Kinds(n)
    BY NodesAre
  <1>2. CASE n = Absent
    <2>1. n.kind # "mapping"
      BY <1>2, KindsDiffer
    <2>2. Route(n) = "inactive"
      BY <1>2, <2>1 DEF Route
    <2>. QED
      BY <2>2
  <1>3. CASE n # Absent /\ n.kind # "mapping"
    BY <1>3 DEF Route
  <1>4. ASSUME NEW t \in DiscovTypes, NEW x \in DirectTargets, n = Client(t, x)
        PROVE  Route(n) \in {"invalid", "incomplete", "inactive", "active"}
    <2>1. n # Absent /\ n.kind = "mapping" /\ n.discovType = t /\ n.target = x
      BY <1>4, KindsDiffer
    <2>. QED
      BY <2>1 DEF Route, DiscovTypes, DirectTargets
  <1>. QED
    BY <1>1, <1>2, <1>3, <1>4, KindsDiffer DEF Kinds

-----------------------------------------------------------------------------
(* Plans                                                                     *)

LEMMA GuardsAre ==
  ASSUME NEW s \in Setups
  PROVE  /\ DOMAIN Guards(s) = 1 .. Len(Guards(s)) /\ Len(Guards(s)) \in Nat
         /\ \A i \in DOMAIN Guards(s) :
              Guards(s)[i].key \in Settings /\ Guards(s)[i].value \in Values
  <1>. DEFINE G == [key : Settings, value : Values, create : BOOLEAN]
  <1>0. s.listen \in Values /\ {"discovType", "listenOn", "localConfigPath"} \subseteq Settings
    BY SetupsAssumption DEF Planned
  <1>1. /\ Guard("discovType", "empty", FALSE) \in G /\ ListenerGuard(s) \in G
        /\ Guard("localConfigPath", "target", TRUE) \in G
    <2>1. ASSUME NEW k \in Settings, NEW v \in Values, NEW c \in BOOLEAN
          PROVE  Guard(k, v, c) \in G
      BY DEF Guard
    <2>2. "empty" \in Values /\ "target" \in Values
      BY SetupsAssumption
    <2>. HIDE DEF G
    <2>. QED
      BY <1>0, <2>1, <2>2 DEF ListenerGuard
  <1>. HIDE DEF G
  <1>. DEFINE a == Guard("discovType", "empty", FALSE)
              b == ListenerGuard(s)
              c == Guard("localConfigPath", "target", TRUE)
  <1>2. ServerGuards(s) \in Seq(G) /\ RuntimeGuards(s) \in Seq(G)
    <2>1. a \in G /\ b \in G /\ c \in G
      BY <1>1
    <2>. HIDE DEF a, b, c
    <2>2. <<a, b>> \in Seq(G) /\ <<b>> \in Seq(G) /\ <<c>> \in Seq(G) /\ <<>> \in Seq(G)
      BY <2>1
    <2>. USE DEF a, b, c
    <2>. QED
      BY <2>2 DEF ServerGuards, RuntimeGuards
  <1>3. Guards(s) \in Seq(G)
    BY <1>2 DEF Guards
  <1>4. /\ DOMAIN Guards(s) = 1 .. Len(Guards(s)) /\ Len(Guards(s)) \in Nat
        /\ \A i \in DOMAIN Guards(s) : Guards(s)[i] \in G
    BY <1>3
  <1>5. \A g \in G : g.key \in Settings /\ g.value \in Values
    BY DEF G
  <1>. QED
    BY <1>4, <1>5

IsPatch(p) ==
  /\ p.key \in Settings \cup Bindings
  /\ \/ p.field = "whole" /\ p.value \in Nodes
     \/ p.field = "discovType" /\ p.value \in DiscovTypes

LEMMA LocalRouteIsNode == LocalRoute \in Nodes /\ LocalRoute # Alias
  BY DEF LocalRoute, Client, Nodes, DiscovTypes, DirectTargets, Alias

\* The local bindings among the routes are patched, one after the other.
LEMMA RoutePatchesAre ==
  ASSUME NEW s \in Setups
  PROVE  /\ RoutePatches(s) \in Seq(Range(RoutePatches(s)))
         /\ Range(RoutePatches(s)) =
              {Patch(b, "whole", LocalRoute, FALSE) : b \in s.local \cap Range(s.routes)}
  <1>. DEFINE I == {i \in DOMAIN s.routes : s.routes[i] \in s.local}
              q == Sorted(I)
  <1>1. s.routes \in Seq(Bindings) /\ s.local \subseteq Bindings
    BY SetupsAssumption DEF Planned
  <1>2. I \in SUBSET Nat /\ IsFiniteSet(I)
    <2>0. Len(s.routes) \in Nat /\ DOMAIN s.routes = 1 .. Len(s.routes)
      BY <1>1
    <2>1. IsFiniteSet(1 .. Len(s.routes)) /\ I \subseteq 1 .. Len(s.routes)
      BY <2>0, FS_Interval
    <2>. QED
      BY <2>1, FS_Subset
  <1>3. q \in Seq(I) /\ {q[j] : j \in DOMAIN q} = I
    BY <1>2, SortedLists
  <1>. HIDE DEF q
  <1>4. /\ RoutePatches(s) = [j \in DOMAIN q |-> Patch(s.routes[q[j]], "whole", LocalRoute, FALSE)]
        /\ DOMAIN q = 1 .. Len(q) /\ Len(q) \in Nat
    BY <1>3 DEF RoutePatches, q
  <1>. DEFINE r == RoutePatches(s)
  <1>5. /\ DOMAIN r = 1 .. Len(q)
        /\ \A j \in 1 .. Len(q) : r[j] = Patch(s.routes[q[j]], "whole", LocalRoute, FALSE)
    BY <1>4
  <1>. HIDE DEF r
  <1>6. r \in Seq(Range(r))
    <2>1. r \in [1 .. Len(q) -> Range(r)]
      BY <1>4, <1>5 DEF Range, r
    <2>. QED
      BY <1>4, <2>1
  <1>7. \A b \in s.local \cap Range(s.routes) : \E j \in 1 .. Len(q) : s.routes[q[j]] = b
    BY <1>3, <1>4 DEF Range
  <1>8. \A j \in 1 .. Len(q) : s.routes[q[j]] \in s.local \cap Range(s.routes)
    BY <1>3, <1>4 DEF Range
  <1>9. Range(r) = {Patch(b, "whole", LocalRoute, FALSE) : b \in s.local \cap Range(s.routes)}
    <2>. DEFINE made(b) == Patch(b, "whole", LocalRoute, FALSE)
    <2>1. /\ Range(r) = {r[j] : j \in 1 .. Len(q)}
          /\ \A j \in 1 .. Len(q) : r[j] = made(s.routes[q[j]])
      BY <1>5 DEF Range
    <2>. HIDE DEF made
    <2>2. ASSUME NEW p \in Range(r) PROVE \E b \in s.local \cap Range(s.routes) : p = made(b)
      BY <1>8, <2>1
    <2>3. ASSUME NEW b \in s.local \cap Range(s.routes) PROVE made(b) \in Range(r)
      BY <1>7, <2>1
    <2>4. Range(r) = {made(b) : b \in s.local \cap Range(s.routes)}
      BY <2>2, <2>3
    <2>. QED
      BY <2>4 DEF made
  <1>. QED
    BY <1>6, <1>9 DEF r

LEMMA DisabledPatchesAre ==
  ASSUME NEW s \in Setups
  PROVE  /\ DisabledBindingPatches(s) \in Seq(Range(DisabledBindingPatches(s)))
         /\ Range(DisabledBindingPatches(s)) =
              {Patch(b, "discovType", "empty", TRUE) : b \in Range(s.disabled)}
  <1>1. s.disabled \in Seq(Bindings)
    BY SetupsAssumption DEF Planned
  <1>2. /\ DOMAIN s.disabled = 1 .. Len(s.disabled) /\ Len(s.disabled) \in Nat
        /\ DisabledBindingPatches(s) =
             [i \in DOMAIN s.disabled |-> Patch(s.disabled[i], "discovType", "empty", TRUE)]
    BY <1>1 DEF DisabledBindingPatches
  <1>. DEFINE q == DisabledBindingPatches(s)
              n == Len(s.disabled)
  <1>3. /\ n \in Nat /\ DOMAIN q = 1 .. n
        /\ \A i \in 1 .. n : q[i] = Patch(s.disabled[i], "discovType", "empty", TRUE)
    BY <1>2
  <1>4. Range(s.disabled) = {s.disabled[i] : i \in 1 .. n}
    BY <1>2 DEF Range
  <1>. HIDE DEF q, n
  <1>5. Range(q) = {q[i] : i \in 1 .. n}
    BY <1>3 DEF Range
  <1>6. q \in [1 .. n -> Range(q)]
    <2>1. q = [i \in DOMAIN q |-> q[i]]
      BY <1>2 DEF q
    <2>. QED
      BY <1>3, <1>5, <2>1
  <1>7. q \in Seq(Range(q))
    BY <1>3, <1>6
  <1>8. Range(q) = {Patch(b, "discovType", "empty", TRUE) : b \in Range(s.disabled)}
    <2>. DEFINE made(b) == Patch(b, "discovType", "empty", TRUE)
    <2>1. \A i \in 1 .. n : q[i] = made(s.disabled[i])
      BY <1>3
    <2>. HIDE DEF made
    <2>2. Range(q) = {made(b) : b \in Range(s.disabled)}
      BY <1>4, <1>5, <2>1
    <2>. QED
      BY <2>2 DEF made
  <1>. QED
    BY <1>7, <1>8 DEF q

LEMMA SeqWider ==
  ASSUME NEW S, NEW T, S \subseteq T, NEW q \in Seq(S)
  PROVE  q \in Seq(T)
  <1>1. q \in [1 .. Len(q) -> S] /\ Len(q) \in Nat
    OBVIOUS
  <1>2. q \in [1 .. Len(q) -> T]
    BY <1>1
  <1>. QED
    BY <1>1, <1>2

IsRoute(s, p) == \E b \in s.local \cap Range(s.routes) : p = Patch(b, "whole", LocalRoute, FALSE)
Disables(s, p) == p.key \in Range(s.disabled) /\ p.field = "discovType"

\* The patches are what they should be; after those that are declared come the routes
\* of all local bindings, and what is disabled.
LEMMA PatchesAre ==
  ASSUME NEW s \in Setups
  PROVE  /\ DOMAIN Patches(s) = 1 .. Len(Patches(s)) /\ Len(Patches(s)) \in Nat
         /\ \A i \in DOMAIN Patches(s) : IsPatch(Patches(s)[i])
         /\ \A i \in DOMAIN Patches(s) : i > Len(Declarations(s)) =>
              IsRoute(s, Patches(s)[i]) \/ Disables(s, Patches(s)[i])
         /\ \A b \in s.local \cap Range(s.routes) : \E i \in DOMAIN Patches(s) :
              i > Len(Declarations(s)) /\ Patches(s)[i] = Patch(b, "whole", LocalRoute, FALSE)
  <1>. DEFINE P == {p \in Range(s.policy) \cup Range(s.server) \cup Range(s.service)
                       \cup Range(RoutePatches(s)) \cup Range(DisabledBindingPatches(s)) : IsPatch(p)}
              d == Declarations(s)
              r == RoutePatches(s)
              b == DisabledBindingPatches(s)
  <1>1. \A q \in {s.policy, s.server, s.service} :
          q \in Seq(Range(q)) /\ \A p \in Range(q) : IsPatch(p)
    BY SetupsAssumption DEF Planned, IsPatch
  <1>2. ASSUME NEW p \in Range(r) PROVE IsRoute(s, p) /\ IsPatch(p)
    <2>1. PICK x \in s.local \cap Range(s.routes) : p = Patch(x, "whole", LocalRoute, FALSE)
      BY RoutePatchesAre
    <2>2. x \in Bindings
      BY SetupsAssumption DEF Planned
    <2>3. p.key = x /\ p.field = "whole" /\ p.value = LocalRoute
      BY <2>1 DEF Patch
    <2>. QED
      BY <2>1, <2>2, <2>3, LocalRouteIsNode DEF IsRoute, IsPatch
  <1>3. ASSUME NEW p \in Range(b) PROVE Disables(s, p) /\ IsPatch(p)
    <2>1. PICK x \in Range(s.disabled) : p = Patch(x, "discovType", "empty", TRUE)
      BY DisabledPatchesAre
    <2>2. x \in Bindings
      <3>1. s.disabled \in Seq(Bindings)
        BY SetupsAssumption DEF Planned
      <3>. QED
        BY <3>1 DEF Range
    <2>3. p.key = x /\ p.field = "discovType" /\ p.value = "empty"
      BY <2>1 DEF Patch
    <2>4. "empty" \in DiscovTypes
      BY DEF DiscovTypes
    <2>. QED
      BY <2>2, <2>3, <2>4 DEF Disables, IsPatch
  <1>4. /\ s.policy \in Seq(P) /\ s.server \in Seq(P) /\ s.service \in Seq(P)
        /\ r \in Seq(P) /\ b \in Seq(P)
    <2>1. /\ Range(s.policy) \subseteq P /\ Range(s.server) \subseteq P
          /\ Range(s.service) \subseteq P /\ Range(r) \subseteq P /\ Range(b) \subseteq P
      BY <1>1, <1>2, <1>3
    <2>2. r \in Seq(Range(r)) /\ b \in Seq(Range(b))
      BY RoutePatchesAre, DisabledPatchesAre
    <2>. HIDE DEF P, r, b
    <2>. QED
      BY <1>1, <2>1, <2>2, SeqWider
  <1>5. \A p \in P : IsPatch(p)
    OBVIOUS
  <1>. HIDE DEF P
  <1>6. d \in Seq(P)
    BY <1>4 DEF Declarations
  <1>7. Patches(s) = (d \o r) \o b
    BY DEF Patches, Declarations
  <1>. HIDE DEF d, r, b
  <1>. DEFINE q == (d \o r) \o b
  <1>8. /\ q \in Seq(P) /\ Len(q) = Len(d) + Len(r) + Len(b)
        /\ \A i \in 1 .. Len(r) : q[Len(d) + i] = r[i]
        /\ \A i \in 1 .. Len(b) : q[Len(d) + Len(r) + i] = b[i]
    <2>1. d \in Seq(P) /\ r \in Seq(P) /\ b \in Seq(P)
      BY <1>4, <1>6
    <2>. QED
      BY <2>1
  <1>9. /\ Len(d) \in Nat /\ Len(r) \in Nat /\ Len(b) \in Nat
        /\ DOMAIN r = 1 .. Len(r) /\ DOMAIN b = 1 .. Len(b)
    BY <1>4, <1>6
  <1>. HIDE DEF q
  <1>10. DOMAIN q = 1 .. Len(q) /\ Len(q) \in Nat /\ \A i \in DOMAIN q : q[i] \in P
    BY <1>8
  <1>11. ASSUME NEW i \in DOMAIN q, i > Len(d) PROVE IsRoute(s, q[i]) \/ Disables(s, q[i])
    <2>1. CASE i - Len(d) \in 1 .. Len(r)
      <3>1. q[i] = r[i - Len(d)] /\ r[i - Len(d)] \in Range(r)
        BY <1>8, <1>9, <1>10, <2>1 DEF Range
      <3>. QED
        BY <1>2, <3>1
    <2>2. CASE i - Len(d) - Len(r) \in 1 .. Len(b)
      <3>1. q[i] = b[i - Len(d) - Len(r)] /\ b[i - Len(d) - Len(r)] \in Range(b)
        BY <1>8, <1>9, <1>10, <2>2 DEF Range
      <3>. QED
        BY <1>3, <3>1
    <2>. QED
      BY <1>8, <1>9, <1>10, <1>11, <2>1, <2>2
  <1>12. ASSUME NEW x \in s.local \cap Range(s.routes)
         PROVE  \E i \in DOMAIN q : i > Len(d) /\ q[i] = Patch(x, "whole", LocalRoute, FALSE)
    <2>1. Patch(x, "whole", LocalRoute, FALSE) \in Range(r)
      BY RoutePatchesAre DEF r
    <2>2. PICK j \in 1 .. Len(r) : r[j] = Patch(x, "whole", LocalRoute, FALSE)
      BY <1>9, <2>1 DEF Range
    <2>3. /\ Len(d) + j \in DOMAIN q /\ Len(d) + j > Len(d)
          /\ q[Len(d) + j] = Patch(x, "whole", LocalRoute, FALSE)
      <3>1. Len(d) + j \in 1 .. Len(q) /\ Len(d) + j > Len(d)
        BY <1>8, <1>9, <2>2
      <3>2. q[Len(d) + j] = r[j]
        BY <1>8, <2>2
      <3>. QED
        BY <1>10, <2>2, <3>1, <3>2
    <2>. QED
      BY <2>3
  <1>. QED
    BY <1>5, <1>7, <1>10, <1>11, <1>12 DEF q, d

\* What the preflight accepts is fit to be launched.
Fit(s, d) ==
  /\ Verified(s, d) /\ \A b \in Range(s.disabled) : Disabled(Resolved(d, b))
  /\ \A b \in s.declared \ s.optional : Route(Resolved(d, b)) = "active"
  /\ ConsulClients(d) \cap s.local = {}

LEMMA AcceptedIsFit ==
  ASSUME NEW s \in Setups, NEW d \in Documents \cup {Nothing}, Accepted(s, d)
  PROVE  d \in Documents /\ Fit(s, d)
  <1>1. d \in Documents /\ Verified(s, d)
    BY DEF Accepted
  <1>2. \A b \in Range(s.disabled) : Disabled(Resolved(d, b))
    BY DEF Accepted, DisablingRefused
  <1>3. ASSUME NEW b \in s.declared \ s.optional PROVE Route(Resolved(d, b)) = "active"
    <2>1. b \in Bindings /\ b \notin s.unused
      BY SetupsAssumption DEF Planned
    <2>2. Route(Resolved(d, b)) \in {"invalid", "incomplete", "inactive", "active"}
      <3>1. Resolved(d, b) \in Nodes
        BY <1>1, <2>1, DocumentsAre
      <3>. QED
        BY <3>1, RouteIs
    <2>3. ~ CASE Route(Resolved(d, b)) = "invalid" -> TRUE
              [] Route(Resolved(d, b)) = "incomplete" -> b \notin s.unused
              [] Route(Resolved(d, b)) = "inactive" -> b \notin s.optional
              [] Route(Resolved(d, b)) = "active" -> FALSE
      BY DEF Accepted, ClientRefused
    <2>. DEFINE route == Route(Resolved(d, b))
    <2>. HIDE DEF route
    <2>4. CASE route = "invalid"
      BY <2>3, <2>4 DEF route
    <2>5. CASE route = "incomplete"
      BY <2>1, <2>3, <2>5 DEF route
    <2>6. CASE route = "inactive"
      BY <2>3, <2>6 DEF route
    <2>. QED
      BY <2>2, <2>4, <2>5, <2>6 DEF route
  <1>4. ConsulClients(d) \cap s.local = {}
    BY DEF Accepted, WalkRefuses
  <1>. QED
    BY <1>1, <1>2, <1>3, <1>4 DEF Fit

\* A guard changes no binding.
LEMMA GuardedIs ==
  ASSUME NEW s \in Setups, NEW d \in Documents, NEW i \in DOMAIN Guards(s)
  PROVE  /\ Guarded(d, Guards(s)[i]) \in Documents
         /\ \A b \in Bindings : Guarded(d, Guards(s)[i]).node[b] = d.node[b]
  <1>1. PICK k \in Settings : k = Guards(s)[i].key
    BY GuardsAre
  <1>2. PICK v \in Values : v = Guards(s)[i].value
    BY GuardsAre
  <1>3. Scalar(v) \in Nodes /\ k \in Settings \cup Bindings
    BY NodesAre DEF Kinds
  <1>4. /\ Replaced(d, k, Scalar(v)) \in Documents
        /\ Replaced(d, k, Scalar(v)).node = [d.node EXCEPT ![k] = Scalar(v)]
    BY <1>3, ReplacedIs
  <1>5. k \notin Bindings /\ d.node \in [Settings \cup Bindings -> Nodes]
    BY SharedAssumption, DocumentsAre
  <1>6. Guarded(d, Guards(s)[i]) = Replaced(d, k, Scalar(v))
    BY <1>1, <1>2 DEF Guarded
  <1>. QED
    BY <1>4, <1>5, <1>6

LEMMA RewritesAre ==
  ASSUME NEW s \in Setups, NEW d \in Documents
  PROVE  Rewrites(d) \subseteq Documents
  <1>1. /\ Scalar("consul") \in Nodes /\ Client("consul", "none") \in Nodes
        /\ Client("empty", "remote") \in Nodes
    <2>1. "consul" \in Values
      BY SetupsAssumption
    <2>2. {"consul", "empty"} \subseteq DiscovTypes /\ {"none", "remote"} \subseteq DirectTargets
      BY DEF DiscovTypes, DirectTargets
    <2>. QED
      BY <2>1, <2>2, NodesAre DEF Kinds
  <1>2. "discovType" \in Settings \cup Bindings /\ Shared \in Settings \cup Bindings
    BY SetupsAssumption, SharedAssumption
  <1>. QED
    <2>1. Replaced(d, "discovType", Scalar("consul")) \in Documents
      BY <1>1, <1>2, ReplacedIs
    <2>2. Replaced(d, Shared, Client("consul", "none")) \in Documents
      BY <1>1, <1>2, ReplacedIs
    <2>3. Replaced(d, Shared, Client("empty", "remote")) \in Documents
      BY <1>1, <1>2, ReplacedIs
    <2>. QED
      BY <2>1, <2>2, <2>3 DEF Rewrites

-----------------------------------------------------------------------------
(* The invariant                                                             *)

LEMMA ServiceIs ==
  ASSUME ConfigTypeOK, current <= Len(Targeted)
  PROVE  Service \in Services
  <1>1. Targeted \in Seq(Services)
    BY SetupsAssumption DEF ConfigTypeOK, Targeted
  <1>. QED
    BY <1>1 DEF ConfigTypeOK, Service

LEMMA SetupIs ==
  ASSUME ConfigTypeOK
  PROVE  /\ setup \in Setups /\ setup.apollo \in Documents
         /\ setup.repository \in Documents \cup {Nothing}
         /\ Fallbacks(setup) \in SUBSET Bindings
  <1>1. setup \in Setups
    BY DEF ConfigTypeOK
  <1>2. Planned(setup)
    BY <1>1, SetupsAssumption
  <1>. QED
    BY <1>1, <1>2 DEF Planned, Fallbacks

LEMMA ConfigTypeStep ==
  ASSUME ConfigTypeOK, PreflightInv, [ConfigNext]_configVars
  PROVE  ConfigTypeOK'
  <1>1. CASE Begin
    BY <1>1 DEF Begin, GoOn, Holding, ConfigTypeOK, Targeted
  <1>2. CASE Copy
    BY <1>2 DEF Copy, GoOn, Holding, ConfigTypeOK, Targeted
  <1>3. CASE FetchLocal
    BY <1>3, SetupIs DEF FetchLocal, Fetched, GoOn, Holding, ConfigTypeOK, Targeted
  <1>4. CASE FetchApollo
    BY <1>4, SetupIs DEF FetchApollo, Fetched, GoOn, Holding, ConfigTypeOK, Targeted
  <1>5. CASE Resume
    BY <1>5 DEF Resume, GoOn, Holding, ConfigTypeOK, Targeted
  <1>6. CASE Merge
    <2>1. draft \in Documents
      BY <1>6 DEF Merge, ConfigTypeOK
    <2>2. draft' \in Documents
      <3>1. draft' = IF Fallbacks(setup) = {} THEN draft
                     ELSE Merged(draft, setup.repository, Fallbacks(setup))
        BY <1>6 DEF Merge
      <3>2. Merged(draft, setup.repository, Fallbacks(setup)) \in Documents
        BY <2>1, SetupIs, MergedIs
      <3>. QED
        BY <2>1, <3>1, <3>2
    <2>. QED
      BY <1>6, <2>2 DEF Merge, GoOn, Holding, ConfigTypeOK, Targeted
  <1>7. CASE PatchNext
    <2>1. draft \in Documents
      BY <1>7 DEF PatchNext, ConfigTypeOK
    <2>2. draft' \in Documents
      <3>1. CASE UNCHANGED draft
        BY <2>1, <3>1
      <3>2. CASE /\ item <= Len(Patches(setup)) /\ CanPatch(draft, Patches(setup)[item])
                 /\ draft' = Patched(draft, Patches(setup)[item])
        <4>1. IsPatch(Patches(setup)[item])
          <5>1. item \in DOMAIN Patches(setup)
            BY <3>2, SetupIs, PatchesAre DEF ConfigTypeOK
          <5>. QED
            BY <5>1, SetupIs, PatchesAre
        <4>. QED
          BY <2>1, <3>2, <4>1, PatchedIs DEF IsPatch
      <3>. QED
        BY <1>7, <3>1, <3>2 DEF PatchNext
    <2>3. item' \in Nat \ {0}
      BY <1>7 DEF PatchNext, GoOn, ConfigTypeOK
    <2>. QED
      BY <1>7, <2>2, <2>3 DEF PatchNext, GoOn, Holding, ConfigTypeOK, Targeted
  <1>8. CASE GuardNext
    <2>1. draft \in Documents
      BY <1>8 DEF GuardNext, ConfigTypeOK
    <2>2. draft' \in Documents
      <3>1. CASE UNCHANGED draft
        BY <2>1, <3>1
      <3>2. CASE item <= Len(Guards(setup)) /\ draft' = Guarded(draft, Guards(setup)[item])
        <4>1. item \in DOMAIN Guards(setup)
          BY <3>2, SetupIs, GuardsAre DEF ConfigTypeOK
        <4>. QED
          BY <2>1, <3>2, <4>1, SetupIs, GuardedIs
      <3>. QED
        BY <1>8, <3>1, <3>2 DEF GuardNext
    <2>3. item' \in Nat \ {0}
      BY <1>8 DEF GuardNext, GoOn, ConfigTypeOK
    <2>. QED
      BY <1>8, <2>2, <2>3 DEF GuardNext, GoOn, Holding, ConfigTypeOK, Targeted
  <1>9. CASE VerifyDraft
    BY <1>9 DEF VerifyDraft, GoOn, Holding, ConfigTypeOK, Targeted
  <1>10. CASE Publish
    <2>1. draft \in Documents /\ Service \in Services
      BY <1>10, ServiceIs DEF Publish, ConfigTypeOK, Targeted
    <2>2. target' \in [Services -> Documents \cup {Nothing}]
      BY <1>10, <2>1 DEF Publish, ConfigTypeOK
    <2>. QED
      BY <1>10, <2>2 DEF Publish, GoOn, ConfigTypeOK, Targeted
  <1>11. CASE Sweep
    BY <1>11 DEF Sweep, GoOn, Holding, ConfigTypeOK, Targeted
  <1>12. CASE SweepFails
    BY <1>12 DEF SweepFails, GoOn, Holding, ConfigTypeOK, Targeted
  <1>13. CASE Check
    BY <1>13 DEF Check, GoOn, Holding, ConfigTypeOK, Targeted
  <1>14. CASE Inspect
    BY <1>14 DEF Inspect, GoOn, Holding, ConfigTypeOK, Targeted
  <1>15. CASE Answered
    BY <1>15 DEF Answered, GoOn, Holding, ConfigTypeOK, Targeted
  <1>16. CASE Unanswered
    BY <1>16 DEF Unanswered, GoOn, Holding, ConfigTypeOK, Targeted
  <1>17. CASE PreflightPassed
    BY <1>17 DEF PreflightPassed, GoOn, Holding, ConfigTypeOK, Targeted
  <1>18. CASE Build
    <2>1. target' \in [Services -> Documents \cup {Nothing}]
      <3>1. CASE UNCHANGED target
        BY <3>1 DEF ConfigTypeOK
      <3>2. CASE /\ current <= Len(Targeted)
                 /\ \E d \in Rewrites(target[Service]) : target' = [target EXCEPT ![Service] = d]
        <4>1. Service \in Services
          BY <3>2, ServiceIs
        <4>2. target[Service] \in Documents
          BY <1>18, <4>1 DEF Build, PreflightInv, ConfigTypeOK
        <4>3. Rewrites(target[Service]) \subseteq Documents
          BY <4>2, SetupIs, RewritesAre
        <4>. QED
          BY <3>2, <4>1, <4>3 DEF ConfigTypeOK
      <3>. QED
        BY <1>18, <3>1, <3>2 DEF Build
    <2>. QED
      BY <1>18, <2>1 DEF Build, GoOn, ConfigTypeOK, Targeted
  <1>19. CASE LaunchNext
    BY <1>19 DEF LaunchNext, GoOn, Holding, ConfigTypeOK, Targeted
  <1>20. CASE Fail
    BY <1>20 DEF Fail, GoOn, Holding, ConfigTypeOK, Targeted
  <1>21. CASE Interrupt
    BY <1>21 DEF Interrupt, progress, GoOn, Holding, ConfigTypeOK, Targeted
  <1>22. CASE Kill
    BY <1>22 DEF Kill, GoOn, Holding, ConfigTypeOK, Targeted
  <1>23. CASE UNCHANGED configVars
    BY <1>23 DEF configVars, progress, consul, GoOn, Holding, ConfigTypeOK, Targeted
  <1>. QED
    BY <1>1, <1>2, <1>3, <1>4, <1>5, <1>6, <1>7, <1>8, <1>9, <1>10, <1>11, <1>12,
       <1>13, <1>14, <1>15, <1>16, <1>17, <1>18, <1>19, <1>20, <1>21, <1>22, <1>23
       DEF ConfigNext, ConfigStep, Advance

LEMMA DeclarationsLen ==
  ASSUME ConfigTypeOK
  PROVE  Len(Declarations(setup)) \in Nat
  <1>1. Planned(setup)
    BY SetupIs, SetupsAssumption
  <1>. DEFINE T == Range(setup.policy) \cup Range(setup.server) \cup Range(setup.service)
  <1>2. setup.policy \in Seq(T) /\ setup.server \in Seq(T) /\ setup.service \in Seq(T)
    <2>1. /\ setup.policy \in Seq(Range(setup.policy)) /\ setup.server \in Seq(Range(setup.server))
          /\ setup.service \in Seq(Range(setup.service))
      BY <1>1 DEF Planned
    <2>2. /\ Range(setup.policy) \subseteq T /\ Range(setup.server) \subseteq T
          /\ Range(setup.service) \subseteq T
      OBVIOUS
    <2>. HIDE DEF T
    <2>. QED
      BY <2>1, <2>2, SeqWider
  <1>. HIDE DEF T
  <1>3. Declarations(setup) \in Seq(T)
    BY <1>2 DEF Declarations
  <1>. QED
    BY <1>3

LEMMA DraftStep ==
  ASSUME ConfigTypeOK, DraftInv, [ConfigNext]_configVars
  PROVE  DraftInv'
  <1>1. CASE Begin
    BY <1>1 DEF Begin, GoOn, Holding, DraftInv, RoutedLocally
  <1>2. CASE Copy
    BY <1>2 DEF Copy, GoOn, Holding, DraftInv, RoutedLocally
  <1>3. CASE FetchLocal
    BY <1>3 DEF FetchLocal, Fetched, GoOn, Holding, DraftInv, RoutedLocally
  <1>4. CASE FetchApollo
    BY <1>4 DEF FetchApollo, Fetched, GoOn, Holding, DraftInv, RoutedLocally
  <1>5. CASE Resume
    BY <1>5 DEF Resume, Holding, DraftInv, RoutedLocally
  <1>6. CASE Merge
    <2>1. stage' = "patch" /\ item' = 1
      BY <1>6 DEF Merge, GoOn
    <2>2. 1 .. item' - 1 = {}
      BY <2>1
    <2>. QED
      BY <2>1, <2>2 DEF DraftInv
  <1>7. CASE PatchNext
    <2>. DEFINE P == Patches(setup)
                D == Len(Declarations(setup))
    <2>1. /\ stage = "patch" /\ UNCHANGED setup /\ draft \in Documents /\ item \in Nat \ {0}
          /\ \A i \in 1 .. item - 1 : i \in DOMAIN P /\ i > D /\ P[i].field = "whole" =>
               RoutedLocally(P[i].key, draft)
      BY <1>7 DEF PatchNext, Holding, ConfigTypeOK, DraftInv
    <2>2. /\ DOMAIN P = 1 .. Len(P) /\ Len(P) \in Nat /\ \A i \in DOMAIN P : IsPatch(P[i])
          /\ \A i \in DOMAIN P : i > D => IsRoute(setup, P[i]) \/ Disables(setup, P[i])
          /\ \A b \in setup.local \cap Range(setup.routes) : \E i \in DOMAIN P :
               i > D /\ P[i] = Patch(b, "whole", LocalRoute, FALSE)
      BY SetupIs, PatchesAre
    <2>. HIDE DEF P, D
    <2>3. CASE item > Len(P) /\ GoOn("guard") /\ UNCHANGED draft
      <3>1. ASSUME NEW b \in setup.local \cap Range(setup.routes) PROVE RoutedLocally(b, draft)
        <4>1. PICK i \in DOMAIN P : i > D /\ P[i] = Patch(b, "whole", LocalRoute, FALSE)
          BY <2>2
        <4>2. P[i].key = b /\ P[i].field = "whole"
          BY <4>1 DEF Patch
        <4>3. i \in 1 .. item - 1
          BY <2>1, <2>2, <2>3
        <4>. QED
          BY <2>1, <4>1, <4>2, <4>3
      <3>. QED
        BY <2>1, <2>3, <3>1 DEF GoOn, DraftInv, RoutedLocally
    <2>4. CASE item <= Len(P) /\ item' = item + 1 /\ UNCHANGED stage
      <3>. DEFINE p == P[item]
      <3>1. /\ IsPatch(p) /\ item \in DOMAIN P
            /\ item > D => IsRoute(setup, p) \/ Disables(setup, p)
        BY <2>1, <2>2, <2>4
      <3>2. \/ UNCHANGED draft /\ p.optional
            \/ CanPatch(draft, p) /\ draft' = Patched(draft, p)
        <4>1. ~(item > Len(P))
          BY <2>1, <2>2, <2>4
        <4>2. \E q \in {P[item]} :
                 \/ q.optional /\ ~Present(draft, q) /\ UNCHANGED draft
                 \/ (q.optional => Present(draft, q)) /\ CanPatch(draft, q) /\ draft' = Patched(draft, q)
          BY <1>7, <4>1 DEF PatchNext, P
        <4>. QED
          BY <4>2
      <3>. HIDE DEF p
      <3>3. CanPatch(draft, p) =>
              /\ \A k \in Settings \cup Bindings : k # p.key => Patched(draft, p).node[k] = draft.node[k]
              /\ p.field = "whole" => Patched(draft, p).node[p.key] = p.value
        BY <2>1, <3>1, PatchedIs DEF IsPatch
      <3>4. IsRoute(setup, p) => p.field = "whole" /\ p.value = LocalRoute /\ ~p.optional
        BY DEF IsRoute, Patch
      <3>5. Disables(setup, p) => p.field # "whole" /\ p.key \in Range(setup.disabled)
        BY DEF Disables
      <3>6. ASSUME NEW i \in 1 .. item, i \in DOMAIN P, i > D, P[i].field = "whole",
                   P[i].key \notin Range(setup.disabled)
            PROVE  draft'.node[P[i].key] = LocalRoute
        <4>1. P[i].key \in Settings \cup Bindings
          BY <2>2, <3>6 DEF IsPatch
        <4>2. CASE i = item
          <5>1. IsRoute(setup, p) /\ P[i] = p
            BY <2>1, <3>1, <3>5, <3>6, <4>2 DEF p
          <5>2. ~p.optional /\ p.field = "whole" /\ p.value = LocalRoute
            BY <3>4, <5>1
          <5>. QED
            BY <3>2, <3>3, <5>1, <5>2
        <4>3. CASE i # item
          <5>1. draft.node[P[i].key] = LocalRoute
            <6>1. i \in 1 .. item - 1
              BY <2>1, <4>3
            <6>. QED
              BY <2>1, <3>6, <6>1 DEF RoutedLocally
          <5>2. item > D
            BY <2>1, <2>2, <3>6, <4>3, DeclarationsLen DEF D
          <5>3. CASE UNCHANGED draft
            BY <5>1, <5>3
          <5>4. CASE CanPatch(draft, p) /\ draft' = Patched(draft, p) /\ P[i].key # p.key
            BY <3>3, <4>1, <5>1, <5>4
          <5>5. CASE CanPatch(draft, p) /\ draft' = Patched(draft, p) /\ P[i].key = p.key
            <6>1. IsRoute(setup, p)
              BY <3>1, <3>5, <3>6, <5>2, <5>5
            <6>. QED
              BY <3>3, <3>4, <5>5, <6>1
          <5>. QED
            BY <3>2, <5>3, <5>4, <5>5
        <4>. QED
          BY <4>2, <4>3
      <3>7. \A i \in 1 .. item' - 1 : i \in DOMAIN P /\ i > D /\ P[i].field = "whole" =>
              RoutedLocally(P[i].key, draft')
        <4>1. item' - 1 = item
          BY <2>1, <2>4
        <4>. QED
          BY <2>1, <3>6, <4>1 DEF RoutedLocally
      <3>. QED
        BY <2>1, <2>4, <3>7 DEF DraftInv, RoutedLocally, P, D
    <2>. QED
      BY <1>7, <2>3, <2>4 DEF PatchNext, P
  <1>8. CASE GuardNext
    <2>1. /\ stage = "guard" /\ UNCHANGED setup /\ draft \in Documents /\ item \in Nat \ {0}
          /\ \A b \in setup.local \cap Range(setup.routes) : RoutedLocally(b, draft)
      BY <1>8 DEF GuardNext, Holding, ConfigTypeOK, DraftInv
    <2>2. stage' \in {"guard", "verify"}
      BY <1>8, <2>1 DEF GuardNext, GoOn
    <2>3. \A b \in Bindings : draft'.node[b] = draft.node[b]
      <3>1. CASE UNCHANGED draft
        BY <3>1
      <3>2. CASE item <= Len(Guards(setup)) /\ draft' = Guarded(draft, Guards(setup)[item])
        <4>1. item \in DOMAIN Guards(setup)
          BY <2>1, <3>2, SetupIs, GuardsAre
        <4>. QED
          BY <2>1, <3>2, <4>1, SetupIs, GuardedIs
      <3>. QED
        BY <1>8, <3>1, <3>2 DEF GuardNext
    <2>4. setup.local \subseteq Bindings
      BY SetupIs, SetupsAssumption DEF Planned
    <2>. QED
      BY <2>1, <2>2, <2>3, <2>4 DEF DraftInv, RoutedLocally
  <1>9. CASE VerifyDraft
    BY <1>9 DEF VerifyDraft, GoOn, Holding, DraftInv, RoutedLocally
  <1>10. CASE Publish
    <2>1. stage' \in {"check", "sweep"} /\ (stage' = "check" => draft' = Nothing)
      BY <1>10 DEF Publish, GoOn
    <2>. QED
      BY <2>1 DEF DraftInv
  <1>11. CASE Sweep
    BY <1>11 DEF Sweep, GoOn, Holding, DraftInv, RoutedLocally
  <1>12. CASE SweepFails
    BY <1>12 DEF SweepFails, DraftInv, RoutedLocally
  <1>13. CASE Check
    BY <1>13 DEF Check, GoOn, DraftInv, RoutedLocally
  <1>14. CASE Inspect
    BY <1>14 DEF Inspect, GoOn, DraftInv, RoutedLocally
  <1>15. CASE Answered
    BY <1>15 DEF Answered, DraftInv, RoutedLocally
  <1>16. CASE Unanswered
    BY <1>16 DEF Unanswered, DraftInv, RoutedLocally
  <1>17. CASE PreflightPassed
    BY <1>17 DEF PreflightPassed, GoOn, DraftInv, RoutedLocally
  <1>18. CASE Build
    BY <1>18 DEF Build, GoOn, DraftInv, RoutedLocally
  <1>19. CASE LaunchNext
    BY <1>19 DEF LaunchNext, GoOn, DraftInv, RoutedLocally
  <1>20. CASE Fail
    BY <1>20 DEF Fail, DraftInv, RoutedLocally
  <1>21. CASE Interrupt
    BY <1>21 DEF Interrupt, progress, DraftInv, RoutedLocally
  <1>22. CASE Kill
    BY <1>22 DEF Kill, DraftInv, RoutedLocally
  <1>23. CASE UNCHANGED configVars
    BY <1>23 DEF configVars, progress, consul, DraftInv, RoutedLocally
  <1>. QED
    BY <1>1, <1>2, <1>3, <1>4, <1>5, <1>6, <1>7, <1>8, <1>9, <1>10, <1>11, <1>12,
       <1>13, <1>14, <1>15, <1>16, <1>17, <1>18, <1>19, <1>20, <1>21, <1>22, <1>23
       DEF ConfigNext, ConfigStep, Advance

LEMMA PreflightStep ==
  ASSUME ConfigTypeOK, PreflightInv, [ConfigNext]_configVars
  PROVE  PreflightInv'
  <1>1. CASE Begin
    BY <1>1 DEF Begin, GoOn, Holding, consul, PreflightInv, Clients, ConsulClients, Resolved
  <1>2. CASE Copy
    BY <1>2 DEF Copy, GoOn, Holding, consul, PreflightInv, Clients, ConsulClients, Resolved
  <1>3. CASE FetchLocal
    BY <1>3 DEF FetchLocal, Fetched, GoOn, Holding, consul, PreflightInv, Clients, ConsulClients, Resolved
  <1>4. CASE FetchApollo
    BY <1>4 DEF FetchApollo, Fetched, GoOn, Holding, consul, PreflightInv, Clients, ConsulClients, Resolved
  <1>5. CASE Resume
    BY <1>5 DEF Resume, Holding, consul, PreflightInv, Clients, ConsulClients, Resolved
  <1>6. CASE Merge
    BY <1>6 DEF Merge, GoOn, Holding, consul, PreflightInv, Clients, ConsulClients, Resolved
  <1>7. CASE PatchNext
    BY <1>7 DEF PatchNext, GoOn, Holding, consul, PreflightInv, Clients, ConsulClients, Resolved
  <1>8. CASE GuardNext
    BY <1>8 DEF GuardNext, GoOn, Holding, consul, PreflightInv, Clients, ConsulClients, Resolved
  <1>9. CASE VerifyDraft
    BY <1>9 DEF VerifyDraft, GoOn, Holding, consul, PreflightInv, Clients, ConsulClients, Resolved
  <1>10. CASE Publish
    BY <1>10 DEF Publish, GoOn, consul, PreflightInv, Clients, ConsulClients, Resolved
  <1>11. CASE Sweep
    BY <1>11 DEF Sweep, GoOn, Holding, consul, PreflightInv, Clients, ConsulClients, Resolved
  <1>12. CASE SweepFails
    BY <1>12 DEF SweepFails, consul, PreflightInv, Clients, ConsulClients, Resolved
  <1>13. CASE Check
    BY <1>13 DEF Check, GoOn, consul, PreflightInv, Clients, ConsulClients, Resolved
  <1>14. CASE Inspect
    <2>1. /\ stage' = "ask" /\ UNCHANGED <<setup, target, read>>
          /\ \A s \in Services : Accepted(setup, target[s]) /\ read[s] = Nothing
      BY <1>14 DEF Inspect, GoOn, PreflightInv
    <2>2. ASSUME setup.source # "host", NEW s \in Services PROVE Clients(target[s]) \subseteq unasked'
      BY <1>14, <2>2 DEF Inspect
    <2>. QED
      BY <2>1, <2>2 DEF PreflightInv, Clients, ConsulClients, Resolved
  <1>15. CASE Answered
    <2>1. /\ stage = "ask" /\ UNCHANGED <<setup, target, stage, read>>
          /\ unasked \cup failing \cup passed \subseteq unasked' \cup failing' \cup passed'
      BY <1>15 DEF Answered
    <2>. QED
      BY <2>1 DEF PreflightInv, Clients, ConsulClients, Resolved
  <1>16. CASE Unanswered
    <2>1. /\ stage = "ask" /\ UNCHANGED <<setup, target, stage, read>>
          /\ unasked \cup failing \cup passed \subseteq unasked' \cup failing' \cup passed'
      BY <1>16 DEF Unanswered
    <2>. QED
      BY <2>1 DEF PreflightInv, Clients, ConsulClients, Resolved
  <1>17. CASE PreflightPassed
    <2>1. \A s \in Services : target[s] # Nothing
      BY <1>17 DEF PreflightPassed, PreflightInv, Accepted
    <2>. QED
      BY <1>17, <2>1 DEF PreflightPassed, GoOn, consul, PreflightInv, Clients, ConsulClients, Resolved
  <1>18. CASE Build
    <2>1. /\ stage = "build" /\ stage' \in {"inspect", "build"} /\ UNCHANGED read
          /\ \A s \in Services : target[s] # Nothing /\ read[s] = Nothing
      BY <1>18 DEF Build, GoOn, PreflightInv
    <2>2. \A s \in Services : target'[s] # Nothing
      <3>1. CASE UNCHANGED target
        BY <2>1, <3>1
      <3>2. CASE /\ current <= Len(Targeted)
                 /\ \E d \in Rewrites(target[Service]) : target' = [target EXCEPT ![Service] = d]
        <4>1. Service \in Services
          BY <3>2, ServiceIs
        <4>2. target[Service] \in Documents
          BY <2>1, <4>1 DEF ConfigTypeOK
        <4>3. Rewrites(target[Service]) \subseteq Documents
          BY <4>2, SetupIs, RewritesAre
        <4>4. PICK d \in Documents : target' = [target EXCEPT ![Service] = d]
          BY <3>2, <4>3
        <4>5. d # Nothing
          BY DocumentsAre
        <4>. QED
          BY <2>1, <4>4, <4>5 DEF ConfigTypeOK
      <3>. QED
        BY <1>18, <3>1, <3>2 DEF Build
    <2>. QED
      BY <2>1, <2>2 DEF PreflightInv
  <1>19. CASE LaunchNext
    <2>1. /\ stage = "launch" /\ stage' \in {"launch", "running"}
          /\ UNCHANGED <<setup, target, unasked, failing, passed>>
      BY <1>19 DEF LaunchNext, GoOn, consul
    <2>. QED
      BY <2>1 DEF PreflightInv, Clients, ConsulClients, Resolved
  <1>20. CASE Fail
    BY <1>20 DEF Fail, consul, PreflightInv, Clients, ConsulClients, Resolved
  <1>21. CASE Interrupt
    BY <1>21 DEF Interrupt, progress, consul, PreflightInv, Clients, ConsulClients, Resolved
  <1>22. CASE Kill
    BY <1>22 DEF Kill, consul, PreflightInv, Clients, ConsulClients, Resolved
  <1>23. CASE UNCHANGED configVars
    BY <1>23 DEF configVars, progress, consul, PreflightInv, Clients, ConsulClients, Resolved
  <1>. QED
    BY <1>1, <1>2, <1>3, <1>4, <1>5, <1>6, <1>7, <1>8, <1>9, <1>10, <1>11, <1>12,
       <1>13, <1>14, <1>15, <1>16, <1>17, <1>18, <1>19, <1>20, <1>21, <1>22, <1>23
       DEF ConfigNext, ConfigStep, Advance

LEMMA WholeStep ==
  ASSUME ConfigTypeOK, DraftInv, TargetIsWhole, [ConfigNext]_configVars
  PROVE  TargetIsWhole'
  <1>1. CASE Begin
    BY <1>1 DEF Begin, GoOn, Holding, TargetIsWhole, Resolved
  <1>2. CASE Copy
    BY <1>2 DEF Copy, GoOn, Holding, TargetIsWhole, Resolved
  <1>3. CASE FetchLocal
    BY <1>3 DEF FetchLocal, Fetched, GoOn, Holding, TargetIsWhole, Resolved
  <1>4. CASE FetchApollo
    BY <1>4 DEF FetchApollo, Fetched, GoOn, Holding, TargetIsWhole, Resolved
  <1>5. CASE Resume
    BY <1>5 DEF Resume, Holding, TargetIsWhole, Resolved
  <1>6. CASE Merge
    BY <1>6 DEF Merge, GoOn, Holding, TargetIsWhole, Resolved
  <1>7. CASE PatchNext
    BY <1>7 DEF PatchNext, GoOn, Holding, TargetIsWhole, Resolved
  <1>8. CASE GuardNext
    BY <1>8 DEF GuardNext, GoOn, Holding, TargetIsWhole, Resolved
  <1>9. CASE VerifyDraft
    BY <1>9 DEF VerifyDraft, GoOn, Holding, TargetIsWhole, Resolved
  <1>10. CASE Publish
    <2>1. /\ Verified(setup, draft) /\ draft \in Documents /\ UNCHANGED <<setup, rewritten>>
          /\ \A b \in setup.local \cap Range(setup.routes) : RoutedLocally(b, draft)
          /\ target' = [target EXCEPT ![Service] = draft] /\ target \in [Services -> Documents \cup {Nothing}]
      BY <1>10 DEF Publish, DraftInv, ConfigTypeOK
    <2>2. ASSUME NEW b \in setup.local \ Range(setup.disabled), b \in Range(setup.routes)
          PROVE  Resolved(draft, b) = LocalRoute
      <3>1. draft.node[b] = LocalRoute
        BY <2>1, <2>2 DEF RoutedLocally
      <3>. QED
        BY <3>1, LocalRouteIsNode DEF Resolved
    <2>3. ASSUME NEW s \in Services
          PROVE  \/ target'[s] = setup.before[s] \/ s \in rewritten
                 \/ /\ Verified(setup, target'[s])
                    /\ \A b \in setup.local \ Range(setup.disabled) :
                         b \in Range(setup.routes) => Resolved(target'[s], b) = LocalRoute
      <3>1. CASE target'[s] = draft
        BY <2>1, <2>2, <3>1
      <3>2. CASE target'[s] = target[s]
        BY <3>2 DEF TargetIsWhole
      <3>. QED
        BY <2>1, <3>1, <3>2
    <2>. QED
      BY <2>1, <2>3 DEF TargetIsWhole, Resolved
  <1>11. CASE Sweep
    BY <1>11 DEF Sweep, GoOn, Holding, TargetIsWhole, Resolved
  <1>12. CASE SweepFails
    BY <1>12 DEF SweepFails, TargetIsWhole, Resolved
  <1>13. CASE Check
    BY <1>13 DEF Check, GoOn, TargetIsWhole, Resolved
  <1>14. CASE Inspect
    BY <1>14 DEF Inspect, GoOn, TargetIsWhole, Resolved
  <1>15. CASE Answered
    BY <1>15 DEF Answered, TargetIsWhole, Resolved
  <1>16. CASE Unanswered
    BY <1>16 DEF Unanswered, TargetIsWhole, Resolved
  <1>17. CASE PreflightPassed
    BY <1>17 DEF PreflightPassed, GoOn, TargetIsWhole, Resolved
  <1>18. CASE Build
    <2>1. /\ UNCHANGED setup /\ rewritten \subseteq rewritten'
          /\ \A s \in Services : target'[s] = target[s] \/ s \in rewritten'
      <3>1. CASE UNCHANGED <<target, rewritten>>
        BY <1>18, <3>1 DEF Build
      <3>2. CASE /\ current <= Len(Targeted) /\ rewritten' = rewritten \cup {Service}
                 /\ \E d \in Rewrites(target[Service]) : target' = [target EXCEPT ![Service] = d]
        BY <1>18, <3>2 DEF Build, ConfigTypeOK
      <3>. QED
        BY <1>18, <3>1, <3>2 DEF Build
    <2>. QED
      BY <2>1 DEF TargetIsWhole, Resolved
  <1>19. CASE LaunchNext
    BY <1>19 DEF LaunchNext, GoOn, TargetIsWhole, Resolved
  <1>20. CASE Fail
    BY <1>20 DEF Fail, TargetIsWhole, Resolved
  <1>21. CASE Interrupt
    BY <1>21 DEF Interrupt, progress, TargetIsWhole, Resolved
  <1>22. CASE Kill
    BY <1>22 DEF Kill, TargetIsWhole, Resolved
  <1>23. CASE UNCHANGED configVars
    BY <1>23 DEF configVars, progress, consul, TargetIsWhole, Resolved
  <1>. QED
    BY <1>1, <1>2, <1>3, <1>4, <1>5, <1>6, <1>7, <1>8, <1>9, <1>10, <1>11, <1>12,
       <1>13, <1>14, <1>15, <1>16, <1>17, <1>18, <1>19, <1>20, <1>21, <1>22, <1>23
       DEF ConfigNext, ConfigStep, Advance

LEMMA LaunchedStep ==
  ASSUME ConfigTypeOK, PreflightInv, LaunchedIsolated, [ConfigNext]_configVars
  PROVE  LaunchedIsolated'
  <1>1. CASE Begin
    BY <1>1 DEF Begin, GoOn, Holding, consul, LaunchedIsolated
  <1>2. CASE Copy
    BY <1>2 DEF Copy, GoOn, Holding, consul, LaunchedIsolated
  <1>3. CASE FetchLocal
    BY <1>3 DEF FetchLocal, Fetched, GoOn, Holding, consul, LaunchedIsolated
  <1>4. CASE FetchApollo
    BY <1>4 DEF FetchApollo, Fetched, GoOn, Holding, consul, LaunchedIsolated
  <1>5. CASE Resume
    BY <1>5 DEF Resume, Holding, consul, LaunchedIsolated
  <1>6. CASE Merge
    BY <1>6 DEF Merge, GoOn, Holding, consul, LaunchedIsolated
  <1>7. CASE PatchNext
    BY <1>7 DEF PatchNext, GoOn, Holding, consul, LaunchedIsolated
  <1>8. CASE GuardNext
    BY <1>8 DEF GuardNext, GoOn, Holding, consul, LaunchedIsolated
  <1>9. CASE VerifyDraft
    BY <1>9 DEF VerifyDraft, GoOn, Holding, consul, LaunchedIsolated
  <1>10. CASE Publish
    BY <1>10 DEF Publish, GoOn, consul, LaunchedIsolated
  <1>11. CASE Sweep
    BY <1>11 DEF Sweep, GoOn, Holding, consul, LaunchedIsolated
  <1>12. CASE SweepFails
    BY <1>12 DEF SweepFails, consul, LaunchedIsolated
  <1>13. CASE Check
    BY <1>13 DEF Check, GoOn, consul, LaunchedIsolated
  <1>14. CASE Inspect
    <2>1. \A s \in Services : read'[s] = Nothing
      BY <1>14 DEF Inspect, PreflightInv
    <2>. QED
      BY <2>1 DEF LaunchedIsolated
  <1>15. CASE Answered
    <2>1. \A s \in Services : read'[s] = Nothing
      BY <1>15 DEF Answered, PreflightInv
    <2>. QED
      BY <2>1 DEF LaunchedIsolated
  <1>16. CASE Unanswered
    BY <1>16 DEF Unanswered, consul, LaunchedIsolated
  <1>17. CASE PreflightPassed
    BY <1>17 DEF PreflightPassed, GoOn, consul, LaunchedIsolated
  <1>18. CASE Build
    BY <1>18 DEF Build, GoOn, consul, LaunchedIsolated
  <1>19. CASE LaunchNext
    <2>1. /\ UNCHANGED <<setup, target, unasked, failing, passed>>
          /\ \A s \in Services : Accepted(setup, target[s])
          /\ setup.source # "host" => \A s \in Services : Clients(target[s]) \subseteq passed
      BY <1>19 DEF LaunchNext, consul, PreflightInv
    <2>2. \A s \in Services : read'[s] # Nothing => read'[s] = read[s] \/ read'[s] = target[s]
      BY <1>19 DEF LaunchNext, ConfigTypeOK
    <2>3. ASSUME NEW s \in Services, read'[s] # Nothing
          PROVE  Fit(setup, read'[s]) /\ (setup.source # "host" => Clients(read'[s]) \subseteq passed)
      <3>1. CASE read'[s] = read[s]
        BY <2>3, <3>1 DEF LaunchedIsolated, Fit
      <3>2. CASE read'[s] = target[s]
        <4>1. target[s] \in Documents \cup {Nothing} /\ Accepted(setup, target[s])
          BY <2>1 DEF ConfigTypeOK
        <4>2. Fit(setup, target[s])
          BY <4>1, SetupIs, AcceptedIsFit
        <4>. QED
          BY <2>1, <3>2, <4>2
      <3>. QED
        BY <2>2, <2>3, <3>1, <3>2
    <2>. QED
      BY <2>1, <2>3 DEF LaunchedIsolated, Fit
  <1>20. CASE Fail
    BY <1>20 DEF Fail, consul, LaunchedIsolated
  <1>21. CASE Interrupt
    BY <1>21 DEF Interrupt, progress, consul, LaunchedIsolated
  <1>22. CASE Kill
    BY <1>22 DEF Kill, consul, LaunchedIsolated
  <1>23. CASE UNCHANGED configVars
    BY <1>23 DEF configVars, progress, consul, LaunchedIsolated
  <1>. QED
    BY <1>1, <1>2, <1>3, <1>4, <1>5, <1>6, <1>7, <1>8, <1>9, <1>10, <1>11, <1>12,
       <1>13, <1>14, <1>15, <1>16, <1>17, <1>18, <1>19, <1>20, <1>21, <1>22, <1>23
       DEF ConfigNext, ConfigStep, Advance

LEMMA ConfigInvInit == ConfigInit => ConfigInv
  <1> SUFFICES ASSUME ConfigInit PROVE ConfigInv
    OBVIOUS
  <1>1. /\ setup \in Setups /\ target = setup.before /\ draft = Nothing
        /\ stage = "stage" /\ current = 1 /\ item = 1 /\ \A s \in Services : read[s] = Nothing
        /\ DOMAIN read = Services
    BY DEF ConfigInit
  <1>2. setup.before \in [Services -> Documents \cup {Nothing}]
    BY <1>1, SetupsAssumption
  <1>3. ConfigTypeOK
    BY <1>1, <1>2 DEF ConfigTypeOK
  <1>4. DraftInv /\ PreflightInv
    BY <1>1 DEF DraftInv, PreflightInv
  <1>5. TargetIsWhole /\ LaunchedIsolated
    BY <1>1 DEF TargetIsWhole, LaunchedIsolated
  <1>. QED
    BY <1>3, <1>4, <1>5 DEF ConfigInv

\* For any services, setups and documents, however often Apollo and Consul are asked
\* and the builds rewrite what was published: the steps of a delivery keep what is
\* said of its draft, of the preflight and of the directories (materialize.go, publish.go,
\* startup_preflight.go).
THEOREM ConfigInvariance == ConfigSpec => []ConfigInv
  <1>1. ConfigInv /\ [ConfigNext]_configVars => ConfigInv'
    BY ConfigTypeStep, DraftStep, PreflightStep, WholeStep, LaunchedStep DEF ConfigInv
  <1>. QED
    BY ConfigInvInit, <1>1, PTL DEF ConfigSpec

\* The directory of a service is the one it had or a complete one at every instant, also
\* after a kill; what a launched service has read passed the preflight that followed the
\* last build; and a command that ends by itself leaves nothing staged.
THEOREM ConfigurationSafe == ConfigSpec => []ConfigurationIsSafe
  <1>1. ConfigInv => ConfigurationIsSafe
    BY DEF ConfigInv, DraftInv, ConfigurationIsSafe, NothingStaged
  <1>. QED
    BY ConfigInvariance, <1>1, PTL

-----------------------------------------------------------------------------
(* KtctlAttempt                                                              *)

(* The labels of the control points, and what follows each API gate.        *)
LEMMA Labels ==
  /\ Control = {"gate", "preaudit", "regate", "preflight", "launch", "wait", "save", "stop",
                "observe", "delete", "confirm", "exact", "returned"}
  /\ DOMAIN AfterGate = {"gate", "preaudit", "regate"}
  /\ AfterGate["gate"] = "launch" /\ AfterGate["preaudit"] = "observe"
  /\ AfterGate["regate"] = "launch"
  BY DEF AfterGate, Control

(* Every counter can start at zero.                                         *)
LEMMA Zero ==
  0 \in 0 .. ReadyProbes - 1 /\ 0 \in 0 .. ApiProbes - 1 /\ 0 \in 0 .. MaxLists - 1
  BY BoundsAssumption

(* A step of the call leaves the world alone unless it launches, stops or   *)
(* deletes.                                                                 *)
LEMMA CallSteps ==
  ASSUME Step
  PROVE  Launch \/ StopSucceeds \/ Delete \/ (UNCHANGED Environment /\ attempt' = attempt)
  <1> USE DEF GiveUp, Failed, Environment
  <1>1. CASE Preflight
    BY <1>1 DEF Preflight
  <1>2. CASE GateProbe
    BY <1>2 DEF GateProbe
  <1>3. CASE GateFails
    BY <1>3 DEF GateFails
  <1>4. CASE LaunchFails
    BY <1>4 DEF LaunchFails
  <1>5. CASE WaitEnds
    BY <1>5 DEF WaitEnds
  <1>6. CASE WaitFatal
    BY <1>6 DEF WaitFatal
  <1>7. CASE WaitExit
    BY <1>7 DEF WaitExit
  <1>8. CASE WaitProbe
    BY <1>8 DEF WaitProbe
  <1>9. CASE SaveRecord
    BY <1>9 DEF SaveRecord
  <1>10. CASE StopFails
    BY <1>10 DEF StopFails
  <1>11. CASE RecoverFails
    BY <1>11 DEF RecoverFails
  <1>12. CASE Observe
    BY <1>12 DEF Observe
  <1>13. CASE DeleteRefused
    BY <1>13 DEF DeleteRefused
  <1>14. CASE ConfirmList
    BY <1>14 DEF ConfirmList
  <1>15. CASE ConfirmExact
    BY <1>15 DEF ConfirmExact
  <1>16. CASE ConfirmEnds
    BY <1>16 DEF ConfirmEnds
  <1>. QED
    BY <1>1, <1>2, <1>3, <1>4, <1>5, <1>6, <1>7, <1>8, <1>9, <1>10, <1>11, <1>12, <1>13,
       <1>14, <1>15, <1>16 DEF Step

(* A step of the world leaves the call alone.                               *)
LEMMA WorldSteps ==
  ASSUME World
  PROVE  UNCHANGED Call
  BY DEF World, KtctlProceeds, KtctlReports, KtctlEnds, Lands, Lost, Vanishes, Others, Expire,
         Cancel

-----------------------------------------------------------------------------
(* Going on to a control point, and returning, keep the control typed.      *)
LEMMA GotoType ==
  ASSUME ControlType, NEW step \in Control, Goto(step), attempt' \in 0 .. MaxAttempts,
         eof' \in BOOLEAN, configuration' = configuration, cancelled' = cancelled
  PROVE  ControlType'
  BY Zero DEF ControlType, Goto, configuration

LEMMA ReturnType ==
  ASSUME ControlType, NEW what, Return(what), UNCHANGED <<configuration, attempt, eof, cancelled>>
  PROVE  ControlType'
  BY Labels DEF ControlType, Return, configuration

(* The control stays typed: in particular no more than MaxAttempts launches *)
(* are made, and no wait counts beyond the probes it needs.                 *)
LEMMA ControlStep ==
  ASSUME TypeOK, AttemptInv, [Next]_vars
  PROVE  ControlType'
  <1> USE DEF TypeOK
  <1>0. attempt \in 0 .. MaxAttempts /\ eof \in BOOLEAN
    BY DEF ControlType
  <1>1. CASE GateFails
    BY <1>1, ReturnType DEF GateFails, GiveUp, Environment
  <1>2. CASE LaunchFails
    BY <1>2, ReturnType DEF LaunchFails, GiveUp, Environment
  <1>3. CASE RecoverFails
    BY <1>3, ReturnType DEF RecoverFails, GiveUp, Environment
  <1>4. CASE DeleteRefused
    BY <1>4, ReturnType DEF DeleteRefused, GiveUp, Environment
  <1>5. CASE StopFails
    BY <1>5, ReturnType DEF StopFails, Environment
  <1>6. CASE WaitEnds
    BY <1>0, <1>6, GotoType, Labels DEF WaitEnds, Failed, Environment
  <1>7. CASE WaitFatal
    BY <1>0, <1>7, GotoType, Labels DEF WaitFatal, Failed, Environment
  <1>8. CASE WaitExit
    BY <1>0, <1>8, GotoType, Labels DEF WaitExit, Failed, Environment
  <1>9. CASE Preflight
    <2>1. CASE Return("failed")
      BY <1>9, <2>1, ReturnType DEF Preflight, Environment
    <2>2. CASE \E step \in {"gate", "launch"} : Goto(step)
      BY <1>0, <1>9, <2>2, GotoType, Labels DEF Preflight, Environment
    <2>. QED
      BY <1>9, <2>1, <2>2 DEF Preflight
  <1>10. CASE GateProbe
    <2>1. AfterGate[pc] \in Control
      BY <1>10, Labels DEF GateProbe
    <2>2. CASE Goto(AfterGate[pc])
      BY <1>0, <1>10, <2>1, <2>2, GotoType DEF GateProbe, Environment
    <2>3. CASE ~Goto(AfterGate[pc])
      <3>1. good' \in 0 .. ApiProbes - 1
        BY <1>10, <2>3, Zero, BoundsAssumption DEF GateProbe, ControlType
      <3>2. UNCHANGED <<pc, expired, ready, configuration, attempt, eof, cancelled>>
        BY <1>10, <2>3 DEF GateProbe, Environment, counts
      <3>. QED
        BY <3>1, <3>2 DEF configuration, ControlType
    <2>. QED
      BY <2>2, <2>3
  <1>11. CASE Launch
    <2>1. attempt' \in 0 .. MaxAttempts
      BY <1>0, <1>11, BoundsAssumption DEF Launch, AttemptInv
    <2>. QED
      BY <1>11, <2>1, GotoType, Labels DEF Launch
  <1>12. CASE WaitProbe
    <2>1. CASE Goto("save")
      BY <1>0, <1>12, <2>1, GotoType, Labels DEF WaitProbe, Environment
    <2>2. CASE ~Goto("save")
      <3>1. ready' \in 0 .. ReadyProbes - 1
        BY <1>12, <2>2, Zero, BoundsAssumption DEF WaitProbe, ControlType
      <3>2. UNCHANGED <<pc, expired, good, configuration, attempt, eof, cancelled>>
        BY <1>12, <2>2 DEF WaitProbe, Environment
      <3>. QED
        BY <3>1, <3>2 DEF configuration, ControlType
    <2>. QED
      BY <2>1, <2>2
  <1>13. CASE SaveRecord
    <2>1. CASE Return("ready")
      BY <1>13, <2>1, ReturnType DEF SaveRecord, Environment
    <2>2. CASE Goto("stop")
      BY <1>0, <1>13, <2>2, GotoType, Labels DEF SaveRecord, Environment
    <2>. QED
      BY <1>13, <2>1, <2>2 DEF SaveRecord
  <1>14. CASE StopSucceeds
    <2>1. CASE GiveUp
      BY <1>14, <2>1, ReturnType DEF StopSucceeds, GiveUp, configuration
    <2>2. CASE Goto("preaudit") /\ UNCHANGED <<attempt, eof>>
      BY <1>0, <1>14, <2>2, GotoType, Labels DEF StopSucceeds, configuration
    <2>. QED
      BY <1>14, <2>1, <2>2 DEF StopSucceeds
  <1>15. CASE Observe
    <2>1. CASE GiveUp
      BY <1>15, <2>1, ReturnType DEF Observe, GiveUp, Environment
    <2>2. CASE Goto("delete") /\ UNCHANGED <<attempt, eof>>
      BY <1>0, <1>15, <2>2, GotoType, Labels DEF Observe, Environment
    <2>3. CASE UNCHANGED <<pc, attempt, counts, expired>>
      BY <1>15, <2>3 DEF Observe, Environment, configuration, counts, ControlType
    <2>. QED
      BY <1>15, <2>1, <2>2, <2>3 DEF Observe
  <1>16. CASE Delete
    <2>1. CASE Return("failed")
      BY <1>16, <2>1, ReturnType DEF Delete
    <2>2. CASE Goto("confirm")
      BY <1>0, <1>16, <2>2, GotoType, Labels DEF Delete
    <2>3. CASE UNCHANGED <<pc, expired, ready, good>>
      BY <1>16, <2>3 DEF Delete, configuration, ControlType
    <2>. QED
      BY <1>16, <2>1, <2>2, <2>3 DEF Delete
  <1>17. CASE ConfirmList
    <2>1. CASE GiveUp
      BY <1>17, <2>1, ReturnType DEF ConfirmList, GiveUp, Environment
    <2>2. CASE pc' = "exact" /\ UNCHANGED <<attempt, counts, expired>>
      BY <1>17, <2>2, Labels DEF ConfirmList, Environment, configuration, counts, ControlType
    <2>. QED
      BY <1>17, <2>1, <2>2 DEF ConfirmList
  <1>18. CASE ConfirmExact
    <2>1. CASE GiveUp
      BY <1>18, <2>1, ReturnType DEF ConfirmExact, GiveUp, Environment
    <2>2. CASE pc' = pc /\ UNCHANGED <<attempt, counts, expired>>
      BY <1>18, <2>2, Labels DEF ConfirmExact, Environment, configuration, counts, ControlType
    <2>. QED
      BY <1>18, <2>1, <2>2 DEF ConfirmExact
  <1>19. CASE ConfirmEnds
    <2>1. CASE Goto("regate")
      BY <1>0, <1>19, <2>1, GotoType, Labels DEF ConfirmEnds, Environment
    <2>2. CASE pc' = "confirm" /\ UNCHANGED <<expired, ready, good>>
      BY <1>19, <2>2, Labels DEF ConfirmEnds, Environment, configuration, ControlType
    <2>. QED
      BY <1>19, <2>1, <2>2 DEF ConfirmEnds
  <1>20. CASE World
    <2>1. expired' \in BOOLEAN /\ cancelled' \in BOOLEAN
      BY <1>20 DEF World, KtctlProceeds, KtctlReports, KtctlEnds, Lands, Lost, Vanishes, Others,
                  Expire, Cancel, ControlType
    <2>2. UNCHANGED <<configuration, pc, attempt, counts>>
      BY <1>20, WorldSteps DEF Call
    <2>. QED
      BY <2>1, <2>2 DEF ControlType, configuration, counts
  <1>21. CASE UNCHANGED vars
    BY <1>21 DEF vars, ControlType, configuration, counts
  <1>. QED
    BY <1>1, <1>2, <1>3, <1>4, <1>5, <1>6, <1>7, <1>8, <1>9, <1>10, <1>11, <1>12, <1>13,
       <1>14, <1>15, <1>16, <1>17, <1>18, <1>19, <1>20, <1>21
       DEF Next, Step, Returned

(* The recovery stays typed: its counts, what it found and what it has left. *)
LEMMA RecoveryStep ==
  ASSUME TypeOK, AttemptInv, [Next]_vars
  PROVE  RecoveryType'
  <1> USE DEF TypeOK, RecoveryType
  <1>1. CASE UNCHANGED recovery
    BY <1>1 DEF recovery
  <1>2. CASE Launch
    BY <1>2, Zero DEF Launch
  <1>3. CASE Observe
    <2>1. CASE UNCHANGED <<found, todo, clear>> /\ empties' = empties + 1
      BY <1>3, <2>1, BoundsAssumption DEF Observe, GiveUp, recovery
    <2>2. CASE found' = {<<o, uid[o]>> : o \in Selected} /\ todo' = found'
      <3>1. attempt \in Attempt
        BY <1>3, BoundsAssumption DEF AttemptInv, Recovering, Attempt, ControlType, Observe
      <3>2. \A o \in Selected : o \in Object /\ uid[o] \in {1, 2}
        BY <3>1 DEF Selected, Named, Object, ClusterType
      <3>3. found' \subseteq Object \X {1, 2}
        BY <2>2, <3>2
      <3>4. empties' \in 0 .. MaxLists - 1 /\ clear' = clear
        BY <1>3, BoundsAssumption DEF Observe, GiveUp, recovery
      <3>. QED
        BY <2>2, <3>3, <3>4
    <2>. QED
      BY <1>1, <1>3, <2>1, <2>2 DEF Observe, GiveUp
  <1>4. CASE Delete
    BY <1>4 DEF Delete
  <1>5. CASE ConfirmList
    BY <1>1, <1>5 DEF ConfirmList, GiveUp
  <1>6. CASE ConfirmExact
    <2>1. CASE UNCHANGED <<empties, found>> /\ clear' \in BOOLEAN /\ todo' \subseteq todo
      BY <2>1
    <2>2. CASE GiveUp
      BY <1>1, <2>2 DEF GiveUp
    <2>. QED
      BY <1>6, <2>1, <2>2 DEF ConfirmExact
  <1>7. CASE World
    BY <1>1, <1>7, WorldSteps DEF Call
  <1>8. CASE Preflight \/ GateProbe \/ GateFails \/ LaunchFails \/ WaitEnds \/ WaitFatal
             \/ WaitExit \/ WaitProbe \/ SaveRecord \/ StopSucceeds \/ StopFails
             \/ RecoverFails \/ DeleteRefused \/ ConfirmEnds
    BY <1>1, <1>8 DEF Preflight, GateProbe, GateFails, LaunchFails, WaitEnds, WaitFatal,
       WaitExit, WaitProbe, SaveRecord, StopSucceeds, StopFails, RecoverFails, DeleteRefused,
       ConfirmEnds, GiveUp, Failed
  <1>. QED
    BY <1>1, <1>2, <1>3, <1>4, <1>5, <1>6, <1>7, <1>8 DEF Next, Step, Returned, vars

(* What the caller is left with stays typed.                                *)
LEMMA OutcomeStep ==
  ASSUME TypeOK, [Next]_vars
  PROVE  OutcomeType'
  <1> USE DEF TypeOK, OutcomeType
  <1>1. CASE UNCHANGED outcome
    BY <1>1 DEF outcome
  <1>2. ASSUME NEW what \in {"ready", "failed", "unstopped"}, Return(what), recorded' \in BOOLEAN
        PROVE  OutcomeType'
    BY <1>2 DEF Return
  <1>3. CASE Preflight
    BY <1>2, <1>3 DEF Preflight
  <1>4. CASE SaveRecord
    BY <1>1, <1>2, <1>4 DEF SaveRecord
  <1>5. CASE StopFails
    BY <1>2, <1>5 DEF StopFails
  <1>6. CASE GiveUp
    BY <1>2, <1>6 DEF GiveUp
  <1>7. CASE Delete
    BY <1>1, <1>2, <1>7 DEF Delete, outcome
  <1>8. CASE World
    BY <1>1, <1>8, WorldSteps DEF Call
  <1>9. CASE GateProbe \/ GateFails \/ Launch \/ LaunchFails \/ WaitEnds \/ WaitFatal
             \/ WaitExit \/ WaitProbe \/ StopSucceeds \/ RecoverFails \/ Observe
             \/ DeleteRefused \/ ConfirmList \/ ConfirmExact \/ ConfirmEnds
    BY <1>1, <1>6, <1>9 DEF GateProbe, GateFails, Launch, LaunchFails, WaitEnds, WaitFatal,
       WaitExit, WaitProbe, StopSucceeds, RecoverFails, Observe, DeleteRefused, ConfirmList,
       ConfirmExact, ConfirmEnds, Failed
  <1>. QED
    BY <1>1, <1>3, <1>4, <1>5, <1>7, <1>8, <1>9 DEF Next, Step, Returned, vars

(* ktctl stays typed; only attempts that were made have a process.          *)
LEMMA KtctlStep ==
  ASSUME TypeOK, AttemptInv, [Next]_vars
  PROVE  KtctlType'
  <1> USE DEF TypeOK, KtctlType
  <1>1. CASE UNCHANGED <<attempt, ktctl>>
    BY <1>1 DEF ktctl
  <1>2. CASE Launch
    <2> USE BoundsAssumption DEF Launch, ControlType, AttemptInv
    <2>1. attempt' \in Attempt
      BY <1>2 DEF Attempt
    <2>2. flight' \subseteq Object
      BY <1>2, <2>1 DEF Object, Kind
    <2>3. /\ proc' \in [Attempt -> {"none", "up", "stuck", "gone"}]
          /\ phase' \in [Attempt -> Kind \cup {"none", "serving"}]
      BY <1>2, <2>1 DEF Kind
    <2>4. \A a \in Attempt : (proc'[a] = "none") <=> (a > attempt')
      BY <1>2, <2>1 DEF Attempt
    <2>. QED
      BY <1>2, <2>2, <2>3, <2>4
  <1>3. CASE StopSucceeds
    <2>1. attempt' = attempt
      BY <1>3 DEF StopSucceeds, GiveUp
    <2>2. \A a \in Attempt : (proc'[a] = "none") <=> (a > attempt)
      BY <1>3 DEF StopSucceeds, AttemptInv, ControlType, Attempt
    <2>. QED
      BY <1>3, <2>1, <2>2 DEF StopSucceeds
  <1>4. CASE Delete
    BY <1>1, <1>4 DEF Delete
  <1>5. ASSUME NEW a \in Attempt, KtctlProceeds(a)
        PROVE  KtctlType'
    <2>1. CASE phase[a] = "ConfigMap"
      BY <1>5, <2>1 DEF KtctlProceeds, Call, Kind, Object
    <2>2. CASE phase[a] # "ConfigMap"
      <3>1. log' \in [Attempt -> SUBSET {"tunnel", "fatal", "eof"}]
        BY <1>5, <2>2 DEF KtctlProceeds
      <3>. QED
        BY <1>5, <2>2, <3>1 DEF KtctlProceeds, Call
    <2>. QED
      BY <2>1, <2>2
  <1>6. ASSUME NEW a \in Attempt, KtctlReports(a)
        PROVE  KtctlType'
    BY <1>6 DEF KtctlReports, Call
  <1>7. ASSUME NEW a \in Attempt, KtctlEnds(a)
        PROVE  KtctlType'
    <2>1. log' \in [Attempt -> SUBSET {"tunnel", "fatal", "eof"}]
      BY <1>7 DEF KtctlEnds
    <2>2. PICK s \in {"stuck", "gone"} : proc' = [proc EXCEPT ![a] = s] /\ proc[a] # "none"
      BY <1>7 DEF KtctlEnds
    <2>. QED
      BY <1>7, <2>1, <2>2 DEF KtctlEnds, Call
  <1>8. ASSUME NEW o \in Object, Lands(o) \/ Lost(o) \/ Vanishes(o) \/ Others(o)
        PROVE  KtctlType'
    BY <1>8 DEF Lands, Lost, Vanishes, Others, Call, ktctl
  <1>9. CASE Expire \/ Cancel
    BY <1>1, <1>9 DEF Expire, Cancel, Call
  <1>10. CASE Step
    BY <1>1, <1>2, <1>3, <1>4, <1>10, CallSteps DEF Environment
  <1>11. CASE World
    BY <1>5, <1>6, <1>7, <1>8, <1>9, <1>11 DEF World
  <1>. QED
    BY <1>1, <1>10, <1>11 DEF Next, Returned, vars

(* The cluster stays typed.                                                 *)
LEMMA ClusterStep ==
  ASSUME TypeOK, RequestInv, [Next]_vars
  PROVE  ClusterType'
  <1> USE DEF TypeOK, ClusterType
  <1>1. CASE UNCHANGED cluster
    BY <1>1 DEF cluster
  <1>2. ASSUME NEW o \in Object, uid[o] # 0, Remove(o) \/ Terminate(o)
        PROVE  ClusterType'
    <2>1. CASE Remove(o)
      BY <2>1 DEF Remove
    <2>2. CASE Terminate(o)
      BY <1>2, <2>2 DEF Terminate
    <2>. QED
      BY <1>2, <2>1, <2>2
  <1>3. CASE Delete
    <2>1. PICK x \in todo : (Remove(x[1]) \/ Terminate(x[1])) /\ uid[x[1]] = x[2]
      BY <1>3 DEF Delete
    <2>2. x[1] \in Object /\ x[2] \in {1, 2}
      BY <2>1 DEF RecoveryType
    <2>. QED
      BY <1>2, <2>1, <2>2
  <1>4. CASE Launch \/ StopSucceeds
    BY <1>1, <1>4 DEF Launch, StopSucceeds
  <1>5. ASSUME NEW o \in Object, Lands(o)
        PROVE  ClusterType'
    BY <1>5 DEF Lands
  <1>6. ASSUME NEW o \in Object, Vanishes(o)
        PROVE  ClusterType'
    BY <1>2, <1>6 DEF Vanishes
  <1>7. ASSUME NEW o \in Object, Others(o)
        PROVE  ClusterType'
    <2>1. CASE Terminate(o)
      BY <1>2, <1>7, <2>1 DEF Others
    <2>2. CASE label' = [label EXCEPT ![o] = FALSE] /\ UNCHANGED <<uid, dying>>
      BY <2>2
    <2>3. CASE /\ uid' = [uid EXCEPT ![o] = 2] /\ dying' = [dying EXCEPT ![o] = FALSE]
               /\ UNCHANGED label
      BY <2>3
    <2>4. CASE /\ uid' = [uid EXCEPT ![o] = 2] /\ dying' = [dying EXCEPT ![o] = FALSE]
               /\ label' = [label EXCEPT ![o] = FALSE]
      BY <2>4
    <2>. QED
      BY <1>7, <2>1, <2>2, <2>3, <2>4 DEF Others
  <1>8. CASE Step
    BY <1>1, <1>3, <1>4, <1>8, CallSteps DEF Environment
  <1>9. CASE World
    <2>1. CASE \E a \in Attempt : KtctlProceeds(a) \/ KtctlReports(a) \/ KtctlEnds(a)
      BY <1>1, <2>1 DEF KtctlProceeds, KtctlReports, KtctlEnds
    <2>2. CASE (\E o \in Object : Lost(o)) \/ Expire \/ Cancel
      BY <1>1, <2>2 DEF Lost, Expire, Cancel
    <2>. QED
      BY <1>5, <1>6, <1>7, <1>9, <2>1, <2>2 DEF World
  <1>. QED
    BY <1>1, <1>8, <1>9 DEF Next, Returned, vars

-----------------------------------------------------------------------------
(* Each attempt has at most the one request under way that it is at.        *)
LEMMA RequestStep ==
  ASSUME TypeOK, AttemptInv, RequestInv, [Next]_vars
  PROVE  RequestInv'
  <1> USE DEF RequestInv, InOrder, Kind
  <1>0. /\ uid \in [Object -> 0 .. 2] /\ phase \in [Attempt -> Kind \cup {"none", "serving"}]
        /\ \A a \in Attempt : <<"ConfigMap", a>> \in Object /\ <<"Pod", a>> \in Object
    BY DEF TypeOK, ClusterType, KtctlType, Object
  <1>1. CASE UNCHANGED <<attempt, phase, flight, uid>>
    BY <1>1
  <1>2. ASSUME NEW o \in Object, uid' = [uid EXCEPT ![o] = 0], UNCHANGED <<attempt, phase, flight>>
        PROVE  RequestInv'
    BY <1>0, <1>2
  <1>3. CASE Launch
    <2>1. PICK b \in Attempt : b = attempt + 1 /\ attempt' = b /\ attempt \in Int
      BY <1>3, BoundsAssumption DEF Launch, TypeOK, ControlType, AttemptInv, Attempt
    <2>2. UNCHANGED uid
      BY <1>3 DEF Launch, cluster
    <2>3. ASSUME NEW a \in Attempt, a # b
          PROVE  InOrder(a)'
      <3>1. phase'[a] = phase[a] /\ \A k \in Kind : <<k, a>> \in flight' <=> <<k, a>> \in flight
        BY <1>0, <1>3, <2>1, <2>3 DEF Launch
      <3>2. a > attempt' => a > attempt
        BY <2>1 DEF Attempt
      <3>. QED
        BY <2>2, <3>1, <3>2
    <2>4. InOrder(b)'
      <3>1. phase'[b] = "ConfigMap"
        BY <1>0, <1>3, <2>1 DEF Launch
      <3>2. <<"Pod", b>> \notin flight'
        <4>1. b > attempt /\ InOrder(b)
          BY <2>1
        <4>2. <<"Pod", b>> \notin flight
          BY <4>1
        <4>. QED
          BY <1>3, <2>1, <4>2 DEF Launch
      <3>3. uid[<<"Pod", b>>] = 0 /\ uid[<<"ConfigMap", b>>] = 0 /\ ~(b > attempt')
        BY <2>1
      <3>. QED
        BY <2>2, <3>1, <3>2, <3>3
    <2>. QED
      BY <2>3, <2>4
  <1>4. CASE StopSucceeds
    BY <1>1, <1>4 DEF StopSucceeds, GiveUp, cluster
  <1>5. CASE Delete
    <2>1. PICK x \in todo : Remove(x[1]) \/ Terminate(x[1])
      BY <1>5 DEF Delete
    <2>2. x[1] \in Object
      BY DEF TypeOK, RecoveryType
    <2>. QED
      BY <1>1, <1>2, <1>5, <2>1, <2>2 DEF Delete, Remove, Terminate, ktctl
  <1>6. ASSUME NEW b \in Attempt, KtctlProceeds(b)
        PROVE  RequestInv'
    <2>1. UNCHANGED <<attempt, uid>>
      BY <1>6 DEF KtctlProceeds, Call, cluster
    <2>2. \A a \in Attempt : a # b => phase'[a] = phase[a]
      BY <1>0, <1>6 DEF KtctlProceeds
    <2>3. CASE phase[b] = "ConfigMap"
      <3>1. phase'[b] = "Pod" /\ flight' = flight \cup {<<"Pod", b>>}
        BY <1>0, <1>6, <2>3 DEF KtctlProceeds
      <3>2. uid[<<"Pod", b>>] = 0 /\ <<"ConfigMap", b>> \notin flight
        BY <1>6, <2>3 DEF KtctlProceeds
      <3>3. b <= attempt
        BY <1>6, <2>3 DEF TypeOK, ControlType, KtctlType, KtctlProceeds, Attempt
      <3>4. ~(b > attempt)
        BY <3>3 DEF Attempt, TypeOK, ControlType
      <3>5. InOrder(b)'
        BY <2>1, <3>1, <3>2, <3>4
      <3>6. ASSUME NEW a \in Attempt, a # b
            PROVE  InOrder(a)'
        BY <2>1, <2>2, <3>1, <3>6
      <3>. QED
        BY <3>5, <3>6
    <2>4. CASE phase[b] = "Pod"
      <3>1. phase'[b] = "serving" /\ flight' = flight /\ <<"Pod", b>> \notin flight
        BY <1>0, <1>6, <2>4 DEF KtctlProceeds
      <3>. QED
        BY <2>1, <2>2, <2>4, <3>1
    <2>. QED
      BY <1>6, <2>3, <2>4 DEF KtctlProceeds
  <1>7. ASSUME NEW b \in Attempt, KtctlReports(b) \/ KtctlEnds(b)
        PROVE  RequestInv'
    BY <1>1, <1>7 DEF KtctlReports, KtctlEnds, Call, cluster
  <1>8. ASSUME NEW o \in Object, Lands(o)
        PROVE  RequestInv'
    <2>1. UNCHANGED <<attempt, phase>>
      BY <1>8 DEF Lands, Call
    <2>2. o \in flight /\ flight' = flight \ {o}
      BY <1>8 DEF Lands
    <2>3. PICK k \in Kind, b \in Attempt : o = <<k, b>>
      BY DEF Object
    <2>4. phase[b] = k /\ uid[o] = 0
      BY <2>2, <2>3
    <2>5. \A p \in Object : p # o => uid'[p] = uid[p]
      BY <1>0, <1>8 DEF Lands
    <2>. QED
      BY <1>0, <2>1, <2>2, <2>3, <2>4, <2>5
  <1>9. ASSUME NEW o \in Object, Lost(o)
        PROVE  RequestInv'
    BY <1>9 DEF Lost, Call, cluster
  <1>10. ASSUME NEW o \in Object, Vanishes(o)
         PROVE  RequestInv'
    BY <1>2, <1>10 DEF Vanishes, Remove, Call, ktctl
  <1>11. ASSUME NEW o \in Object, Others(o)
         PROVE  RequestInv'
    <2>1. UNCHANGED <<attempt, phase, flight>> /\ uid[o] # 0
      BY <1>11 DEF Others, Call, ktctl
    <2>2. \A p \in Object : p # o => uid'[p] = uid[p]
      BY <1>0, <1>11 DEF Others, Terminate
    <2>. QED
      BY <1>0, <2>1, <2>2
  <1>12. CASE Expire \/ Cancel
    BY <1>1, <1>12 DEF Expire, Cancel, Call, ktctl, cluster
  <1>13. CASE Step
    BY <1>1, <1>3, <1>4, <1>5, <1>13, CallSteps DEF Environment, ktctl, cluster
  <1>14. CASE World
    BY <1>6, <1>7, <1>8, <1>9, <1>10, <1>11, <1>12, <1>14 DEF World
  <1>. QED
    BY <1>1, <1>13, <1>14 DEF Next, Returned, vars, ktctl, cluster

(* A launch follows only on attempts that are gone.                         *)
LEMMA AttemptStep ==
  ASSUME TypeOK, AttemptInv, [Next]_vars
  PROVE  AttemptInv'
  <1> USE DEF AttemptInv, Recovering
  <1>0. attempt \in 0 .. MaxAttempts /\ MaxAttempts \in Nat \ {0}
        /\ proc \in [Attempt -> {"none", "up", "stuck", "gone"}]
        /\ \A a \in Attempt : (proc[a] = "none") <=> (a > attempt)
    BY BoundsAssumption DEF TypeOK, ControlType, KtctlType
  <1>1. ASSUME UNCHANGED <<attempt, proc>>, pc' = "returned" \/ pc' = pc
        PROVE  AttemptInv'
    BY <1>1
  <1>2. ASSUME UNCHANGED <<attempt, proc>>, attempt > 0, pc' \in {"wait", "save", "stop"}
        PROVE  AttemptInv'
    BY <1>2
  <1>3. ASSUME UNCHANGED <<attempt, proc>>, pc \in Recovering, pc' \in Recovering \cup {"launch"}
        PROVE  AttemptInv'
    BY <1>3
  <1>4. CASE Preflight
    <2>1. attempt = 0 /\ UNCHANGED <<attempt, proc>>
      BY <1>4 DEF Preflight, Environment, ktctl
    <2>2. pc' \in {"returned", "gate", "launch"}
      BY <1>4 DEF Preflight, Return, Goto
    <2>3. \A a \in Attempt : proc[a] = "none"
      BY <1>0, <2>1 DEF Attempt
    <2>. QED
      BY <1>0, <2>1, <2>2, <2>3 DEF Attempt
  <1>5. CASE GateProbe
    <2>1. UNCHANGED <<attempt, proc>>
      BY <1>5 DEF GateProbe, Environment, ktctl
    <2>2. pc' = pc \/ (pc = "gate" /\ pc' = "launch") \/ (pc = "preaudit" /\ pc' = "observe")
          \/ (pc = "regate" /\ pc' = "launch")
      BY <1>5, Labels DEF GateProbe, Goto
    <2>3. CASE pc = "gate"
      <3>1. \A a \in Attempt : proc[a] = "none"
        BY <1>0, <2>3 DEF Attempt
      <3>. QED
        BY <1>0, <2>1, <2>2, <2>3, <3>1 DEF Attempt
    <2>. QED
      BY <1>1, <1>3, <2>1, <2>2, <2>3
  <1>6. CASE Launch
    <2>1. attempt' = attempt + 1 /\ pc' = "wait" /\ pc = "launch"
      BY <1>6 DEF Launch, Goto
    <2>2. \A a \in Attempt : a < attempt' => proc'[a] = "gone"
      BY <1>0, <1>6, <2>1 DEF Launch, Attempt
    <2>. QED
      BY <1>0, <2>1, <2>2
  <1>7. CASE StopSucceeds
    <2>1. attempt' = attempt /\ pc' \in {"preaudit", "returned"} /\ pc = "stop"
      BY <1>7 DEF StopSucceeds, Goto, GiveUp, Return
    <2>2. pc' = "preaudit" => attempt < MaxAttempts
      BY <1>7 DEF StopSucceeds, Goto, GiveUp, Return
    <2>3. \A a \in Attempt : proc'[a] \in {"none", "gone"} /\ (a < attempt => proc'[a] = "gone")
      BY <1>0, <1>7 DEF StopSucceeds, Attempt
    <2>. QED
      BY <2>1, <2>2, <2>3
  <1>8. CASE LaunchFails \/ GateFails \/ RecoverFails \/ DeleteRefused \/ StopFails
    BY <1>1, <1>8 DEF LaunchFails, GateFails, RecoverFails, DeleteRefused, StopFails, GiveUp,
                      Return, Environment, ktctl
  <1>9. CASE WaitEnds \/ WaitFatal \/ WaitExit \/ WaitProbe \/ SaveRecord
    BY <1>1, <1>2, <1>0, <1>9 DEF WaitEnds, WaitFatal, WaitExit, WaitProbe, SaveRecord, Failed,
                             Goto, Return, Environment, ktctl
  <1>10. CASE Observe \/ Delete \/ ConfirmList \/ ConfirmExact \/ ConfirmEnds
    BY <1>1, <1>3, <1>10 DEF Observe, Delete, ConfirmList, ConfirmExact, ConfirmEnds, GiveUp,
                              Goto, Return, Environment, ktctl
  <1>11. CASE World
    <2>1. UNCHANGED <<pc, attempt>>
      BY <1>11, WorldSteps DEF Call
    <2>2. \A a \in Attempt : proc'[a] = proc[a] \/ (proc[a] \in {"up", "stuck"} /\ proc'[a] # "up")
      BY <1>0, <1>11 DEF World, KtctlProceeds, KtctlReports, KtctlEnds, Lands, Lost, Vanishes,
                         Others, Expire, Cancel, ktctl
    <2>. QED
      BY <2>1, <2>2
  <1>12. CASE UNCHANGED vars
    BY <1>1, <1>12 DEF vars, ktctl
  <1>. QED
    BY <1>4, <1>5, <1>6, <1>7, <1>8, <1>9, <1>10, <1>11, <1>12 DEF Next, Step, Returned

-----------------------------------------------------------------------------
(* The snapshot is there for as long as a ktctl process may need it, and no *)
(* longer.                                                                  *)
LEMMA SnapshotStep ==
  ASSUME TypeOK, AttemptInv, AttemptInv', SnapshotInv, [Next]_vars
  PROVE  SnapshotInv'
  <1> USE DEF SnapshotInv, NothingLeft
  <1>0. /\ \A a \in Attempt : (proc[a] = "none") <=> (a > attempt)
        /\ proc \in [Attempt -> {"none", "up", "stuck", "gone"}]
        /\ attempt \in Int
    BY DEF TypeOK, ControlType, KtctlType
  <1>1. ASSUME UNCHANGED <<driver, proc, snapshot, result>>, pc # "preflight",
               pc' \notin {"preflight", "returned"}, pc # "returned"
        PROVE  SnapshotInv'
    BY <1>1
  <1>2. ASSUME Return("failed"), UNCHANGED driver,
               \A a \in Attempt : proc'[a] \notin {"up", "stuck"}
        PROVE  SnapshotInv'
    BY <1>2 DEF Return
  <1>3. ASSUME NEW what \in {"ready", "unstopped"}, Return(what), UNCHANGED <<driver, proc>>,
               pc \notin {"preflight", "returned"}, snapshot \in BOOLEAN
        PROVE  SnapshotInv'
    BY <1>3 DEF Return
  <1>4. CASE Preflight
    <2>1. \A a \in Attempt : proc[a] = "none"
      BY <1>0, <1>4 DEF Preflight, AttemptInv, Attempt
    <2>2. CASE Return("failed")
      BY <1>2, <1>4, <2>1, <2>2 DEF Preflight, Environment, configuration, ktctl
    <2>3. CASE snapshot' = (driver = "ktctl") /\ pc' \in {"gate", "launch"} /\ UNCHANGED result
      <3>1. UNCHANGED <<driver, proc>> /\ result = "none"
        BY <1>4 DEF Preflight, Environment, configuration, ktctl
      <3>2. driver = "ktctl" => snapshot'
        BY <2>3
      <3>. QED
        BY <2>1, <2>3, <3>1, <3>2
    <2>. QED
      BY <1>4, <2>2, <2>3 DEF Preflight, Goto
  <1>5. CASE GateProbe
    BY <1>1, <1>5, Labels DEF GateProbe, Goto, Environment, configuration, ktctl, outcome
  <1>6. CASE GateFails
    <2>1. \A a \in Attempt : proc[a] \in {"none", "gone"}
      BY <1>0, <1>6, Labels DEF GateFails, AttemptInv, Recovering, Attempt
    <2>. QED
      BY <1>2, <1>6, <2>1 DEF GateFails, GiveUp, Environment, configuration, ktctl
  <1>7. CASE Launch
    <2>1. UNCHANGED <<snapshot, result, driver>> /\ pc = "launch" /\ pc' = "wait"
      BY <1>7 DEF Launch, Goto, outcome, configuration
    <2>. QED
      BY <2>1
  <1>8. CASE LaunchFails
    BY <1>2, <1>8 DEF LaunchFails, GiveUp, Environment, configuration, ktctl, AttemptInv
  <1>9. CASE WaitEnds \/ WaitFatal \/ WaitExit \/ WaitProbe
    BY <1>1, <1>9 DEF WaitEnds, WaitFatal, WaitExit, WaitProbe, Failed, Goto, Environment,
                      configuration, ktctl, outcome
  <1>10. CASE SaveRecord
    BY <1>1, <1>3, <1>10 DEF SaveRecord, Goto, Environment, configuration, ktctl, outcome,
                             TypeOK, OutcomeType
  <1>11. CASE StopSucceeds
    <2>1. \A a \in Attempt : proc'[a] \in {"none", "gone"}
      BY <1>0, <1>11 DEF StopSucceeds, AttemptInv, Attempt
    <2>2. CASE GiveUp
      BY <1>2, <1>11, <2>1, <2>2 DEF StopSucceeds, GiveUp, configuration
    <2>3. CASE Goto("preaudit") /\ UNCHANGED outcome
      BY <1>11, <2>1, <2>3 DEF StopSucceeds, Goto, configuration, outcome
    <2>. QED
      BY <1>11, <2>2, <2>3 DEF StopSucceeds
  <1>12. CASE StopFails
    BY <1>3, <1>12 DEF StopFails, Environment, configuration, ktctl, TypeOK, OutcomeType
  <1>13. CASE RecoverFails \/ Observe \/ DeleteRefused \/ Delete \/ ConfirmList \/ ConfirmExact
              \/ ConfirmEnds
    <2>1. /\ UNCHANGED <<driver, proc>> /\ pc \in {"observe", "delete", "confirm", "exact"}
          /\ \A a \in Attempt : proc[a] \in {"none", "gone"}
      BY <1>13 DEF RecoverFails, Observe, DeleteRefused, Delete, ConfirmList, ConfirmExact,
                   ConfirmEnds, Environment, configuration, ktctl, AttemptInv, Recovering
    <2>2. CASE Return("failed")
      BY <1>2, <2>1, <2>2
    <2>3. CASE /\ UNCHANGED <<snapshot, result>>
               /\ pc' \in {"observe", "delete", "confirm", "exact", "regate"}
      BY <1>1, <2>1, <2>3
    <2>. QED
      BY <1>13, <2>1, <2>2, <2>3 DEF RecoverFails, Observe, DeleteRefused, Delete, ConfirmList,
         ConfirmExact, ConfirmEnds, GiveUp, Goto, outcome
  <1>14. CASE World
    <2>1. UNCHANGED <<pc, driver, snapshot, result>>
      BY <1>14, WorldSteps DEF Call, configuration, outcome
    <2>2. \A a \in Attempt : proc'[a] \in {"up", "stuck"} => proc[a] \in {"up", "stuck"}
      BY <1>0, <1>14 DEF World, KtctlProceeds, KtctlReports, KtctlEnds, Lands, Lost, Vanishes,
                         Others, Expire, Cancel, ktctl
    <2>. QED
      BY <2>1, <2>2
  <1>15. CASE UNCHANGED vars
    BY <1>15 DEF vars, configuration, outcome, ktctl
  <1>. QED
    BY <1>4, <1>5, <1>6, <1>7, <1>8, <1>9, <1>10, <1>11, <1>12, <1>13, <1>14, <1>15
       DEF Next, Step, Returned

-----------------------------------------------------------------------------
(* What the world does to the objects of an audited attempt: no request of  *)
(* it can land any more, so none of them comes back or gets its label.      *)
LEMMA AuditedWorld ==
  ASSUME TypeOK, AttemptInv, RecoveryInv, Audited, World
  PROVE  /\ flight' \cap Named = {}
         /\ \A o \in Named : uid[o] = 0 => uid'[o] = 0
         /\ Selected' \subseteq Selected
  <1>0. /\ uid \in [Object -> 0 .. 2] /\ label \in [Object -> BOOLEAN]
        /\ \A a \in Attempt : proc[a] # "up"
        /\ Named' = Named /\ flight \cap Named = {}
    BY WorldSteps DEF TypeOK, ClusterType, AttemptInv, Audited, Recovering, RecoveryInv, Named, Call
  <1>1. Named \subseteq Object
    BY BoundsAssumption DEF Named, Object, Attempt, TypeOK, ControlType, AttemptInv, Audited,
                            Recovering
  <1>2. flight' \subseteq flight
    BY <1>0 DEF World, KtctlProceeds, KtctlReports, KtctlEnds, Lands, Lost, Vanishes, Others,
                Expire, Cancel, ktctl
  <1>3. \A o \in Named : /\ uid[o] = 0 => uid'[o] = 0
                         /\ label'[o] => label[o]
    <2>1. CASE UNCHANGED cluster
      BY <2>1 DEF cluster
    <2>2. ASSUME NEW o \in Object, Lands(o)
          PROVE  \A p \in Named : uid'[p] = uid[p] /\ label'[p] = label[p]
      BY <1>0, <1>1, <2>2 DEF Lands
    <2>3. ASSUME NEW o \in Object, Vanishes(o)
          PROVE  \A p \in Named : (uid[p] = 0 => uid'[p] = 0) /\ (label'[p] => label[p])
      BY <1>0, <1>1, <2>3 DEF Vanishes, Remove
    <2>4. ASSUME NEW o \in Object, Others(o)
          PROVE  \A p \in Named : (uid[p] = 0 => uid'[p] = 0) /\ (label'[p] => label[p])
      <3>1. \A p \in Named : uid[p] = 0 => uid'[p] = 0
        BY <1>0, <1>1, <2>4 DEF Others, Terminate
      <3>2. \A p \in Named : label'[p] => label[p]
        BY <1>0, <1>1, <2>4 DEF Others, Terminate
      <3>. QED
        BY <3>1, <3>2
    <2>5. UNCHANGED cluster \/ \E o \in Object : Lands(o) \/ Vanishes(o) \/ Others(o)
      BY DEF World, KtctlProceeds, KtctlReports, KtctlEnds, Lost, Expire, Cancel
    <2>. QED
      BY <2>1, <2>2, <2>3, <2>4, <2>5
  <1>. QED
    BY <1>0, <1>2, <1>3 DEF Selected

(* What an audit and a confirmation have established stays so until the     *)
(* next launch.                                                             *)
LEMMA RecoveryInvStep ==
  ASSUME TypeOK, RequestInv, AttemptInv, RecoveryInv, [Next]_vars
  PROVE  RecoveryInv'
  <1> USE DEF RecoveryInv, Audited, Confirmed
  <1>1. CASE pc' \in {"returned", "preflight", "gate", "wait", "save", "stop", "preaudit",
                      "observe"}
    BY <1>1
  <1>2. CASE Preflight
    <2>1. attempt' = 0 /\ pc' \in {"returned", "gate", "launch"}
      BY <1>2 DEF Preflight, Return, Goto, AttemptInv
    <2>. QED
      BY <2>1
  <1>3. CASE GateProbe
    <2>1. UNCHANGED <<attempt, flight, uid, label, found, todo, clear>>
      BY <1>3 DEF GateProbe, Environment, ktctl, cluster, recovery
    <2>2. pc' = pc \/ (pc = "gate" /\ pc' = "launch") \/ pc' = "observe"
          \/ (pc = "regate" /\ pc' = "launch")
      BY <1>3, Labels DEF GateProbe, Goto
    <2>3. CASE pc = "regate"
      BY <2>1, <2>2, <2>3 DEF Selected, Named
    <2>4. CASE pc # "regate"
      BY <1>3, <2>1, <2>2, <2>4, Labels DEF GateProbe, AttemptInv
    <2>. QED
      BY <2>3, <2>4
  <1>4. CASE Launch \/ StopSucceeds \/ WaitEnds \/ WaitFatal \/ WaitExit \/ WaitProbe
             \/ SaveRecord \/ StopFails \/ GateFails \/ LaunchFails \/ RecoverFails \/ DeleteRefused
    BY <1>1, <1>4 DEF Launch, StopSucceeds, WaitEnds, WaitFatal, WaitExit, WaitProbe, SaveRecord,
       StopFails, GateFails, LaunchFails, RecoverFails, DeleteRefused, GiveUp, Return, Failed, Goto
  <1>5. CASE Observe
    <2>1. CASE pc' # "delete"
      BY <1>1, <1>5, <2>1 DEF Observe, GiveUp, Return, Goto
    <2>2. CASE pc' = "delete"
      <3>1. /\ <<"Pod", attempt>> \in Selected
            /\ found' = {<<o, uid[o]>> : o \in Selected}
        BY <1>5, <2>2 DEF Observe, GiveUp, Return
      <3>2. UNCHANGED <<attempt, flight, uid, label>>
        BY <1>5, <2>2 DEF Observe, Environment, ktctl, cluster, GiveUp
      <3>3. InOrder(attempt)
        BY <1>5, BoundsAssumption DEF Observe, RequestInv, AttemptInv, Recovering, TypeOK,
                                      ControlType, Attempt
      <3>4. flight \cap Named = {}
        BY <3>1, <3>3 DEF InOrder, Named, Kind, Selected
      <3>5. \A x \in found' : x[1] \in Named
        BY <3>1 DEF Selected
      <3>. QED
        BY <2>2, <3>2, <3>4, <3>5 DEF Named
    <2>. QED
      BY <2>1, <2>2
  <1>6. CASE Delete
    <2>1. pc = "delete" /\ pc' \in {"delete", "confirm", "returned"}
      BY <1>6 DEF Delete, Goto, Return
    <2>2. UNCHANGED <<attempt, flight, found>>
      BY <1>6 DEF Delete, ktctl
    <2>. QED
      BY <2>1, <2>2 DEF Named
  <1>7. CASE ConfirmList
    <2>1. CASE GiveUp
      BY <1>1, <2>1 DEF GiveUp, Return
    <2>2. CASE ~GiveUp
      <3>1. /\ pc = "confirm" /\ pc' = "exact" /\ todo' = found /\ found' = found
            /\ clear' = (Selected = {})
            /\ UNCHANGED <<attempt, flight, uid, label>>
        BY <1>7, <2>2 DEF ConfirmList, Environment, ktctl, cluster
      <3>2. clear' => Selected' = {}
        BY <3>1 DEF Selected, Named
      <3>. QED
        BY <3>1, <3>2 DEF Named
    <2>. QED
      BY <2>1, <2>2
  <1>8. CASE ConfirmExact
    <2>1. CASE GiveUp
      BY <1>1, <2>1 DEF GiveUp, Return
    <2>2. CASE ~GiveUp
      <3>1. PICK x \in todo : clear' = (clear /\ uid[x[1]] = 0) /\ todo' = todo \ {x}
        BY <1>8, <2>2 DEF ConfirmExact
      <3>2. pc = "exact" /\ pc' = pc /\ UNCHANGED <<attempt, flight, uid, label, found>>
        BY <1>8, <2>2 DEF ConfirmExact, Environment, ktctl, cluster
      <3>3. Selected' = Selected /\ Named' = Named
        BY <3>2 DEF Selected, Named
      <3>4. clear' => clear /\ uid[x[1]] = 0
        BY <3>1
      <3>. QED
        BY <3>1, <3>2, <3>3, <3>4
    <2>. QED
      BY <2>1, <2>2
  <1>9. CASE ConfirmEnds
    <2>1. pc = "exact" /\ todo = {} /\ UNCHANGED <<attempt, flight, uid, label, found, todo, clear>>
      BY <1>9 DEF ConfirmEnds, Environment, ktctl, cluster, recovery
    <2>2. pc' = "confirm" \/ (clear /\ pc' = "regate")
      BY <1>9 DEF ConfirmEnds, Goto
    <2>3. Selected' = Selected /\ Named' = Named
      BY <2>1 DEF Selected, Named
    <2>. QED
      BY <2>1, <2>2, <2>3
  <1>10. CASE World
    <2>1. UNCHANGED <<pc, attempt, found, todo, clear>> /\ Named' = Named
      BY <1>10, WorldSteps DEF Call, recovery, Named
    <2>2. CASE Audited
      BY <1>10, <2>1, <2>2, AuditedWorld
    <2>3. CASE ~Audited
      BY <2>1, <2>3
    <2>. QED
      BY <2>2, <2>3
  <1>11. CASE UNCHANGED vars
    BY <1>11 DEF vars, recovery, ktctl, cluster, Named, Selected
  <1>. QED
    BY <1>2, <1>3, <1>4, <1>5, <1>6, <1>7, <1>8, <1>9, <1>10, <1>11 DEF Next, Step, Returned

(* An object of others starts to terminate only when it was found.          *)
LEMMA ForeignStep ==
  ASSUME TypeOK, RequestInv, AttemptInv, RecoveryInv, ForeignInv, [Next]_vars
  PROVE  ForeignInv'
  <1> USE DEF ForeignInv
  <1>0. uid \in [Object -> 0 .. 2] /\ dying \in [Object -> BOOLEAN]
    BY DEF TypeOK, ClusterType
  <1>1. ASSUME UNCHANGED <<uid, dying, found>>,
               pc' = pc \/ pc \notin {"delete", "confirm", "exact", "returned"}
               \/ pc' \in {"delete", "confirm", "exact", "returned"}
        PROVE  ForeignInv'
    BY <1>1
  <1>2. CASE Preflight \/ GateProbe \/ GateFails \/ LaunchFails \/ WaitEnds \/ WaitFatal
             \/ WaitExit \/ WaitProbe \/ SaveRecord \/ StopSucceeds \/ StopFails \/ Launch
    BY <1>1, <1>2, Labels DEF Preflight, GateProbe, GateFails, LaunchFails, WaitEnds, WaitFatal,
       WaitExit, WaitProbe, SaveRecord, StopSucceeds, StopFails, Launch, GiveUp, Failed,
       Environment, cluster, recovery
  <1>3. CASE RecoverFails \/ DeleteRefused \/ ConfirmList \/ ConfirmExact
    BY <1>1, <1>3 DEF RecoverFails, DeleteRefused, ConfirmList, ConfirmExact, GiveUp, Return,
                      Environment, cluster, recovery
  <1>4. CASE Observe
    <2>1. \A o \in Object : ~(uid[o] = 2 /\ dying[o])
      BY <1>4 DEF Observe
    <2>. QED
      BY <1>4, <2>1 DEF Observe, Environment, cluster
  <1>5. CASE Delete
    <2>1. PICK x \in todo : uid[x[1]] = x[2] /\ (Remove(x[1]) \/ Terminate(x[1]))
      BY <1>5 DEF Delete
    <2>2. x[1] \in Object /\ x[2] \in {1, 2} /\ <<x[1], x[2]>> \in found
      BY <2>1 DEF TypeOK, RecoveryType
    <2>3. \A o \in Object : o # x[1] => uid'[o] = uid[o] /\ dying'[o] = dying[o]
      BY <1>0, <2>1, <2>2 DEF Remove, Terminate
    <2>4. uid'[x[1]] = 2 => <<x[1], 2>> \in found
      BY <1>0, <2>1, <2>2 DEF Remove, Terminate
    <2>5. found' = found /\ pc = "delete" /\ pc' \in {"delete", "confirm", "returned"}
      BY <1>5 DEF Delete, Goto, Return
    <2>. QED
      BY <2>2, <2>3, <2>4, <2>5
  <1>6. CASE ConfirmEnds
    <2>1. /\ pc = "exact" /\ todo = {} /\ UNCHANGED <<uid, dying, found>>
          /\ pc' = "confirm" \/ (clear /\ pc' = "regate")
      BY <1>6 DEF ConfirmEnds, Environment, cluster, recovery, Goto
    <2>2. CASE clear
      <3>1. \A x \in found : uid[x[1]] = 0
        BY <2>1, <2>2 DEF RecoveryInv
      <3>2. ASSUME NEW o \in Object, uid[o] = 2, dying[o]
            PROVE  FALSE
        <4>1. <<o, 2>> \in found
          BY <3>2
        <4>2. uid[<<o, 2>>[1]] = 0
          BY <3>1, <4>1
        <4>. QED
          BY <3>2, <4>2
      <3>. QED
        BY <2>1, <3>2
    <2>. QED
      BY <1>1, <2>1, <2>2
  <1>7. ASSUME NEW o \in Object, Lands(o)
        PROVE  ForeignInv'
    BY <1>0, <1>7 DEF Lands, Call, recovery
  <1>8. ASSUME NEW o \in Object, Vanishes(o)
        PROVE  ForeignInv'
    BY <1>0, <1>8 DEF Vanishes, Remove, Call, recovery
  <1>9. ASSUME NEW o \in Object, Others(o)
        PROVE  ForeignInv'
    <2>1. UNCHANGED <<pc, found>>
      BY <1>9 DEF Others, Call, recovery
    <2>2. \A p \in Object : p # o => uid'[p] = uid[p] /\ dying'[p] = dying[p]
      BY <1>0, <1>9 DEF Others, Terminate
    <2>3. uid'[o] = 1 \/ ~dying'[o]
      BY <1>0, <1>9 DEF Others, Terminate
    <2>. QED
      BY <2>1, <2>2, <2>3
  <1>10. CASE World
    <2>1. UNCHANGED <<pc, found>>
      BY <1>10, WorldSteps DEF Call, recovery
    <2>2. CASE UNCHANGED cluster
      BY <1>1, <2>1, <2>2 DEF cluster
    <2>3. UNCHANGED cluster \/ \E o \in Object : Lands(o) \/ Vanishes(o) \/ Others(o)
      BY <1>10 DEF World, KtctlProceeds, KtctlReports, KtctlEnds, Lost, Expire, Cancel
    <2>. QED
      BY <1>7, <1>8, <1>9, <2>2, <2>3
  <1>11. CASE UNCHANGED vars
    BY <1>1, <1>11 DEF vars, cluster, recovery
  <1>. QED
    BY <1>2, <1>3, <1>4, <1>5, <1>6, <1>10, <1>11 DEF Next, Step, Returned

-----------------------------------------------------------------------------
(* The initial states satisfy the invariant: nothing was launched.          *)
LEMMA InitInvariant ==
  ASSUME Init
  PROVE  IInv
  <1> USE BoundsAssumption DEF Init
  <1>1. ControlType
    <2>1. pc \in Control /\ attempt \in 0 .. MaxAttempts
      BY Labels
    <2>2. ready \in 0 .. ReadyProbes - 1 /\ good \in 0 .. ApiProbes - 1
      BY Zero
    <2>. QED
      BY <2>1, <2>2 DEF ControlType
  <1>2. RecoveryType /\ OutcomeType
    BY Zero DEF RecoveryType, OutcomeType
  <1>3. KtctlType
    <2>1. \A a \in Attempt : a > attempt
      BY DEF Attempt
    <2>. QED
      BY <2>1 DEF KtctlType
  <1>4. ClusterType
    BY DEF ClusterType
  <1>5. RequestInv
    BY DEF RequestInv, InOrder, Object, Kind
  <1>6. AttemptInv /\ SnapshotInv
    BY DEF AttemptInv, Recovering, SnapshotInv, NothingLeft, Attempt
  <1>7. RecoveryInv /\ ForeignInv
    BY DEF RecoveryInv, Audited, Confirmed, ForeignInv
  <1>. QED
    BY <1>1, <1>2, <1>3, <1>4, <1>5, <1>6, <1>7 DEF IInv, TypeOK

(* The six parts of the invariant together are preserved by every step.     *)
LEMMA NextInvariant ==
  ASSUME IInv, [Next]_vars
  PROVE  IInv'
  <1> USE DEF IInv
  <1>1. TypeOK'
    BY ControlStep, RecoveryStep, OutcomeStep, KtctlStep, ClusterStep DEF TypeOK
  <1>2. AttemptInv'
    BY AttemptStep
  <1>3. SnapshotInv'
    BY <1>2, SnapshotStep
  <1>. QED
    BY <1>1, <1>2, <1>3, RequestStep, RecoveryInvStep, ForeignStep

(* The inductive invariant holds throughout every run.                      *)
THEOREM Invariance == Spec => []IInv
  <1>1. Init => IInv
    BY InitInvariant
  <1>2. IInv /\ [Next]_vars => IInv'
    BY NextInvariant
  <1>. QED
    BY <1>1, <1>2, PTL DEF Spec

(* The state of an attempt, of its recovery and of the cluster keeps its    *)
(* shape: at most MaxAttempts launches, one process at a time.              *)
THEOREM TypeCorrect == Spec => []TypeOK
  <1>1. IInv => TypeOK
    BY DEF IInv
  <1>. QED
    BY <1>1, Invariance, PTL

(* A call that fails without a process to hand on leaves neither a process  *)
(* nor the private kubeconfig.                                              *)
THEOREM LeavesNothing == Spec => []NothingLeft
  <1>1. IInv => NothingLeft
    BY DEF IInv, SnapshotInv
  <1>. QED
    BY <1>1, Invariance, PTL

(* ktctl is launched again only when nothing of the attempt before is left. *)
THEOREM RetryIsClean == Spec => CleanRetry
  <1>1. ASSUME IInv, [Next]_vars, attempt' > attempt, attempt > 0
        PROVE  /\ proc[attempt] = "gone" /\ flight \cap Named = {} /\ Selected = {}
               /\ \A x \in found : uid[x[1]] = 0
    <2>1. attempt \in 0 .. MaxAttempts
      BY <1>1 DEF IInv, TypeOK, ControlType
    <2>2. Launch
      <3>1. attempt' # attempt
        BY <1>1, <2>1
      <3>2. ~World /\ ~UNCHANGED vars
        BY <3>1, WorldSteps DEF Call, vars
      <3>3. ~StopSucceeds /\ ~Delete
        BY <3>1 DEF StopSucceeds, Delete, GiveUp
      <3>. QED
        BY <1>1, <3>1, <3>2, <3>3, CallSteps DEF Next, Returned
    <2>3. attempt \in Attempt /\ proc[attempt] = "gone"
      BY <1>1, <2>1, <2>2, BoundsAssumption
         DEF Launch, IInv, AttemptInv, TypeOK, KtctlType, Attempt
    <2>. QED
      BY <1>1, <2>2, <2>3 DEF IInv, RecoveryInv, Audited, Confirmed, Launch
  <1>. QED
    BY <1>1, Invariance, PTL DEF CleanRetry, Spec

(* What others put in the place of an attempt's object is never deleted     *)
(* unless it was observed with the attempt's label.                         *)
THEOREM OthersAreSpared == Spec => OthersSpared
  <1>1. ASSUME IInv, [Next]_vars, NEW o \in Object, uid[o] = 2, <<o, 2>> \notin found
        PROVE  uid'[o] = 2 /\ dying'[o] = dying[o]
    <2>0. uid \in [Object -> 0 .. 2] /\ dying \in [Object -> BOOLEAN] /\ ~dying[o]
      BY <1>1 DEF IInv, TypeOK, ClusterType, ForeignInv
    <2>1. CASE UNCHANGED cluster
      BY <1>1, <2>1 DEF cluster
    <2>2. CASE Delete
      <3>1. PICK x \in todo : uid[x[1]] = x[2] /\ (Remove(x[1]) \/ Terminate(x[1]))
        BY <2>2 DEF Delete
      <3>2. x \in found /\ x[1] \in Object /\ x = <<x[1], x[2]>>
        BY <1>1, <3>1 DEF IInv, TypeOK, RecoveryType
      <3>3. x[1] # o
        BY <1>1, <3>1, <3>2
      <3>. QED
        BY <1>1, <2>0, <3>1, <3>2, <3>3 DEF Remove, Terminate
    <2>3. ASSUME NEW p \in Object, Lands(p) \/ Vanishes(p) \/ Others(p)
          PROVE  uid'[o] = 2 /\ dying'[o] = dying[o]
      <3>1. p # o
        <4>1. CASE Lands(p)
          <5>1. PICK k \in Kind, a \in Attempt : p = <<k, a>>
            BY DEF Object
          <5>2. uid[p] = 0
            BY <1>1, <4>1, <5>1 DEF Lands, IInv, RequestInv, InOrder
          <5>. QED
            BY <1>1, <5>2
        <4>. QED
          BY <1>1, <2>0, <2>3, <4>1 DEF Vanishes, Others
      <3>. QED
        BY <1>1, <2>0, <2>3, <3>1 DEF Lands, Vanishes, Others, Remove, Terminate
    <2>4. UNCHANGED cluster \/ Delete \/ \E p \in Object : Lands(p) \/ Vanishes(p) \/ Others(p)
      <3>1. CASE Step
        BY <3>1, CallSteps DEF Launch, StopSucceeds, Environment
      <3>2. CASE World
        BY <3>2 DEF World, KtctlProceeds, KtctlReports, KtctlEnds, Lost, Expire, Cancel
      <3>. QED
        BY <1>1, <3>1, <3>2 DEF Next, Returned, vars
    <2>. QED
      BY <2>1, <2>2, <2>3, <2>4
  <1>2. ASSUME IInv, [Next]_vars
        PROVE  \A o \in Object : uid[o] = 2 /\ <<o, 2>> \notin found =>
                   uid'[o] = 2 /\ dying'[o] = dying[o]
    BY <1>1, <1>2
  <1>. QED
    BY <1>2, Invariance, PTL DEF OthersSpared, Spec
=============================================================================
