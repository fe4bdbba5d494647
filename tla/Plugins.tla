------------------------------- MODULE Plugins -------------------------------
(***************************************************************************)
(* Commands that install, replace, remove and run plugins, in the store of *)
(* the workspace and in the global one (internal/plugins/plugins.go,       *)
(* internal/cli/plugins.go).  A store is a directory; the commands that    *)
(* change it lock it, the others do not.  One name is enough: commands for *)
(* different names meet in the lock alone.                                 *)
(*                                                                         *)
(* External: the user at the prompts, and whoever writes to a store        *)
(* without conven.                                                         *)
(***************************************************************************)
EXTENDS Integers, FiniteSets

CONSTANTS
  Commands,     \* the commands that run side by side
  Tasks,        \* what they may be asked to do
  MaxOutsiders  \* writes by others than conven, at most

Stores == {"workspace", "global"}
None == "none"

\* What locks a store names it: "either" is for the commands that only run a plugin.
ASSUME PluginAssumption ==
  /\ None \notin Commands
  /\ \A t \in Tasks : t.does # "run" => t.store \in Stores

VARIABLES
  task,     \* of each command: [does, store, named]; does: "install", "builtin",
            \* "remove" or "run"; store: "workspace", "global" or "either"
  at,       \* of each command: where it is
  sees,     \* of each command: the entry it found, or NoFile
  entry,    \* of each store: the file under the plugin's name, or NoFile
  temps,    \* of each store: the commands whose temporary file is there
  holder,   \* of each store: the command that has the lock, or None
  agreed,   \* the commands whose user agreed to overwrite
  missed,   \* the commands that found nothing in the workspace's store
  ran,      \* of each command: the file it ran and the store it came from, or None
  outsiders \* writes by others so far

\* A file: who wrote it; "whole", or "odd": a link, a directory or nothing executable
File(c) == [by |-> c, is |-> "whole"]
NoFile == [by |-> None, is |-> "absent"]

files == <<entry, temps, holder>>
pluginVars == <<task, at, sees, files, agreed, missed, ran, outsiders>>

Ends == {"done", "refused", "dead"}
Store(c) == task[c].store
Go(c, l) == at' = [at EXCEPT ![c] = l]

PluginInit ==
  /\ task \in [Commands -> Tasks]
  /\ at = [c \in Commands |-> "begin"]
  /\ sees = [c \in Commands |-> NoFile]
  /\ entry \in [Stores -> {NoFile, File("old")}]
  /\ temps = [s \in Stores |-> {}] /\ holder = [s \in Stores |-> None]
  /\ agreed = {} /\ missed = {}
  /\ ran = [c \in Commands |-> [file |-> NoFile, store |-> None]]
  /\ outsiders = 0

-----------------------------------------------------------------------------
(* Install, replace and the builtin plugins                                  *)

Writes(c) == task[c].does \in {"install", "builtin"}

\* Mutant: the lock does not exclude others.
LocksShared(c) ==
  /\ at[c] = "begin" /\ task[c].does # "run"
  /\ holder' = [holder EXCEPT ![Store(c)] = c]
  /\ Go(c, "locked")
  /\ UNCHANGED <<task, sees, entry, temps, agreed, missed, ran, outsiders>>

\* The source is a readable Python file; the directory is there or made, and
\* locked: the lock is waited for.
Lock(c) ==
  /\ at[c] = "begin" /\ task[c].does # "run"
  /\ holder[Store(c)] = None /\ holder' = [holder EXCEPT ![Store(c)] = c]
  /\ Go(c, "locked")
  /\ UNCHANGED <<task, sees, entry, temps, agreed, missed, ran, outsiders>>

Unlock(c) == holder' = [holder EXCEPT ![Store(c)] = None]

\* Every return: the temporary file is unlinked, then the lock goes.
Leave(c, l) ==
  /\ Go(c, l) /\ Unlock(c)
  /\ temps' = [temps EXCEPT ![Store(c)] = @ \ {c}]

\* An entry is kept when it is a builtin's; without an agreement the user is asked.
FindsEntry(c) ==
  /\ at[c] = "locked" /\ Writes(c) /\ entry[Store(c)] # NoFile /\ c \notin agreed
  /\ Leave(c, IF task[c].does = "builtin" THEN "done" ELSE "ask")
  /\ UNCHANGED <<task, sees, entry, agreed, missed, ran, outsiders>>

\* The prompt, without the lock: yes, no, no terminal, or interrupted
Agree(c) ==
  /\ at[c] = "ask" /\ Go(c, "begin") /\ agreed' = agreed \cup {c}
  /\ UNCHANGED <<task, sees, files, missed, ran, outsiders>>

Decline(c) ==
  /\ at[c] = "ask" /\ Go(c, "refused")
  /\ UNCHANGED <<task, sees, files, agreed, missed, ran, outsiders>>

\* createTemporaryPlugin, what is there noted
Prepare(c) ==
  /\ at[c] = "locked" /\ Writes(c)
  /\ entry[Store(c)] = NoFile \/ (c \in agreed /\ entry[Store(c)].is # "odd")
  /\ sees' = [sees EXCEPT ![c] = entry[Store(c)]]
  /\ temps' = [temps EXCEPT ![Store(c)] = @ \cup {c}]
  /\ Go(c, "written")
  /\ UNCHANGED <<task, entry, holder, agreed, missed, ran, outsiders>>

\* An odd entry is not replaced; the copy, the sync or the rename may fail.
Fails(c) ==
  /\ \/ at[c] = "locked" /\ c \in agreed /\ entry[Store(c)].is = "odd"
     \/ at[c] \in {"written", "checked"}
  /\ Leave(c, "refused")
  /\ UNCHANGED <<task, sees, entry, agreed, missed, ran, outsiders>>

\* A link, which an entry made meanwhile defeats
Link(c) ==
  /\ at[c] = "written" /\ c \notin agreed
  /\ IF entry[Store(c)] = NoFile
     THEN entry' = [entry EXCEPT ![Store(c)] = File(c)] /\ Leave(c, "done")
     ELSE /\ UNCHANGED entry
          /\ Leave(c, IF task[c].does = "builtin" THEN "done" ELSE "ask")
  /\ UNCHANGED <<task, sees, agreed, missed, ran, outsiders>>

\* A replacement looks at the entry again, and then renames.
Recheck(c) ==
  /\ at[c] = "written" /\ c \in agreed
  /\ IF entry[Store(c)] = sees[c] THEN Go(c, "checked") /\ UNCHANGED <<temps, holder>>
     ELSE Leave(c, "refused")
  /\ UNCHANGED <<task, sees, entry, agreed, missed, ran, outsiders>>

Rename(c) ==
  /\ at[c] = "checked"
  /\ entry' = [entry EXCEPT ![Store(c)] = File(c)] /\ Leave(c, "done")
  /\ UNCHANGED <<task, sees, agreed, missed, ran, outsiders>>

Uninstall(c) ==
  /\ at[c] = "locked" /\ task[c].does = "remove"
  /\ IF entry[Store(c)].is \in {"absent", "odd"} THEN Leave(c, "refused") /\ UNCHANGED entry
     ELSE Leave(c, "done") /\ entry' = [entry EXCEPT ![Store(c)] = NoFile]
  /\ UNCHANGED <<task, sees, agreed, missed, ran, outsiders>>

-----------------------------------------------------------------------------
(* Run: which store the plugin is taken from                                 *)

\* Without a name, the stores are listed, which leaves odd files out: the sole
\* plugin of the workspace's runs at once, those of the global one are offered.
Listed(s) == entry[s].is = "whole"

\* Where a command is that has found a plugin there and is about to execute it
Running(s) == IF s = "workspace" THEN "run workspace" ELSE "run global"

RunUnnamed(c) ==
  /\ at[c] = "begin" /\ task[c].does = "run" /\ ~task[c].named
  /\ IF Listed("workspace") THEN Go(c, "workspace") /\ UNCHANGED missed
     ELSE Go(c, "global list") /\ missed' = missed \cup {c}
  /\ UNCHANGED <<task, sees, files, agreed, ran, outsiders>>

ListGlobal(c) ==
  /\ at[c] = "global list"
  /\ Go(c, IF Listed("global") THEN "select" ELSE "refused")
  /\ UNCHANGED <<task, sees, files, agreed, missed, ran, outsiders>>

\* The selector: a choice, or none
Select(c) ==
  /\ at[c] = "select" /\ \E l \in {"global", "refused"} : Go(c, l)
  /\ UNCHANGED <<task, sees, files, agreed, missed, ran, outsiders>>

RunNamed(c) ==
  /\ at[c] = "begin" /\ task[c].does = "run" /\ task[c].named
  /\ Go(c, IF Store(c) = "global" THEN "global" ELSE "workspace")
  /\ UNCHANGED <<task, sees, files, agreed, missed, ran, outsiders>>

\* Store.Run: inspected, and then executed.  What is missing in the workspace's
\* store is looked for in the global one, unless no name was given.
Look(c) ==
  /\ at[c] \in Stores
  /\ LET absent == entry[at[c]] = NoFile
         next == at[c] = "workspace" /\ task[c].named
     IN \/ Listed(at[c]) /\ Go(c, Running(at[c])) /\ UNCHANGED missed
        \/ absent /\ next /\ Go(c, "global") /\ missed' = missed \cup {c}
        \/ ~Listed(at[c]) /\ ~(absent /\ next) /\ Go(c, "refused") /\ UNCHANGED missed
  /\ UNCHANGED <<task, sees, files, agreed, ran, outsiders>>

\* What was inspected may have gone or be another file by then; a link would be
\* followed, a directory not executed.
Execute(c) ==
  /\ \E s \in Stores :
       /\ at[c] = Running(s)
       /\ \/ ~Listed(s) /\ Go(c, "refused") /\ UNCHANGED ran
          \/ /\ entry[s] # NoFile /\ Go(c, "done")
             /\ ran' = [ran EXCEPT ![c] = [file |-> entry[s], store |-> s]]
  /\ UNCHANGED <<task, sees, files, agreed, missed, outsiders>>

-----------------------------------------------------------------------------
(* Faults                                                                    *)

\* The lock goes with the process; its temporary file stays.
Die(c) ==
  /\ at[c] \notin Ends /\ Go(c, "dead")
  /\ holder' = [s \in Stores |-> IF holder[s] = c THEN None ELSE holder[s]]
  /\ UNCHANGED <<task, sees, entry, temps, agreed, missed, ran, outsiders>>

\* Somebody puts a file there, or takes one away, without the lock.
Outsider ==
  /\ outsiders < MaxOutsiders /\ outsiders' = outsiders + 1
  /\ \E s \in Stores, f \in {NoFile, File("outsider"), [by |-> "outsider", is |-> "odd"]} :
       entry[s] # f /\ entry' = [entry EXCEPT ![s] = f]
  /\ UNCHANGED <<task, at, sees, temps, holder, agreed, missed, ran>>

CommandMoves(c) ==
  \/ Lock(c) \/ FindsEntry(c) \/ Prepare(c) \/ Fails(c) \/ Link(c) \/ Recheck(c)
  \/ Rename(c) \/ Uninstall(c) \/ RunUnnamed(c) \/ ListGlobal(c) \/ RunNamed(c)
  \/ Look(c) \/ Execute(c)

UserMoves(c) == Agree(c) \/ Decline(c) \/ Select(c)

PluginNext ==
  \/ \E c \in Commands : CommandMoves(c) \/ UserMoves(c) \/ Die(c)
  \/ Outsider

\* The user need not answer.
PluginSpec ==
  /\ PluginInit /\ [][PluginNext]_pluginVars
  /\ \A c \in Commands : WF_pluginVars(CommandMoves(c))

-----------------------------------------------------------------------------
(* Properties                                                                *)

\* What conven or its user put into a store is only ever lost to a removal, to a
\* replacement its user agreed to by a command that found exactly this file under
\* the lock, or to somebody who does not use conven.
EntriesKept ==
  [][\A s \in Stores : entry[s] # NoFile /\ entry'[s] # entry[s] =>
       \/ outsiders' # outsiders \/ entry[s].by = "outsider"
       \/ /\ holder[s] # None
          /\ \/ task[holder[s]].does = "remove"
             \/ holder[s] \in agreed /\ sees[holder[s]] = entry[s]]_pluginVars

\* Without --global, the global plugin is run only by a command that found nothing of
\* that name in the workspace, or, without a name, nothing that can be run: never in
\* the place of a named one that was there and could not be run.
RunsTheRightOne ==
  \A c \in Commands : ran[c].store = "global" /\ Store(c) = "either" => c \in missed

\* Only a killed command leaves its temporary file.
NoTemporaryLeft ==
  \A s \in Stores, c \in Commands : c \in temps[s] => holder[s] = c \/ at[c] = "dead"

PluginsKept == EntriesKept /\ [](RunsTheRightOne /\ NoTemporaryLeft)

\* No command waits forever but for its own user, who may leave a prompt open as
\* long as he likes.
PluginCommandsEnd == \A c \in Commands : <>(at[c] \in Ends \cup {"ask", "select"})
=============================================================================
