------------------------------ MODULE HotReload ------------------------------
(* The hot-reload watchers of a workspace (internal/runtime/hot_reload.go), *)
(* composed with the commands of WorkspaceSession. A watcher is a process   *)
(* of its own. It polls the session file and the sources without the        *)
(* workspace's lock, and restarts a service under that lock as the commands *)
(* do.                                                                      *)
EXTENDS WorkspaceSession

VARIABLES
    stage,     \* "off", waiting to be registered, before its first scan,
               \* watching, or attempting restarts
    observed,  \* the contents a watcher has dealt with
    pending,   \* changed contents it has not, by service
    since,     \* pendingSince is set: a change is waiting for the debounce
    queue      \* services it is about to restart, one after the other

watchers == <<stage, observed, pending, since, queue>>
allVars == <<vars, watchers>>

session == <<disk, world, token, pc, command, mem, locals, todo, failed, rest>>

-----------------------------------------------------------------------------
WatchInit ==
    /\ Init
    /\ stage = [h \in Watcher |-> "off"]
    /\ observed = [h \in Watcher |-> NoVersions]
    /\ pending = [h \in Watcher |-> NoVersions]
    /\ since = [h \in Watcher |-> FALSE]
    /\ queue = [h \in Watcher |-> {}]

(* Mutant: only what was built counts as seen.                           *)
AttemptedBuilt(h, s) ==
    /\ observed' = [observed EXCEPT ![h][s] = disk'.fp[s]]
    /\ pending' = [pending EXCEPT ![h][s] = None]
    /\ queue' = [queue EXCEPT ![h] = @ \ {s}]
    /\ stage' = [stage EXCEPT ![h] = IF queue[h] = {s} THEN "watch" ELSE "attempt"]
    /\ since' = [since EXCEPT ![h] = @ /\ queue[h] # {s}]

(* The loop body after attemptHotReload of s: what was pending counts as    *)
(* seen, whether it could be built or not.                                  *)
Attempted(h, s) ==
    /\ observed' = [observed EXCEPT ![h][s] = pending[h][s]]
    /\ pending' = [pending EXCEPT ![h][s] = None]
    /\ queue' = [queue EXCEPT ![h] = @ \ {s}]
    /\ stage' = [stage EXCEPT ![h] = IF queue[h] = {s} THEN "watch" ELSE "attempt"]
    /\ since' = [since EXCEPT ![h] = @ /\ queue[h] # {s}]

(* What a step of the session means for the watchers: one is started, one   *)
(* ends, or the restart that one of them runs returns.                      *)
Clean(f, default) == [h \in Watcher |-> IF os[h] = "up" /\ os'[h] = "up" THEN f[h] ELSE default]

Follow ==
    IF actor \in Watcher /\ pc' = "idle" /\ os'[actor] = "up"
    THEN \E s \in targets : Attempted(actor, s)
    ELSE /\ stage' = [h \in Watcher |-> IF os'[h] # "up" THEN "off"
                                        ELSE IF os[h] # "up" THEN "register" ELSE stage[h]]
         /\ observed' = Clean(observed, NoVersions)
         /\ pending' = Clean(pending, NoVersions)
         /\ since' = Clean(since, FALSE)
         /\ queue' = Clean(queue, {})

(* The session has ended for h, which returns.                              *)
Exit(h) ==
    /\ os' = [os EXCEPT ![h] = "off"]
    /\ UNCHANGED session
    /\ Follow

-----------------------------------------------------------------------------
(* waitForHotReloadRegistration. A watcher that is not registered within    *)
(* three seconds gives up; the command that started it registers it in its  *)
(* very next step, well before.                                             *)
Register(h) ==
    /\ stage[h] = "register"
    /\ disk.hot = h
    /\ stage' = [stage EXCEPT ![h] = "first"]
    /\ UNCHANGED <<vars, observed, pending, since, queue>>

GiveUp(h) ==
    /\ stage[h] = "register"
    /\ disk.hot # h
    /\ Listed(disk) = {} \/ ~(pc = "saveHot" /\ mem.hot = h)
    /\ Exit(h)

(* Mutant: another registered watcher is not noticed.                    *)
SessionEndedEmpty(h) == Listed(disk) = {} \/ disk.hot = None

SessionEnded(h) == Listed(disk) = {} \/ disk.hot # h

WatchEnds(h) ==
    /\ stage[h] \in {"first", "watch"}
    /\ SessionEnded(h)
    /\ Exit(h)

(* One tick. The first takes the fingerprints of the session as observed.   *)
(* A change is pending until the source has been the same for the debounce  *)
(* period, and then attempted; a source that is back at what was observed   *)
(* is not pending any more.                                                 *)
Tick(h) ==
    /\ stage[h] \in {"first", "watch"}
    /\ ~SessionEnded(h)
    /\ LET known == IF stage[h] = "first" THEN disk.fp ELSE observed[h]
           changed == {s \in Listed(disk) : source[s] # known[s]}
           found == [s \in Service |-> IF s \in changed THEN source[s] ELSE None]
       IN
        /\ observed' = [observed EXCEPT
                ![h] = [s \in Service |-> IF s \in Listed(disk) THEN known[s] ELSE None]]
        /\ pending' = [pending EXCEPT ![h] = found]
        /\ \/ /\ changed = {}
              /\ since' = [since EXCEPT ![h] = FALSE]
              /\ stage' = [stage EXCEPT ![h] = "watch"]
              /\ UNCHANGED queue
           \/ /\ changed # {}
              /\ ~since[h] \/ \E s \in changed : pending[h][s] # source[s]
              /\ since' = [since EXCEPT ![h] = TRUE]
              /\ stage' = [stage EXCEPT ![h] = "watch"]
              /\ UNCHANGED queue
           \/ /\ changed # {}
              /\ since[h] /\ \A s \in changed : pending[h][s] = source[s]
              /\ stage' = [stage EXCEPT ![h] = "attempt"]
              /\ queue' = [queue EXCEPT ![h] = changed]
              /\ UNCHANGED since
    /\ UNCHANGED vars

(* attemptHotReload: a Restart of one service.                              *)
Attempt(h) ==
    /\ stage[h] = "attempt"
    /\ \E s \in queue[h] : Restart(h, {s}, {})
    /\ UNCHANGED watchers

(* Mutant: what could not get the lock counts as seen.                   *)
LockedSeen(h) ==
    /\ stage[h] = "attempt"
    /\ pc # "idle" /\ actor # h
    /\ stage' = [stage EXCEPT ![h] = "watch"]
    /\ since' = [since EXCEPT ![h] = TRUE]
    /\ queue' = [queue EXCEPT ![h] = {}]
    /\ observed' = [observed EXCEPT ![h] =
                    [s \in Service |-> IF s \in queue[h] THEN pending[h][s] ELSE @[s]]]
    /\ UNCHANGED <<vars, pending>>

(* Another command has the lock: the rest stays pending.                    *)
Locked(h) ==
    /\ stage[h] = "attempt"
    /\ pc # "idle" /\ actor # h
    /\ stage' = [stage EXCEPT ![h] = "watch"]
    /\ since' = [since EXCEPT ![h] = TRUE]
    /\ queue' = [queue EXCEPT ![h] = {}]
    /\ UNCHANGED <<vars, observed, pending>>

(* Restart returns before it does anything: the session is gone, or the     *)
(* service is not in it, or the plan cannot be built.                       *)
Rejected(h) ==
    /\ stage[h] = "attempt"
    /\ pc = "idle"
    /\ UNCHANGED vars
    /\ \E s \in queue[h] :
        /\ s \notin Planned(disk) \/ Listed(disk) = {} \/ May("commandFails")
        /\ Attempted(h, s)

-----------------------------------------------------------------------------
Watch(h) ==
    \/ Register(h) \/ GiveUp(h) \/ WatchEnds(h) \/ Tick(h) \/ Locked(h) \/ Rejected(h)

Ends ==
    \/ \E p \in Proc \cup Watcher : ProcessEnds(p)
    \/ Crash

WatchNext ==
    \/ Step /\ Follow
    \/ UserCommand /\ Follow
    \/ Ends /\ Follow
    \/ \E s \in Service : Edit(s) /\ Follow
    \/ \E h \in Watcher : Watch(h) \/ Attempt(h)

WatchSpec == WatchInit /\ [][WatchNext]_allVars

(* A command runs to its end and a watcher keeps polling. A watcher that    *)
(* polls for ever does so again and again at a moment when no command has   *)
(* the lock, and gets it: commands are typed by people, and every poll is   *)
(* half a second after the last.                                            *)
FairWatchSpec ==
    /\ WatchSpec
    /\ WF_allVars(Step /\ Follow)
    /\ \A h \in Watcher :
        /\ WF_allVars(Watch(h))
        /\ SF_allVars(Tick(h) /\ pc = "idle")
        /\ SF_allVars(Attempt(h))

-----------------------------------------------------------------------------
(* Properties                                                               *)

(* While a registered watcher lives, a source that stays as it is ends up   *)
(* in the running process, whatever the user's commands did meanwhile, in   *)
(* behaviours where no build and no start fails.                            *)
Watched(s) == s \in Listed(disk) /\ disk.hot # None /\ os[disk.hot] = "up"

ChangesBuilt ==
    ~May("commandFails") =>
        \A s \in Service, v \in Version :
            <>[](source[s] = v /\ Watched(s)) => <>[](built[s] = v)

(* A watcher that the session does not register (any more) ends: none stays  *)
(* up without being registered.                                             *)
WatchersEnd ==
    \A h \in Watcher : []<>(os[h] = "up" => disk.hot = h)

(* Sources change a bounded number of times, so the watchers come to rest:  *)
(* no restart is repeated for ever, not even one that fails.                *)
WatchersRest == <>[](actor \notin Watcher)

(* A watcher neither works for ever nor stays for ever once it is of no use. *)
WatchersSettle == WatchersRest /\ WatchersEnd
=============================================================================
