------------------------------ MODULE WebHealth ------------------------------
(***************************************************************************)
(* What the Web dashboard says of the health of services: RefreshWebHealth *)
(* and what it caches, in internal/runtime/web_data.go, and the events     *)
(* web.go makes of it.  A ticker of the viewer refreshes it, unless an     *)
(* action is running when it looks, and so does the action "refresh": the  *)
(* two may overlap.  Neither holds a lock while it probes, and meanwhile   *)
(* services are restarted, which gives the session another token.          *)
(***************************************************************************)
EXTENDS Naturals, Sequences, FiniteSets

CONSTANTS
  Services,     \* the services of every session
  Unchecked,    \* those that declare no HTTP or TCP check
  Threshold,    \* webHealthFailureThreshold
  MaxTokens,  \* bound: tokens of the session
  MaxProbes,    \* bound: probes of a session
  MaxEvents     \* the events that are kept, 200 in the code

ASSUME HealthAssumption == Threshold \in Nat \ {0} /\ MaxTokens \in Nat

VARIABLES
  token,     \* the token of the session; 0 is no session
  running,   \* service -> its process is verified as running
  answering, \* service -> it would pass its checks now
  cache,     \* service -> what was last found out about it
  refresher, \* what the ticker and the action are doing
  seen,      \* service -> what observe has last seen of it
  events,    \* the events, the newest first
  probes,    \* service -> the outcomes of the probes of this session, in order
  overlapped  \* two refreshes of this session have overlapped, or one was given up

healthVars == <<token, running, answering, cache, refresher, seen, events, probes, overlapped>>

Refreshers == {"ticker", "action"}
Unknown == [token |-> 0, status |-> "unknown", failures |-> 0, backoff |-> FALSE,
            old |-> FALSE]
Resting == [pc |-> "idle", token |-> 0, result |-> [s \in Services |-> "none"]]

HealthInit ==
  /\ token = 1
  /\ running = [s \in Services |-> TRUE]
  /\ answering = [s \in Services |-> TRUE]
  /\ cache = [s \in Services |-> Unknown]
  /\ refresher = [r \in Refreshers |-> Resting]
  /\ seen = [s \in Services |-> "none"]
  /\ events = <<>>
  /\ probes = [s \in Services |-> <<>>]
  /\ overlapped = FALSE

\* RefreshWebHealth without a session forgets everything.  The ticker looks
\* whether an action runs and begins after it has let go of the lock.
Begin(r) ==
  /\ refresher[r].pc = "idle"
  /\ IF token = 0
       THEN cache' = [s \in Services |-> Unknown] /\ UNCHANGED <<refresher, overlapped>>
       ELSE /\ refresher' = [refresher EXCEPT ![r] = [Resting EXCEPT !.pc = "probing",
                                                                      !.token = token]]
            /\ overlapped' = (overlapped \/ \E q \in Refreshers : refresher[q].pc # "idle")
            /\ UNCHANGED cache
  /\ UNCHANGED <<token, running, answering, seen, events, probes>>

\* A worker takes one service: the ticker leaves out one whose next probe is
\* not due; a process that is not running, or without a check, is unknown; the
\* checks are tried one after the other until one fails.
Probe(r, s) ==
  /\ refresher[r].pc = "probing"
  /\ refresher[r].result[s] = "none"
  /\ \E outcome \in {IF r = "ticker" /\ cache[s].token = refresher[r].token
                        /\ cache[s].backoff THEN "skipped"
                     ELSE IF ~running[s] \/ s \in Unchecked THEN "unknown"
                     ELSE IF answering[s] THEN "passed" ELSE "failed"} :
       /\ refresher' = [refresher EXCEPT ![r].result[s] = outcome]
       /\ IF outcome \in {"passed", "failed"} /\ token = refresher[r].token
            THEN /\ Len(probes[s]) < MaxProbes
                 /\ probes' = [probes EXCEPT ![s] = Append(@, outcome)]
            ELSE UNCHANGED probes
  /\ UNCHANGED <<token, running, answering, cache, seen, events, overlapped>>

\* When all are back the session is loaded again: one that is gone, or is
\* another, makes the refresh fail, as does a context that is done.
Verify(r) ==
  /\ refresher[r].pc = "probing"
  /\ \A s \in Services : refresher[r].result[s] # "none"
  /\ \/ /\ token = refresher[r].token
        /\ refresher' = [refresher EXCEPT ![r].pc = "storing"]
        /\ UNCHANGED overlapped
     \/ /\ refresher' = [refresher EXCEPT ![r] = Resting]
        /\ overlapped' = (overlapped \/ token = refresher[r].token)
  /\ UNCHANGED <<token, running, answering, cache, seen, events, probes>>

\* Mutant: failures of another process are counted on.
EvidenceOfAnyone(before, of, outcome) ==
  LET failures == before.failures + 1
      failed   == [token |-> of, failures |-> failures, backoff |-> TRUE, old |-> FALSE,
                   status |-> IF failures >= Threshold THEN "unhealthy"
                              ELSE IF before.status \in {"healthy", "stale"}
                                THEN "stale" ELSE "unknown"]
      settled  == [Unknown EXCEPT !.token = of,
                                  !.status = IF outcome = "passed" THEN "healthy" ELSE @]
  IN  IF outcome = "skipped" THEN before
      ELSE IF outcome = "failed" THEN failed ELSE settled

\* The entry an outcome makes of the one before; a single failure is no
\* evidence, and each one puts off the next probe.
Evidence(before, of, outcome) ==
  LET mine     == before.token = of
      failures == IF mine THEN before.failures + 1 ELSE 1
      failed   == [token |-> of, failures |-> failures, backoff |-> TRUE, old |-> FALSE,
                   status |-> IF failures >= Threshold THEN "unhealthy"
                              ELSE IF mine /\ before.status \in {"healthy", "stale"}
                                THEN "stale" ELSE "unknown"]
      settled  == [Unknown EXCEPT !.token = of,
                                  !.status = IF outcome = "passed" THEN "healthy" ELSE @]
  IN  IF outcome = "skipped" /\ mine THEN before
      ELSE IF outcome = "failed" THEN failed ELSE settled

\* The cache is written under its lock, not under that of the session.
Store(r) ==
  /\ refresher[r].pc = "storing"
  /\ cache' = [s \in Services |->
                 Evidence(cache[s], refresher[r].token, refresher[r].result[s])]
  /\ refresher' = [refresher EXCEPT ![r] = Resting]
  /\ UNCHANGED <<token, running, answering, seen, events, probes, overlapped>>

\* webCachedHealth: evidence counts for the very process it was found about, as
\* long as that runs; what was healthy half a minute ago is stale.
Shown(s) ==
  IF token = 0 \/ ~running[s] \/ cache[s].token # token THEN "unknown"
  ELSE IF cache[s].status = "healthy" /\ cache[s].old THEN "stale"
  ELSE cache[s].status

\* observe: a snapshot adds an event for each service whose state or health is
\* not what it last was.  Evidence without a time makes none.
Observe(s) ==
  /\ token # 0
  /\ LET state == IF ~running[s] THEN "stopped" ELSE Shown(s)
     IN  /\ state # seen[s]
         /\ seen' = [seen EXCEPT ![s] = state]
         /\ events' = SubSeq(<<[service |-> s, state |-> state]>> \o events, 1,
                             IF Len(events) < MaxEvents THEN Len(events) + 1 ELSE MaxEvents)
  /\ UNCHANGED <<token, running, answering, cache, refresher, probes, overlapped>>

\* Thirty seconds, and the delay of a backoff, go by.
TimePasses(s) ==
  /\ cache[s].backoff \/ ~cache[s].old
  /\ cache' = [cache EXCEPT ![s].backoff = FALSE, ![s].old = TRUE]
  /\ UNCHANGED <<token, running, answering, refresher, seen, events, probes, overlapped>>

Turn(s) ==
  /\ \/ answering' = [answering EXCEPT ![s] = ~@] /\ UNCHANGED running
     \/ running[s] /\ running' = [running EXCEPT ![s] = FALSE] /\ UNCHANGED answering
  /\ UNCHANGED <<token, cache, refresher, seen, events, probes, overlapped>>

\* A command replaces processes of the session, or ends it.
Renew ==
  /\ token \in 1 .. (MaxTokens - 1)
  /\ token' = token + 1
  /\ running' = [s \in Services |-> TRUE]
  /\ probes' = [s \in Services |-> <<>>]
  /\ overlapped' = FALSE
  /\ UNCHANGED <<answering, cache, refresher, seen, events>>

SessionEnds ==
  /\ token = MaxTokens
  /\ token' = 0
  /\ running' = [s \in Services |-> FALSE]
  /\ probes' = [s \in Services |-> <<>>]
  /\ overlapped' = FALSE
  /\ UNCHANGED <<answering, cache, refresher, seen, events>>

HealthNext ==
  \/ \E r \in Refreshers : \/ Begin(r) \/ Verify(r) \/ Store(r)
                           \/ \E s \in Services : Probe(r, s)
  \/ \E s \in Services : Observe(s) \/ TimePasses(s) \/ Turn(s)
  \/ Renew \/ SessionEnds

HealthSpec == HealthInit /\ [][HealthNext]_healthVars
-----------------------------------------------------------------------------
Failures(s) == {i \in DOMAIN probes[s] : probes[s][i] = "failed"}

\* Whatever is restarted while it is probed, the dashboard calls a service
\* healthy only when a probe of this process has passed, and unhealthy only
\* when as many as the threshold have failed; and unless two refreshes have
\* overlapped or one was given up, those were the last that are stored, one
\* after the other.
HealthIsEvidence ==
  \A s \in Services :
    LET n == Len(probes[s])
    IN  /\ Shown(s) \in {"healthy", "stale"} => Failures(s) # 1 .. n
        /\ Shown(s) = "unhealthy" =>
             /\ Cardinality(Failures(s)) >= Threshold
             /\ ~overlapped => \E m \in {n, n - 1} :
                               /\ m >= Threshold
                               /\ (m - Threshold + 1) .. m \subseteq Failures(s)
=============================================================================
