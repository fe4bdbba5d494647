------------------------- MODULE ServiceVerification -------------------------
(***************************************************************************)
(* How a started service comes to be called verified: the ports before the *)
(* start and the listeners after it (listener_observer.go), its health     *)
(* checks (health.go) and the observation that it keeps out of the remote  *)
(* registry (registry_observer.go), in the order of start in               *)
(* orchestrator.go; a restart goes the same way.  Meanwhile the service    *)
(* binds its port, registers itself or exits, another process may take the *)
(* port, and the registry answers late, not at all, or with an error.      *)
(*                                                                         *)
(* Time is counted in ticks of one interval between two looks at the       *)
(* registry.  An address is "loopback" or "wildcard".                      *)
(***************************************************************************)
EXTENDS Integers, Sequences, FiniteSets

CONSTANTS
  Checks,    \* the health checks of the service, each "process" or "tcp"
  Observed,  \* the manifest is of version 3 or later, and verification wanted
  Registered,\* the service has a registry to be kept out of
  Mode,      \* the address its listener must have
  Instances, \* the ids under which something may be in the registry
  Patience,  \* ticks a health check may take
  Duration,  \* ticks the registry is observed for
  Grace      \* ticks an observation may take longer, 30 seconds in the code

ASSUME VerificationAssumption ==
  /\ Checks # <<>>
  /\ {Patience, Duration, Grace} \subseteq Nat \ {0}

VARIABLES
  step,      \* what the command is doing
  check,     \* the health check it is at, and what came of it
  elapsed,   \* ticks since the wait it is in began
  process,   \* the service: "none", "alive" or "exited"
  port,      \* who has the declared port: "nobody", "service" or "stranger"
  address,   \* and at which address the service has it
  entries,   \* the registry: id -> where it points, "nowhere" if it is not there
  baseline,  \* what it was before the start
  request,   \* the look at the registry that is under way
  quiet,     \* ticks since the observation last began anew, -1 before it did
  level,     \* the verification that is saved with the process
  calm,      \* ticks since a look failed
  lasting,   \* new instances that were there at every moment of the last look
  bound      \* the service has had its port at the right address

verifyVars == <<step, check, elapsed, process, port, address, entries, baseline,
                request, quiet, level, calm, lasting, bound>>

Nowhere == [i \in Instances |-> "nowhere"]
NoRequest == [pc |-> "none", attempt |-> 0, shows |-> Nowhere]
Decided == step \in {"ready", "failed"}

\* Mutant: the observation of the registry has no deadline of its own.
NeverLate == FALSE

\* The time an observation may take has passed.
Late == step = "registry" /\ elapsed = Duration + Grace
Added(shown) == {i \in Instances : shown[i] # "nowhere" /\ baseline[i] = "nowhere"}

\* The driver of the registry reads the instances of the service.
Shown == entries

\* rejectLocalRegistryEntries.
PointsHere(shown) == \E i \in Instances : shown[i] = "here"

\* checkHealth: a listener is whoever has the port.
CheckPasses == Checks[check.at] = "process" \/ port # "nobody"

\* The listeners of the process group, and the address they must have.
GroupListens == port = "service"
AtMode == address = Mode

VerifyInit ==
  /\ step = "ports" /\ check = [at |-> 1, passed |-> "unknown"] /\ elapsed = 0
  /\ process = "none" /\ port \in {"nobody", "stranger"} /\ address = "loopback"
  /\ entries \in [Instances -> {"nowhere", "remote", "here"}]
  /\ baseline = Nowhere /\ request = NoRequest /\ quiet = -1
  /\ level = "none" /\ calm = Duration /\ lasting = {} /\ bound = FALSE

\* preflightServicePorts binds the port, and lets it go again.
Ports ==
  /\ step = "ports"
  /\ step' = IF port # "nobody" THEN "failed"
             ELSE IF Observed /\ Registered THEN "baseline" ELSE "start"
  /\ UNCHANGED <<check, elapsed, process, port, address, entries, baseline, request,
                 quiet, level, calm, lasting, bound>>

\* One look at the registry: what it holds when it is asked ...
Look ==
  /\ step \in {"baseline", "registry"} /\ ~Late
  /\ request.pc = "none"
  /\ request' = [pc |-> "asked", attempt |-> request.attempt + 1, shows |-> Shown]
  /\ lasting' = Added(Shown)
  /\ UNCHANGED <<step, check, elapsed, process, port, address, entries, baseline, quiet,
                 level, calm, bound>>

\* ... or an error; four attempts are made when it is one that may pass.
LookFails ==
  /\ request.pc = "asked"
  /\ \/ /\ request.attempt < 4
        /\ request' = [request EXCEPT !.pc = "none"]
        /\ UNCHANGED step
     \/ /\ request' = NoRequest
        /\ step' = "failed"
  /\ calm' = 0
  /\ UNCHANGED <<check, elapsed, process, port, address, entries, baseline, quiet, level,
                 lasting, bound>>

\* An entry that already points here ends the start.
Baseline ==
  /\ step = "baseline"
  /\ request.pc = "asked"
  /\ baseline' = request.shows
  /\ step' = IF PointsHere(request.shows) THEN "failed" ELSE "start"
  /\ request' = NoRequest
  /\ UNCHANGED <<check, elapsed, process, port, address, entries, quiet, level, calm,
                 lasting, bound>>

StartProcess ==
  /\ step = "start"
  /\ process' = "alive" /\ level' = "started"
  /\ step' = "health" /\ elapsed' = 0
  /\ UNCHANGED <<check, port, address, entries, baseline, request, quiet, calm, lasting,
                 bound>>

\* One try of the health check, of a service that is still there.
Check ==
  /\ step = "health"
  /\ check.passed = "unknown"
  /\ IF process = "exited" THEN step' = "failed" /\ UNCHANGED check
     ELSE /\ check' = [check EXCEPT !.passed = IF CheckPasses THEN "yes" ELSE "no"]
          /\ UNCHANGED step
  /\ UNCHANGED <<elapsed, process, port, address, entries, baseline, request, quiet,
                 level, calm, lasting, bound>>

\* WaitHealthy: the process must still be there, and every check has its own
\* time.
Judge ==
  /\ step = "health"
  /\ check.passed # "unknown"
  /\ LET failed == process = "exited" \/ (check.passed = "no" /\ elapsed = Patience)
         last   == check.passed = "yes" /\ check.at = Len(Checks)
     IN  /\ step' = IF failed THEN "failed" ELSE IF ~last THEN "health"
                    ELSE IF Observed THEN "listeners" ELSE "finalize"
         /\ level' = IF failed \/ ~last THEN level ELSE IF Observed THEN "healthy" ELSE "verified"
         /\ check' = [at |-> IF check.passed = "yes" /\ ~last THEN check.at + 1 ELSE check.at,
                      passed |-> "unknown"]
         /\ elapsed' = IF check.passed = "yes" THEN 0 ELSE elapsed
  /\ UNCHANGED <<process, port, address, entries, baseline, request, quiet, calm, lasting,
                 bound>>

\* verifyServiceListeners: the process group itself has the port, and at the
\* address the manifest wants.
Listeners ==
  /\ step = "listeners"
  /\ IF GroupListens /\ AtMode
       THEN IF Registered THEN step' = "registry" /\ level' = "listener-verified"
                          ELSE step' = "finalize" /\ level' = "verified"
       ELSE step' = "failed" /\ UNCHANGED level
  /\ elapsed' = 0
  /\ UNCHANGED <<check, process, port, address, entries, baseline, request, quiet, calm,
                 lasting, bound>>

\* Mutant: an observation goes on as if no look had failed.
ObserveOn ==
  /\ step = "registry" /\ ~Late
  /\ request.pc = "asked"
  /\ request' = NoRequest
  /\ LET since == IF quiet = -1 THEN 0 ELSE quiet
     IN  IF Added(request.shows) # {}
           THEN step' = "failed" /\ UNCHANGED <<quiet, level>>
         ELSE IF since >= Duration
           THEN step' = "finalize" /\ level' = "verified" /\ UNCHANGED quiet
         ELSE quiet' = since /\ UNCHANGED <<step, level>>
  /\ UNCHANGED <<check, elapsed, process, port, address, entries, baseline, calm, lasting,
                 bound>>

\* verifyServiceRegistry: an instance the baseline does not have ends the start;
\* the time begins anew with a look that took more than one attempt.
ObserveRegistry ==
  /\ step = "registry" /\ ~Late
  /\ request.pc = "asked"
  /\ request' = NoRequest
  /\ LET since == IF quiet = -1 \/ request.attempt > 1 THEN 0 ELSE quiet
     IN  IF Added(request.shows) # {}
           THEN step' = "failed" /\ UNCHANGED <<quiet, level>>
         ELSE IF since >= Duration
           THEN step' = "finalize" /\ level' = "verified" /\ UNCHANGED quiet
         ELSE quiet' = since /\ UNCHANGED <<step, level>>
  /\ UNCHANGED <<check, elapsed, process, port, address, entries, baseline, calm, lasting,
                 bound>>

\* The observation has a deadline of its own, whatever recovers.
Deadline ==
  /\ Late
  /\ step' = "failed" /\ request' = NoRequest
  /\ UNCHANGED <<check, elapsed, process, port, address, entries, baseline, quiet, level,
                 calm, lasting, bound>>

Finalize ==
  /\ step = "finalize"
  /\ step' = IF process = "alive" THEN "ready" ELSE "failed"
  /\ UNCHANGED <<check, elapsed, process, port, address, entries, baseline, request,
                 quiet, level, calm, lasting, bound>>

\* An interrupt is seen wherever the command waits.
InterruptStart ==
  /\ ~Decided
  /\ step' = "failed"
  /\ UNCHANGED <<check, elapsed, process, port, address, entries, baseline, request,
                 quiet, level, calm, lasting, bound>>

-----------------------------------------------------------------------------
\* What goes on around it, as long as it goes on.
Limit == IF step = "registry" THEN Duration + Grace ELSE Patience

Tick ==
  /\ step \in {"health", "registry"}
  /\ elapsed < Limit
  /\ elapsed' = elapsed + 1
  /\ quiet' = IF quiet \in 0 .. (Duration - 1) THEN quiet + 1 ELSE quiet
  /\ calm' = IF calm < Duration THEN calm + 1 ELSE calm
  /\ UNCHANGED <<step, check, process, port, address, entries, baseline, request, level,
                 lasting, bound>>

Bind ==
  /\ ~Decided /\ process = "alive" /\ port = "nobody"
  /\ port' = "service" /\ address' \in {"loopback", "wildcard"}
  /\ bound' = (bound \/ address' = Mode)
  /\ UNCHANGED <<step, check, elapsed, process, entries, baseline, request, quiet, level,
                 calm, lasting>>

StrangerBinds ==
  /\ ~Decided /\ port = "nobody"
  /\ port' = "stranger"
  /\ UNCHANGED <<step, check, elapsed, process, address, entries, baseline, request,
                 quiet, level, calm, lasting, bound>>

Exits ==
  /\ ~Decided /\ process = "alive"
  /\ process' = "exited"
  /\ port' = IF port = "service" THEN "nobody" ELSE port
  /\ UNCHANGED <<step, check, elapsed, address, entries, baseline, request, quiet, level,
                 calm, lasting, bound>>

\* The service registers itself, under any id; other instances come and go.
Enrols(i) ==
  /\ ~Decided
  /\ \/ process = "alive" /\ entries' = [entries EXCEPT ![i] = "here"]
     \/ entries[i] = "nowhere" /\ entries' = [entries EXCEPT ![i] = "remote"]
  /\ UNCHANGED <<step, check, elapsed, process, port, address, baseline, request, quiet,
                 level, calm, lasting, bound>>

Expires(i) ==
  /\ ~Decided /\ entries[i] # "nowhere"
  /\ entries' = [entries EXCEPT ![i] = "nowhere"]
  /\ lasting' = lasting \ {i}
  /\ UNCHANGED <<step, check, elapsed, process, port, address, baseline, request, quiet,
                 level, calm, bound>>

CommandStep == \/ Ports \/ Look \/ Baseline \/ StartProcess \/ Check \/ Judge
               \/ Listeners \/ ObserveRegistry \/ Deadline \/ Finalize

VerifyNext ==
  \/ CommandStep \/ LookFails \/ InterruptStart \/ Tick
  \/ Bind \/ StrangerBinds \/ Exits \/ \E i \in Instances : Enrols(i) \/ Expires(i)

\* A look is answered or fails within the timeout of the client, and the
\* command goes on; time passes.
VerifySpec == /\ VerifyInit /\ [][VerifyNext]_verifyVars
              /\ WF_verifyVars(CommandStep) /\ WF_verifyVars(Tick)
-----------------------------------------------------------------------------
\* A service whose runtime is observed is called verified only when it has had
\* its port itself, at the right address, even if a stranger took the port after
\* it was found free and answers the health checks; only after a time as long as
\* the manifest wants in which no look at the registry failed; and never while
\* an instance the baseline does not have was there all through the last look.
VerificationIsEarned ==
  [][level' = "verified" /\ level # "verified" /\ Observed =>
       bound /\ (Registered => calm >= Duration /\ lasting = {})]_verifyVars

\* Once the ports are found free the command comes to an end, however often the
\* registry recovers and whatever the service does.
VerificationEnds == step # "ports" ~> Decided
=============================================================================
