---------------------------- MODULE RuntimeConfig ----------------------------
(***************************************************************************)
(* The delivery of configuration by a start or a restart: materialization  *)
(* of a directory for each service (internal/materialize), the preflight   *)
(* of the published documents, prepare and build, the preflight again, and *)
(* the services that read what was published                               *)
(* (internal/runtime/startup_preflight.go, external_dependencies.go).      *)
(*                                                                         *)
(* External: Apollo, Consul, the developer's prepare and build commands    *)
(* (which may rewrite the published document) and the file system.  The    *)
(* command holds the workspace lock, so no other command publishes.        *)
(***************************************************************************)
EXTENDS ConfigPlan, Integers, FiniteSets

CONSTANTS
  Order,           \* the services of the plan, a sequence
  Setups,          \* what the configuration may be planned from
  Attempts,        \* of Apollo; 3 when the policy does not say
  ConsulAttempts,  \* externalDependencyAttempts
  MaxRewrites      \* documents the builds rewrite, at most

Services == Range(Order)

ASSUME SetupsAssumption ==
  /\ {"discovType", "listenOn", "localConfigPath"} \subseteq Settings
  /\ {"empty", "consul", "target"} \subseteq Values
  /\ \A s \in Setups :
       /\ Planned(s) /\ s.targets \in Seq(Services)
       /\ s.before \in [Services -> Documents \cup {Nothing}]

VARIABLES
  setup,    \* the setup, with: the documents repository and apollo, whether the
            \* host's snapshot fits, the services targeted, the directories before
  target,   \* of each service: the document of its directory, or Nothing
  draft,    \* the document in the staging directory, or Nothing: no directory
  debris,   \* staging directories that were left behind
  stage,    \* what the command is doing
  current,  \* the index of the service it does it for
  item,     \* the index of the patch or guard
  tries,    \* of Apollo, or of one Consul target
  interrupted,  \* its context
  final,    \* the builds are over: this is the second preflight
  unasked, failing, passed,  \* Consul clients: to be asked; found without an
            \* instance or unreachable; found passing in this preflight
  rewritten,    \* services whose document a build has rewritten
  read      \* of each service: the document it was launched with, or Nothing

progress == <<stage, current, item, tries>>
consul == <<unasked, failing, passed>>
configVars == <<setup, target, draft, debris, progress, interrupted, final, consul,
                rewritten, read>>

Ended == {"running", "failed", "killed"}
Targeted == setup.targets
Service == Targeted[current]

ConfigInit ==
  /\ setup \in Setups
  /\ target = setup.before
  /\ draft = Nothing /\ debris = FALSE
  /\ stage = "stage" /\ current = 1 /\ item = 1 /\ tries = 0
  /\ interrupted = FALSE /\ final = FALSE
  /\ unasked = {} /\ failing = {} /\ passed = {}
  /\ rewritten = {} /\ read = [s \in Services |-> Nothing]

\* Every error return; the staging directory is removed on the way out.
Fail ==
  /\ stage' = "failed" /\ draft' = Nothing
  /\ UNCHANGED <<setup, target, debris, current, item, tries, interrupted, final,
                 consul, rewritten, read>>

GoOn(s) == stage' = s /\ item' = 1 /\ tries' = 0
Holding == UNCHANGED <<setup, target, debris, current, interrupted, final, consul, rewritten, read>>

-----------------------------------------------------------------------------
(* Materialization of one service                                            *)

\* Paths that overlap would have the publication replace what it was copied from.
ValidPlan(s) == s.apart /\ (Fallbacks(s) # {} => s.source # "repository")

\* MkdirTemp; after the last service, the preflight
Begin ==
  /\ stage = "stage"
  /\ \/ current > Len(Targeted) /\ GoOn("inspect") /\ UNCHANGED draft
     \/ current <= Len(Targeted) /\ ValidPlan(setup) /\ ~interrupted
        /\ GoOn("copy") /\ draft' = [form |-> "empty"]
  /\ Holding

\* An entry that changes while it is copied, or is a link, is an error.
Copy ==
  /\ stage = "copy" /\ ~interrupted
  /\ setup.source = "repository" => setup.repository # Nothing
  /\ GoOn("fetch") /\ draft' = setup.repository
  /\ Holding

Fetched(d) == GoOn("merge") /\ draft' = d /\ Holding

FetchLocal ==
  /\ stage = "fetch" /\ ~interrupted
  /\ \/ setup.source = "repository" /\ Fetched(setup.repository)
     \/ setup.source = "host" /\ setup.fits /\ Fetched(setup.apollo)

\* Unreadable, oversized or empty answers, timeouts and retryable statuses count
\* as attempts; other statuses end it.
FetchApollo ==
  /\ stage = "fetch" /\ setup.source = "apollo"
  /\ \/ Fetched(setup.apollo)
     \/ tries + 1 < Attempts /\ stage' = "pause" /\ tries' = tries + 1
        /\ UNCHANGED <<item, draft>> /\ Holding

\* waitRetry
Resume ==
  /\ stage = "pause" /\ ~interrupted
  /\ stage' = "fetch" /\ UNCHANGED <<item, tries, draft>> /\ Holding

\* Fallbacks of bindings, the application written, guards that must be there
Merge ==
  /\ stage = "merge"
  /\ \E b \in {Fallbacks(setup)} :
       /\ b = {} \/ ~MergeRefuses(draft, setup.repository, b)
       /\ draft' = IF b = {} THEN draft ELSE Merged(draft, setup.repository, b)
  /\ \A i \in DOMAIN Guards(setup) : Guards(setup)[i].create \/ GuardedThere(draft', Guards(setup)[i])
  /\ GoOn("patch") /\ Holding

PatchNext ==
  /\ stage = "patch"
  /\ \/ item > Len(Patches(setup)) /\ GoOn("guard") /\ UNCHANGED draft
     \/ /\ item <= Len(Patches(setup)) /\ ~interrupted
        /\ \E p \in {Patches(setup)[item]} :
             /\ p.optional => Inspectable(draft, p)
             /\ \/ p.optional /\ ~Present(draft, p) /\ UNCHANGED draft
                \/ (p.optional => Present(draft, p)) /\ CanPatch(draft, p) /\ draft' = Patched(draft, p)
        /\ item' = item + 1 /\ UNCHANGED <<stage, tries>>
  /\ Holding

GuardNext ==
  /\ stage = "guard"
  /\ \/ item > Len(Guards(setup)) /\ GoOn("verify") /\ UNCHANGED draft
     \/ /\ item <= Len(Guards(setup)) /\ ~interrupted
        /\ CanGuard(draft, Guards(setup)[item])
        /\ draft' = Guarded(draft, Guards(setup)[item])
        /\ item' = item + 1 /\ UNCHANGED <<stage, tries>>
  /\ Holding

\* VerifyPlanGuards, protectTree, validateYAMLTree; the context is not looked at.
VerifyDraft ==
  /\ stage = "verify" /\ Verified(setup, draft) /\ Decodable(draft)
  /\ GoOn("publish") /\ UNCHANGED draft /\ Holding

\* A rename, or an exchange that leaves the previous directory in staging
Publish ==
  /\ stage = "publish"
  /\ target' = [target EXCEPT ![Service] = draft] /\ draft' = target[Service]
  /\ GoOn(IF target[Service] = Nothing THEN "check" ELSE "sweep")
  /\ UNCHANGED <<setup, debris, current, interrupted, final, consul, rewritten, read>>

\* The previous directory is removed.
Sweep ==
  /\ stage = "sweep" /\ GoOn("check") /\ draft' = Nothing /\ Holding

\* When that fails, the new one is published and yet it is an error; the deferred
\* removal is a second try, whose error nobody sees.
SweepFails ==
  /\ stage = "sweep" /\ stage' = "failed" /\ draft' = Nothing
  /\ debris' \in {debris, TRUE}
  /\ UNCHANGED <<setup, target, current, item, tries, interrupted, final, consul, rewritten, read>>

\* verifyServiceIsolation of the published directory
Check ==
  /\ stage = "check" /\ Verified(setup, target[Service])
  /\ GoOn("stage") /\ current' = current + 1
  /\ UNCHANGED <<setup, target, draft, debris, interrupted, final, consul, rewritten, read>>

-----------------------------------------------------------------------------
(* The preflight: every service of the plan, targeted or not                 *)

\* Clients with the same address and key are one target: their binding stands for it.
Clients(d) == {IF d.node[b] = Alias THEN Shared ELSE b : b \in ConsulClients(d)}

Inspect ==
  /\ stage = "inspect" /\ \A s \in Services : Accepted(setup, target[s])
  /\ unasked' = IF setup.source = "host" THEN {} ELSE UNION {Clients(target[s]) : s \in Services}
  /\ failing' = {} /\ passed' = {}
  /\ GoOn("ask")
  /\ UNCHANGED <<setup, target, draft, debris, current, interrupted, final, rewritten, read>>

\* The answer of Consul for one target: passing instances, or none
Answered ==
  /\ stage = "ask" /\ \E b \in unasked :
       /\ unasked' = unasked \ {b}
       /\ \/ passed' = passed \cup {b} /\ UNCHANGED failing
          \/ failing' = failing \cup {b} /\ UNCHANGED passed
  /\ tries' = 0
  /\ UNCHANGED <<setup, target, draft, debris, stage, current, item, interrupted, final, rewritten, read>>

\* An error is tried again unless the context is done or the attempts are over;
\* the other targets are asked all the same.
Unanswered ==
  /\ stage = "ask" /\ unasked # {}
  /\ \/ tries + 1 < ConsulAttempts /\ ~interrupted /\ tries' = tries + 1 /\ UNCHANGED <<unasked, failing>>
     \/ (tries + 1 = ConsulAttempts \/ interrupted) /\ tries' = 0
        /\ \E b \in unasked : unasked' = unasked \ {b} /\ failing' = failing \cup {b}
  /\ UNCHANGED <<setup, target, draft, debris, stage, current, item, interrupted, final, passed, rewritten, read>>

PreflightPassed ==
  /\ stage = "ask" /\ unasked = {} /\ failing = {}
  /\ GoOn(IF final THEN "launch" ELSE "build") /\ current' = 1
  /\ UNCHANGED <<setup, target, draft, debris, interrupted, final, consul, rewritten, read>>

-----------------------------------------------------------------------------
(* Prepare, build and launch                                                 *)

\* What a command of the developer may make of the document
Rewrites(d) ==
  {Replaced(d, "discovType", Scalar("consul")), Replaced(d, Shared, Client("consul", "none")),
   Replaced(d, Shared, Client("empty", "remote"))}

\* Mutant: what the builds left is not looked at again.
BuildAndLaunch ==
  /\ stage = "build" /\ ~interrupted
  /\ \/ /\ current > Len(Targeted)
        /\ GoOn("launch") /\ final' = TRUE /\ current' = 1
        /\ UNCHANGED <<target, rewritten>>
     \/ /\ current <= Len(Targeted)
        /\ current' = current + 1 /\ UNCHANGED <<stage, item, tries, final>>
        /\ \/ UNCHANGED <<target, rewritten>>
           \/ /\ Cardinality(rewritten) < MaxRewrites
              /\ \E d \in Rewrites(target[Service]) : target' = [target EXCEPT ![Service] = d]
              /\ rewritten' = rewritten \cup {Service}
  /\ UNCHANGED <<setup, draft, debris, interrupted, consul, read>>

Build ==
  /\ stage = "build" /\ ~interrupted
  /\ \/ /\ current > Len(Targeted)
        /\ GoOn("inspect") /\ final' = TRUE
        /\ UNCHANGED <<target, current, rewritten>>
     \/ /\ current <= Len(Targeted)
        /\ current' = current + 1 /\ UNCHANGED <<stage, item, tries, final>>
        /\ \/ UNCHANGED <<target, rewritten>>
           \/ /\ Cardinality(rewritten) < MaxRewrites
              /\ \E d \in Rewrites(target[Service]) : target' = [target EXCEPT ![Service] = d]
              /\ rewritten' = rewritten \cup {Service}
  /\ UNCHANGED <<setup, draft, debris, interrupted, consul, read>>

\* StartService; the service reads its directory
LaunchNext ==
  /\ stage = "launch"
  /\ \/ current > Len(Targeted) /\ GoOn("running") /\ UNCHANGED <<current, read>>
     \/ /\ current <= Len(Targeted) /\ ~interrupted
        /\ read' = [read EXCEPT ![Service] = target[Service]]
        /\ current' = current + 1 /\ UNCHANGED <<stage, item, tries>>
  /\ UNCHANGED <<setup, target, draft, debris, interrupted, final, consul, rewritten>>

-----------------------------------------------------------------------------
(* The command may fail at every stage: on what the stage demands, on an I/O *)
(* error, or because it is interrupted.                                      *)

MayFail ==
  /\ stage \notin Ended \cup {"sweep"}
  /\ stage = "pause" => interrupted
  /\ stage = "ask" => unasked = {} /\ failing # {}

Advance ==
  \/ Begin \/ Copy \/ FetchLocal \/ FetchApollo \/ Resume \/ Merge \/ PatchNext
  \/ GuardNext \/ VerifyDraft \/ Publish \/ Sweep \/ SweepFails \/ Check
  \/ Inspect \/ Answered \/ Unanswered \/ PreflightPassed \/ Build \/ LaunchNext

ConfigStep == Advance \/ (MayFail /\ Fail)

Interrupt ==
  /\ stage \notin Ended /\ ~interrupted /\ interrupted' = TRUE
  /\ UNCHANGED <<setup, target, draft, debris, progress, final, consul, rewritten, read>>

\* Killed: the staging directory stays, and no later command removes it.
Kill ==
  /\ stage \notin Ended /\ stage' = "killed" /\ debris' = (debris \/ draft # Nothing)
  /\ UNCHANGED <<setup, target, draft, current, item, tries, interrupted, final, consul, rewritten, read>>

ConfigNext == ConfigStep \/ Interrupt \/ Kill

ConfigSpec == ConfigInit /\ [][ConfigNext]_configVars /\ WF_configVars(ConfigStep)

-----------------------------------------------------------------------------
(* Properties                                                                *)

\* At every instant, also after a kill, the directory of a service is the one it
\* had, or a complete one: decodable, with every guard in force and every local
\* route in place.
TargetIsWhole ==
  \A s \in Services :
    \/ target[s] = setup.before[s] \/ s \in rewritten
    \/ /\ Verified(setup, target[s])
       /\ \A b \in setup.local \ Range(setup.disabled) :
            b \in Range(setup.routes) => Resolved(target[s], b) = LocalRoute

\* Whatever the builds did, a launched service does not register itself, listens
\* where it was told to, reaches no disabled binding and no local one by Consul,
\* has a route for each client it cannot do without, and each of its Consul
\* clients had a passing instance after the last build.
LaunchedIsolated ==
  \A s \in Services : read[s] # Nothing =>
    /\ Verified(setup, read[s])
    /\ \A b \in Range(setup.disabled) : Disabled(Resolved(read[s], b))
    /\ \A b \in setup.declared \ setup.optional : Route(Resolved(read[s], b)) = "active"
    /\ ConsulClients(read[s]) \cap setup.local = {}
    /\ setup.source # "host" => Clients(read[s]) \subseteq passed

\* A command that ends by itself leaves no staging directory behind, unless the
\* previous one could not be removed.
NothingStaged == stage \in {"running", "failed"} => draft = Nothing

ConfigurationIsSafe == TargetIsWhole /\ LaunchedIsolated /\ NothingStaged

\* The command ends, however Apollo and Consul answer.
DeliveryEnds == <>(stage \in Ended)
=============================================================================
