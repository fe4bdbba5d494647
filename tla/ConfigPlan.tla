----------------------------- MODULE ConfigPlan -----------------------------
(***************************************************************************)
(* How the configuration of a service is planned from its policy, its      *)
(* declaration and the resolution of its dependencies, for the trusted     *)
(* go-zero contract (internal/runtime/config_plan.go, contract_go_zero.go, *)
(* disabled_bindings.go, rpc_config_validation.go).                        *)
(*                                                                         *)
(* A setup is what the plan is computed from:                              *)
(*   kind       "rpc" or "http"                                            *)
(*   source     "repository", "apollo" or "host"                           *)
(*   policy, server, service    the patches of each, sequences             *)
(*   routes     the bindings of the dependencies, in the order of names    *)
(*   local      those whose dependency is resolved to a local service      *)
(*   disabled   the bindings the workspace disables, in the order of names *)
(*   declared   the bindings its source and its manifest declare           *)
(*   optional   those whose client the source guards or does not use       *)
(*   unused     those whose client it does not use                         *)
(*   fallback   bindings Apollo lacks are taken from the repository        *)
(*   listen     "loopback" or "all-interfaces"                             *)
(*   bootstrap  the runtime bootstrap is config-local.yaml                 *)
(***************************************************************************)
EXTENDS ConfigDocument, Functions, Orders

\* A setup, as far as it is about documents
Planned(s) ==
  /\ s.repository \in Documents \cup {Nothing} /\ s.apollo \in Documents
  /\ \A q \in {s.policy, s.server, s.service} :
       q \in Seq(Range(q)) /\ \A p \in Range(q) :
         /\ p.key \in Settings \cup Bindings
         /\ \/ p.field = "whole" /\ p.value \in Nodes
            \/ p.field = "discovType" /\ p.value \in DiscovTypes
  /\ s.routes \in Seq(Bindings) /\ s.disabled \in Seq(Bindings)
  /\ s.local \cup s.declared \subseteq Bindings /\ s.unused \subseteq s.optional
  /\ s.listen \in Values

Patch(k, f, v, o) == [key |-> k, field |-> f, value |-> v, optional |-> o]
Guard(k, v, c) == [key |-> k, value |-> v, create |-> c]

\* The local rule replaces the client; the remote rule preserves it.
LocalRoute == Client("empty", "local")

RoutePatches(s) ==
  LET locals == Sorted({i \in DOMAIN s.routes : s.routes[i] \in s.local})
  IN [i \in DOMAIN locals |-> Patch(s.routes[locals[i]], "whole", LocalRoute, FALSE)]

DisabledBindingPatches(s) ==
  [i \in DOMAIN s.disabled |-> Patch(s.disabled[i], "discovType", "empty", TRUE)]

\* What comes later wins: disabling wins over routing, and both over declarations.
Patches(s) == s.policy \o s.server \o s.service \o RoutePatches(s) \o DisabledBindingPatches(s)

\* The listener of the policy is loopback; the service may ask for all interfaces.
ListenerGuard(s) == Guard("listenOn", s.listen, FALSE)

ServerGuards(s) ==
  IF s.kind = "rpc" THEN <<Guard("discovType", "empty", FALSE), ListenerGuard(s)>>
  ELSE <<ListenerGuard(s)>>

\* The service reads the bootstrap first, which must point to the guarded document.
RuntimeGuards(s) ==
  IF s.bootstrap THEN <<Guard("localConfigPath", "target", TRUE)>> ELSE <<>>

Guards(s) == ServerGuards(s) \o RuntimeGuards(s)

Fallbacks(s) ==
  IF s.source # "repository" /\ s.fallback
  THEN s.declared \ (s.local \cup Range(s.disabled))
  ELSE {}

-----------------------------------------------------------------------------
(* What is demanded of the published document before a service runs on it    *)

Verified(s, d) == \A i \in DOMAIN Guards(s) : Satisfies(d, Guards(s)[i])

\* A binding that is to be disabled must have a guarded client and no route left.
DisablingRefused(s, d) ==
  \E b \in Range(s.disabled) : b \notin s.optional \/ ~Disabled(Resolved(d, b))

\* A declared client needs a route, unless the source does without it: an
\* incomplete one is tolerated only where the source does not use it at all.
ClientRefused(s, d) ==
  \E b \in s.declared :
    CASE Route(Resolved(d, b)) = "invalid" -> TRUE
      [] Route(Resolved(d, b)) = "incomplete" -> b \notin s.unused
      [] Route(Resolved(d, b)) = "inactive" -> b \notin s.optional
      [] Route(Resolved(d, b)) = "active" -> FALSE

Accepted(s, d) ==
  /\ d # Nothing
  /\ Strict(d)
  /\ ~DisablingRefused(s, d) /\ ~ClientRefused(s, d)
  /\ Verified(s, d)
  /\ ~WalkRefuses(d, s.local)
=============================================================================
