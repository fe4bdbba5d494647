------------------------------ MODULE StartPlan ------------------------------
(* The plan of a start (internal/runtime/plan.go and                        *)
(* internal/dependency/plan.go): which services are started, in which       *)
(* groups, and which of their dependencies a local service serves. The      *)
(* functions of the code are taken loop by loop: the expansion of           *)
(* --with-dependencies, Tarjan's components with their recursion as a stack *)
(* of calls, and the queue of components that are ready.                    *)
(*                                                                          *)
(* A service is a number: the code sorts names, and nothing else of a name  *)
(* matters. A manifest is what localServiceForDependency makes of it, the   *)
(* services that serve the dependencies of each service.                    *)
EXTENDS Integers, Sequences, FiniteSets, FiniteSetsExt, SequencesExt, Functions, Orders

CONSTANTS
    Services,   \* the services of the manifest
    Manifests   \* what their dependencies may be

ASSUME ServicesAssumption == Services \in SUBSET Nat /\ IsFiniteSet(Services)

(* Loading a manifest refuses a service that depends on itself (but for     *)
(* version 2 and a binding or an alias that leads back to the service).     *)
ASSUME ManifestsAssumption ==
    Manifests \subseteq {d \in [Services -> SUBSET Services] : \A s \in Services : s \notin d[s]}

VARIABLES
    phase,       \* "none", "expand", "check", "components", "order",
                 \* "resolve", or how the plan ended: "planned", "refused",
                 \* "unordered", "unresolved"
    depends,     \* the manifest
    asked,       \* the services the command was given
    selected,    \* the services to start: a sequence, as in the code
    at,          \* the index of the loop over selected
    index, low,  \* Tarjan's indices and lowLinks of the services visited
    left,        \* the dependencies each visit has still to look at
    calls,       \* the visits under way, the innermost last
    stack,       \* Tarjan's stack
    components,  \* the components found, in that order
    waits,       \* remainingDependencies of each component
    ready,       \* the components that may start
    groups,      \* the groups of services that start together
    routes       \* the dependencies resolved to a local service

visits == <<index, low, left, calls, stack, components>>
queueVars == <<waits, ready, groups>>
planVars == <<phase, depends, asked, selected, at, visits, queueVars, routes>>

Ended == {"planned", "refused", "unordered", "unresolved"}
Empty == [s \in {} |-> 0]
Visited == DOMAIN index

(* The dependencies of s that selected services serve.                      *)
Needs(s) == depends[s] \cap Range(selected)

-----------------------------------------------------------------------------
PlanInit ==
    /\ phase = "none"
    /\ depends = [s \in Services |-> {}]
    /\ asked = <<>> /\ selected = <<>> /\ at = 1
    /\ index = Empty /\ low = Empty /\ left = Empty
    /\ calls = <<>> /\ stack = <<>> /\ components = <<>>
    /\ waits = <<>> /\ ready = {} /\ groups = <<>>
    /\ routes = {}

(* runStart has its services: the names of the command line or the          *)
(* selector's. The manifest was read before; nothing up to here looked at   *)
(* the dependencies.                                                        *)
Plan(names, withDependencies) ==
    /\ phase = "none"
    /\ depends' \in Manifests
    /\ asked' = names /\ selected' = names
    /\ phase' = IF withDependencies THEN "expand" ELSE "check"
    /\ UNCHANGED <<at, visits, queueVars, routes>>

(* config.ValidateSelection, which expansion and planning call first: no    *)
(* service twice, none the manifest does not have.                          *)
ValidSelection(names) == IsInjective(names) /\ Range(names) \subseteq Services

(* Mutant: only the services the command was given are expanded.            *)
ExpandOnce ==
    /\ phase = "expand"
    /\ IF ~ValidSelection(asked)
       THEN phase' = "refused" /\ UNCHANGED <<selected, at>>
       ELSE IF at > Len(asked)
       THEN phase' = "check" /\ UNCHANGED <<selected, at>>
       ELSE /\ selected' = selected \o
                   Sorted(depends[selected[at]] \ Range(selected))
            /\ at' = at + 1
            /\ UNCHANGED phase
    /\ UNCHANGED <<depends, asked, visits, queueVars, routes>>

(* ExpandLocalServiceDependencies: one iteration of the loop over the       *)
(* services known so far, which grows while it runs.                        *)
Expand ==
    /\ phase = "expand"
    /\ IF ~ValidSelection(asked)
       THEN phase' = "refused" /\ UNCHANGED <<selected, at>>
       ELSE IF at > Len(selected)
       THEN phase' = "check" /\ UNCHANGED <<selected, at>>
       ELSE /\ selected' = selected \o
                   Sorted(depends[selected[at]] \ Range(selected))
            /\ at' = at + 1
            /\ UNCHANGED phase
    /\ UNCHANGED <<depends, asked, visits, queueVars, routes>>

(* buildPlan up to dependencyStartGroups.                                   *)
Check ==
    /\ phase = "check"
    /\ phase' = IF selected # <<>> /\ ValidSelection(selected) THEN "components" ELSE "refused"
    /\ UNCHANGED <<depends, asked, selected, at, visits, queueVars, routes>>

-----------------------------------------------------------------------------
(* dependencyComponents. *)

First(s, names) == s \in names /\ \A t \in names : s <= t
With(f, s, v) == [t \in DOMAIN f \cup {s} |-> IF t = s THEN v ELSE f[t]]

(* visit(name) begins.                                                      *)
Enter(s) ==
    /\ index' = With(index, s, Cardinality(Visited))
    /\ low' = With(low, s, Cardinality(Visited))
    /\ left' = With(left, s, Needs(s))
    /\ calls' = Append(calls, s)
    /\ stack' = Append(stack, s)
    /\ UNCHANGED components

(* The loop over the names, outside every visit: the first not visited.     *)
Root ==
    /\ phase = "components" /\ calls = <<>>
    /\ \E s \in Services : First(s, Range(selected) \ Visited) /\ Enter(s)
    /\ UNCHANGED <<phase, depends, asked, selected, at, queueVars, routes>>

(* A visit meets a dependency that nobody visited.                          *)
Descend ==
    /\ phase = "components" /\ calls # <<>>
    /\ \E d \in Services \ Visited : First(d, left[Last(calls)]) /\ Enter(d)
    /\ UNCHANGED <<phase, depends, asked, selected, at, queueVars, routes>>

(* Mutant: a service of an earlier component lowers the link.               *)
MeetAny ==
    /\ phase = "components" /\ calls # <<>>
    /\ \E d \in Visited :
          LET s == Last(calls) IN
          /\ First(d, left[s])
          /\ left' = [left EXCEPT ![s] = @ \ {d}]
          /\ low' = [low EXCEPT ![s] = IF index[d] < @ THEN index[d] ELSE @]
    /\ UNCHANGED <<phase, depends, asked, selected, at, index, calls, stack, components,
                   queueVars, routes>>

(* Mutant: the dependency is not struck off.                                *)
MeetAgain ==
    /\ phase = "components" /\ calls # <<>>
    /\ \E d \in Visited :
          LET s == Last(calls) IN
          /\ First(d, left[s])
          /\ low' = [low EXCEPT ![s] = IF d \in Range(stack) /\ index[d] < @ THEN index[d] ELSE @]
    /\ UNCHANGED <<phase, depends, asked, selected, at, index, left, calls, stack, components,
                   queueVars, routes>>

(* A visit meets a dependency that was visited: only one that is on the     *)
(* stack lowers the link.                                                   *)
Meet ==
    /\ phase = "components" /\ calls # <<>>
    /\ \E d \in Visited :
          LET s == Last(calls) IN
          /\ First(d, left[s])
          /\ left' = [left EXCEPT ![s] = @ \ {d}]
          /\ low' = [low EXCEPT ![s] = IF d \in Range(stack) /\ index[d] < @ THEN index[d] ELSE @]
    /\ UNCHANGED <<phase, depends, asked, selected, at, index, calls, stack, components,
                   queueVars, routes>>

(* Back in the visit that called the one of s: its link counts as found,    *)
(* and the dependency is dealt with.                                        *)
BackFrom(s) ==
    IF Len(calls) = 1 THEN UNCHANGED <<low, left>>
    ELSE LET caller == calls[Len(calls) - 1] IN
         /\ low' = [low EXCEPT ![caller] = IF low[s] < @ THEN low[s] ELSE @]
         /\ left' = [left EXCEPT ![caller] = @ \ {s}]

(* The end of a visit: the services down to s on the stack are a component, *)
(* when s has no way back beyond itself.                                    *)
Leave ==
    /\ phase = "components" /\ calls # <<>> /\ left[Last(calls)] = {}
    /\ LET s == Last(calls)
           floor == CHOOSE i \in DOMAIN stack : stack[i] = s
       IN /\ IF low[s] # index[s] THEN UNCHANGED <<stack, components>>
             ELSE /\ components' = Append(components, {stack[i] : i \in floor .. Len(stack)})
                  /\ stack' = SubSeq(stack, 1, floor - 1)
          /\ BackFrom(s)
    /\ calls' = Front(calls)
    /\ UNCHANGED <<phase, depends, asked, selected, at, index, queueVars, routes>>

-----------------------------------------------------------------------------
(* dependencyStartGroups. *)

(* The components that component c depends on, and those depending on it.   *)
Before(c) == {b \in DOMAIN components \ {c} :
                 \E s \in components[c] : Needs(s) \cap components[b] # {}}
After(c) == {a \in DOMAIN components : c \in Before(a)}

(* The counts of the dependencies between components, and the components    *)
(* without any.                                                             *)
Count ==
    /\ phase = "components" /\ calls = <<>> /\ Range(selected) \subseteq Visited
    /\ waits' = [c \in DOMAIN components |-> Cardinality(Before(c))]
    /\ ready' = {c \in DOMAIN components : Before(c) = {}}
    /\ phase' = "order"
    /\ UNCHANGED <<depends, asked, selected, at, visits, groups, routes>>

(* Mutant: ready is a queue, in the order components became ready.          *)
NextAny(c) == c = Max(ready)

(* ready is sorted by the first service of each component.                  *)
NextReady(c) == \A b \in ready : Min(components[c]) <= Min(components[b])

(* Mutant: a component may start once one of its dependencies has.          *)
TakeEarly ==
    /\ phase = "order" /\ ready # {}
    /\ \E c \in ready :
          /\ NextReady(c)
          /\ groups' = Append(groups, components[c])
          /\ waits' = [a \in DOMAIN waits |-> IF a \in After(c) THEN waits[a] - 1 ELSE waits[a]]
          /\ ready' = (ready \ {c}) \cup {a \in After(c) : components[a] \notin Range(groups)}
    /\ UNCHANGED <<phase, depends, asked, selected, at, visits, routes>>

(* One iteration of the loop: the first ready component is the next group,  *)
(* and those that waited for it alone become ready.                         *)
Take ==
    /\ phase = "order" /\ ready # {}
    /\ \E c \in ready :
          /\ NextReady(c)
          /\ groups' = Append(groups, components[c])
          /\ waits' = [a \in DOMAIN waits |-> IF a \in After(c) THEN waits[a] - 1 ELSE waits[a]]
          /\ ready' = (ready \ {c}) \cup {a \in After(c) : waits'[a] = 0}
    /\ UNCHANGED <<phase, depends, asked, selected, at, visits, routes>>

OrderedCount == MapThenSumSet(LAMBDA i : Cardinality(groups[i]), DOMAIN groups)

(* No component is ready any more: every service has its group, or the code *)
(* gives up.                                                                *)
Ordered ==
    /\ phase = "order" /\ ready = {}
    /\ phase' = IF OrderedCount = Len(selected)
                THEN "resolve" ELSE "unordered"
    /\ UNCHANGED <<depends, asked, selected, at, visits, queueVars, routes>>

-----------------------------------------------------------------------------
(* dependency.Resolve: the dependencies that are local, each by its owner   *)
(* and the selected service that serves it.                                 *)
Local == UNION {{s} \X Needs(s) : s \in Range(selected)}

(* Any other dependency needs a resolution of the environment, which may be *)
(* missing, or say that the dependency is blocked or disabled.              *)
Resolve ==
    /\ phase = "resolve"
    /\ routes' = Local
    /\ phase' = "planned"
    /\ UNCHANGED <<depends, asked, selected, at, visits, queueVars>>

ResolveFails ==
    /\ phase = "resolve"
    /\ phase' = "unresolved"
    /\ UNCHANGED <<depends, asked, selected, at, visits, queueVars, routes>>

PlanStep ==
    \/ Expand \/ Check
    \/ Root \/ Descend \/ Meet \/ Leave
    \/ Count \/ Take \/ Ordered
    \/ Resolve \/ ResolveFails

-----------------------------------------------------------------------------
PlanTypeOK ==
    /\ phase \in {"none", "expand", "check", "components", "order", "resolve"} \cup Ended
    /\ depends \in [Services -> SUBSET Services]
    /\ at \in 1 .. Cardinality(Services) + 1
    /\ Visited \subseteq Services /\ DOMAIN low = Visited /\ DOMAIN left = Visited
    /\ \A s \in Visited : low[s] \in 0 .. index[s] /\ left[s] \subseteq Services
    /\ IsInjective(index) /\ IsInjective(calls) /\ IsInjective(stack)
    /\ Range(calls) \subseteq Range(stack) /\ Range(stack) \subseteq Visited
    /\ components \in Seq((SUBSET Services) \ {{}})
    /\ DOMAIN waits \subseteq DOMAIN components /\ ready \subseteq DOMAIN waits
    /\ Range(groups) \subseteq Range(components)
    /\ routes \subseteq Services \X Services

(* The services that can be reached from s over the dependencies next gives *)
(* each service: they are in every set that holds s and is closed.          *)
Reachable(next(_), s) ==
    {t \in Services : \A closed \in SUBSET Services :
        (s \in closed /\ \A u \in closed : next(u) \subseteq closed) => t \in closed}

(* The groups are the dependency cycles: two selected services start        *)
(* together exactly when each depends on the other, over however many       *)
(* services in between that are selected too. dependencyComponents finds    *)
(* this from indices and links in one pass.                                 *)
GroupsAreCycles ==
    phase \in {"resolve", "planned"} =>
        \A s, t \in Range(selected) :
            (\E i \in DOMAIN groups : {s, t} \subseteq groups[i])
                <=> (t \in Reachable(Needs, s) /\ s \in Reachable(Needs, t))

(* Of the groups that may come next the one with the first name does, at    *)
(* every place: the order of a plan does not hang on the order in which Go  *)
(* walks its maps, nor on the order the services were named in.             *)
FirstNameFirst ==
    \A i \in DOMAIN groups : \A c \in DOMAIN components :
        (/\ \A j \in 1 .. i - 1 : groups[j] # components[c]
         /\ \A b \in Before(c) : \E j \in 1 .. i - 1 : groups[j] = components[b])
        => Min(groups[i]) <= Min(components[c])

(* What starts together, and when, follows from the dependencies and the    *)
(* names alone.                                                             *)
GroupsAreDetermined == GroupsAreCycles /\ FirstNameFirst

(* A dependency that is resolved to a local service is served by a service  *)
(* of an earlier group than its owner, or of the same one: when a group is  *)
(* started and waited for, nothing it needs is still to come. Groups and    *)
(* resolutions are computed apart, by two packages.                         *)
RoutesStartFirst ==
    \A i \in DOMAIN groups : \A route \in Local :
        route[1] \in groups[i] => \E j \in 1 .. i : route[2] \in groups[j]

(* The inductive invariant behind RoutesStartFirst. Before the search for   *)
(* components nothing of it exists.                                         *)
Early == phase \in {"none", "expand", "check", "refused"}

FreshInv ==
    /\ phase \in {"none", "expand", "check", "components", "order", "resolve"} \cup Ended
    /\ Early => /\ index = Empty /\ low = Empty /\ left = Empty
                /\ calls = <<>> /\ stack = <<>> /\ components = <<>>
    /\ ~Early => Range(selected) \subseteq Services
    /\ Early \/ phase = "components" => groups = <<>>

(* Indices grow along the stack and along the calls, which are on it from   *)
(* its bottom on, and no link leads below the bottom: when the outermost    *)
(* visit ends, its component takes all that is on the stack.                *)
VisitInv ==
    /\ IsFiniteSet(Visited) /\ Visited \subseteq Services
    /\ Visited # {} => Visited \subseteq Range(selected)
    /\ index \in [Visited -> Nat] /\ \A s \in Visited : index[s] < Cardinality(Visited)
    /\ low \in [Visited -> Nat]
    /\ left \in [Visited -> SUBSET Range(selected)]
    /\ stack \in Seq(Visited) /\ calls \in Seq(Visited)
    /\ \A i, j \in DOMAIN stack : i < j => index[stack[i]] < index[stack[j]]
    /\ \A i, j \in DOMAIN calls : i < j => index[calls[i]] < index[calls[j]]
    /\ \A i \in DOMAIN calls : \E j \in DOMAIN stack : calls[i] = stack[j]
    /\ \A j \in DOMAIN stack : index[stack[1]] <= low[stack[j]] /\ low[stack[j]] <= index[stack[j]]
    /\ calls = <<>> => stack = <<>>
    /\ calls # <<>> => calls[1] = stack[1]

(* Every service visited is on the stack or in one component.               *)
ComponentInv ==
    /\ components \in Seq(SUBSET Visited)
    /\ \A c \in DOMAIN components : components[c] # {}
    /\ \A c, b \in DOMAIN components : c # b => components[c] \cap components[b] = {}
    /\ \A c \in DOMAIN components : \A i \in DOMAIN stack : stack[i] \notin components[c]
    /\ \A s \in Visited : \/ \E i \in DOMAIN stack : stack[i] = s
                          \/ \E c \in DOMAIN components : s \in components[c]

(* A component waits for as many others as have no group yet, and those     *)
(* that are ready for none.                                                 *)
Grouped == {c \in DOMAIN components : \E i \in DOMAIN groups : groups[i] = components[c]}

QueueInv ==
    phase \in {"order", "resolve", "planned", "unordered", "unresolved"} =>
        /\ calls = <<>> /\ Range(selected) \subseteq Visited
        /\ waits \in [DOMAIN components -> Nat]
        /\ \A c \in DOMAIN components : waits[c] = Cardinality(Before(c) \ Grouped)
        /\ ready \subseteq DOMAIN components \ Grouped
        /\ \A c \in ready : Before(c) \subseteq Grouped
        /\ groups \in Seq(SUBSET Services)
        /\ \A i \in DOMAIN groups : \E c \in DOMAIN components :
              /\ groups[i] = components[c]
              /\ \A b \in Before(c) : \E j \in 1 .. i - 1 : groups[j] = components[b]

PlanInv == FreshInv /\ VisitInv /\ ComponentInv /\ QueueInv

(* With --with-dependencies the selection grows to the services that can be *)
(* reached from it, no more and no fewer, each once, and the names that     *)
(* were given stay in front in their order.                                 *)
ExpansionExact ==
    [][phase = "expand" /\ phase' = "check" =>
          /\ IsInjective(selected)
          /\ Range(selected) = UNION {Reachable(LAMBDA u : depends[u], s) : s \in Range(asked)}
          /\ SubSeq(selected, 1, Len(asked)) = asked]_planVars
==============================================================================
