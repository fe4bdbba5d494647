----------------------------- MODULE StartCommand -----------------------------
(* From a start's arguments to its plan (internal/cli/cli.go, runStart): the *)
(* services are those of the command line or, without any, those confirmed   *)
(* in the selector; --with-dependencies expands them; then the plan is made. *)
EXTENDS Selector, StartPlan

CONSTANT CommandLines   \* the names that may be given as arguments

ASSUME CommandLinesAssumption ==
    CommandLines \subseteq Seq(Nat) \ {<<>>} /\ Services = Positions

commandVars == <<selectorVars, planVars>>

CommandInit == SelectorInit /\ PlanInit

(* The services were named.                                                  *)
Named ==
    /\ mode = "off" /\ many
    /\ \E names \in CommandLines, withDependencies \in BOOLEAN : Plan(names, withDependencies)
    /\ UNCHANGED selectorVars

Selecting == phase = "none" /\ SelectorStep /\ UNCHANGED planVars

(* The selector returned with a selection; after an error, or when it was    *)
(* left without one, the command ends.                                       *)
Selected ==
    /\ mode = "done" /\ many /\ outcome = "confirmed"
    /\ \E withDependencies \in BOOLEAN : Plan(chosen, withDependencies)
    /\ Forget

Planning == PlanStep /\ UNCHANGED selectorVars

CommandNext == Named \/ Selecting \/ Selected \/ Planning

CommandSpec == CommandInit /\ [][CommandNext]_commandVars /\ WF_commandVars(Planning)

-----------------------------------------------------------------------------
(* What is planned is what was agreed to: a plan of services that were not   *)
(* named on the command line follows a confirmation whose whole last answer  *)
(* was yes, and it is for the services that were marked, in their order.     *)
(* Answers that were not understood do not add up.                           *)
PlanAsAgreed ==
    [][phase = "none" /\ phase' # "none" /\ mode # "off" =>
          /\ answer = <<"y">>
          /\ Range(asked') = marked /\ marked # {}
          /\ \A i, j \in DOMAIN asked' : i < j => asked'[i] < asked'[j]]_commandVars

(* Every plan that is begun is made or given up: the expansion, which runs   *)
(* over a list it extends, the search for components and the queue all end.  *)
PlanEnds == phase # "none" ~> phase \in Ended
===============================================================================
