-------------------------- MODULE StartCommand_proofs --------------------------
(* Proofs about a start. The selector as runStart uses it, for any number of *)
(* candidates and answers of any length. The plan, for every set of services *)
(* and every manifest: what the indices, the links and the queue of          *)
(* components mean while they are computed; that no group comes before one   *)
(* it depends on, that the groups are the cycles, and that the expansion is  *)
(* exact. One lemma for each conjunct of an invariant; the steps that leave  *)
(* what a conjunct is about alone are dealt with together.                   *)
EXTENDS StartCommand, Orders_proofs, SequenceTheorems

-----------------------------------------------------------------------------
(* The selector                                                              *)

(* The alternate screen is shown only while screenActive says so, until the *)
(* deferred call that leaves it failed, and raw mode ends with the selector *)
(* unless restoring the terminal failed; nothing is confirmed that was not marked, and one *)
(* mark at most is kept for a single selection.                             *)
ScreenInv ==
    /\ screen \in BOOLEAN
    /\ mode = "off" => ~raw /\ ~screen
    /\ mode = "picking" => active
    /\ mode \in {"picking", "confirming", "leaving"} /\ screen => active
    /\ mode = "done" /\ outcome # "error" => broken = {}
    /\ TerminalGivenBack

MarkInv ==
    /\ many \in BOOLEAN
    /\ mode \in {"off", "picking", "confirming"} => outcome = "none"
    /\ mode = "confirming" \/ outcome = "confirmed" => marked # {}
    /\ ~many => \A c, d \in marked : c = d

SelectorInv == ScreenInv /\ MarkInv

(* What a step of the command means for the selector.                       *)
LEMMA SelectorMoves ==
  ASSUME [CommandNext]_commandVars
  PROVE  \/ UNCHANGED selectorVars
         \/ SelectorStep
         \/ mode = "done" /\ outcome = "confirmed" /\ Forget
  BY DEF CommandNext, Named, Selecting, Selected, Planning, commandVars

LEMMA ScreenStep ==
  ASSUME ScreenInv, [CommandNext]_commandVars
  PROVE  ScreenInv'
  <1>. USE DEF ScreenInv, TerminalGivenBack
  <1>1. CASE UNCHANGED selectorVars
    BY <1>1 DEF selectorVars
  <1>2. CASE mode = "done" /\ outcome = "confirmed" /\ Forget
    BY <1>2 DEF Forget
  <1>3. CASE SelectorStep
    <2>1. CASE Open
      <3>1. active' = TRUE /\ screen' \in BOOLEAN /\ mode' \in {"picking", "leaving"}
        BY <2>1 DEF Open
      <3>2. active' /\ mode' # "done" /\ mode' # "off"
        BY <3>1
      <3>. QED
        <4>1. (mode' = "off" => ~raw' /\ ~screen') /\ TerminalGivenBack'
          BY <3>2
        <4>2. mode' \in {"picking", "confirming", "leaving"} /\ screen' => active'
          BY <3>2
        <4>3. mode' = "done" /\ outcome' # "error" => broken' = {}
          BY <3>2
        <4>4. screen' \in BOOLEAN
          BY <3>1
        <4>5. mode' = "picking" => active'
          BY <3>2
        <4>. QED
          BY <4>1, <4>2, <4>3, <4>4, <4>5
    <2>2. CASE Proceed
      <3>1. mode = "picking" /\ mode' \in {"confirming", "leaving"}
        BY <2>2 DEF Proceed
      <3>2. \/ screen' = FALSE
            \/ screen' \in BOOLEAN /\ active' = active
        BY <2>2 DEF Proceed
      <3>3. screen' \in BOOLEAN
        BY <3>2
      <3>4. active
        BY <3>1
      <3>5. screen' => active'
        <4>1. CASE screen' = FALSE
          BY <4>1
        <4>2. CASE active' = active
          BY <3>4, <4>2
        <4>. QED
          BY <3>2, <4>1, <4>2
      <3>6. mode' # "picking" /\ mode' # "off" /\ mode' # "done"
        BY <3>1
      <3>. QED
        BY <3>3, <3>5, <3>6
    <2>3. CASE Return
      <3>1. PICK leaveFails \in BOOLEAN, restoreFails \in BOOLEAN :
               /\ screen' = (screen /\ (leaveFails \/ ~active))
               /\ raw' = restoreFails
               /\ broken' = {c \in {"leave", "restore"} :
                                IF c = "leave" THEN leaveFails ELSE restoreFails}
               /\ outcome' # "error" => ~leaveFails /\ ~restoreFails
        BY <2>3 DEF Return
      <3>2. mode = "leaving" /\ mode' = "done"
        BY <2>3 DEF Return
      <3>3. (leaveFails => "leave" \in broken') /\ (restoreFails => "restore" \in broken')
        BY <3>1
      <3>4. screen' \in BOOLEAN /\ (screen' => leaveFails)
        BY <3>1, <3>2
      <3>5. raw' => "restore" \in broken'
        BY <3>1, <3>3
      <3>6. outcome' # "error" => broken' = {}
        BY <3>1
      <3>7. screen' => "leave" \in broken'
        BY <3>3, <3>4
      <3>8. mode' # "off" /\ mode' \notin {"picking", "confirming", "leaving"}
        BY <3>2
      <3>. QED
        <4>1. (mode' = "off" => ~raw' /\ ~screen') /\ TerminalGivenBack'
          BY <3>5, <3>7, <3>8
        <4>2. mode' \in {"picking", "confirming", "leaving"} /\ screen' => active'
          BY <3>8
        <4>3. mode' = "done" /\ outcome' # "error" => broken' = {}
          BY <3>6
        <4>4. mode' = "picking" => active'
          BY <3>8
        <4>. QED
          BY <3>4, <4>1, <4>2, <4>3, <4>4
    <2>4. CASE Refuse \/ Fails \/ Abandon \/ Answer
      BY <2>4 DEF Refuse, Fails, Abandon, Answer
    <2>5. CASE \/ Move(-1) \/ Move(1) \/ Toggle(0) \/ Toggle(1) \/ ToggleAll
               \/ (\E letter \in Letters : Type(letter)) \/ Backspace
      <3>1. UNCHANGED <<mode, raw, screen, active, outcome, broken>>
        BY <2>5 DEF Move, Toggle, ToggleAll, Type, Backspace
      <3>. QED
        BY <3>1
    <2>. QED
      BY <1>3, <2>1, <2>2, <2>3, <2>4, <2>5 DEF SelectorStep
  <1>. QED
    BY <1>1, <1>2, <1>3, SelectorMoves

LEMMA MarkStep ==
  ASSUME MarkInv, [CommandNext]_commandVars
  PROVE  MarkInv'
  <1>1. CASE UNCHANGED selectorVars
    BY <1>1 DEF MarkInv, selectorVars
  <1>2. CASE mode = "done" /\ outcome = "confirmed" /\ Forget
    BY <1>2 DEF MarkInv, Forget
  <1>3. CASE SelectorStep
    <2>1. CASE Refuse \/ Open \/ Fails \/ Abandon \/ Proceed
      BY <2>1 DEF MarkInv, Refuse, Open, Fails, Abandon, Proceed
    <2>2. CASE Answer
      BY <2>2 DEF MarkInv, Answer
    <2>3. CASE (\E letter \in Letters : Type(letter)) \/ Backspace
      <3>1. UNCHANGED <<many, mode, cursor, marked, outcome>>
        BY <2>3 DEF Type, Backspace
      <3>. QED
        BY <3>1 DEF MarkInv
    <2>4. CASE Return
      BY <2>4 DEF MarkInv, Return
    <2>5. CASE Toggle(0) \/ Toggle(1)
      BY <2>5 DEF MarkInv, Toggle, Toggled
    <2>6. CASE ToggleAll
      BY <2>6 DEF MarkInv, ToggleAll
    <2>7. CASE Move(-1) \/ Move(1)
      BY <2>7 DEF MarkInv, Move
    <2>. QED
      BY <1>3, <2>1, <2>2, <2>3, <2>4, <2>5, <2>6, <2>7 DEF SelectorStep
  <1>. QED
    BY <1>1, <1>2, <1>3, SelectorMoves

LEMMA SelectorInvInit == CommandInit => SelectorInv
  BY DEF CommandInit, SelectorInit, SelectorInv, ScreenInv, MarkInv, TerminalGivenBack

THEOREM SelectorInvariance == CommandSpec => []SelectorInv
  <1>1. SelectorInv /\ [CommandNext]_commandVars => SelectorInv'
    BY ScreenStep, MarkStep DEF SelectorInv
  <1>. QED
    BY <1>1, SelectorInvInit, PTL DEF CommandSpec

(* Whatever was typed and whichever call failed, when the selector returns, *)
(* with an error or without, the terminal is out of raw mode and shows the  *)
(* normal screen, but for what the deferred calls themselves could not do.  *)
THEOREM TerminalRestored == CommandSpec => []TerminalGivenBack
  <1>1. SelectorInv => TerminalGivenBack
    BY DEF SelectorInv, ScreenInv, TerminalGivenBack
  <1>. QED
    BY <1>1, SelectorInvariance, PTL

(* SelectOne returns one candidate, for any number of candidates.           *)
THEOREM SingleSelection == CommandSpec => []OneIsOne
  <1>1. SelectorInv => OneIsOne
    <2>. SUFFICES ASSUME SelectorInv, outcome = "confirmed"
                  PROVE  marked # {} /\ (~many => Cardinality(marked) = 1)
      BY DEF OneIsOne
    <2>1. marked # {} /\ (~many => \A c, d \in marked : c = d)
      BY DEF SelectorInv, MarkInv
    <2>2. ASSUME ~many PROVE Cardinality(marked) = 1
      <3>1. PICK c : c \in marked
        BY <2>1
      <3>2. marked = {c}
        BY <2>1, <2>2, <3>1
      <3>. QED
        BY <3>2, FS_Singleton
    <2>. QED
      BY <2>1, <2>2
  <1>. QED
    BY <1>1, SelectorInvariance, PTL

-----------------------------------------------------------------------------
(* What is returned: the marks, which are of candidates, in their order, and *)
(* only after an answer that was yes as a whole.                             *)
AgreedInv ==
    /\ cursor \in Positions /\ marked \subseteq Positions
    /\ outcome = "confirmed" => answer = <<"y">>
    /\ mode = "done" /\ outcome = "confirmed" => chosen = Sorted(marked)

LEMMA MinMax ==
  ASSUME NEW a \in Int, NEW b \in Int
  PROVE  /\ Min({a, b}) = IF a <= b THEN a ELSE b
         /\ Max({a, b}) = IF a <= b THEN b ELSE a
  <1>1. Min({a, b}) \in {a, b} /\ \A y \in {a, b} : Min({a, b}) <= y
    <2>1. \E x \in {a, b} : \A y \in {a, b} : x <= y
      OBVIOUS
    <2>. QED
      BY <2>1 DEF Min
  <1>2. Max({a, b}) \in {a, b} /\ \A y \in {a, b} : Max({a, b}) >= y
    <2>1. \E x \in {a, b} : \A y \in {a, b} : x >= y
      OBVIOUS
    <2>. QED
      BY <2>1 DEF Max
  <1>. QED
    BY <1>1, <1>2

LEMMA AgreedStep ==
  ASSUME MarkInv, AgreedInv, [CommandNext]_commandVars
  PROVE  AgreedInv'
  <1>. USE DEF AgreedInv
  <1>0. Candidates \in Nat \ {0} /\ Positions = 1 .. Candidates
    BY SelectorAssumption DEF Positions
  <1>1. CASE UNCHANGED selectorVars
    BY <1>1 DEF selectorVars
  <1>2. CASE mode = "done" /\ outcome = "confirmed" /\ Forget
    BY <1>0, <1>2 DEF Forget
  <1>3. CASE SelectorStep
    <2>1. CASE Refuse \/ Open \/ Fails \/ Abandon \/ Proceed
      <3>1. /\ UNCHANGED <<cursor, marked, answer>> /\ outcome' # "confirmed"
        BY <2>1 DEF Refuse, Open, Fails, Abandon, Proceed, MarkInv
      <3>. QED
        BY <3>1
    <2>2. CASE Answer
      <3>1. /\ mode = "confirming" /\ outcome = "none" /\ mode' # "done"
            /\ outcome' = "confirmed" => answer' = <<"y">>
            /\ UNCHANGED <<cursor, marked>>
        BY <2>2 DEF Answer, MarkInv
      <3>. QED
        BY <3>1
    <2>3. CASE (\E letter \in Letters : Type(letter)) \/ Backspace
      <3>1. /\ mode = "confirming" /\ outcome = "none"
            /\ UNCHANGED <<mode, cursor, marked, outcome>>
        BY <2>3 DEF Type, Backspace, MarkInv
      <3>. QED
        BY <3>1
    <2>4. CASE Return
      <3>1. /\ UNCHANGED <<cursor, marked, answer>>
            /\ outcome' = "confirmed" => outcome = "confirmed" /\ chosen' = Sorted(marked)
        BY <2>4 DEF Return
      <3>. QED
        BY <3>1
    <2>5. CASE ToggleAll \/ Toggle(0) \/ Toggle(1) \/ Move(-1) \/ Move(1)
      <3>1. /\ mode = "picking" /\ outcome = "none" /\ UNCHANGED <<mode, answer, outcome>>
        BY <2>5 DEF ToggleAll, Toggle, Move, MarkInv
      <3>2. marked' \subseteq Positions
        BY <2>5 DEF ToggleAll, Toggle, Toggled, Move
      <3>3. cursor' \in Positions
        <4>1. ASSUME NEW delta \in {0, 1}
              PROVE  Min({Candidates, cursor + delta}) \in 1 .. Candidates
          BY <1>0, MinMax
        <4>2. ASSUME NEW delta \in {-1, 1}
              PROVE  Max({1, Min({Candidates, cursor + delta})}) \in 1 .. Candidates
          <5>1. /\ Candidates \in Int /\ cursor + delta \in Int /\ 1 \in Int
            BY <1>0
          <5>2. PICK c : c = Min({Candidates, cursor + delta})
            OBVIOUS
          <5>3. c \in Int /\ c <= Candidates
            BY <5>1, <5>2, MinMax
          <5>4. Max({1, c}) = IF 1 <= c THEN c ELSE 1
            BY <5>1, <5>3, MinMax
          <5>. QED
            BY <5>2, <5>3, <5>4, <1>0
        <4>. QED
          BY <2>5, <4>1, <4>2, <1>0 DEF ToggleAll, Toggle, Move
      <3>. QED
        BY <3>1, <3>2, <3>3
    <2>. QED
      BY <1>3, <2>1, <2>2, <2>3, <2>4, <2>5 DEF SelectorStep
  <1>. QED
    BY <1>1, <1>2, <1>3, SelectorMoves

(* For any number of candidates and answers of any length: the cursor and    *)
(* the marks are on candidates, and what is returned is what is marked, and  *)
(* was agreed to (SelectMany, confirmSelection).                             *)
THEOREM AgreedInvariance == CommandSpec => []AgreedInv
  <1>1. CommandInit => AgreedInv
    BY SelectorAssumption DEF CommandInit, SelectorInit, AgreedInv, Positions
  <1>2. MarkInv /\ AgreedInv /\ [CommandNext]_commandVars => AgreedInv'
    BY AgreedStep
  <1>3. SelectorInv => MarkInv
    BY DEF SelectorInv
  <1>. QED
    BY <1>1, <1>2, <1>3, SelectorInvariance, PTL DEF CommandSpec

Agreed ==
    phase = "none" /\ phase' # "none" /\ mode # "off" =>
        /\ answer = <<"y">>
        /\ Range(asked') = marked /\ marked # {}
        /\ \A i, j \in DOMAIN asked' : i < j => asked'[i] < asked'[j]

LEMMA StepsAgreed ==
  ASSUME MarkInv, AgreedInv, [CommandNext]_commandVars
  PROVE  Agreed
  <1>. SUFFICES ASSUME phase = "none", phase' # "none", mode # "off"
                PROVE  /\ answer = <<"y">>
                       /\ Range(asked') = marked /\ marked # {}
                       /\ \A i, j \in DOMAIN asked' : i < j => asked'[i] < asked'[j]
    BY DEF Agreed
  <1>1. Selected
    BY DEF CommandNext, Named, Selecting, Planning, PlanStep, Expand, Check, Root, Descend, Meet,
           Leave, Count, Take, Ordered, Resolve, ResolveFails, commandVars, planVars
  <1>2. /\ mode = "done" /\ outcome = "confirmed" /\ asked' = chosen
    BY <1>1 DEF Selected, Plan
  <1>3. asked' = Sorted(marked) /\ answer = <<"y">> /\ marked # {}
    BY <1>2 DEF AgreedInv, MarkInv
  <1>4. marked \subseteq Nat /\ IsFiniteSet(marked)
    <2>1. Candidates \in Nat /\ marked \subseteq 1 .. Candidates
      BY SelectorAssumption DEF AgreedInv, Positions
    <2>2. IsFiniteSet(1 .. Candidates)
      BY <2>1, FS_Interval
    <2>3. IsFiniteSet(marked)
      BY <2>1, <2>2, FS_Subset
    <2>4. marked \subseteq Nat
      BY <2>1
    <2>. QED
      BY <2>3, <2>4
  <1>5. PICK q : q = Sorted(marked)
    OBVIOUS
  <1>6. /\ {q[i] : i \in DOMAIN q} = marked
        /\ \A i, j \in DOMAIN q : i < j => q[i] < q[j]
    BY <1>4, <1>5, SortedLists
  <1>7. Range(asked') = {asked'[i] : i \in DOMAIN asked'}
    BY DEF Range
  <1>. QED
    BY <1>3, <1>5, <1>6, <1>7

(* What is planned without having been named was marked and agreed to: the   *)
(* services that were marked, in their order, after an answer that was yes   *)
(* as a whole (runStart, SelectMany).                                        *)
THEOREM AgreedBefore == CommandSpec => PlanAsAgreed
  <1>1. MarkInv /\ AgreedInv /\ [CommandNext]_commandVars => [Agreed]_commandVars
    BY StepsAgreed
  <1>2. SelectorInv => MarkInv
    BY DEF SelectorInv
  <1>. QED
    BY <1>1, <1>2, SelectorInvariance, AgreedInvariance, PTL DEF CommandSpec, PlanAsAgreed, Agreed

-----------------------------------------------------------------------------
(* The plan                                                                  *)

(* What a step of the command means for the plan.                            *)
PlanMove ==
    \/ UNCHANGED planVars
    \/ \E names, withDependencies : Plan(names, withDependencies)
    \/ PlanStep

LEMMA Moves ==
  ASSUME [CommandNext]_commandVars
  PROVE  PlanMove
  BY DEF CommandNext, Named, Selecting, Selected, Planning, commandVars, PlanMove

(* The search for components, and what is not part of it.                    *)
Search == Root \/ Descend \/ Meet \/ Leave

LEMMA OtherMoves ==
  ASSUME PlanMove
  PROVE  Search \/ UNCHANGED visits
  BY DEF PlanMove, PlanStep, Search, Plan, Expand, Check, Count, Take, Ordered, Resolve,
         ResolveFails, planVars

(* A prefix of a sequence.                                                   *)
LEMMA Prefix ==
  ASSUME NEW S, NEW seq \in Seq(S), NEW n \in 0 .. Len(seq)
  PROVE  /\ SubSeq(seq, 1, n) \in Seq(S)
         /\ Len(SubSeq(seq, 1, n)) = n
         /\ DOMAIN SubSeq(seq, 1, n) = 1 .. n
         /\ \A i \in 1 .. n : SubSeq(seq, 1, n)[i] = seq[i]
  <1>1. \A i \in 1 .. n : seq[i] \in S
    OBVIOUS
  <1>2. /\ SubSeq(seq, 1, n) \in Seq(S)
        /\ Len(SubSeq(seq, 1, n)) = IF 1 <= n THEN n - 1 + 1 ELSE 0
        /\ \A i \in 1 .. n - 1 + 1 : SubSeq(seq, 1, n)[i] = seq[1 + i - 1]
    BY <1>1, SubSeqProperties
  <1>. QED
    BY <1>2

LEMMA PlanInvInit == CommandInit => PlanInv
  <1>. SUFFICES ASSUME CommandInit PROVE PlanInv
    OBVIOUS
  <1>. USE DEF CommandInit, PlanInit
  <1>1. FreshInv
    BY DEF FreshInv, Early, Ended
  <1>2. Visited = {}
    BY DEF Visited, Empty
  <1>3. VisitInv
    BY <1>2, FS_EmptySet DEF VisitInv, Empty
  <1>4. ComponentInv
    BY <1>2 DEF ComponentInv
  <1>5. QueueInv
    BY DEF QueueInv
  <1>. QED
    BY <1>1, <1>3, <1>4, <1>5 DEF PlanInv

-------------------------------------------------------------------------------
(* The search runs in its phase only, over services that were found valid.   *)
LEMMA FreshStep ==
  ASSUME PlanInv, PlanMove
  PROVE  FreshInv'
  <1>. USE DEF PlanInv, FreshInv, Early, Ended
  <1>1. CASE UNCHANGED planVars
    BY <1>1 DEF planVars, visits, queueVars
  <1>2. CASE \E names, withDependencies : Plan(names, withDependencies)
    BY <1>2 DEF Plan, visits, queueVars
  <1>3. CASE PlanStep
    <2>1. CASE Expand
      BY <2>1 DEF Expand, visits, queueVars
    <2>2. CASE Check
      BY <2>2 DEF Check, visits, queueVars, ValidSelection
    <2>3. CASE Search
      <3>1. phase = "components" /\ UNCHANGED <<phase, selected, groups>>
        BY <2>3 DEF Search, Root, Descend, Meet, Leave, queueVars
      <3>. QED
        BY <3>1
    <2>4. CASE Count
      BY <2>4 DEF Count, visits
    <2>5. CASE Take
      BY <2>5 DEF Take, visits
    <2>6. CASE Ordered
      BY <2>6 DEF Ordered, visits, queueVars
    <2>7. CASE Resolve \/ ResolveFails
      BY <2>7 DEF Resolve, ResolveFails, visits, queueVars
    <2>. QED
      BY <1>3, <2>1, <2>2, <2>3, <2>4, <2>5, <2>6, <2>7 DEF PlanStep, Search
  <1>. QED
    BY <1>1, <1>2, <1>3 DEF PlanMove

(* A service that is entered was not visited, is selected, and the visits    *)
(* around it are of services on the stack.                                   *)
LEMMA EnterVisit ==
  ASSUME VisitInv, NEW s \in Services \ Visited, s \in Range(selected), Enter(s),
         UNCHANGED <<selected, depends>>
  PROVE  VisitInv'
  <1>. DEFINE n == Cardinality(Visited)
  <1>a. /\ IsFiniteSet(Visited) /\ Visited \subseteq Services
        /\ Visited # {} => Visited \subseteq Range(selected)
    BY DEF VisitInv
  <1>b. /\ index \in [Visited -> Nat] /\ low \in [Visited -> Nat]
        /\ left \in [Visited -> SUBSET Range(selected)]
        /\ \A t \in Visited : index[t] < n
    BY DEF VisitInv
  <1>c. stack \in Seq(Visited) /\ calls \in Seq(Visited)
    BY DEF VisitInv
  <1>d. /\ \A i, j \in DOMAIN stack : i < j => index[stack[i]] < index[stack[j]]
        /\ \A i, j \in DOMAIN calls : i < j => index[calls[i]] < index[calls[j]]
        /\ \A i \in DOMAIN calls : \E j \in DOMAIN stack : calls[i] = stack[j]
    BY DEF VisitInv
  <1>e. \A j \in DOMAIN stack :
           index[stack[1]] <= low[stack[j]] /\ low[stack[j]] <= index[stack[j]]
    BY DEF VisitInv
  <1>f. (calls = <<>> => stack = <<>>) /\ (calls # <<>> => calls[1] = stack[1])
    BY DEF VisitInv
  <1>1. /\ index' = [t \in Visited \cup {s} |-> IF t = s THEN n ELSE index[t]]
        /\ low' = [t \in Visited \cup {s} |-> IF t = s THEN n ELSE low[t]]
        /\ left' = [t \in Visited \cup {s} |-> IF t = s THEN Needs(s) ELSE left[t]]
        /\ calls' = Append(calls, s) /\ stack' = Append(stack, s)
    BY <1>b DEF Enter, With, Visited
  <1>2. Visited' = Visited \cup {s}
    BY <1>1 DEF Visited
  <1>3. IsFiniteSet(Visited') /\ n \in Nat /\ Cardinality(Visited') = n + 1
    BY <1>a, <1>2, FS_AddElement, FS_CardinalityType
  <1>4. Visited' \subseteq Services /\ Visited' \subseteq Range(selected)'
    BY <1>2, <1>a
  <1>5. Needs(s) \subseteq Range(selected)
    BY DEF Needs
  <1>6. /\ index' \in [Visited' -> Nat] /\ low' \in [Visited' -> Nat]
        /\ left' \in [Visited' -> SUBSET Range(selected)']
        /\ \A t \in Visited' : index'[t] < Cardinality(Visited')
    BY <1>1, <1>2, <1>3, <1>5, <1>b
  <1>7. /\ stack' \in Seq(Visited') /\ Len(stack') = Len(stack) + 1
        /\ stack'[Len(stack) + 1] = s /\ \A i \in DOMAIN stack : stack'[i] = stack[i]
    BY <1>1, <1>2, <1>c
  <1>8. /\ calls' \in Seq(Visited') /\ Len(calls') = Len(calls) + 1
        /\ calls'[Len(calls) + 1] = s /\ \A i \in DOMAIN calls : calls'[i] = calls[i]
    BY <1>1, <1>2, <1>c
  <1>9. /\ \A i \in DOMAIN stack : stack[i] \in Visited
        /\ \A i \in DOMAIN calls : calls[i] \in Visited
    BY <1>c
  <1>10. \A t \in Visited : index'[t] = index[t] /\ low'[t] = low[t] /\ index[t] < n
    BY <1>1, <1>b
  <1>11. index'[s] = n /\ low'[s] = n
    BY <1>1
  <1>12. /\ DOMAIN stack = 1 .. Len(stack) /\ DOMAIN stack' = 1 .. Len(stack) + 1
         /\ DOMAIN calls = 1 .. Len(calls) /\ DOMAIN calls' = 1 .. Len(calls) + 1
         /\ Len(stack) \in Nat /\ Len(calls) \in Nat
    BY <1>7, <1>8, <1>c
  <1>13. \A i, j \in DOMAIN stack' : i < j => index'[stack'[i]] < index'[stack'[j]]
    <2>. SUFFICES ASSUME NEW i \in DOMAIN stack', NEW j \in DOMAIN stack', i < j
                  PROVE  index'[stack'[i]] < index'[stack'[j]]
      OBVIOUS
    <2>1. i \in DOMAIN stack
      BY <1>12
    <2>2. stack'[i] = stack[i] /\ stack[i] \in Visited
      BY <2>1, <1>7, <1>9
    <2>3. CASE j \in DOMAIN stack
      BY <2>1, <2>2, <2>3, <1>7, <1>9, <1>10, <1>d
    <2>4. CASE j = Len(stack) + 1
      BY <2>2, <2>4, <1>7, <1>10, <1>11
    <2>. QED
      BY <2>3, <2>4, <1>12
  <1>14. \A i, j \in DOMAIN calls' : i < j => index'[calls'[i]] < index'[calls'[j]]
    <2>. SUFFICES ASSUME NEW i \in DOMAIN calls', NEW j \in DOMAIN calls', i < j
                  PROVE  index'[calls'[i]] < index'[calls'[j]]
      OBVIOUS
    <2>1. i \in DOMAIN calls
      BY <1>12
    <2>2. calls'[i] = calls[i] /\ calls[i] \in Visited
      BY <2>1, <1>8, <1>9
    <2>3. CASE j \in DOMAIN calls
      BY <2>1, <2>2, <2>3, <1>8, <1>9, <1>10, <1>d
    <2>4. CASE j = Len(calls) + 1
      BY <2>2, <2>4, <1>8, <1>10, <1>11
    <2>. QED
      BY <2>3, <2>4, <1>12
  <1>15. \A i \in DOMAIN calls' : \E j \in DOMAIN stack' : calls'[i] = stack'[j]
    <2>. SUFFICES ASSUME NEW i \in DOMAIN calls'
                  PROVE  \E j \in DOMAIN stack' : calls'[i] = stack'[j]
      OBVIOUS
    <2>1. CASE i \in DOMAIN calls
      <3>1. PICK j \in DOMAIN stack : calls[i] = stack[j]
        BY <2>1, <1>d
      <3>. QED
        BY <2>1, <3>1, <1>7, <1>8, <1>12
    <2>2. CASE i = Len(calls) + 1
      BY <2>2, <1>7, <1>8, <1>12
    <2>. QED
      BY <2>1, <2>2, <1>12
  <1>16. \A j \in DOMAIN stack' :
            index'[stack'[1]] <= low'[stack'[j]] /\ low'[stack'[j]] <= index'[stack'[j]]
    <2>. SUFFICES ASSUME NEW j \in DOMAIN stack'
                  PROVE  index'[stack'[1]] <= low'[stack'[j]] /\ low'[stack'[j]] <= index'[stack'[j]]
      OBVIOUS
    <2>1. CASE j \in DOMAIN stack
      <3>1. 1 \in DOMAIN stack
        BY <2>1, <1>12
      <3>. QED
        BY <2>1, <3>1, <1>7, <1>9, <1>10, <1>e
    <2>2. CASE j = Len(stack) + 1
      <3>1. CASE Len(stack) = 0
        BY <3>1, <2>2, <1>3, <1>7, <1>11
      <3>2. CASE Len(stack) # 0
        <4>1. 1 \in DOMAIN stack
          BY <3>2, <1>12
        <4>2. index'[stack'[1]] = index[stack[1]] /\ index[stack[1]] < n /\ index[stack[1]] \in Nat
          BY <4>1, <1>7, <1>9, <1>10, <1>b
        <4>. QED
          BY <4>2, <2>2, <1>3, <1>7, <1>11
      <3>. QED
        BY <3>1, <3>2
    <2>. QED
      BY <2>1, <2>2, <1>12
  <1>17. calls' # <<>>
    BY <1>1, <1>c
  <1>18. calls'[1] = stack'[1]
    <2>1. CASE calls = <<>>
      BY <2>1, <1>1, <1>f
    <2>2. CASE calls # <<>>
      <3>1. 1 \in DOMAIN calls
        BY <2>2, <1>c
      <3>2. 1 \in DOMAIN stack
        BY <3>1, <1>d, <1>12
      <3>. QED
        BY <3>1, <3>2, <2>2, <1>7, <1>8, <1>f
    <2>. QED
      BY <2>1, <2>2
  <1>. QED
    BY <1>3, <1>4, <1>6, <1>7, <1>8, <1>13, <1>14, <1>15, <1>16, <1>17, <1>18 DEF VisitInv

(* The innermost visit is of a service on the stack, at one place, and every *)
(* outer one is of a service below it.                                       *)
LEMMA Innermost ==
  ASSUME VisitInv, calls # <<>>
  PROVE  /\ Len(calls) \in Nat \ {0} /\ Last(calls) = calls[Len(calls)] /\ Last(calls) \in Visited
         /\ \E k \in DOMAIN stack :
               /\ stack[k] = Last(calls)
               /\ \A i \in DOMAIN stack : stack[i] = Last(calls) => i = k
               /\ \A i \in 1 .. Len(calls) - 1 : \E j \in 1 .. k - 1 : calls[i] = stack[j]
  <1>1. /\ index \in [Visited -> Nat] /\ stack \in Seq(Visited) /\ calls \in Seq(Visited)
        /\ \A i, j \in DOMAIN stack : i < j => index[stack[i]] < index[stack[j]]
        /\ \A i, j \in DOMAIN calls : i < j => index[calls[i]] < index[calls[j]]
        /\ \A i \in DOMAIN calls : \E j \in DOMAIN stack : calls[i] = stack[j]
    BY DEF VisitInv
  <1>2. /\ DOMAIN stack = 1 .. Len(stack) /\ Len(stack) \in Nat
        /\ DOMAIN calls = 1 .. Len(calls) /\ Len(calls) \in Nat \ {0}
        /\ \A i \in DOMAIN stack : stack[i] \in Visited
        /\ \A i \in DOMAIN calls : calls[i] \in Visited
    BY <1>1
  <1>3. Last(calls) = calls[Len(calls)] /\ Len(calls) \in DOMAIN calls
    BY <1>2 DEF Last
  <1>4. PICK k \in DOMAIN stack : calls[Len(calls)] = stack[k]
    BY <1>1, <1>3
  <1>5. \A i \in DOMAIN stack : stack[i] = stack[k] => i = k
    <2>. SUFFICES ASSUME NEW i \in DOMAIN stack, stack[i] = stack[k], i # k PROVE FALSE
      OBVIOUS
    <2>1. index[stack[k]] \in Nat
      BY <1>1, <1>2
    <2>2. i < k \/ k < i
      BY <1>2
    <2>. QED
      BY <1>1, <2>1, <2>2
  <1>6. \A i \in 1 .. Len(calls) - 1 : \E j \in 1 .. k - 1 : calls[i] = stack[j]
    <2>. SUFFICES ASSUME NEW i \in 1 .. Len(calls) - 1
                  PROVE  \E j \in 1 .. k - 1 : calls[i] = stack[j]
      OBVIOUS
    <2>1. i \in DOMAIN calls /\ i < Len(calls)
      BY <1>2
    <2>2. index[calls[i]] < index[stack[k]] /\ index[calls[i]] \in Nat /\ index[stack[k]] \in Nat
      BY <2>1, <1>1, <1>2, <1>3, <1>4
    <2>3. PICK j \in DOMAIN stack : calls[i] = stack[j]
      BY <2>1, <1>1
    <2>4. ~(k < j) /\ j # k
      BY <2>2, <2>3, <1>1
    <2>5. j \in 1 .. k - 1
      BY <2>4, <1>2
    <2>. QED
      BY <2>3, <2>5
  <1>. QED
    BY <1>2, <1>3, <1>4, <1>5, <1>6

(* A dependency on the stack is not below the bottom of the stack.           *)
LEMMA MeetVisit ==
  ASSUME VisitInv, Meet
  PROVE  VisitInv'
  <1>1. PICK d \in Visited :
           /\ left' = [left EXCEPT ![Last(calls)] = @ \ {d}]
           /\ low' = [low EXCEPT ![Last(calls)] =
                         IF d \in Range(stack) /\ index[d] < @ THEN index[d] ELSE @]
    BY DEF Meet
  <1>2. UNCHANGED <<index, calls, stack, selected>> /\ calls # <<>>
    BY DEF Meet
  <1>. DEFINE s == Last(calls)
  <1>3. s \in Visited
    BY <1>2, Innermost
  <1>4. /\ index \in [Visited -> Nat] /\ low \in [Visited -> Nat] /\ stack \in Seq(Visited)
        /\ left \in [Visited -> SUBSET Range(selected)]
        /\ \A i, j \in DOMAIN stack : i < j => index[stack[i]] < index[stack[j]]
        /\ \A j \in DOMAIN stack :
              index[stack[1]] <= low[stack[j]] /\ low[stack[j]] <= index[stack[j]]
    BY DEF VisitInv
  <1>5. /\ low' \in [Visited -> Nat] /\ left' \in [Visited -> SUBSET Range(selected)]
        /\ \A t \in Visited : t # s => low'[t] = low[t]
        /\ low'[s] = IF d \in Range(stack) /\ index[d] < low[s] THEN index[d] ELSE low[s]
    <2>1. index[d] \in Nat /\ low[s] \in Nat
      BY <1>3, <1>4
    <2>. QED
      BY <1>1, <1>3, <1>4, <2>1
  <1>6. \A j \in DOMAIN stack :
           index[stack[1]] <= low'[stack[j]] /\ low'[stack[j]] <= index[stack[j]]
    <2>. SUFFICES ASSUME NEW j \in DOMAIN stack
                  PROVE  index[stack[1]] <= low'[stack[j]] /\ low'[stack[j]] <= index[stack[j]]
      OBVIOUS
    <2>1. DOMAIN stack = 1 .. Len(stack) /\ Len(stack) \in Nat /\ 1 \in DOMAIN stack
      BY <1>4
    <2>2. stack[j] \in Visited /\ stack[1] \in Visited
      BY <2>1, <1>4
    <2>3. CASE stack[j] # s
      BY <2>2, <2>3, <1>4, <1>5
    <2>4. CASE stack[j] = s
      <3>1. index[stack[1]] \in Nat /\ index[s] \in Nat /\ low[s] \in Nat /\ index[d] \in Nat
        BY <2>2, <1>3, <1>4
      <3>2. CASE d \in Range(stack) /\ index[d] < low[s]
        <4>1. PICK i \in DOMAIN stack : stack[i] = d
          BY <3>2 DEF Range
        <4>2. index[stack[1]] <= index[d]
          <5>1. i = 1 \/ 1 < i
            BY <2>1
          <5>. QED
            BY <5>1, <4>1, <3>1, <2>1, <1>4
        <4>. QED
          BY <4>2, <3>1, <3>2, <2>4, <1>4, <1>5
      <3>3. CASE ~(d \in Range(stack) /\ index[d] < low[s])
        BY <3>3, <2>4, <1>4, <1>5
      <3>. QED
        BY <3>2, <3>3
    <2>. QED
      BY <2>3, <2>4
  <1>. QED
    BY <1>2, <1>5, <1>6 DEF VisitInv, Visited

(* What the end of a visit does to the stacks: the calls lose the last one,  *)
(* Tarjan's stack keeps at least what is below the service that is left, and *)
(* all of it when that service has a way back.                               *)
LEMMA LeaveStacks ==
  ASSUME VisitInv, Leave
  PROVE  \E k \in DOMAIN stack : \E n \in {k - 1, Len(stack)} :
           /\ stack[k] = Last(calls) /\ \A i \in DOMAIN stack : stack[i] = Last(calls) => i = k
           /\ \A i \in 1 .. Len(calls) - 1 : \E j \in 1 .. k - 1 : calls[i] = stack[j]
           /\ low[Last(calls)] = index[Last(calls)] =>
                 n = k - 1 /\ components' = Append(components, {stack[i] : i \in k .. Len(stack)})
           /\ low[Last(calls)] # index[Last(calls)] =>
                 n = Len(stack) /\ components' = components
           /\ stack' \in Seq(Visited) /\ Len(stack') = n /\ DOMAIN stack' = 1 .. n
           /\ \A i \in 1 .. n : stack'[i] = stack[i]
           /\ calls' \in Seq(Visited) /\ Len(calls') = Len(calls) - 1
           /\ DOMAIN calls' = 1 .. Len(calls) - 1
           /\ \A i \in 1 .. Len(calls) - 1 : calls'[i] = calls[i]
  <1>1. stack \in Seq(Visited) /\ calls \in Seq(Visited)
    BY DEF VisitInv
  <1>2. calls # <<>>
    BY DEF Leave
  <1>3. Len(calls) \in Nat \ {0} /\ DOMAIN stack = 1 .. Len(stack) /\ Len(stack) \in Nat
    BY <1>1, <1>2, Innermost
  <1>4. PICK k \in DOMAIN stack :
           /\ stack[k] = Last(calls)
           /\ \A i \in DOMAIN stack : stack[i] = Last(calls) => i = k
           /\ \A i \in 1 .. Len(calls) - 1 : \E j \in 1 .. k - 1 : calls[i] = stack[j]
    BY <1>2, Innermost
  <1>5. (CHOOSE i \in DOMAIN stack : stack[i] = Last(calls)) = k
    BY <1>4
  <1>6. IF low[Last(calls)] # index[Last(calls)] THEN UNCHANGED <<stack, components>>
        ELSE /\ components' = Append(components, {stack[i] : i \in k .. Len(stack)})
             /\ stack' = SubSeq(stack, 1, k - 1)
    BY <1>5 DEF Leave
  <1>7. calls' = SubSeq(calls, 1, Len(calls) - 1)
    BY DEF Leave, Front
  <1>8. /\ calls' \in Seq(Visited) /\ Len(calls') = Len(calls) - 1
        /\ DOMAIN calls' = 1 .. Len(calls) - 1
        /\ \A i \in 1 .. Len(calls) - 1 : calls'[i] = calls[i]
    <2>1. Len(calls) - 1 \in 0 .. Len(calls)
      BY <1>3
    <2>. QED
      BY <1>1, <1>7, <2>1, Prefix
  <1>9. CASE low[Last(calls)] = index[Last(calls)]
    <2>1. k - 1 \in 0 .. Len(stack)
      BY <1>3
    <2>2. stack' = SubSeq(stack, 1, k - 1)
      BY <1>6, <1>9
    <2>3. /\ stack' \in Seq(Visited) /\ Len(stack') = k - 1 /\ DOMAIN stack' = 1 .. k - 1
          /\ \A i \in 1 .. k - 1 : stack'[i] = stack[i]
      BY <1>1, <2>1, <2>2, Prefix
    <2>4. components' = Append(components, {stack[i] : i \in k .. Len(stack)})
      BY <1>6, <1>9
    <2>5. WITNESS k \in DOMAIN stack
    <2>6. WITNESS k - 1 \in {k - 1, Len(stack)}
    <2>. QED
      BY <1>4, <1>8, <1>9, <2>3, <2>4
  <1>10. CASE low[Last(calls)] # index[Last(calls)]
    <2>1. stack' = stack /\ components' = components
      BY <1>6, <1>10
    <2>2. /\ stack' \in Seq(Visited) /\ Len(stack') = Len(stack) /\ DOMAIN stack' = 1 .. Len(stack)
          /\ \A i \in 1 .. Len(stack) : stack'[i] = stack[i]
      BY <1>1, <1>3, <2>1
    <2>5. WITNESS k \in DOMAIN stack
    <2>6. WITNESS Len(stack) \in {k - 1, Len(stack)}
    <2>. QED
      BY <1>4, <1>8, <1>10, <2>1, <2>2
  <1>. QED
    BY <1>9, <1>10

(* The end of the outermost visit empties the stack, the end of an inner one *)
(* hands the link to a caller below.                                         *)
LEMMA LeaveVisit ==
  ASSUME VisitInv, Leave
  PROVE  VisitInv'
  <1>. DEFINE s == Last(calls)
  <1>1. /\ index \in [Visited -> Nat] /\ low \in [Visited -> Nat]
        /\ left \in [Visited -> SUBSET Range(selected)]
        /\ stack \in Seq(Visited) /\ calls \in Seq(Visited)
        /\ \A i, j \in DOMAIN stack : i < j => index[stack[i]] < index[stack[j]]
        /\ \A i, j \in DOMAIN calls : i < j => index[calls[i]] < index[calls[j]]
        /\ \A j \in DOMAIN stack :
              index[stack[1]] <= low[stack[j]] /\ low[stack[j]] <= index[stack[j]]
        /\ calls # <<>> => calls[1] = stack[1]
    BY DEF VisitInv
  <1>2. calls # <<>> /\ UNCHANGED <<index, selected>>
    BY DEF Leave
  <1>b. PICK m \in Nat \ {0} : Len(calls) = m
    BY <1>2, Innermost
  <1>g. PICK z \in Nat : Len(stack) = z
    BY <1>1
  <1>3. s = calls[m] /\ s \in Visited
    BY <1>2, <1>b, Innermost
  <1>4. /\ DOMAIN stack = 1 .. z /\ DOMAIN calls = 1 .. m
        /\ \A i \in DOMAIN stack : stack[i] \in Visited
        /\ \A i \in DOMAIN calls : calls[i] \in Visited
    BY <1>1, <1>b, <1>g
  <1>c. /\ m # 1 => m - 1 \in 1 .. m
        /\ \A i \in 1 .. m - 1 : i \in 1 .. m
        /\ m = 1 \/ 1 \in 1 .. m - 1
    OBVIOUS
  <1>d. \A i \in DOMAIN stack : 1 \in DOMAIN stack
    BY <1>4
  <1>e. \A i \in 1 .. m - 1 : i \in DOMAIN calls /\ calls[i] \in Visited
    BY <1>4, <1>c
  <1>a. PICK k \in DOMAIN stack : \E n \in {k - 1, z} :
           /\ stack[k] = s /\ \A i \in DOMAIN stack : stack[i] = s => i = k
           /\ \A i \in 1 .. m - 1 : \E j \in 1 .. k - 1 : calls[i] = stack[j]
           /\ low[s] = index[s] => n = k - 1
           /\ stack' \in Seq(Visited) /\ Len(stack') = n /\ DOMAIN stack' = 1 .. n
           /\ \A i \in 1 .. n : stack'[i] = stack[i]
           /\ calls' \in Seq(Visited) /\ Len(calls') = m - 1 /\ DOMAIN calls' = 1 .. m - 1
           /\ \A i \in 1 .. m - 1 : calls'[i] = calls[i]
    BY <1>b, <1>g, LeaveStacks
  <1>5. PICK n \in {k - 1, z} :
           /\ stack[k] = s /\ \A i \in DOMAIN stack : stack[i] = s => i = k
           /\ \A i \in 1 .. m - 1 : \E j \in 1 .. k - 1 : calls[i] = stack[j]
           /\ low[s] = index[s] => n = k - 1
           /\ stack' \in Seq(Visited) /\ Len(stack') = n /\ DOMAIN stack' = 1 .. n
           /\ \A i \in 1 .. n : stack'[i] = stack[i]
           /\ calls' \in Seq(Visited) /\ Len(calls') = m - 1 /\ DOMAIN calls' = 1 .. m - 1
           /\ \A i \in 1 .. m - 1 : calls'[i] = calls[i]
    BY <1>a
  <1>6. k - 1 <= n /\ n \in 0 .. z /\ k \in 1 .. z
    BY <1>4
  <1>7. /\ low' \in [Visited -> Nat] /\ left' \in [Visited -> SUBSET Range(selected)]
        /\ \A t \in Visited : low'[t] = low[t] \/ (low'[t] = low[s] /\ low[s] < low[t])
    <2>1. BackFrom(s)
      BY DEF Leave
    <2>2. CASE m = 1
      BY <2>1, <2>2, <1>1, <1>b DEF BackFrom
    <2>3. CASE m # 1
      <3>1. calls[m - 1] \in Visited
        BY <2>3, <1>4, <1>c
      <3>2. /\ low' = [low EXCEPT ![calls[m - 1]] = IF low[s] < @ THEN low[s] ELSE @]
            /\ left' = [left EXCEPT ![calls[m - 1]] = @ \ {s}]
        BY <2>1, <2>3, <1>b DEF BackFrom
      <3>3. low[s] \in Nat
        BY <1>1, <1>3
      <3>. QED
        BY <3>1, <3>2, <3>3, <1>1
    <2>. QED
      BY <2>2, <2>3
  <1>8. Visited' = Visited
    BY <1>2 DEF Visited
  <1>9. \A i, j \in DOMAIN stack' : i < j => index'[stack'[i]] < index'[stack'[j]]
    BY <1>1, <1>2, <1>4, <1>5, <1>6
  <1>10. \A i, j \in DOMAIN calls' : i < j => index'[calls'[i]] < index'[calls'[j]]
    BY <1>1, <1>2, <1>5, <1>e
  <1>11. \A i \in DOMAIN calls' : \E j \in DOMAIN stack' : calls'[i] = stack'[j]
    <2>. SUFFICES ASSUME NEW i \in 1 .. m - 1
                  PROVE  \E j \in DOMAIN stack' : calls'[i] = stack'[j]
      BY <1>5
    <2>1. PICK j \in 1 .. k - 1 : calls[i] = stack[j]
      BY <1>5
    <2>2. j \in 1 .. n
      BY <2>1, <1>6
    <2>. QED
      BY <2>1, <2>2, <1>5
  <1>12. \A j \in DOMAIN stack' :
            index'[stack'[1]] <= low'[stack'[j]] /\ low'[stack'[j]] <= index'[stack'[j]]
    <2>. SUFFICES ASSUME NEW j \in 1 .. n
                  PROVE  index[stack[1]] <= low'[stack[j]] /\ low'[stack[j]] <= index[stack[j]]
      <3>1. \A j \in 1 .. n : 1 \in 1 .. n
        BY <1>6
      <3>. QED
        BY <1>2, <1>5, <3>1
    <2>1. j \in DOMAIN stack /\ 1 \in DOMAIN stack
      BY <1>4, <1>6
    <2>2. /\ stack[j] \in Visited /\ index[stack[j]] \in Nat /\ low[stack[j]] \in Nat
          /\ index[stack[1]] \in Nat /\ low[s] \in Nat
      BY <2>1, <1>1, <1>3, <1>4
    <2>3. /\ index[stack[1]] <= low[stack[j]] /\ low[stack[j]] <= index[stack[j]]
          /\ index[stack[1]] <= low[s]
      BY <2>1, <1>1, <1>5
    <2>. QED
      BY <2>2, <2>3, <1>7
  <1>13. calls' = <<>> => stack' = <<>>
    <2>. SUFFICES ASSUME calls' = <<>> PROVE stack' = <<>>
      OBVIOUS
    <2>1. m = 1
      BY <1>b, <1>5
    <2>a. s = stack[1]
      BY <2>1, <1>1, <1>2, <1>3
    <2>b. 1 \in DOMAIN stack
      BY <1>d
    <2>2. s = stack[1] /\ 1 \in DOMAIN stack
      BY <2>a, <2>b
    <2>3. k = 1
      BY <2>2, <1>5
    <2>4. low[s] = index[s]
      <3>1. low[s] \in Nat /\ index[s] \in Nat
        BY <1>1, <1>3
      <3>. QED
        BY <3>1, <2>2, <1>1
    <2>. QED
      BY <2>3, <2>4, <1>5
  <1>14. calls' # <<>> => calls'[1] = stack'[1]
    <2>. SUFFICES ASSUME calls' # <<>> PROVE calls'[1] = stack'[1]
      OBVIOUS
    <2>1. 1 \in 1 .. m - 1
      BY <1>b, <1>5
    <2>2. PICK j \in 1 .. k - 1 : calls[1] = stack[j]
      BY <2>1, <1>5
    <2>3. 1 \in 1 .. n
      BY <2>2, <1>6
    <2>. QED
      BY <2>1, <2>3, <1>1, <1>2, <1>5
  <1>. QED
    <2>1. /\ IsFiniteSet(Visited) /\ Visited \subseteq Services
          /\ Visited # {} => Visited \subseteq Range(selected)
          /\ \A t \in Visited : index[t] < Cardinality(Visited)
      BY DEF VisitInv
    <2>. QED
      BY <2>1, <1>1, <1>2, <1>5, <1>7, <1>8, <1>9, <1>10, <1>11, <1>12, <1>13, <1>14 DEF VisitInv

LEMMA VisitStep ==
  ASSUME PlanInv, PlanMove
  PROVE  VisitInv'
  <1>1. FreshInv /\ VisitInv
    BY DEF PlanInv
  <1>2. CASE Root
    <2>1. PICK s \in Services : First(s, Range(selected) \ Visited) /\ Enter(s)
      BY <1>2 DEF Root
    <2>2. s \in Range(selected) /\ s \in Services \ Visited
      BY <2>1 DEF First
    <2>3. UNCHANGED <<selected, depends>>
      BY <1>2 DEF Root
    <2>. QED
      BY <1>1, <2>1, <2>2, <2>3, EnterVisit
  <1>3. CASE Descend
    <2>1. PICK d \in Services \ Visited : First(d, left[Last(calls)]) /\ Enter(d)
      BY <1>3 DEF Descend
    <2>2. d \in left[Last(calls)] /\ calls # <<>> /\ UNCHANGED <<selected, depends>>
      BY <1>3, <2>1 DEF First, Descend
    <2>3. Last(calls) \in Visited
      BY <1>1, <2>2, Innermost
    <2>4. d \in Range(selected)
      BY <1>1, <2>2, <2>3 DEF VisitInv
    <2>. QED
      BY <1>1, <2>1, <2>2, <2>4, EnterVisit
  <1>4. CASE Meet \/ Leave
    BY <1>1, <1>4, MeetVisit, LeaveVisit
  <1>5. CASE UNCHANGED visits
    <2>1. UNCHANGED <<index, low, left, calls, stack, components>> /\ Visited' = Visited
      BY <1>5 DEF visits, Visited
    <2>2. CASE UNCHANGED selected
      BY <1>1, <2>1, <2>2 DEF VisitInv
    <2>3. CASE selected' # selected
      <3>1. Early
        BY <2>3 DEF PlanMove, PlanStep, Early, Plan, Expand, Check, Root, Descend, Meet, Leave,
                    Count, Take, Ordered, Resolve, ResolveFails, planVars
      <3>2. Visited = {} /\ left = Empty
        BY <1>1, <3>1 DEF FreshInv, Visited, Empty
      <3>3. left' \in [Visited' -> SUBSET Range(selected)']
        BY <2>1, <3>2 DEF Empty
      <3>. QED
        BY <1>1, <2>1, <3>2, <3>3 DEF VisitInv
    <2>. QED
      BY <2>2, <2>3
  <1>. QED
    BY <1>2, <1>3, <1>4, <1>5, OtherMoves DEF Search

-------------------------------------------------------------------------------
(* A service that is entered goes onto the stack and into no component.      *)
LEMMA EnterComponents ==
  ASSUME VisitInv, ComponentInv, NEW s \in Services \ Visited, Enter(s)
  PROVE  ComponentInv'
  <1>1. stack \in Seq(Visited) /\ index \in [Visited -> Nat]
    BY DEF VisitInv
  <1>2. /\ stack' = Append(stack, s) /\ UNCHANGED components
        /\ index' = [t \in Visited \cup {s} |-> IF t = s THEN Cardinality(Visited) ELSE index[t]]
    BY DEF Enter, With, Visited
  <1>3. Visited' = Visited \cup {s}
    BY <1>2 DEF Visited
  <1>4. /\ components \in Seq(SUBSET Visited)
        /\ \A c \in DOMAIN components : \A i \in DOMAIN stack : stack[i] \notin components[c]
        /\ \A t \in Visited : \/ \E i \in DOMAIN stack : stack[i] = t
                              \/ \E c \in DOMAIN components : t \in components[c]
    BY DEF ComponentInv
  <1>5. /\ DOMAIN stack' = 1 .. Len(stack) + 1 /\ DOMAIN stack = 1 .. Len(stack)
        /\ Len(stack) \in Nat /\ stack'[Len(stack) + 1] = s
        /\ \A i \in DOMAIN stack : stack'[i] = stack[i]
    BY <1>1, <1>2
  <1>6. \A c \in DOMAIN components : components[c] \subseteq Visited
    BY <1>4
  <1>7. components' \in Seq(SUBSET Visited')
    <2>1. SUBSET Visited \subseteq SUBSET Visited'
      BY <1>3
    <2>. QED
      BY <1>2, <1>4, <2>1
  <1>8. \A c \in DOMAIN components : \A i \in DOMAIN stack' : stack'[i] \notin components[c]
    <2>. SUFFICES ASSUME NEW c \in DOMAIN components, NEW i \in DOMAIN stack'
                  PROVE  stack'[i] \notin components[c]
      OBVIOUS
    <2>1. CASE i \in DOMAIN stack
      BY <2>1, <1>4, <1>5
    <2>2. CASE i = Len(stack) + 1
      BY <2>2, <1>5, <1>6
    <2>. QED
      BY <2>1, <2>2, <1>5
  <1>9. \A t \in Visited' : \/ \E i \in DOMAIN stack' : stack'[i] = t
                            \/ \E c \in DOMAIN components : t \in components[c]
    <2>. SUFFICES ASSUME NEW t \in Visited'
                  PROVE  \/ \E i \in DOMAIN stack' : stack'[i] = t
                         \/ \E c \in DOMAIN components : t \in components[c]
      OBVIOUS
    <2>1. CASE t = s
      BY <2>1, <1>5
    <2>2. CASE t \in Visited
      <3>1. \A i \in DOMAIN stack : i \in DOMAIN stack'
        BY <1>5
      <3>. QED
        BY <2>2, <3>1, <1>4, <1>5
    <2>. QED
      BY <2>1, <2>2, <1>3
  <1>. QED
    BY <1>2, <1>7, <1>8, <1>9 DEF ComponentInv

(* What leaves the stack is the new component.                               *)
LEMMA LeaveComponents ==
  ASSUME VisitInv, ComponentInv, Leave
  PROVE  ComponentInv'
  <1>. DEFINE s == Last(calls)
  <1>1. /\ stack \in Seq(Visited)
        /\ index \in [Visited -> Nat]
        /\ \A i, j \in DOMAIN stack : i < j => index[stack[i]] < index[stack[j]]
    BY DEF VisitInv
  <1>2. Visited' = Visited
    BY DEF Leave, Visited
  <1>3. PICK z \in Nat : Len(stack) = z
    BY <1>1
  <1>4. /\ DOMAIN stack = 1 .. z
        /\ \A i \in 1 .. z : stack[i] \in Visited /\ index[stack[i]] \in Nat
    BY <1>1, <1>3
  <1>a. \A x \in DOMAIN stack : \A i \in 1 .. x - 1 :
           i \in 1 .. z /\ \A j \in x .. z : j \in 1 .. z /\ i < j
    <2>1. \A x \in 1 .. z : \A i \in 1 .. x - 1 :
             i \in 1 .. z /\ \A j \in x .. z : j \in 1 .. z /\ i < j
      OBVIOUS
    <2>. QED
      BY <1>4, <2>1
  <1>b. \A x \in DOMAIN stack : \A j \in x .. z : j \in DOMAIN stack
    <2>1. \A x \in 1 .. z : \A j \in x .. z : j \in 1 .. z
      OBVIOUS
    <2>. QED
      BY <1>4, <2>1
  <1>5. PICK k \in DOMAIN stack : \E n \in {k - 1, z} :
           /\ low[s] = index[s] =>
                 n = k - 1 /\ components' = Append(components, {stack[i] : i \in k .. z})
           /\ low[s] # index[s] => n = z /\ components' = components
           /\ DOMAIN stack' = 1 .. n /\ \A i \in 1 .. n : stack'[i] = stack[i]
    BY <1>3, LeaveStacks
  <1>6. k \in 1 .. z
    BY <1>4
  <1>7. /\ components \in Seq(SUBSET Visited)
        /\ \A c \in DOMAIN components : components[c] # {}
        /\ \A c, b \in DOMAIN components : c # b => components[c] \cap components[b] = {}
        /\ \A c \in DOMAIN components : \A i \in DOMAIN stack : stack[i] \notin components[c]
        /\ \A t \in Visited : \/ \E i \in DOMAIN stack : stack[i] = t
                              \/ \E c \in DOMAIN components : t \in components[c]
    BY DEF ComponentInv
  <1>8. CASE low[s] # index[s]
    <2>1. /\ components' = components /\ DOMAIN stack' = 1 .. z
          /\ \A i \in 1 .. z : stack'[i] = stack[i]
      BY <1>5, <1>8
    <2>. QED
      BY <1>2, <1>4, <1>7, <2>1 DEF ComponentInv
  <1>9. CASE low[s] = index[s]
    <2>. DEFINE found == {stack[i] : i \in k .. z}
    <2>1. /\ components' = Append(components, found)
          /\ DOMAIN stack' = 1 .. k - 1 /\ \A i \in 1 .. k - 1 : stack'[i] = stack[i]
      BY <1>5, <1>9
    <2>2. PICK l \in Nat : Len(components) = l
      BY <1>7
    <2>3. found \subseteq Visited /\ found # {}
      BY <1>4, <1>6
    <2>. HIDE DEF found
    <2>4. /\ components' \in Seq(SUBSET Visited) /\ DOMAIN components' = 1 .. l + 1
          /\ DOMAIN components = 1 .. l /\ components'[l + 1] = found
          /\ \A c \in 1 .. l : components'[c] = components[c]
      BY <1>7, <2>1, <2>2, <2>3
    <2>5. \A c \in 1 .. l : components[c] \cap found = {}
      <3>. SUFFICES ASSUME NEW c \in DOMAIN components, NEW j \in k .. z,
                           stack[j] \in components[c]
                    PROVE  FALSE
        BY <2>4 DEF found
      <3>. QED
        BY <1>b, <1>7
    <2>6. \A i \in 1 .. k - 1 : stack[i] \notin found
      <3>. SUFFICES ASSUME NEW i \in 1 .. k - 1, NEW j \in k .. z, stack[i] = stack[j]
                    PROVE  FALSE
        BY DEF found
      <3>1. i \in 1 .. z /\ j \in 1 .. z /\ i < j
        BY <1>a
      <3>. QED
        <4>1. index[stack[i]] < index[stack[j]] /\ index[stack[i]] \in Nat
          BY <3>1, <1>1, <1>4
        <4>. QED
          BY <4>1
    <2>7. \A c \in DOMAIN components' : components'[c] # {}
      BY <1>7, <2>3, <2>4
    <2>8. \A c, b \in DOMAIN components' : c # b => components'[c] \cap components'[b] = {}
      <3>. SUFFICES ASSUME NEW c \in 1 .. l + 1, NEW b \in 1 .. l + 1, c # b
                    PROVE  components'[c] \cap components'[b] = {}
        BY <2>4
      <3>1. (c \in 1 .. l \/ c = l + 1) /\ (b \in 1 .. l \/ b = l + 1)
        OBVIOUS
      <3>. QED
        BY <3>1, <1>7, <2>4, <2>5
    <2>9. \A c \in DOMAIN components' : \A i \in DOMAIN stack' : stack'[i] \notin components'[c]
      <3>. SUFFICES ASSUME NEW c \in 1 .. l + 1, NEW i \in 1 .. k - 1
                    PROVE  stack[i] \notin components'[c]
        BY <2>1, <2>4
      <3>1. (c \in 1 .. l \/ c = l + 1) /\ i \in 1 .. z
        BY <1>a
      <3>. QED
        BY <3>1, <1>4, <1>7, <2>4, <2>6
    <2>10. \A t \in Visited : \/ \E i \in DOMAIN stack' : stack'[i] = t
                              \/ \E c \in DOMAIN components' : t \in components'[c]
      <3>. SUFFICES ASSUME NEW t \in Visited
                    PROVE  \/ \E i \in 1 .. k - 1 : stack[i] = t
                           \/ \E c \in 1 .. l + 1 : t \in components'[c]
        BY <2>1, <2>4
      <3>1. CASE \E c \in DOMAIN components : t \in components[c]
        <4>1. PICK c \in 1 .. l : t \in components[c]
          BY <3>1, <2>4
        <4>2. c \in 1 .. l + 1
          OBVIOUS
        <4>. QED
          BY <4>1, <4>2, <2>4
      <3>2. CASE \E i \in DOMAIN stack : stack[i] = t
        <4>1. PICK i \in 1 .. z : stack[i] = t
          BY <3>2, <1>4
        <4>2. CASE i \in 1 .. k - 1
          BY <4>1, <4>2
        <4>3. CASE i \in k .. z
          <5>1. t \in found
            BY <4>1, <4>3 DEF found
          <5>2. l + 1 \in 1 .. l + 1
            OBVIOUS
          <5>. QED
            BY <5>1, <5>2, <2>4
        <4>. QED
          BY <1>6, <4>2, <4>3
      <3>. QED
        BY <3>1, <3>2, <1>7
    <2>. QED
      BY <1>2, <2>4, <2>7, <2>8, <2>9, <2>10 DEF ComponentInv
  <1>. QED
    BY <1>8, <1>9

LEMMA ComponentStep ==
  ASSUME PlanInv, PlanMove
  PROVE  ComponentInv'
  <1>1. VisitInv /\ ComponentInv
    BY DEF PlanInv
  <1>2. CASE Root
    <2>1. PICK s \in Services : First(s, Range(selected) \ Visited) /\ Enter(s)
      BY <1>2 DEF Root
    <2>2. s \in Services \ Visited
      BY <2>1 DEF First
    <2>. QED
      BY <1>1, <2>1, <2>2, EnterComponents
  <1>3. CASE Descend
    BY <1>1, <1>3, EnterComponents DEF Descend
  <1>4. CASE Meet
    BY <1>1, <1>4 DEF Meet, ComponentInv, Visited
  <1>5. CASE Leave
    BY <1>1, <1>5, LeaveComponents
  <1>6. CASE UNCHANGED visits
    BY <1>1, <1>6 DEF visits, ComponentInv, Visited
  <1>. QED
    BY <1>2, <1>3, <1>4, <1>5, <1>6, OtherMoves DEF Search

-------------------------------------------------------------------------------
LEMMA ComponentsFinite ==
  ASSUME ComponentInv
  PROVE  /\ IsFiniteSet(DOMAIN components)
         /\ \A c : Before(c) \subseteq DOMAIN components \ {c} /\ IsFiniteSet(Before(c))
  <1>1. PICK l \in Nat : DOMAIN components = 1 .. l
    BY DEF ComponentInv
  <1>2. IsFiniteSet(DOMAIN components)
    BY <1>1, FS_Interval
  <1>3. \A c : Before(c) \subseteq DOMAIN components \ {c}
    BY DEF Before
  <1>4. \A c : Before(c) \subseteq DOMAIN components
    BY <1>3
  <1>. QED
    BY <1>2, <1>3, <1>4, FS_Subset

LEMMA CountQueue ==
  ASSUME PlanInv, Count
  PROVE  QueueInv'
  <1>1. FreshInv /\ ComponentInv /\ phase = "components"
    BY DEF PlanInv, Count
  <1>2. groups = <<>> /\ UNCHANGED <<depends, selected, index, components, calls, groups>>
    BY <1>1 DEF FreshInv, Count, visits
  <1>3. Visited' = Visited /\ Range(selected)' = Range(selected) /\ \A c : Before(c)' = Before(c)
    BY <1>2 DEF Visited, Before, Needs
  <1>4. Grouped' = {}
    BY <1>2 DEF Grouped
  <1>5. /\ calls = <<>> /\ Range(selected) \subseteq Visited
        /\ waits' = [c \in DOMAIN components |-> Cardinality(Before(c))]
        /\ ready' = {c \in DOMAIN components : Before(c) = {}}
    BY DEF Count
  <1>6. waits' \in [DOMAIN components -> Nat]
    BY <1>1, <1>5, ComponentsFinite, FS_CardinalityType
  <1>7. \A c \in DOMAIN components : waits'[c] = Cardinality(Before(c) \ {})
    BY <1>5
  <1>. QED
    BY <1>2, <1>3, <1>4, <1>5, <1>6, <1>7 DEF QueueInv

(* The component that is taken has no group yet and waits for none, so those *)
(* that depend on it wait for one less.                                      *)
LEMMA TakeQueue ==
  ASSUME PlanInv, Take
  PROVE  QueueInv'
  <1>1. FreshInv /\ VisitInv /\ ComponentInv
    BY DEF PlanInv
  <1>2. /\ calls = <<>> /\ Range(selected) \subseteq Visited
        /\ waits \in [DOMAIN components -> Nat]
        /\ \A c \in DOMAIN components : waits[c] = Cardinality(Before(c) \ Grouped)
        /\ ready \subseteq DOMAIN components \ Grouped
        /\ \A c \in ready : Before(c) \subseteq Grouped
        /\ groups \in Seq(SUBSET Services)
    BY DEF PlanInv, QueueInv, Take
  <1>3. \A i \in DOMAIN groups : \E c \in DOMAIN components :
           /\ groups[i] = components[c]
           /\ \A b \in Before(c) : \E j \in 1 .. i - 1 : groups[j] = components[b]
    BY DEF PlanInv, QueueInv, Take
  <1>4. PICK c \in ready :
           /\ groups' = Append(groups, components[c])
           /\ waits' = [a \in DOMAIN waits |-> IF a \in After(c) THEN waits[a] - 1 ELSE waits[a]]
           /\ ready' = (ready \ {c}) \cup {a \in After(c) : waits'[a] = 0}
    BY DEF Take
  <1>5. UNCHANGED <<depends, selected, index, components, calls>>
    BY DEF Take, visits
  <1>6. Visited' = Visited /\ Range(selected)' = Range(selected) /\ \A a : Before(a)' = Before(a)
    BY <1>5 DEF Visited, Before, Needs
  <1>7. \A a, b \in DOMAIN components : components[a] = components[b] => a = b
    BY <1>1 DEF ComponentInv
  <1>8. PICK g \in Nat : Len(groups) = g
    BY <1>2
  <1>9. c \in DOMAIN components /\ c \notin Grouped /\ Before(c) \subseteq Grouped
    BY <1>2
  <1>10. components[c] \in SUBSET Services
    BY <1>1, <1>9 DEF ComponentInv, VisitInv
  <1>11. /\ groups' \in Seq(SUBSET Services) /\ DOMAIN groups = 1 .. g /\ DOMAIN groups' = 1 .. g + 1
         /\ groups'[g + 1] = components[c] /\ \A i \in 1 .. g : groups'[i] = groups[i]
    BY <1>2, <1>4, <1>8, <1>10
  <1>12. Grouped' = Grouped \cup {c}
    <2>1. Grouped' = {a \in DOMAIN components : \E i \in 1 .. g + 1 : groups'[i] = components[a]}
      BY <1>5, <1>11 DEF Grouped
    <2>2. Grouped = {a \in DOMAIN components : \E i \in 1 .. g : groups[i] = components[a]}
      BY <1>11 DEF Grouped
    <2>3. \A i \in 1 .. g + 1 : i \in 1 .. g \/ i = g + 1
      OBVIOUS
    <2>4. g + 1 \in 1 .. g + 1 /\ \A i \in 1 .. g : i \in 1 .. g + 1
      OBVIOUS
    <2>. QED
      BY <2>1, <2>2, <2>3, <2>4, <1>7, <1>9, <1>11
  <1>13. \A a \in Grouped : Before(a) \subseteq Grouped
    <2>. SUFFICES ASSUME NEW a \in Grouped, NEW b \in Before(a) PROVE b \in Grouped
      OBVIOUS
    <2>1. PICK i \in 1 .. g : a \in DOMAIN components /\ groups[i] = components[a]
      BY <1>11 DEF Grouped
    <2>2. \E j \in 1 .. i - 1 : groups[j] = components[b]
      BY <2>1, <1>3, <1>7, <1>11
    <2>3. \A j \in 1 .. i - 1 : j \in 1 .. g
      OBVIOUS
    <2>4. b \in DOMAIN components
      BY DEF Before
    <2>. QED
      BY <2>2, <2>3, <2>4, <1>11 DEF Grouped
  <1>14. \A a \in DOMAIN components : /\ waits'[a] \in Nat
                                      /\ waits'[a] = Cardinality(Before(a) \ Grouped')
    <2>. SUFFICES ASSUME NEW a \in DOMAIN components
                  PROVE  waits'[a] \in Nat /\ waits'[a] = Cardinality(Before(a) \ Grouped')
      OBVIOUS
    <2>. DEFINE open == Before(a) \ Grouped
    <2>1. IsFiniteSet(open)
      BY <1>1, ComponentsFinite, FS_Subset
    <2>2. waits[a] = Cardinality(open) /\ waits[a] \in Nat
      BY <1>2
    <2>3. Before(a) \ Grouped' = open \ {c}
      BY <1>12
    <2>4. waits'[a] = IF c \in open THEN waits[a] - 1 ELSE waits[a]
      BY <1>2, <1>4, <1>9 DEF After
    <2>5. IsFiniteSet(open \ {c}) /\ Cardinality(open \ {c}) \in Nat
      BY <2>1, FS_Subset, FS_CardinalityType
    <2>6. CASE c \in open
      <3>1. Cardinality(open \ {c}) = Cardinality(open) - 1
        BY <2>1, <2>6, FS_RemoveElement
      <3>. QED
        BY <3>1, <2>2, <2>3, <2>4, <2>5, <2>6
    <2>7. CASE c \notin open
      <3>1. open \ {c} = open
        BY <2>7
      <3>. QED
        BY <3>1, <2>2, <2>3, <2>4, <2>7
    <2>. QED
      BY <2>6, <2>7
  <1>15. waits' \in [DOMAIN components -> Nat]
    <2>1. DOMAIN waits = DOMAIN components
      BY <1>2
    <2>. QED
      BY <2>1, <1>4, <1>14
  <1>16. \A a \in ready' : /\ a \in DOMAIN components /\ a \notin Grouped'
                           /\ Before(a) \subseteq Grouped'
    <2>. SUFFICES ASSUME NEW a \in ready'
                  PROVE  /\ a \in DOMAIN components /\ a \notin Grouped'
                         /\ Before(a) \subseteq Grouped'
      OBVIOUS
    <2>1. CASE a \in ready \ {c}
      BY <2>1, <1>2, <1>12
    <2>2. CASE a \in After(c) /\ waits'[a] = 0
      <3>1. a \in DOMAIN components /\ c \in Before(a)
        BY <2>2 DEF After
      <3>2. a # c
        BY <3>1 DEF Before
      <3>3. a \notin Grouped
        BY <3>1, <1>9, <1>13
      <3>4. Before(a) \ Grouped' = {}
        <4>1. IsFiniteSet(Before(a) \ Grouped')
          BY <1>1, ComponentsFinite, FS_Subset
        <4>2. Cardinality(Before(a) \ Grouped') = 0
          BY <2>2, <3>1, <1>14
        <4>. QED
          BY <4>1, <4>2, FS_EmptySet
      <3>. QED
        BY <3>1, <3>2, <3>3, <3>4, <1>12
    <2>. QED
      BY <2>1, <2>2, <1>4
  <1>17. \A i \in DOMAIN groups' : \E a \in DOMAIN components :
            /\ groups'[i] = components[a]
            /\ \A b \in Before(a) : \E j \in 1 .. i - 1 : groups'[j] = components[b]
    <2>. SUFFICES ASSUME NEW i \in 1 .. g + 1
                  PROVE  \E a \in DOMAIN components :
                            /\ groups'[i] = components[a]
                            /\ \A b \in Before(a) : \E j \in 1 .. i - 1 : groups'[j] = components[b]
      BY <1>11
    <2>1. CASE i \in 1 .. g
      <3>1. PICK a \in DOMAIN components :
               /\ groups[i] = components[a]
               /\ \A b \in Before(a) : \E j \in 1 .. i - 1 : groups[j] = components[b]
        BY <2>1, <1>3, <1>11
      <3>2. \A j \in 1 .. i - 1 : j \in 1 .. g
        BY <2>1
      <3>. QED
        BY <2>1, <3>1, <3>2, <1>11
    <2>2. CASE i = g + 1
      <3>1. \A b \in Before(c) : \E j \in 1 .. g : groups[j] = components[b]
        BY <1>9, <1>11 DEF Grouped
      <3>2. i - 1 = g
        BY <2>2
      <3>. QED
        BY <2>2, <3>1, <3>2, <1>9, <1>11
    <2>. QED
      BY <2>1, <2>2
  <1>18. \A a \in DOMAIN components' : waits'[a] = Cardinality(Before(a)' \ Grouped')
    BY <1>5, <1>6, <1>14
  <1>19. ready' \subseteq DOMAIN components' \ Grouped'
    BY <1>5, <1>16
  <1>20. \A a \in ready' : Before(a)' \subseteq Grouped'
    BY <1>6, <1>16
  <1>21. \A i \in DOMAIN groups' : \E a \in DOMAIN components' :
            /\ groups'[i] = components'[a]
            /\ \A b \in Before(a)' : \E j \in 1 .. i - 1 : groups'[j] = components'[b]
    BY <1>5, <1>6, <1>17
  <1>22. /\ calls' = <<>> /\ Range(selected)' \subseteq Visited'
         /\ waits' \in [DOMAIN components' -> Nat]
    BY <1>2, <1>5, <1>6, <1>15
  <1>. QED
    BY <1>11, <1>18, <1>19, <1>20, <1>21, <1>22 DEF QueueInv

LEMMA QueueStep ==
  ASSUME PlanInv, PlanMove
  PROVE  QueueInv'
  <1>1. QueueInv
    BY DEF PlanInv
  <1>2. CASE /\ UNCHANGED <<depends, selected, visits, queueVars>>
             /\ phase' = phase \/ phase \in {"order", "resolve"}
    <2>. SUFFICES ASSUME phase' \in {"order", "resolve", "planned", "unordered", "unresolved"}
                  PROVE  QueueInv'
      BY DEF QueueInv
    <2>1. UNCHANGED <<depends, selected, index, components, calls, waits, ready, groups>>
      BY <1>2 DEF visits, queueVars
    <2>2. /\ Visited' = Visited /\ Range(selected)' = Range(selected) /\ Grouped' = Grouped
          /\ \A c : Before(c)' = Before(c)
      BY <2>1 DEF Visited, Before, Needs, Grouped
    <2>3. phase \in {"order", "resolve", "planned", "unordered", "unresolved"}
      BY <1>2
    <2>4. /\ calls = <<>> /\ Range(selected) \subseteq Visited
          /\ waits \in [DOMAIN components -> Nat]
          /\ \A c \in DOMAIN components : waits[c] = Cardinality(Before(c) \ Grouped)
          /\ ready \subseteq DOMAIN components \ Grouped
          /\ \A c \in ready : Before(c) \subseteq Grouped
          /\ groups \in Seq(SUBSET Services)
      BY <1>1, <2>3 DEF QueueInv
    <2>5. \A i \in DOMAIN groups : \E c \in DOMAIN components :
              /\ groups[i] = components[c]
              /\ \A b \in Before(c) : \E j \in 1 .. i - 1 : groups[j] = components[b]
      BY <1>1, <2>3 DEF QueueInv
    <2>6. /\ \A c \in DOMAIN components' : waits'[c] = Cardinality(Before(c)' \ Grouped')
          /\ \A c \in ready' : Before(c)' \subseteq Grouped'
      BY <2>1, <2>2, <2>4
    <2>7. \A i \in DOMAIN groups' : \E c \in DOMAIN components' :
              /\ groups'[i] = components'[c]
              /\ \A b \in Before(c)' : \E j \in 1 .. i - 1 : groups'[j] = components'[b]
      BY <2>1, <2>2, <2>5
    <2>8. /\ calls' = <<>> /\ Range(selected)' \subseteq Visited'
          /\ waits' \in [DOMAIN components' -> Nat]
          /\ ready' \subseteq DOMAIN components' \ Grouped'
          /\ groups' \in Seq(SUBSET Services)
      BY <2>1, <2>2, <2>4
    <2>. QED
      BY <2>6, <2>7, <2>8 DEF QueueInv
  <1>3. CASE phase' \in {"none", "expand", "check", "components", "refused"}
    BY <1>3 DEF QueueInv
  <1>4. CASE Count
    BY <1>4, CountQueue
  <1>5. CASE Take
    BY <1>5, TakeQueue
  <1>6. CASE Search
    <2>1. phase' = "components"
      BY <1>6 DEF Search, Root, Descend, Meet, Leave
    <2>. QED
      BY <2>1, <1>3
  <1>7. CASE Expand \/ Check \/ \E names, withDependencies : Plan(names, withDependencies)
    <2>1. phase' \in {"none", "expand", "check", "components", "refused"}
      BY <1>7 DEF Expand, Check, Plan
    <2>. QED
      BY <2>1, <1>3
  <1>8. CASE Ordered \/ Resolve \/ ResolveFails
    BY <1>2, <1>8 DEF Ordered, Resolve, ResolveFails
  <1>9. CASE UNCHANGED planVars
    BY <1>2, <1>9 DEF planVars
  <1>. QED
    BY <1>4, <1>5, <1>6, <1>7, <1>8, <1>9 DEF PlanMove, PlanStep, Search

-------------------------------------------------------------------------------
(* The search and the queue of a plan keep PlanInv, in every state of the    *)
(* command (internal/dependency/plan.go).                                    *)
THEOREM PlanInvariance == CommandSpec => []PlanInv
  <1>1. PlanInv /\ [CommandNext]_commandVars => PlanInv'
    <2>. SUFFICES ASSUME PlanInv, [CommandNext]_commandVars PROVE PlanInv'
      OBVIOUS
    <2>1. PlanMove
      BY Moves
    <2>2. FreshInv' /\ VisitInv' /\ ComponentInv' /\ QueueInv'
      BY <2>1, FreshStep, VisitStep, ComponentStep, QueueStep
    <2>. QED
      BY <2>2 DEF PlanInv
  <1>. QED
    BY <1>1, PlanInvInit, PTL DEF CommandSpec

LEMMA GroupsInOrder ==
  ASSUME PlanInv
  PROVE  RoutesStartFirst
  <1>1. FreshInv /\ VisitInv /\ ComponentInv /\ QueueInv
    BY DEF PlanInv
  <1>. SUFFICES ASSUME NEW i \in DOMAIN groups, NEW route \in Local, route[1] \in groups[i]
                PROVE  \E j \in 1 .. i : route[2] \in groups[j]
    BY DEF RoutesStartFirst
  <1>2. groups # <<>>
    OBVIOUS
  <1>3. phase \in {"order", "resolve", "planned", "unordered", "unresolved"}
    BY <1>1, <1>2 DEF FreshInv, Early, Ended
  <1>4. /\ calls = <<>> /\ Range(selected) \subseteq Visited
        /\ groups \in Seq(SUBSET Services)
        /\ \E c \in DOMAIN components :
              /\ groups[i] = components[c]
              /\ \A b \in Before(c) : \E j \in 1 .. i - 1 : groups[j] = components[b]
    BY <1>1, <1>3 DEF QueueInv
  <1>5. stack = <<>>
    BY <1>1, <1>4 DEF VisitInv
  <1>6. PICK c \in DOMAIN components :
           /\ groups[i] = components[c]
           /\ \A b \in Before(c) : \E j \in 1 .. i - 1 : groups[j] = components[b]
    BY <1>4
  <1>a. PICK s \in Range(selected) : route \in {s} \X Needs(s)
    BY DEF Local
  <1>7. PICK t \in Needs(s) : route = <<s, t>>
    BY <1>a
  <1>8. t \in Visited
    BY <1>4, <1>7 DEF Needs
  <1>9. PICK b \in DOMAIN components : t \in components[b]
    BY <1>1, <1>5, <1>8 DEF ComponentInv
  <1>10. DOMAIN groups = 1 .. Len(groups) /\ Len(groups) \in Nat
    BY <1>4
  <1>11. i \in 1 .. i /\ \A j \in 1 .. i - 1 : j \in 1 .. i
    BY <1>10
  <1>12. CASE b = c
    BY <1>6, <1>7, <1>9, <1>11, <1>12
  <1>13. CASE b # c
    <2>1. b \in Before(c)
      BY <1>6, <1>7, <1>9, <1>13 DEF Before
    <2>. QED
      BY <2>1, <1>6, <1>7, <1>9, <1>11
  <1>. QED
    BY <1>12, <1>13

(* Whatever the manifest, a group of services never comes before a group     *)
(* that serves one of its dependencies.                                      *)
THEOREM DependenciesFirst == CommandSpec => []RoutesStartFirst
  BY PlanInvariance, GroupsInOrder, PTL

-------------------------------------------------------------------------------
(* The components that the search finds are the dependency cycles.           *)
(*                                                                           *)
(* Of the services on the stack and of those whose visit goes on only the    *)
(* order in which they were visited matters, which index gives.              *)
On == Range(stack)
Visiting == Range(calls)

(* t can be reached from s over the needs of services.                       *)
Reaches(s, t) ==
    /\ t \in Services
    /\ \A closed \in SUBSET Services :
          (s \in closed /\ \A u \in closed : Needs(u) \subseteq closed) => t \in closed

(* The visit of c is the innermost that goes on and was there when t came.   *)
Over(c, t) ==
    /\ c \in Visiting /\ t \in On /\ index[c] <= index[t]
    /\ \A b \in Visiting : index[b] <= index[t] => index[b] <= index[c]

(* A service on the stack reaches those above it, and the one that its link  *)
(* names; ...                                                                *)
StackReaches ==
    /\ \A s, t \in On : index[s] <= index[t] => Reaches(s, t)
    /\ \A s \in On : \E t \in On : index[t] = low[s] /\ Reaches(s, t)

(* ... and the innermost visit around it, the link of which is not above any *)
(* service on the stack that one of the visit's services is known to need.   *)
StackReturns ==
    /\ \A t \in On : \E c \in Visiting : Over(c, t) /\ Reaches(t, c)
    /\ \A c \in Visiting : \A t \in On : \A d \in On :
          Over(c, t) /\ d \in Needs(t) \ left[t] => low[c] <= index[d]

(* What a visit has looked at was visited, and it looks at all before it     *)
(* ends.                                                                     *)
LeftInv ==
    \A t \in Visited : /\ left[t] \subseteq Needs(t)
                       /\ Needs(t) \ left[t] \subseteq Visited
                       /\ t \notin Visiting => left[t] = {}

(* The services of a component reach each other, and need none of a later    *)
(* component.                                                                *)
CyclesInv ==
    \A c \in DOMAIN components : \A s \in components[c] :
        /\ \A t \in components[c] : Reaches(s, t)
        /\ \A d \in Needs(s) : \E b \in 1 .. c : d \in components[b]

SearchInv == StackReaches /\ StackReturns /\ LeftInv /\ CyclesInv

LEMMA ReachSelf ==
  ASSUME NEW s \in Services
  PROVE  Reaches(s, s)
  BY DEF Reaches

LEMMA ReachNeed ==
  ASSUME NEW s \in Services, NEW t \in Needs(s), t \in Services
  PROVE  Reaches(s, t)
  BY DEF Reaches

LEMMA ReachOn ==
  ASSUME NEW s, NEW t, NEW u, Reaches(s, t), Reaches(t, u)
  PROVE  Reaches(s, u)
  BY DEF Reaches

LEMMA ReachSame ==
  ASSUME UNCHANGED <<selected, depends>>
  PROVE  /\ \A s : Needs(s)' = Needs(s)
         /\ \A s, t : Reaches(s, t)' <=> Reaches(s, t)
  BY DEF Reaches, Needs

(* What VisitInv says of the stack and the visits, without the places.       *)
LEMMA StackOrder ==
  ASSUME VisitInv
  PROVE  /\ Visiting \subseteq On /\ On \subseteq Visited /\ Visited \subseteq Services
         /\ \A t \in Visited : index[t] \in Nat /\ low[t] \in Nat
         /\ \A t \in On : low[t] <= index[t]
         /\ \A s, t \in On : index[s] = index[t] => s = t
         /\ calls # <<>> => /\ Last(calls) \in Visiting
                            /\ \A b \in Visiting : index[b] <= index[Last(calls)]
  <1>1. /\ index \in [Visited -> Nat] /\ low \in [Visited -> Nat] /\ Visited \subseteq Services
        /\ stack \in Seq(Visited) /\ calls \in Seq(Visited)
        /\ \A i, j \in DOMAIN stack : i < j => index[stack[i]] < index[stack[j]]
        /\ \A i, j \in DOMAIN calls : i < j => index[calls[i]] < index[calls[j]]
        /\ \A i \in DOMAIN calls : \E j \in DOMAIN stack : calls[i] = stack[j]
        /\ \A j \in DOMAIN stack : low[stack[j]] <= index[stack[j]]
    BY DEF VisitInv
  <1>2. Visiting \subseteq On /\ On \subseteq Visited
    BY <1>1 DEF Visiting, On, Range
  <1>3. \A t \in Visited : index[t] \in Nat /\ low[t] \in Nat
    BY <1>1
  <1>4. \A t \in On : low[t] <= index[t]
    BY <1>1 DEF On, Range
  <1>5. \A s, t \in On : index[s] = index[t] => s = t
    <2>. SUFFICES ASSUME NEW i \in DOMAIN stack, NEW j \in DOMAIN stack,
                         index[stack[i]] = index[stack[j]], i # j
                  PROVE  FALSE
      BY DEF On, Range
    <2>1. i < j \/ j < i
      BY <1>1
    <2>2. index[stack[i]] \in Nat /\ index[stack[j]] \in Nat
      BY <1>1
    <2>. QED
      BY <1>1, <2>1, <2>2
  <1>6. ASSUME calls # <<>>
        PROVE  /\ Last(calls) \in Visiting
               /\ \A b \in Visiting : index[b] <= index[Last(calls)]
    <2>1. PICK m \in Nat \ {0} : Len(calls) = m /\ Last(calls) = calls[m]
      BY <1>6, Innermost
    <2>2. DOMAIN calls = 1 .. m /\ m \in DOMAIN calls /\ \A i \in 1 .. m : i = m \/ i < m
      BY <1>1, <2>1
    <2>3. \A i \in 1 .. m : index[calls[i]] \in Nat
      BY <1>1, <2>2
    <2>4. \A i \in 1 .. m : index[calls[i]] <= index[calls[m]]
      <3>. SUFFICES ASSUME NEW i \in 1 .. m, i < m PROVE index[calls[i]] <= index[calls[m]]
        BY <2>2, <2>3
      <3>1. index[calls[i]] < index[calls[m]]
        BY <1>1, <2>2
      <3>. QED
        BY <3>1, <2>2, <2>3
    <2>5. Visiting = {calls[i] : i \in 1 .. m}
      BY <2>2 DEF Visiting, Range
    <2>. QED
      BY <2>1, <2>2, <2>4, <2>5
  <1>. QED
    BY <1>1, <1>2, <1>3, <1>4, <1>5, <1>6

LEMMA EnterSets ==
  ASSUME VisitInv, NEW s, Enter(s)
  PROVE  /\ On' = On \cup {s} /\ Visiting' = Visiting \cup {s} /\ Visited' = Visited \cup {s}
         /\ UNCHANGED components
         /\ left'[s] = Needs(s)
         /\ s \notin Visited =>
              /\ \A t \in Visited : /\ index'[t] = index[t] /\ index[t] < index'[s]
                                    /\ low'[t] = low[t] /\ left'[t] = left[t]
              /\ low'[s] = index'[s] /\ index'[s] \in Nat
  <1>1. /\ index \in [Visited -> Nat] /\ DOMAIN low = Visited /\ DOMAIN left = Visited
        /\ stack \in Seq(Visited) /\ calls \in Seq(Visited)
        /\ IsFiniteSet(Visited) /\ \A t \in Visited : index[t] < Cardinality(Visited)
    BY DEF VisitInv
  <1>2. /\ index' = [t \in Visited \cup {s} |-> IF t = s THEN Cardinality(Visited) ELSE index[t]]
        /\ low' = [t \in Visited \cup {s} |-> IF t = s THEN Cardinality(Visited) ELSE low[t]]
        /\ left' = [t \in Visited \cup {s} |-> IF t = s THEN Needs(s) ELSE left[t]]
        /\ calls' = Append(calls, s) /\ stack' = Append(stack, s) /\ UNCHANGED components
    BY <1>1 DEF Enter, With, Visited
  <1>3. Cardinality(Visited) \in Nat
    BY <1>1, FS_CardinalityType
  <1>4. ASSUME NEW S, NEW q \in Seq(S)
        PROVE  Range(Append(q, s)) = Range(q) \cup {s}
    <2>1. PICK l \in Nat : Len(q) = l
      OBVIOUS
    <2>2. /\ DOMAIN q = 1 .. l /\ DOMAIN Append(q, s) = 1 .. l + 1
          /\ Append(q, s)[l + 1] = s /\ \A i \in 1 .. l : Append(q, s)[i] = q[i]
      BY <2>1
    <2>3. \A i \in 1 .. l + 1 : i \in 1 .. l \/ i = l + 1
      OBVIOUS
    <2>4. l + 1 \in 1 .. l + 1 /\ \A i \in 1 .. l : i \in 1 .. l + 1
      OBVIOUS
    <2>. QED
      BY <2>2, <2>3, <2>4 DEF Range
  <1>5. On' = On \cup {s} /\ Visiting' = Visiting \cup {s}
    BY <1>1, <1>2, <1>4 DEF On, Visiting
  <1>6. Visited' = Visited \cup {s}
    BY <1>2 DEF Visited
  <1>. QED
    BY <1>2, <1>3, <1>1, <1>5, <1>6

(* The innermost visit that goes on is around all that came after it.        *)
LEMMA InnermostIsOver ==
  ASSUME VisitInv, StackReaches, StackReturns, calls # <<>>, NEW t \in On
  PROVE  /\ Reaches(t, Last(calls))
         /\ index[Last(calls)] <= index[t] => Over(Last(calls), t)
  <1>. DEFINE p == Last(calls)
  <1>1. /\ p \in Visiting /\ Visiting \subseteq On /\ \A b \in Visiting : index[b] <= index[p]
        /\ \A u \in On : index[u] \in Nat
        /\ \A u, v \in On : index[u] = index[v] => u = v
    BY StackOrder
  <1>2. index[p] <= index[t] => Over(p, t)
    BY <1>1 DEF Over
  <1>3. CASE index[t] <= index[p]
    BY <1>1, <1>2, <1>3 DEF StackReaches
  <1>4. CASE index[p] <= index[t]
    <2>1. PICK c \in Visiting : Over(c, t) /\ Reaches(t, c)
      BY DEF StackReturns
    <2>2. index[p] <= index[c] /\ index[c] <= index[p]
      BY <1>1, <1>4, <2>1 DEF Over
    <2>3. c = p
      BY <1>1, <2>2
    <2>. QED
      BY <1>2, <1>4, <2>1, <2>3
  <1>. QED
    BY <1>1, <1>2, <1>3, <1>4

(* A service that is entered is needed by the innermost visit, which all on  *)
(* the stack reach.                                                          *)
LEMMA EnterSearch ==
  ASSUME VisitInv, SearchInv, NEW s \in Services \ Visited, Enter(s),
         UNCHANGED <<selected, depends>>,
         calls = <<>> \/ s \in Needs(Last(calls))
  PROVE  SearchInv'
  <1>. DEFINE p == Last(calls)
  <1>1. /\ Visiting \subseteq On /\ On \subseteq Visited /\ Visited \subseteq Services
        /\ \A t \in On : index[t] \in Nat /\ low[t] \in Nat
    BY StackOrder
  <1>2. /\ On' = On \cup {s} /\ Visiting' = Visiting \cup {s} /\ Visited' = Visited \cup {s}
        /\ UNCHANGED components
        /\ left'[s] = Needs(s) /\ low'[s] = index'[s] /\ index'[s] \in Nat
        /\ \A t \in Visited : /\ index'[t] = index[t] /\ index[t] < index'[s]
                              /\ low'[t] = low[t] /\ left'[t] = left[t]
    BY EnterSets
  <1>3. /\ \A t : Needs(t)' = Needs(t)
        /\ \A t, u : Reaches(t, u)' <=> Reaches(t, u)
    BY ReachSame
  <1>4. Reaches(s, s)
    BY ReachSelf
  <1>5. \A t \in On : Reaches(t, s)
    <2>. SUFFICES ASSUME NEW t \in On PROVE Reaches(t, s)
      OBVIOUS
    <2>1. calls # <<>>
      BY DEF VisitInv, On, Range
    <2>2. Reaches(t, p) /\ p \in Services
      BY <1>1, <2>1, InnermostIsOver, StackOrder DEF SearchInv
    <2>3. Reaches(p, s)
      BY <2>1, <2>2, ReachNeed
    <2>. QED
      BY <2>2, <2>3, ReachOn
  <1>6. \A c \in Visiting, t \in On : Over(c, t)' <=> Over(c, t)
    <2>. SUFFICES ASSUME NEW c \in Visiting, NEW t \in On PROVE Over(c, t)' <=> Over(c, t)
      OBVIOUS
    <2>1. ~(index'[s] <= index'[t])
      BY <1>1, <1>2
    <2>2. \A b \in Visiting' : (index'[b] <= index'[t] => index'[b] <= index'[c]) <=>
                               (b = s \/ (index[b] <= index[t] => index[b] <= index[c]))
      BY <1>1, <1>2, <2>1
    <2>. QED
      BY <1>1, <1>2, <2>2 DEF Over
  <1>7. Over(s, s)'
    BY <1>2 DEF Over
  <1>8. \A t \in On : ~Over(s, t)'
    BY <1>1, <1>2 DEF Over
  <1>9. StackReaches'
    <2>1. \A t, u \in On' : index'[t] <= index'[u] => Reaches(t, u)'
      <3>. SUFFICES ASSUME NEW t \in On', NEW u \in On', index'[t] <= index'[u]
                    PROVE  Reaches(t, u)
        BY <1>3
      <3>1. CASE u = s
        BY <3>1, <1>2, <1>4, <1>5
      <3>2. CASE t \in On /\ u \in On
        BY <3>2, <1>1, <1>2 DEF SearchInv, StackReaches
      <3>3. CASE t = s /\ u \in On
        BY <3>3, <1>1, <1>2
      <3>. QED
        BY <3>1, <3>2, <3>3, <1>2
    <2>2. \A t \in On' : \E u \in On' : index'[u] = low'[t] /\ Reaches(t, u)'
      <3>1. \A t \in On : \E u \in On' : index'[u] = low'[t] /\ Reaches(t, u)
        BY <1>1, <1>2 DEF SearchInv, StackReaches
      <3>. QED
        BY <3>1, <1>2, <1>3, <1>4
    <2>. QED
      BY <2>1, <2>2 DEF StackReaches
  <1>10. StackReturns'
    <2>1. \A t \in On' : \E c \in Visiting' : Over(c, t)' /\ Reaches(t, c)'
      <3>1. \A t \in On : \E c \in Visiting' : Over(c, t)' /\ Reaches(t, c)
        BY <1>2, <1>6 DEF SearchInv, StackReturns
      <3>. QED
        BY <3>1, <1>2, <1>3, <1>4, <1>7
    <2>2. \A c \in Visiting', t \in On', d \in On' :
             Over(c, t)' /\ d \in Needs(t)' \ left'[t] => low'[c] <= index'[d]
      <3>. SUFFICES ASSUME NEW c \in Visiting', NEW t \in On', NEW d \in On',
                           Over(c, t)', d \in Needs(t), d \notin left'[t]
                    PROVE  low'[c] <= index'[d]
        BY <1>3
      <3>1. t # s
        BY <1>2
      <3>2. t \in On /\ c \in Visiting
        BY <3>1, <1>2, <1>8
      <3>3. d \in Needs(t) \ left[t] /\ d \in Visited
        BY <3>2, <1>1, <1>2 DEF SearchInv, LeftInv
      <3>4. d \in On
        BY <3>3, <1>2
      <3>5. low[c] <= index[d]
        BY <3>2, <3>3, <3>4, <1>6 DEF SearchInv, StackReturns
      <3>. QED
        BY <3>2, <3>4, <3>5, <1>1, <1>2
    <2>. QED
      BY <2>1, <2>2 DEF StackReturns
  <1>11. LeftInv'
    <2>1. \A t \in Visited : /\ left'[t] \subseteq Needs(t)
                             /\ Needs(t) \ left'[t] \subseteq Visited'
                             /\ t \notin Visiting' => left'[t] = {}
      BY <1>2 DEF SearchInv, LeftInv
    <2>. QED
      BY <2>1, <1>2, <1>3 DEF LeftInv
  <1>12. CyclesInv'
    BY <1>2, <1>3 DEF SearchInv, CyclesInv
  <1>. QED
    BY <1>9, <1>10, <1>11, <1>12 DEF SearchInv

(* A dependency on the stack may lower the link of the service that needs it.*)
LEMMA MeetSearch ==
  ASSUME VisitInv, SearchInv, Meet
  PROVE  SearchInv'
  <1>. DEFINE s == Last(calls)
  <1>1. PICK d \in Visited :
           /\ d \in left[s]
           /\ left' = [left EXCEPT ![s] = @ \ {d}]
           /\ low' = [low EXCEPT ![s] = IF d \in On /\ index[d] < @ THEN index[d] ELSE @]
    BY DEF Meet, First, On
  <1>2. /\ calls # <<>> /\ UNCHANGED <<selected, depends, index, calls, stack, components>>
    BY DEF Meet
  <1>3. /\ On' = On /\ Visiting' = Visiting /\ Visited' = Visited
        /\ \A c, t : Over(c, t)' <=> Over(c, t)
        /\ \A t : Needs(t)' = Needs(t)
        /\ \A t, u : Reaches(t, u)' <=> Reaches(t, u)
    BY <1>2, ReachSame DEF On, Visiting, Visited, Over
  <1>4. /\ s \in Visiting /\ Visiting \subseteq On /\ On \subseteq Visited /\ Visited \subseteq Services
        /\ \A t \in Visited : index[t] \in Nat /\ low[t] \in Nat
        /\ \A t, u \in On : index[t] = index[u] => t = u
    BY <1>2, StackOrder
  <1>5. s \in On /\ s \in Visited
    BY <1>4
  <1>6. /\ \A t \in Visited : t # s => low'[t] = low[t] /\ left'[t] = left[t]
        /\ left'[s] = left[s] \ {d}
        /\ low'[s] = IF d \in On /\ index[d] < low[s] THEN index[d] ELSE low[s]
    BY <1>1, <1>5 DEF VisitInv
  <1>7. d \in Needs(s) /\ Reaches(s, d)
    <2>1. d \in Needs(s)
      BY <1>1, <1>5 DEF SearchInv, LeftInv
    <2>. QED
      BY <2>1, <1>4, <1>5, ReachNeed
  <1>8. StackReaches'
    <2>1. \A t \in On : \E u \in On : index[u] = low'[t] /\ Reaches(t, u)
      <3>. SUFFICES ASSUME NEW t \in On PROVE \E u \in On : index[u] = low'[t] /\ Reaches(t, u)
        OBVIOUS
      <3>1. PICK u \in On : index[u] = low[t] /\ Reaches(t, u)
        BY DEF SearchInv, StackReaches
      <3>2. CASE low'[t] = low[t]
        BY <3>1, <3>2
      <3>3. CASE t = s /\ d \in On /\ low'[s] = index[d]
        BY <3>3, <1>7
      <3>. QED
        BY <3>2, <3>3, <1>4, <1>6
    <2>2. \A t, u \in On : index[t] <= index[u] => Reaches(t, u)
      BY DEF SearchInv, StackReaches
    <2>. QED
      BY <2>1, <2>2, <1>2, <1>3 DEF StackReaches
  <1>9. StackReturns'
    <2>1. \A t \in On : \E c \in Visiting : Over(c, t) /\ Reaches(t, c)
      BY DEF SearchInv, StackReturns
    <2>2. \A c \in Visiting, t \in On, e \in On :
             Over(c, t) /\ e \in Needs(t) \ left'[t] => low'[c] <= index[e]
      <3>. SUFFICES ASSUME NEW c \in Visiting, NEW t \in On, NEW e \in On,
                           Over(c, t), e \in Needs(t), e \notin left'[t]
                    PROVE  low'[c] <= index[e]
        OBVIOUS
      <3>1. low'[c] <= low[c] /\ c \in Visited /\ e \in Visited /\ t \in Visited
        BY <1>4, <1>6
      <3>2. CASE e \notin left[t]
        <4>1. low[c] <= index[e]
          BY <3>2 DEF SearchInv, StackReturns
        <4>2. low[c] \in Nat /\ low'[c] \in Nat /\ index[e] \in Nat
          BY <3>1, <1>1, <1>4, <1>6
        <4>. QED
          BY <3>1, <4>1, <4>2
      <3>3. CASE e \in left[t]
        <4>1. t = s /\ e = d
          BY <3>1, <3>3, <1>6
        <4>2. c = s
          <5>1. index[c] <= index[s] /\ index[s] <= index[c]
            BY <4>1, <1>4, StackOrder DEF Over
          <5>. QED
            BY <5>1, <1>4
        <4>. QED
          BY <4>1, <4>2, <1>1, <1>4, <1>5, <1>6
      <3>. QED
        BY <3>2, <3>3
    <2>. QED
      BY <2>1, <2>2, <1>2, <1>3 DEF StackReturns
  <1>10. LeftInv'
    <2>1. \A t \in Visited : /\ left'[t] \subseteq Needs(t)
                             /\ Needs(t) \ left'[t] \subseteq Visited
                             /\ t \notin Visiting => left'[t] = {}
      <3>. SUFFICES ASSUME NEW t \in Visited
                    PROVE  /\ left'[t] \subseteq Needs(t) /\ Needs(t) \ left'[t] \subseteq Visited
                           /\ t \notin Visiting => left'[t] = {}
        OBVIOUS
      <3>1. /\ left[t] \subseteq Needs(t) /\ Needs(t) \ left[t] \subseteq Visited
            /\ t \notin Visiting => left[t] = {}
        BY DEF SearchInv, LeftInv
      <3>2. CASE t = s
        BY <3>1, <3>2, <1>1, <1>4, <1>6
      <3>3. CASE t # s
        BY <3>1, <3>3, <1>6
      <3>. QED
        BY <3>2, <3>3
    <2>. QED
      BY <2>1, <1>3 DEF LeftInv
  <1>11. CyclesInv'
    BY <1>2, <1>3 DEF SearchInv, CyclesInv
  <1>. QED
    BY <1>8, <1>9, <1>10, <1>11 DEF SearchInv

(* What the end of a visit does, without the places.                         *)
LEMMA LeaveSets ==
  ASSUME VisitInv, Leave
  PROVE  /\ UNCHANGED <<index, selected, depends>> /\ Visiting' = Visiting \ {Last(calls)}
         /\ low[Last(calls)] = index[Last(calls)] =>
               /\ On' = {t \in On : index[t] < index[Last(calls)]}
               /\ components' = Append(components, {t \in On : index[Last(calls)] <= index[t]})
         /\ low[Last(calls)] # index[Last(calls)] =>
               UNCHANGED <<stack, components>> /\ calls' # <<>>
         /\ calls' # <<>> =>
               /\ Last(calls') \in Visiting /\ index[Last(calls')] < index[Last(calls)]
               /\ \A b \in Visiting' : index[b] <= index[Last(calls')]
               /\ \A t \in Visited : t # Last(calls') => low'[t] = low[t] /\ left'[t] = left[t]
               /\ low'[Last(calls')] = IF low[Last(calls)] < low[Last(calls')]
                                       THEN low[Last(calls)] ELSE low[Last(calls')]
               /\ left'[Last(calls')] = left[Last(calls')] \ {Last(calls)}
         /\ calls' = <<>> => UNCHANGED <<low, left>>
  <1>. DEFINE s == Last(calls)
              p == Last(calls')
  <1>1. /\ index \in [Visited -> Nat] /\ low \in [Visited -> Nat] /\ DOMAIN left = Visited
        /\ stack \in Seq(Visited) /\ calls \in Seq(Visited)
        /\ \A i, j \in DOMAIN stack : i < j => index[stack[i]] < index[stack[j]]
        /\ \A i, j \in DOMAIN calls : i < j => index[calls[i]] < index[calls[j]]
    BY DEF VisitInv
  <1>2. calls # <<>> /\ UNCHANGED <<index, selected, depends>>
    BY DEF Leave
  <1>3. PICK m \in Nat \ {0} : Len(calls) = m
    BY <1>2, Innermost
  <1>4. PICK z \in Nat : Len(stack) = z
    BY <1>1
  <1>5. /\ s = calls[m] /\ DOMAIN calls = 1 .. m /\ DOMAIN stack = 1 .. z
        /\ \A i \in 1 .. m : calls[i] \in Visited /\ index[calls[i]] \in Nat
        /\ \A i \in 1 .. z : stack[i] \in Visited /\ index[stack[i]] \in Nat
    BY <1>1, <1>2, <1>3, <1>4, Innermost
  <1>6. PICK k \in DOMAIN stack : \E n \in {k - 1, z} :
           /\ stack[k] = s
           /\ low[s] = index[s] =>
                 n = k - 1 /\ components' = Append(components, {stack[i] : i \in k .. z})
           /\ low[s] # index[s] => n = z /\ components' = components
           /\ stack' \in Seq(Visited) /\ Len(stack') = n /\ DOMAIN stack' = 1 .. n
           /\ \A i \in 1 .. n : stack'[i] = stack[i]
           /\ calls' \in Seq(Visited) /\ Len(calls') = m - 1 /\ DOMAIN calls' = 1 .. m - 1
           /\ \A i \in 1 .. m - 1 : calls'[i] = calls[i]
    BY <1>3, <1>4, LeaveStacks
  <1>7. PICK n \in {k - 1, z} :
           /\ low[s] = index[s] =>
                 n = k - 1 /\ components' = Append(components, {stack[i] : i \in k .. z})
           /\ low[s] # index[s] => n = z /\ components' = components
           /\ stack' \in Seq(Visited) /\ Len(stack') = n /\ DOMAIN stack' = 1 .. n
           /\ \A i \in 1 .. n : stack'[i] = stack[i]
    BY <1>6
  <1>8. /\ calls' \in Seq(Visited) /\ Len(calls') = m - 1 /\ DOMAIN calls' = 1 .. m - 1
        /\ \A i \in 1 .. m - 1 : calls'[i] = calls[i]
    BY <1>6
  <1>9. /\ Visiting = {calls[i] : i \in 1 .. m} /\ Visiting' = {calls[i] : i \in 1 .. m - 1}
        /\ On = {stack[i] : i \in 1 .. z}
    BY <1>5, <1>8 DEF Visiting, On, Range
  <1>10. \A i \in 1 .. m - 1 : i \in 1 .. m /\ i < m
    OBVIOUS
  <1>11. \A i \in 1 .. m - 1 : index[calls[i]] < index[s] /\ calls[i] # s
    <2>. SUFFICES ASSUME NEW i \in 1 .. m - 1
                  PROVE  index[calls[i]] < index[s] /\ calls[i] # s
      OBVIOUS
    <2>1. m \in DOMAIN calls /\ i \in DOMAIN calls /\ i < m /\ index[s] \in Nat
      BY <1>5, <1>10
    <2>2. index[calls[i]] < index[calls[m]]
      BY <2>1, <1>1
    <2>. QED
      BY <2>1, <2>2, <1>5
  <1>12. Visiting' = Visiting \ {s}
    <2>1. \A i \in 1 .. m : i = m \/ i \in 1 .. m - 1
      OBVIOUS
    <2>. QED
      BY <2>1, <1>5, <1>9, <1>10, <1>11
  <1>13. /\ \A i \in 1 .. k - 1 : i \in 1 .. z /\ index[stack[i]] < index[s]
         /\ \A i \in k .. z : i \in 1 .. z /\ index[s] <= index[stack[i]]
    <2>1. k \in 1 .. z /\ index[stack[k]] \in Nat
      BY <1>5
    <2>2. \A i \in 1 .. k - 1 : i \in 1 .. z /\ i < k
      BY <2>1
    <2>3. \A i \in k .. z : i \in 1 .. z /\ (i = k \/ k < i)
      BY <2>1
    <2>4. \A i \in k .. z : index[s] <= index[stack[i]]
      <3>. SUFFICES ASSUME NEW i \in k .. z, k < i PROVE index[s] <= index[stack[i]]
        BY <2>1, <2>3, <1>6
      <3>1. index[stack[k]] < index[stack[i]]
        BY <2>1, <2>3, <1>1, <1>5
      <3>. QED
        BY <3>1, <2>1, <2>3, <1>5, <1>6
    <2>. QED
      BY <2>1, <2>2, <2>3, <2>4, <1>1, <1>5, <1>6
  <1>14. ASSUME low[s] = index[s]
         PROVE  /\ On' = {t \in On : index[t] < index[s]}
                /\ components' = Append(components, {t \in On : index[s] <= index[t]})
    <2>1. \A i \in 1 .. z : i \in 1 .. k - 1 \/ i \in k .. z
      BY <1>5
    <2>2. index[s] \in Nat
      BY <1>5
    <2>3. {stack[i] : i \in k .. z} = {t \in On : index[s] <= index[t]}
      BY <2>1, <2>2, <1>5, <1>9, <1>13
    <2>4. On' = {stack[i] : i \in 1 .. k - 1}
      BY <1>7, <1>14 DEF On, Range
    <2>5. On' = {t \in On : index[t] < index[s]}
      BY <2>1, <2>2, <2>4, <1>5, <1>9, <1>13
    <2>. QED
      BY <2>3, <2>5, <1>7, <1>14
  <1>15. ASSUME low[s] # index[s] PROVE UNCHANGED <<stack, components>> /\ calls' # <<>>
    <2>1. UNCHANGED stack
      BY <1>15 DEF Leave
    <2>2. m # 1
      <3>. SUFFICES ASSUME m = 1 PROVE FALSE
        OBVIOUS
      <3>1. calls' = <<>>
        BY <1>8
      <3>2. stack' = <<>>
        BY <3>1, LeaveVisit DEF VisitInv
      <3>. QED
        BY <3>2, <2>1, <1>6
    <2>. QED
      BY <2>1, <2>2, <1>7, <1>8, <1>15
  <1>16. BackFrom(s)
    BY DEF Leave
  <1>17. ASSUME calls' # <<>>
         PROVE  /\ p \in Visiting /\ index[p] < index[s]
                /\ \A b \in Visiting' : index[b] <= index[p]
                /\ \A t \in Visited : t # p => low'[t] = low[t] /\ left'[t] = left[t]
                /\ low'[p] = IF low[s] < low[p] THEN low[s] ELSE low[p]
                /\ left'[p] = left[p] \ {s}
    <2>1. m # 1 /\ m - 1 \in 1 .. m - 1
      BY <1>8, <1>17
    <2>2. p = calls[m - 1]
      BY <2>1, <1>8, <1>17 DEF Last
    <2>3. p \in Visiting /\ p \in Visited /\ index[p] < index[s]
      BY <2>1, <2>2, <1>5, <1>9, <1>10, <1>11
    <2>4. \A i \in 1 .. m - 1 : index[calls[i]] <= index[calls[m - 1]]
      <3>1. \A i \in 1 .. m - 1 : i = m - 1 \/ i < m - 1
        OBVIOUS
      <3>. SUFFICES ASSUME NEW i \in 1 .. m - 1, i < m - 1
                    PROVE  index[calls[i]] <= index[calls[m - 1]]
        BY <3>1, <2>1, <1>5, <1>10
      <3>2. index[calls[i]] < index[calls[m - 1]]
        BY <2>1, <1>1, <1>5, <1>10
      <3>. QED
        BY <3>2, <2>1, <1>5, <1>10
    <2>5. /\ low' = [low EXCEPT ![p] = IF low[s] < @ THEN low[s] ELSE @]
          /\ left' = [left EXCEPT ![p] = @ \ {s}]
      BY <2>1, <2>2, <1>3, <1>16 DEF BackFrom
    <2>. QED
      BY <2>2, <2>3, <2>4, <2>5, <1>1, <1>9
  <1>18. calls' = <<>> => UNCHANGED <<low, left>>
    BY <1>3, <1>8, <1>16 DEF BackFrom
  <1>. QED
    BY <1>2, <1>12, <1>14, <1>15, <1>17, <1>18

(* What a leave keeps of the left dependencies.                              *)
LEMMA LeaveLeft ==
  ASSUME VisitInv, SearchInv, Leave
  PROVE  /\ LeftInv'
         /\ \A t \in Visited : \A d \in Needs(t) \ left'[t] :
               d \in Needs(t) \ left[t] \/ (d = Last(calls) /\ calls' # <<>> /\ t = Last(calls'))
  <1>. DEFINE s == Last(calls)
              p == Last(calls')
  <1>1. /\ UNCHANGED <<index, selected, depends>> /\ Visiting' = Visiting \ {s}
        /\ calls' # <<>> =>
             /\ p \in Visiting /\ index[p] < index[s]
             /\ \A t \in Visited : t # p => left'[t] = left[t]
             /\ left'[p] = left[p] \ {s}
        /\ calls' = <<>> => UNCHANGED left
    BY LeaveSets
  <1>2. left[s] = {} /\ s \in Visited
    BY StackOrder DEF Leave
  <1>3. \A t : Needs(t)' = Needs(t)
    BY <1>1, ReachSame
  <1>4. Visited' = Visited
    BY <1>1 DEF Visited
  <1>5. \A t \in Visited : /\ left[t] \subseteq Needs(t) /\ Needs(t) \ left[t] \subseteq Visited
                           /\ t \notin Visiting => left[t] = {}
    BY DEF SearchInv, LeftInv
  <1>6. \A t \in Visited : left'[t] = left[t] \/ (calls' # <<>> /\ t = p /\ left'[t] = left[t] \ {s})
    BY <1>1
  <1>7. \A t \in Visited : /\ left'[t] \subseteq Needs(t) /\ Needs(t) \ left'[t] \subseteq Visited
                           /\ t \notin Visiting' => left'[t] = {}
    BY <1>1, <1>2, <1>5, <1>6
  <1>8. LeftInv'
    BY <1>3, <1>4, <1>7 DEF LeftInv
  <1>. QED
    BY <1>6, <1>8

(* The services from s on up reach each other, and what they need is among   *)
(* them or in a component found before.                                      *)
LEMMA LeaveFound ==
  ASSUME VisitInv, ComponentInv, SearchInv, Leave,
         low[Last(calls)] = index[Last(calls)]
  PROVE  SearchInv'
  <1>. DEFINE s == Last(calls)
              found == {t \in On : index[s] <= index[t]}
  <1>1. /\ UNCHANGED <<index, selected, depends>> /\ Visiting' = Visiting \ {s}
        /\ On' = {t \in On : index[t] < index[s]}
        /\ components' = Append(components, found)
    BY LeaveSets
  <1>2. /\ s \in Visiting /\ Visiting \subseteq On /\ On \subseteq Visited /\ Visited \subseteq Services
        /\ \A t \in Visited : index[t] \in Nat /\ low[t] \in Nat
        /\ \A t \in On : low[t] <= index[t]
        /\ \A t, u \in On : index[t] = index[u] => t = u
        /\ \A b \in Visiting : index[b] <= index[s]
    BY StackOrder DEF Leave
  <1>3. \A t \in Visited : low'[t] = low[t]
    <2>1. CASE calls' = <<>>
      BY <2>1, LeaveSets
    <2>. DEFINE p == Last(calls')
    <2>2. CASE calls' # <<>>
      <3>1. /\ p \in Visiting /\ index[p] < index[s]
            /\ \A t \in Visited : t # p => low'[t] = low[t]
            /\ low'[p] = IF low[s] < low[p] THEN low[s] ELSE low[p]
        BY <2>2, LeaveSets
      <3>2. ~(low[s] < low[p])
        BY <3>1, <1>2
      <3>. QED
        BY <3>1, <3>2
    <2>. QED
      BY <2>1, <2>2
  <1>4. /\ \A t : Needs(t)' = Needs(t)
        /\ \A t, u : Reaches(t, u)' <=> Reaches(t, u)
    BY <1>1, ReachSame
  <1>5. \A t \in found : Over(s, t) /\ Reaches(t, s) /\ Reaches(s, t)
    BY <1>2, InnermostIsOver DEF SearchInv, StackReaches, Leave
  <1>6. \A c \in Visiting', t \in On' : Over(c, t)' <=> Over(c, t)
    BY <1>1, <1>2 DEF Over
  <1>7. \A c, t : Over(c, t)' => c \in Visiting' /\ t \in On'
    BY DEF Over
  <1>8. StackReaches'
    <2>1. \A t, u \in On' : index[t] <= index[u] => Reaches(t, u)
      BY <1>1 DEF SearchInv, StackReaches
    <2>2. \A t \in On' : \E u \in On' : index[u] = low'[t] /\ Reaches(t, u)
      <3>. SUFFICES ASSUME NEW t \in On' PROVE \E u \in On' : index[u] = low'[t] /\ Reaches(t, u)
        OBVIOUS
      <3>1. PICK u \in On : index[u] = low[t] /\ Reaches(t, u)
        BY <1>1 DEF SearchInv, StackReaches
      <3>2. t \in Visited /\ index[t] < index[s] /\ low[t] <= index[t] /\ s \in Visited
        BY <1>1, <1>2
      <3>3. index[u] < index[s]
        BY <3>1, <3>2, <1>2
      <3>. QED
        BY <3>1, <3>2, <3>3, <1>1, <1>3
    <2>. QED
      BY <2>1, <2>2, <1>1, <1>4 DEF StackReaches
  <1>9. StackReturns'
    <2>1. \A t \in On' : \E c \in Visiting' : Over(c, t)' /\ Reaches(t, c)'
      <3>. SUFFICES ASSUME NEW t \in On' PROVE \E c \in Visiting' : Over(c, t)' /\ Reaches(t, c)
        BY <1>4
      <3>1. PICK c \in Visiting : Over(c, t) /\ Reaches(t, c)
        BY <1>1 DEF SearchInv, StackReturns
      <3>2. c # s
        BY <3>1, <1>1, <1>2 DEF Over
      <3>. QED
        BY <3>1, <3>2, <1>1, <1>6
    <2>2. \A c \in Visiting', t \in On', d \in On' :
             Over(c, t)' /\ d \in Needs(t)' \ left'[t] => low'[c] <= index'[d]
      <3>. SUFFICES ASSUME NEW c \in Visiting', NEW t \in On', NEW d \in On',
                           Over(c, t)', d \in Needs(t) \ left'[t]
                    PROVE  low[c] <= index[d]
        BY <1>1, <1>2, <1>3, <1>4
      <3>1. d # s
        BY <1>1, <1>2
      <3>2. d \in Needs(t) \ left[t]
        BY <3>1, <1>1, <1>2, LeaveLeft
      <3>. QED
        BY <3>2, <1>1, <1>6 DEF SearchInv, StackReturns
    <2>. QED
      BY <2>1, <2>2 DEF StackReturns
  <1>10. CyclesInv'
    <2>1. PICK l \in Nat : Len(components) = l
      BY DEF ComponentInv
    <2>2. found \subseteq Visited
      BY <1>2
    <2>. HIDE DEF found
    <2>3. /\ DOMAIN components = 1 .. l /\ DOMAIN components' = 1 .. l + 1
          /\ components'[l + 1] = found
          /\ \A c \in 1 .. l : components'[c] = components[c]
      BY <1>1, <2>1, <2>2 DEF ComponentInv
    <2>4. /\ \A c \in 1 .. l + 1 : c \in 1 .. l \/ c = l + 1
          /\ \A c \in 1 .. l : \A b \in 1 .. c : b \in 1 .. l
          /\ l + 1 \in 1 .. l + 1 /\ \A c \in 1 .. l : c \in 1 .. l + 1
      OBVIOUS
    <2>5. \A c \in 1 .. l : \A t \in components'[c] :
             /\ \A u \in components'[c] : Reaches(t, u)
             /\ \A d \in Needs(t) : \E b \in 1 .. c : d \in components'[b]
      <3>. SUFFICES ASSUME NEW c \in 1 .. l, NEW t \in components[c]
                    PROVE  /\ \A u \in components[c] : Reaches(t, u)
                           /\ \A d \in Needs(t) : \E b \in 1 .. c : d \in components'[b]
        BY <2>3
      <3>1. /\ \A u \in components[c] : Reaches(t, u)
            /\ \A d \in Needs(t) : \E b \in 1 .. c : d \in components[b]
        BY <2>3 DEF SearchInv, CyclesInv
      <3>. QED
        BY <3>1, <2>3, <2>4
    <2>6. \A t, u \in found : Reaches(t, u)
      BY <1>5, ReachOn
    <2>7. \A t \in found : \A d \in Needs(t) : \E b \in 1 .. l + 1 : d \in components'[b]
      <3>. SUFFICES ASSUME NEW t \in found, NEW d \in Needs(t)
                    PROVE  \E b \in 1 .. l + 1 : d \in components'[b]
        OBVIOUS
      <3>1. t \in On /\ index[s] <= index[t] /\ t \in Visited /\ s \in On
        BY <1>2 DEF found
      <3>2. left[t] = {}
        <4>1. CASE t = s
          BY <4>1 DEF Leave
        <4>2. CASE t # s
          <5>1. t \notin Visiting
            BY <4>2, <3>1, <1>2
          <5>. QED
            BY <5>1, <3>1 DEF SearchInv, LeftInv
        <4>. QED
          BY <4>1, <4>2
      <3>3. d \in Visited
        BY <3>1, <3>2 DEF SearchInv, LeftInv
      <3>4. CASE d \in On
        <4>1. low[s] <= index[d]
          BY <3>2, <3>4, <3>1, <1>2, <1>5 DEF SearchInv, StackReturns
        <4>2. d \in found
          BY <3>4, <4>1 DEF found
        <4>. QED
          BY <4>2, <2>3, <2>4
      <3>5. CASE d \notin On
        <4>1. PICK c \in 1 .. l : d \in components[c]
          BY <3>3, <3>5, <2>3 DEF ComponentInv, On, Range
        <4>. QED
          BY <4>1, <2>3, <2>4
      <3>. QED
        BY <3>4, <3>5
    <2>8. \A c \in 1 .. l + 1 : \A t \in components'[c] :
             /\ \A u \in components'[c] : Reaches(t, u)
             /\ \A d \in Needs(t) : \E b \in 1 .. c : d \in components'[b]
      BY <2>3, <2>4, <2>5, <2>6, <2>7
    <2>. QED
      BY <2>3, <2>8, <1>4 DEF CyclesInv
  <1>. QED
    BY <1>8, <1>9, <1>10, LeaveLeft DEF SearchInv

(* With a way back beyond s, what s was around is now around by its caller.  *)
LEMMA LeaveBack ==
  ASSUME VisitInv, SearchInv, Leave, low[Last(calls)] # index[Last(calls)]
  PROVE  SearchInv'
  <1>. DEFINE s == Last(calls)
  <1>0. PICK p \in Visiting : p = Last(calls')
    BY LeaveSets
  <1>1. /\ UNCHANGED <<index, selected, depends, stack, components>>
        /\ Visiting' = Visiting \ {s} /\ On' = On /\ Visited' = Visited
        /\ p \in Visiting /\ index[p] < index[s] /\ \A b \in Visiting' : index[b] <= index[p]
        /\ \A t \in Visited : t # p => low'[t] = low[t]
        /\ low'[p] = IF low[s] < low[p] THEN low[s] ELSE low[p]
    BY <1>0, LeaveSets DEF On, Visited
  <1>2. /\ s \in Visiting /\ Visiting \subseteq On /\ On \subseteq Visited /\ Visited \subseteq Services
        /\ \A t \in Visited : index[t] \in Nat /\ low[t] \in Nat
        /\ \A t \in On : low[t] <= index[t]
        /\ \A t, u \in On : index[t] = index[u] => t = u
        /\ \A b \in Visiting : index[b] <= index[s]
    BY StackOrder DEF Leave
  <1>3. /\ \A t : Needs(t)' = Needs(t)
        /\ \A t, u : Reaches(t, u)' <=> Reaches(t, u)
    BY <1>1, ReachSame
  <1>4. /\ p \in Visiting' /\ p \in On /\ s \in On /\ p \in Visited /\ s \in Visited
        /\ index[p] \in Nat /\ index[s] \in Nat /\ low[s] \in Nat /\ low[p] \in Nat
    BY <1>1, <1>2
  <1>5. Reaches(p, s)
    BY <1>1, <1>4 DEF SearchInv, StackReaches
  <1>6. Reaches(s, p)
    <2>1. PICK u \in On : index[u] = low[s] /\ Reaches(s, u)
      BY <1>4 DEF SearchInv, StackReaches
    <2>2. index[u] < index[s]
      BY <2>1, <1>2, <1>4
    <2>3. PICK c \in Visiting : Over(c, u) /\ Reaches(u, c)
      BY DEF SearchInv, StackReturns
    <2>4. c # s /\ c \in On /\ index[c] <= index[u]
      BY <2>2, <2>3, <1>2, <1>4 DEF Over
    <2>5. Reaches(c, p)
      BY <2>3, <2>4, <1>1, <1>4 DEF SearchInv, StackReaches
    <2>. QED
      BY <2>1, <2>3, <2>5, ReachOn
  <1>7. \A t \in On : index[s] <= index[t] => Over(s, t) /\ Reaches(t, p) /\ Over(p, t)'
    <2>. SUFFICES ASSUME NEW t \in On, index[s] <= index[t]
                  PROVE  Over(s, t) /\ Reaches(t, p) /\ Over(p, t)'
      OBVIOUS
    <2>1. Over(s, t) /\ Reaches(t, s)
      BY <1>2, InnermostIsOver DEF SearchInv, Leave
    <2>2. index[p] <= index[t]
      BY <1>1, <1>2, <1>4
    <2>. QED
      BY <2>1, <2>2, <1>1, <1>4, <1>6, ReachOn DEF Over
  <1>8. \A c \in Visiting', t \in On : ~(index[s] <= index[t]) => (Over(c, t)' <=> Over(c, t))
    BY <1>1 DEF Over
  <1>9. StackReaches'
    <2>1. \A t \in On : \E u \in On : index[u] = low'[t] /\ Reaches(t, u)
      <3>. SUFFICES ASSUME NEW t \in On PROVE \E u \in On : index[u] = low'[t] /\ Reaches(t, u)
        OBVIOUS
      <3>1. PICK u \in On : index[u] = low[t] /\ Reaches(t, u)
        BY DEF SearchInv, StackReaches
      <3>2. CASE low'[t] = low[t]
        BY <3>1, <3>2
      <3>3. CASE t = p /\ low'[p] = low[s]
        <4>1. PICK v \in On : index[v] = low[s] /\ Reaches(s, v)
          BY <1>4 DEF SearchInv, StackReaches
        <4>. QED
          BY <4>1, <3>3, <1>5, ReachOn
      <3>. QED
        BY <3>2, <3>3, <1>1, <1>2
    <2>2. \A t, u \in On : index[t] <= index[u] => Reaches(t, u)
      BY DEF SearchInv, StackReaches
    <2>. QED
      BY <2>1, <2>2, <1>1, <1>3 DEF StackReaches
  <1>10. StackReturns'
    <2>1. \A t \in On : \E c \in Visiting' : Over(c, t)' /\ Reaches(t, c)
      <3>. SUFFICES ASSUME NEW t \in On PROVE \E c \in Visiting' : Over(c, t)' /\ Reaches(t, c)
        OBVIOUS
      <3>1. CASE index[s] <= index[t]
        BY <3>1, <1>4, <1>7
      <3>2. CASE ~(index[s] <= index[t])
        <4>1. PICK c \in Visiting : Over(c, t) /\ Reaches(t, c)
          BY DEF SearchInv, StackReturns
        <4>2. c # s
          BY <4>1, <3>2 DEF Over
        <4>. QED
          BY <4>1, <4>2, <3>2, <1>1, <1>8
      <3>. QED
        BY <3>1, <3>2
    <2>2. \A c \in Visiting', t \in On, d \in On :
             Over(c, t)' /\ d \in Needs(t) \ left'[t] => low'[c] <= index[d]
      <3>. SUFFICES ASSUME NEW c \in Visiting', NEW t \in On, NEW d \in On,
                           Over(c, t)', d \in Needs(t) \ left'[t]
                    PROVE  low'[c] <= index[d]
        OBVIOUS
      <3>1. d \in Needs(t) \ left[t] \/ (d = s /\ t = p)
        BY <1>0, <1>2, LeaveLeft
      <3>2. /\ c \in Visited /\ c \in On /\ c \in Visiting /\ low'[c] <= low[c] /\ low'[c] \in Nat
            /\ low[c] \in Nat /\ index[c] \in Nat /\ index[d] \in Nat
            /\ low'[p] <= low[s] /\ low'[p] \in Nat
        BY <1>1, <1>2, <1>4
      <3>3. CASE index[s] <= index[t]
        <4>1. Over(s, t) /\ Over(p, t)' /\ t # p
          BY <3>3, <1>1, <1>4, <1>7
        <4>2. index[c] <= index[p] /\ index[p] <= index[c]
          BY <4>1, <1>1, <1>4 DEF Over
        <4>3. c = p
          BY <4>2, <3>2, <1>2, <1>4
        <4>4. low[s] <= index[d]
          BY <4>1, <3>1, <1>2 DEF SearchInv, StackReturns
        <4>. QED
          BY <4>3, <4>4, <3>2, <1>4
      <3>4. CASE ~(index[s] <= index[t]) /\ d \in Needs(t) \ left[t]
        <4>1. low[c] <= index[d]
          BY <3>2, <3>4, <1>8 DEF SearchInv, StackReturns
        <4>. QED
          BY <4>1, <3>2
      <3>5. CASE d = s /\ t = p
        <4>1. index[p] <= index[c] /\ index[c] <= index[p]
          BY <3>5, <1>1, <1>4 DEF Over
        <4>2. c = p
          BY <4>1, <3>2, <1>2, <1>4
        <4>3. low[s] <= index[s]
          BY <1>2, <1>4
        <4>. QED
          BY <4>2, <4>3, <3>2, <3>5, <1>4
      <3>. QED
        BY <3>1, <3>3, <3>4, <3>5
    <2>. QED
      BY <2>1, <2>2, <1>1, <1>3 DEF StackReturns
  <1>11. CyclesInv'
    BY <1>1, <1>3 DEF SearchInv, CyclesInv
  <1>. QED
    BY <1>9, <1>10, <1>11, LeaveLeft DEF SearchInv

LEMMA SearchInvInit == CommandInit => SearchInv
  <1>. SUFFICES ASSUME CommandInit PROVE SearchInv
    OBVIOUS
  <1>1. Visited = {} /\ On = {} /\ components = <<>>
    BY DEF CommandInit, PlanInit, Visited, Empty, On, Range
  <1>. QED
    BY <1>1 DEF SearchInv, StackReaches, StackReturns, LeftInv, CyclesInv

LEMMA SearchStep ==
  ASSUME PlanInv, SearchInv, PlanMove
  PROVE  SearchInv'
  <1>1. FreshInv /\ VisitInv /\ ComponentInv
    BY DEF PlanInv
  <1>2. CASE Root
    <2>1. PICK s \in Services : First(s, Range(selected) \ Visited) /\ Enter(s)
      BY <1>2 DEF Root
    <2>2. s \in Services \ Visited /\ calls = <<>> /\ UNCHANGED <<selected, depends>>
      BY <1>2, <2>1 DEF First, Root
    <2>. QED
      BY <1>1, <2>1, <2>2, EnterSearch
  <1>3. CASE Descend
    <2>1. PICK d \in Services \ Visited : First(d, left[Last(calls)]) /\ Enter(d)
      BY <1>3 DEF Descend
    <2>2. d \in left[Last(calls)] /\ calls # <<>> /\ UNCHANGED <<selected, depends>>
      BY <1>3, <2>1 DEF First, Descend
    <2>3. d \in Needs(Last(calls))
      BY <1>1, <2>2, Innermost DEF SearchInv, LeftInv
    <2>. QED
      BY <1>1, <2>1, <2>2, <2>3, EnterSearch
  <1>4. CASE Meet
    BY <1>1, <1>4, MeetSearch
  <1>5. CASE Leave
    BY <1>1, <1>5, LeaveFound, LeaveBack
  <1>6. CASE UNCHANGED visits
    <2>1. UNCHANGED <<index, low, left, calls, stack, components>>
      BY <1>6 DEF visits
    <2>2. /\ On' = On /\ Visiting' = Visiting /\ Visited' = Visited
          /\ \A c, t : Over(c, t)' <=> Over(c, t)
      BY <2>1 DEF On, Visiting, Visited, Over
    <2>3. CASE UNCHANGED <<selected, depends>>
      <3>1. /\ \A t : Needs(t)' = Needs(t)
            /\ \A t, u : Reaches(t, u)' <=> Reaches(t, u)
        BY <2>3, ReachSame
      <3>2. StackReaches' /\ StackReturns'
        BY <2>1, <2>2, <3>1 DEF SearchInv, StackReaches, StackReturns
      <3>3. LeftInv' /\ CyclesInv'
        BY <2>1, <2>2, <3>1 DEF SearchInv, LeftInv, CyclesInv
      <3>. QED
        BY <3>2, <3>3 DEF SearchInv
    <2>4. CASE ~UNCHANGED <<selected, depends>>
      <3>1. Early
        BY <2>4 DEF PlanMove, PlanStep, Early, Plan, Expand, Check, Root, Descend, Meet, Leave,
                    Count, Take, Ordered, Resolve, ResolveFails, planVars
      <3>2. Visited = {} /\ On = {} /\ components = <<>>
        BY <1>1, <3>1 DEF FreshInv, Visited, Empty, On, Range
      <3>. QED
        BY <2>1, <2>2, <3>2 DEF SearchInv, StackReaches, StackReturns, LeftInv, CyclesInv
    <2>. QED
      BY <2>3, <2>4
  <1>. QED
    BY <1>2, <1>3, <1>4, <1>5, <1>6, OtherMoves DEF Search

-------------------------------------------------------------------------------
(* The queue.  Whatever may start is ready, and at every place the group     *)
(* with the first name was taken.                                            *)
Queued == {"order", "resolve", "planned", "unordered", "unresolved"}

OrderInv ==
    /\ FirstNameFirst
    /\ phase \in Queued =>
          /\ \A c \in DOMAIN components \ Grouped : Before(c) \subseteq Grouped => c \in ready
          /\ phase # "order" => ready = {}

LEMMA TakeOrder ==
  ASSUME PlanInv, OrderInv, Take
  PROVE  OrderInv'
  <1>1. /\ phase = "order" /\ UNCHANGED <<phase, depends, selected, index, components>>
    BY DEF Take, visits
  <1>2. PICK c \in ready :
           /\ NextReady(c)
           /\ groups' = Append(groups, components[c])
           /\ waits' = [a \in DOMAIN waits |-> IF a \in After(c) THEN waits[a] - 1 ELSE waits[a]]
           /\ ready' = (ready \ {c}) \cup {a \in After(c) : waits'[a] = 0}
    BY DEF Take
  <1>3. /\ ready \subseteq DOMAIN components \ Grouped
        /\ groups \in Seq(SUBSET Services) /\ ComponentInv /\ VisitInv
    BY <1>1 DEF PlanInv, QueueInv
  <1>4. PICK g \in Nat : Len(groups) = g
    BY <1>3
  <1>5. c \in DOMAIN components /\ components[c] \in SUBSET Services
    BY <1>3 DEF ComponentInv, VisitInv
  <1>6. /\ DOMAIN groups = 1 .. g /\ DOMAIN groups' = 1 .. g + 1
        /\ groups'[g + 1] = components[c] /\ \A i \in 1 .. g : groups'[i] = groups[i]
    BY <1>2, <1>3, <1>4, <1>5
  <1>7. /\ \A i \in 1 .. g + 1 : i \in 1 .. g \/ i = g + 1
        /\ \A i \in 1 .. g : i \in 1 .. g + 1
        /\ \A i \in 1 .. g : \A j \in 1 .. i - 1 : j \in 1 .. g
        /\ g + 1 \in 1 .. g + 1
    OBVIOUS
  <1>8. \A a : Before(a)' = Before(a)
    BY <1>1 DEF Before, Needs
  <1>9. \A a \in DOMAIN components :
           a \notin Grouped <=> \A j \in 1 .. g : groups[j] # components[a]
    BY <1>6 DEF Grouped
  <1>10. Grouped' = Grouped \cup {c}
    <2>1. \A a, b \in DOMAIN components : components[a] = components[b] => a = b
      BY <1>3 DEF ComponentInv
    <2>2. Grouped' = {a \in DOMAIN components : \E i \in 1 .. g + 1 : groups'[i] = components[a]}
      BY <1>1, <1>6 DEF Grouped
    <2>3. Grouped = {a \in DOMAIN components : \E i \in 1 .. g : groups[i] = components[a]}
      BY <1>6 DEF Grouped
    <2>. QED
      BY <2>1, <2>2, <2>3, <1>5, <1>6, <1>7
  <1>11. \A a \in DOMAIN components \ Grouped' : Before(a) \subseteq Grouped' => a \in ready'
    <2>. SUFFICES ASSUME NEW a \in DOMAIN components \ Grouped', Before(a) \subseteq Grouped'
                  PROVE  a \in ready'
      OBVIOUS
    <2>1. a \in DOMAIN components \ Grouped /\ a # c
      BY <1>10
    <2>2. CASE c \notin Before(a)
      <3>1. Before(a) \subseteq Grouped
        BY <2>2, <1>10
      <3>2. a \in ready
        BY <2>1, <3>1, <1>1 DEF OrderInv, Queued
      <3>. QED
        BY <2>1, <3>2, <1>2
    <2>3. CASE c \in Before(a)
      <3>1. a \in After(c)
        BY <2>1, <2>3 DEF After
      <3>2. /\ waits'[a] = Cardinality(Before(a)' \ Grouped')
        BY <2>1, <1>1, TakeQueue DEF QueueInv
      <3>3. Before(a)' \ Grouped' = {}
        BY <1>8
      <3>4. waits'[a] = 0
        BY <3>2, <3>3, FS_EmptySet
      <3>. QED
        BY <3>1, <3>4, <1>2
    <2>. QED
      BY <2>2, <2>3
  <1>12. FirstNameFirst'
    <2>. SUFFICES ASSUME NEW i \in 1 .. g + 1, NEW a \in DOMAIN components,
                         \A j \in 1 .. i - 1 : groups'[j] # components[a],
                         \A b \in Before(a) : \E j \in 1 .. i - 1 : groups'[j] = components[b]
                  PROVE  Min(groups'[i]) <= Min(components[a])
      BY <1>1, <1>6, <1>8 DEF FirstNameFirst
    <2>1. CASE i \in 1 .. g
      <3>1. \A j \in 1 .. i - 1 : groups'[j] = groups[j]
        BY <2>1, <1>6, <1>7
      <3>2. Min(groups[i]) <= Min(components[a])
        BY <2>1, <3>1, <1>6 DEF OrderInv, FirstNameFirst
      <3>. QED
        BY <2>1, <3>2, <1>6
    <2>2. CASE i = g + 1
      <3>1. i - 1 = g
        BY <2>2
      <3>2. \A j \in 1 .. g : groups[j] # components[a]
        BY <3>1, <1>6
      <3>3. \A b \in Before(a) : b \in DOMAIN components /\ \E j \in 1 .. g : groups[j] = components[b]
        BY <3>1, <1>6 DEF Before
      <3>4. a \in DOMAIN components \ Grouped /\ Before(a) \subseteq Grouped
        BY <3>2, <3>3, <1>9
      <3>5. a \in ready
        BY <3>4, <1>1 DEF OrderInv, Queued
      <3>. QED
        BY <2>2, <3>5, <1>2, <1>6 DEF NextReady
    <2>. QED
      BY <2>1, <2>2, <1>7
  <1>. QED
    BY <1>1, <1>8, <1>11, <1>12 DEF OrderInv

LEMMA OrderStep ==
  ASSUME PlanInv, OrderInv, PlanMove
  PROVE  OrderInv'
  <1>1. CASE Take
    BY <1>1, TakeOrder
  <1>2. CASE Count
    <2>1. groups = <<>> /\ UNCHANGED <<depends, selected, components, groups>>
      BY <1>2 DEF PlanInv, FreshInv, Count, visits
    <2>2. phase' = "order" /\ ready' = {c \in DOMAIN components : Before(c) = {}}
      BY <1>2 DEF Count
    <2>3. Grouped' = {} /\ \A c : Before(c)' = Before(c)
      BY <2>1 DEF Grouped, Before, Needs
    <2>4. FirstNameFirst'
      BY <2>1 DEF FirstNameFirst
    <2>. QED
      BY <2>1, <2>2, <2>3, <2>4 DEF OrderInv
  <1>3. CASE Ordered \/ Resolve \/ ResolveFails \/ UNCHANGED planVars
    <2>1. UNCHANGED <<depends, selected, components, groups, ready>>
      BY <1>3 DEF Ordered, Resolve, ResolveFails, planVars, visits, queueVars
    <2>2. phase' = phase \/ (phase' # "order" /\ phase \in {"order", "resolve"})
      BY <1>3 DEF Ordered, Resolve, ResolveFails, planVars
    <2>3. phase' # "order" /\ phase' # phase => phase = "resolve" \/ ready = {}
      BY <1>3 DEF Ordered, Resolve, ResolveFails, planVars
    <2>4. Grouped' = Grouped /\ \A c : Before(c)' = Before(c)
      BY <2>1 DEF Grouped, Before, Needs
    <2>5. FirstNameFirst'
      BY <2>1, <2>4 DEF OrderInv, FirstNameFirst
    <2>. QED
      BY <2>1, <2>2, <2>3, <2>4, <2>5 DEF OrderInv, Queued
  <1>4. CASE Expand \/ Check \/ Search \/ \E names, withDependencies : Plan(names, withDependencies)
    <2>1. phase' \notin Queued /\ groups = <<>> /\ UNCHANGED groups
      BY <1>4 DEF Expand, Check, Search, Root, Descend, Meet, Leave, Plan, Queued, queueVars,
                  PlanInv, FreshInv, Early
    <2>. QED
      BY <2>1 DEF OrderInv, FirstNameFirst
  <1>. QED
    BY <1>1, <1>2, <1>3, <1>4 DEF PlanMove, PlanStep, Search

(* At every state of a plan, for every set of services and every manifest,   *)
(* the components found are the dependency cycles of what is selected        *)
(* (dependencyComponents), and whatever waits for nothing any more is in the *)
(* queue (dependencyStartGroups).                                            *)
THEOREM CyclesInvariance == CommandSpec => [](SearchInv /\ OrderInv)
  <1>1. CommandInit => SearchInv /\ OrderInv
    <2>1. CommandInit => OrderInv
      BY DEF CommandInit, PlanInit, OrderInv, FirstNameFirst, Queued
    <2>. QED
      BY <2>1, SearchInvInit
  <1>2. PlanInv /\ SearchInv /\ OrderInv /\ [CommandNext]_commandVars => (SearchInv /\ OrderInv)'
    BY Moves, SearchStep, OrderStep
  <1>. QED
    BY <1>1, <1>2, PlanInvariance, PTL DEF CommandSpec

(* No component waits for a later one, so when none is ready all have a      *)
(* group.                                                                    *)
LEMMA AllGrouped ==
  ASSUME PlanInv, SearchInv, OrderInv, phase \in {"resolve", "planned"}
  PROVE  Grouped = DOMAIN components
  <1>1. \A c \in DOMAIN components : \A b \in Before(c) : b \in DOMAIN components /\ b < c
    <2>. SUFFICES ASSUME NEW c \in DOMAIN components, NEW b \in Before(c)
                  PROVE  b \in DOMAIN components /\ b < c
      OBVIOUS
    <2>1. b \in DOMAIN components /\ b # c
      BY DEF Before
    <2>2. PICK s \in components[c] : Needs(s) \cap components[b] # {}
      BY DEF Before
    <2>3. PICK d \in Needs(s) : d \in components[b]
      BY <2>2
    <2>4. PICK a \in 1 .. c : d \in components[a]
      BY <2>3 DEF SearchInv, CyclesInv
    <2>5. PICK l \in Nat : DOMAIN components = 1 .. l
      BY DEF PlanInv, ComponentInv
    <2>6. a \in DOMAIN components
      BY <2>4, <2>5
    <2>7. a = b
      BY <2>1, <2>3, <2>4, <2>6 DEF PlanInv, ComponentInv
    <2>. QED
      BY <2>1, <2>4, <2>5, <2>7
  <1>2. DOMAIN components \subseteq Nat
    BY DEF PlanInv, ComponentInv
  <1>. SUFFICES ASSUME DOMAIN components \ Grouped # {} PROVE FALSE
    BY DEF Grouped
  <1>3. PICK c \in DOMAIN components \ Grouped : \A b \in DOMAIN components \ Grouped : c <= b
    BY <1>2, SmallestOf
  <1>4. Before(c) \subseteq Grouped
    <2>. SUFFICES ASSUME NEW b \in Before(c), b \notin Grouped PROVE FALSE
      OBVIOUS
    <2>1. b < c /\ c <= b /\ b \in Nat /\ c \in Nat
      BY <1>1, <1>2, <1>3
    <2>. QED
      BY <2>1
  <1>. QED
    BY <1>3, <1>4 DEF OrderInv, Queued

LEMMA CyclesFound ==
  ASSUME PlanInv, SearchInv, OrderInv
  PROVE  GroupsAreCycles
  <1>. SUFFICES ASSUME phase \in {"resolve", "planned"},
                       NEW s \in Range(selected), NEW t \in Range(selected)
                PROVE  (\E i \in DOMAIN groups : {s, t} \subseteq groups[i])
                         <=> (Reaches(s, t) /\ Reaches(t, s))
    BY DEF GroupsAreCycles, Reachable, Reaches
  <1>1. /\ FreshInv /\ VisitInv /\ ComponentInv
        /\ calls = <<>> /\ Range(selected) \subseteq Visited
        /\ \A i \in DOMAIN groups : \E c \in DOMAIN components : groups[i] = components[c]
    BY DEF PlanInv, QueueInv
  <1>2. stack = <<>>
    BY <1>1 DEF VisitInv
  <1>3. \A u \in Range(selected) : \E c \in DOMAIN components : u \in components[c]
    BY <1>1, <1>2 DEF ComponentInv
  <1>4. PICK l \in Nat : DOMAIN components = 1 .. l
    BY <1>1 DEF ComponentInv
  <1>5. PICK c \in 1 .. l, b \in 1 .. l : s \in components[c] /\ t \in components[b]
    BY <1>3, <1>4
  <1>6. ASSUME NEW x \in 1 .. l, NEW y \in 1 .. l, NEW u \in components[x], NEW v \in components[y],
               Reaches(u, v)
        PROVE  y <= x
    <2>. DEFINE closed == {w \in Services : \E a \in 1 .. x : w \in components[a]}
    <2>1. \A a \in 1 .. x : a \in DOMAIN components
      BY <1>4
    <2>2. \A a \in DOMAIN components : components[a] \subseteq Services
      BY <1>1 DEF ComponentInv, VisitInv
    <2>3. x \in 1 .. x /\ \A a \in 1 .. x : \A e \in 1 .. a : e \in 1 .. x
      OBVIOUS
    <2>4. u \in closed
      BY <2>1, <2>2, <2>3
    <2>5. \A w \in closed : Needs(w) \subseteq closed
      <3>. SUFFICES ASSUME NEW a \in 1 .. x, NEW w \in components[a], NEW d \in Needs(w)
                    PROVE  d \in closed
        OBVIOUS
      <3>1. PICK e \in 1 .. a : d \in components[e]
        BY <2>1 DEF SearchInv, CyclesInv
      <3>2. e \in 1 .. x
        BY <2>3
      <3>. QED
        BY <3>1, <3>2, <2>1, <2>2
    <2>6. closed \in SUBSET Services
      OBVIOUS
    <2>7. v \in closed
      <3>. HIDE DEF closed
      <3>. QED
        BY <2>4, <2>5, <2>6, <1>6 DEF Reaches
    <2>8. PICK a \in 1 .. x : v \in components[a]
      BY <2>7
    <2>9. a = y
      BY <2>1, <2>8, <1>1, <1>4 DEF ComponentInv
    <2>. QED
      BY <2>8, <2>9
  <1>7. ASSUME NEW i \in DOMAIN groups, {s, t} \subseteq groups[i]
        PROVE  Reaches(s, t) /\ Reaches(t, s)
    <2>1. PICK a \in DOMAIN components : groups[i] = components[a]
      BY <1>1
    <2>. QED
      BY <1>7, <2>1 DEF SearchInv, CyclesInv
  <1>8. ASSUME Reaches(s, t), Reaches(t, s)
        PROVE  \E i \in DOMAIN groups : {s, t} \subseteq groups[i]
    <2>1. b <= c /\ c <= b
      BY <1>5, <1>6, <1>8
    <2>2. b = c
      BY <2>1
    <2>3. c \in Grouped
      BY <1>4, AllGrouped
    <2>. QED
      BY <1>5, <2>2, <2>3 DEF Grouped
  <1>. QED
    BY <1>7, <1>8

(* For every manifest: two selected services start together exactly when     *)
(* each depends on the other, over selected services, and of the groups that *)
(* may come next the one with the first name does, at every place            *)
(* (dependencyStartGroups).                                                  *)
THEOREM GroupsDetermined == CommandSpec => []GroupsAreDetermined
  <1>1. PlanInv /\ SearchInv /\ OrderInv => GroupsAreDetermined
    BY CyclesFound DEF GroupsAreDetermined, OrderInv
  <1>. QED
    BY <1>1, PlanInvariance, CyclesInvariance, PTL

-----------------------------------------------------------------------------
(* The expansion. Every closed set that holds a holds t.                     *)
Closed == {c \in SUBSET Services : \A u \in c : depends[u] \subseteq c}
ReachedFrom(a, t) == t \in Services /\ \A c \in Closed : a \in c => t \in c

(* The names that were given are in front, all services after them are       *)
(* reached from those, and the dependencies of the ones before at are there. *)
Grown ==
    /\ selected \in Seq(Services) /\ IsInjective(selected)
    /\ at \in 1 .. Len(selected) + 1
    /\ Len(asked) <= Len(selected)
    /\ \A i \in 1 .. Len(asked) : selected[i] = asked[i]
    /\ \A i \in 1 .. at - 1 : depends[selected[i]] \subseteq Range(selected)
    /\ \A t \in Range(selected) : \E a \in Range(asked) : ReachedFrom(a, t)

ExpandInv ==
    /\ depends \in [Services -> SUBSET Services]
    /\ phase = "none" => at = 1
    /\ phase = "expand" => asked \in Seq(Nat)
    /\ phase = "expand" /\ ValidSelection(asked) => Grown

LEMMA Appended ==
  ASSUME NEW S, NEW p \in Seq(S), NEW q \in Seq(S), IsInjective(p), IsInjective(q),
         Range(p) \cap Range(q) = {}
  PROVE  /\ p \o q \in Seq(S) /\ IsInjective(p \o q)
         /\ Len(p \o q) = Len(p) + Len(q)
         /\ \A i \in 1 .. Len(p) : (p \o q)[i] = p[i]
         /\ Range(p \o q) = Range(p) \cup Range(q)
  <1>. DEFINE r == p \o q
              m == Len(p)
              n == Len(q)
  <1>1. /\ m \in Nat /\ n \in Nat /\ DOMAIN p = 1 .. m /\ DOMAIN q = 1 .. n
        /\ r \in Seq(S) /\ Len(r) = m + n /\ DOMAIN r = 1 .. m + n
        /\ \A i \in 1 .. m + n : r[i] = IF i <= m THEN p[i] ELSE q[i - m]
    BY ConcatProperties
  <1>. HIDE DEF r, m, n
  <1>2. \A i \in 1 .. m + n : i <= m => i \in 1 .. m /\ r[i] = p[i]
    BY <1>1
  <1>3. \A i \in 1 .. m + n : ~(i <= m) => i - m \in 1 .. n /\ r[i] = q[i - m]
    BY <1>1
  <1>4. /\ \A i \in 1 .. m : i \in 1 .. m + n /\ r[i] = p[i]
        /\ \A i \in 1 .. n : m + i \in 1 .. m + n /\ r[m + i] = q[i]
    <2>1. \A i \in 1 .. m : i \in 1 .. m + n /\ r[i] = p[i]
      BY <1>1
    <2>2. \A i \in 1 .. n : m + i \in 1 .. m + n /\ ~(m + i <= m) /\ (m + i) - m = i
      BY <1>1
    <2>3. \A i \in 1 .. n : r[m + i] = q[i]
      <3>. SUFFICES ASSUME NEW i \in 1 .. n PROVE r[m + i] = q[i]
        OBVIOUS
      <3>1. PICK k : k = m + i
        OBVIOUS
      <3>2. k \in 1 .. m + n /\ ~(k <= m) /\ k - m = i
        BY <3>1, <2>2
      <3>. QED
        BY <3>1, <3>2, <1>3
    <2>. QED
      BY <2>1, <2>2, <2>3
  <1>5. Range(r) = Range(p) \cup Range(q)
    <2>1. Range(r) = {r[i] : i \in 1 .. m + n}
      BY <1>1 DEF Range
    <2>2. Range(p) = {p[i] : i \in 1 .. m} /\ Range(q) = {q[i] : i \in 1 .. n}
      BY <1>1 DEF Range
    <2>3. ASSUME NEW x \in Range(r) PROVE x \in Range(p) \cup Range(q)
      <3>1. PICK i \in 1 .. m + n : x = r[i]
        BY <2>1, <2>3
      <3>. QED
        BY <3>1, <2>2, <1>2, <1>3
    <2>4. ASSUME NEW x \in Range(p) \cup Range(q) PROVE x \in Range(r)
      BY <2>4, <2>1, <2>2, <1>4
    <2>. QED
      BY <2>3, <2>4
  <1>6. IsInjective(r)
    <2>. SUFFICES ASSUME NEW i \in 1 .. m + n, NEW j \in 1 .. m + n, r[i] = r[j]
                  PROVE  i = j
      BY <1>1 DEF IsInjective
    <2>1. /\ \A a, b \in 1 .. m : p[a] = p[b] => a = b
          /\ \A a, b \in 1 .. n : q[a] = q[b] => a = b
          /\ \A a \in 1 .. m, b \in 1 .. n : p[a] # q[b]
      <3>1. (\A a, b \in 1 .. m : p[a] = p[b] => a = b)
            /\ (\A a, b \in 1 .. n : q[a] = q[b] => a = b)
        BY <1>1 DEF IsInjective
      <3>2. Range(p) = {p[a] : a \in 1 .. m} /\ Range(q) = {q[b] : b \in 1 .. n}
        BY <1>1 DEF Range
      <3>3. \A a \in 1 .. m, b \in 1 .. n : p[a] # q[b]
        BY <3>2
      <3>. QED
        BY <3>1, <3>3
    <2>2. CASE i <= m /\ j <= m
      BY <2>1, <2>2, <1>2
    <2>3. CASE i <= m /\ ~(j <= m)
      BY <2>1, <2>3, <1>2, <1>3
    <2>4. CASE ~(i <= m) /\ j <= m
      BY <2>1, <2>4, <1>2, <1>3
    <2>5. CASE ~(i <= m) /\ ~(j <= m)
      <3>1. i - m = j - m
        BY <2>1, <2>5, <1>3
      <3>. QED
        BY <3>1, <1>1
    <2>. QED
      BY <2>2, <2>3, <2>4, <2>5
  <1>. QED
    BY <1>1, <1>4, <1>5, <1>6 DEF r, m, n

LEMMA SortedOnce ==
  ASSUME NEW S \in SUBSET Services
  PROVE  /\ Sorted(S) \in Seq(Services) /\ IsInjective(Sorted(S))
         /\ Range(Sorted(S)) = S
  <1>1. S \in SUBSET Nat /\ IsFiniteSet(S)
    <2>1. IsFiniteSet(S)
      BY ServicesAssumption, FS_Subset
    <2>. QED
      BY <2>1, ServicesAssumption
  <1>2. PICK q : q = Sorted(S)
    OBVIOUS
  <1>3. /\ q \in Seq(S) /\ {q[i] : i \in DOMAIN q} = S
        /\ \A i, j \in DOMAIN q : i < j => q[i] < q[j]
    BY <1>1, <1>2, SortedLists
  <1>4. IsInjective(q)
    <2>. SUFFICES ASSUME NEW i \in DOMAIN q, NEW j \in DOMAIN q, q[i] = q[j], i # j
                  PROVE  FALSE
      BY DEF IsInjective
    <2>1. i \in Nat /\ j \in Nat /\ q[i] \in Nat /\ q[j] \in Nat
      <3>1. /\ Len(q) \in Nat /\ i \in 1 .. Len(q) /\ j \in 1 .. Len(q)
            /\ q[i] \in S /\ q[j] \in S
        BY <1>3
      <3>2. q[i] \in Nat /\ q[j] \in Nat
        BY <3>1, <1>1
      <3>3. i \in Nat /\ j \in Nat
        BY <3>1
      <3>. QED
        BY <3>2, <3>3
    <2>2. i < j \/ j < i
      BY <2>1
    <2>. QED
      BY <2>1, <2>2, <1>3
  <1>5. q \in Seq(Services)
    BY <1>3
  <1>6. Range(q) = S
    BY <1>3 DEF Range
  <1>. QED
    BY <1>2, <1>4, <1>5, <1>6

LEMMA ReachedOn ==
  ASSUME NEW a, NEW s \in Services, ReachedFrom(a, s), NEW t \in depends[s], t \in Services
  PROVE  ReachedFrom(a, t)
  BY DEF ReachedFrom, Closed

LEMMA ExpandGrows ==
  ASSUME ExpandInv, Expand, ValidSelection(asked), at <= Len(selected)
  PROVE  Grown'
  <1>. DEFINE m == Len(selected)
              s == selected[at]
              new == depends[s] \ Range(selected)
              q == Sorted(new)
  <1>1. /\ phase = "expand" /\ selected' = selected \o q /\ at' = at + 1
        /\ UNCHANGED <<depends, asked>>
    <2>1. phase = "expand"
      BY DEF Expand
    <2>2. at \in Nat /\ Len(selected) \in Nat
      BY <2>1 DEF ExpandInv, Grown
    <2>3. ~(at > Len(selected))
      BY <2>2
    <2>. QED
      BY <2>3 DEF Expand
  <1>2. /\ Grown /\ asked \in Seq(Nat) /\ depends \in [Services -> SUBSET Services]
    BY <1>1 DEF ExpandInv
  <1>3. /\ selected \in Seq(Services) /\ IsInjective(selected)
        /\ m \in Nat /\ DOMAIN selected = 1 .. m /\ at \in 1 .. m /\ s \in Services
        /\ s \in Range(selected)
    <2>1. /\ selected \in Seq(Services) /\ IsInjective(selected)
          /\ m \in Nat /\ DOMAIN selected = 1 .. m /\ at \in 1 .. m
      BY <1>2 DEF Grown
    <2>2. s \in Range(selected)
      BY <2>1 DEF Range
    <2>. QED
      BY <2>1, <2>2
  <1>4. new \in SUBSET Services
    BY <1>2, <1>3
  <1>5. q \in Seq(Services) /\ IsInjective(q) /\ Range(q) = new /\ Len(q) \in Nat
    BY <1>4, SortedOnce
  <1>6. /\ selected' \in Seq(Services) /\ IsInjective(selected')
        /\ Len(selected') = m + Len(q)
        /\ \A i \in 1 .. m : selected'[i] = selected[i]
        /\ Range(selected') = Range(selected) \cup new
    <2>1. Range(selected) \cap Range(q) = {}
      BY <1>5
    <2>. HIDE DEF q
    <2>2. \A i \in 1 .. m : (selected \o q)[i] = selected[i]
      BY <2>1, <1>3, <1>5, Appended
    <2>3. /\ selected \o q \in Seq(Services) /\ IsInjective(selected \o q)
          /\ Len(selected \o q) = m + Len(q)
          /\ Range(selected \o q) = Range(selected) \cup Range(q)
      BY <2>1, <1>3, <1>5, Appended
    <2>. QED
      BY <2>2, <2>3, <1>1, <1>5
  <1>. HIDE DEF m, q
  <1>7. at' \in 1 .. Len(selected') + 1 /\ m <= Len(selected')
    BY <1>1, <1>3, <1>5, <1>6
  <1>8. Len(asked') <= Len(selected') /\ \A i \in 1 .. Len(asked') : selected'[i] = asked'[i]
    <2>1. Len(asked) \in Nat /\ Len(asked) <= m
          /\ \A i \in 1 .. Len(asked) : selected[i] = asked[i]
      BY <1>2 DEF Grown, m
    <2>2. Len(asked) <= Len(selected')
      BY <2>1, <1>3, <1>5, <1>6
    <2>3. \A i \in 1 .. Len(asked) : i \in 1 .. m
      BY <2>1, <1>3
    <2>. QED
      BY <2>1, <2>2, <2>3, <1>1, <1>6
  <1>9. \A i \in 1 .. at' - 1 : depends'[selected'[i]] \subseteq Range(selected')
    <2>. SUFFICES ASSUME NEW i \in 1 .. at
                  PROVE  depends[selected[i]] \subseteq Range(selected') /\ i \in 1 .. m
      BY <1>1, <1>3, <1>6
    <2>1. i \in 1 .. m
      BY <1>3
    <2>2. CASE i = at
      BY <2>2, <2>1, <1>6
    <2>3. CASE i # at
      <3>1. i \in 1 .. at - 1
        BY <2>3, <1>3
      <3>. QED
        BY <3>1, <2>1, <1>2, <1>6 DEF Grown
    <2>. QED
      BY <2>1, <2>2, <2>3
  <1>10. ASSUME NEW t \in Range(selected')
         PROVE  \E a \in Range(asked) : ReachedFrom(a, t)
    <2>1. CASE t \in Range(selected)
      BY <2>1, <1>2 DEF Grown
    <2>2. CASE t \in new
      <3>1. PICK a \in Range(asked) : ReachedFrom(a, s)
        BY <1>2, <1>3 DEF Grown
      <3>. QED
        BY <3>1, <2>2, <1>3, <1>4, ReachedOn
    <2>. QED
      BY <2>1, <2>2, <1>6
  <1>11. \A t \in Range(selected') : \E a \in Range(asked') : ReachedFrom(a, t)'
    BY <1>10, <1>1 DEF ReachedFrom, Closed
  <1>. QED
    BY <1>6, <1>7, <1>8, <1>9, <1>11 DEF Grown

(* A start's names, from the command line or from the selector.              *)
LEMMA NamesGiven ==
  ASSUME MarkInv, AgreedInv, [CommandNext]_commandVars, ~UNCHANGED planVars, ~PlanStep
  PROVE  /\ phase = "none" /\ selected' = asked' /\ asked' \in Seq(Nat)
         /\ depends' \in Manifests /\ UNCHANGED at /\ phase' # "none"
  <1>1. Named \/ Selected
    BY DEF CommandNext, Selecting, Planning, commandVars
  <1>2. /\ phase = "none" /\ selected' = asked'
        /\ depends' \in Manifests /\ UNCHANGED at /\ phase' # "none"
    BY <1>1 DEF Named, Selected, Plan
  <1>3. CASE Named
    BY <1>3, CommandLinesAssumption DEF Named, Plan
  <1>4. CASE Selected
    <2>1. asked' = Sorted(marked) /\ marked \in SUBSET Positions
      BY <1>4 DEF Selected, Plan, AgreedInv
    <2>2. PICK q : q = Sorted(marked)
      OBVIOUS
    <2>3. marked \in SUBSET Services
      BY <2>1, CommandLinesAssumption
    <2>4. q \in Seq(Services) /\ Services \subseteq Nat
      BY <2>2, <2>3, SortedOnce, ServicesAssumption
    <2>5. q \in Seq(Nat)
      <3>1. Len(q) \in Nat /\ q \in [1 .. Len(q) -> Services]
        BY <2>4
      <3>2. q \in [1 .. Len(q) -> Nat]
        BY <3>1, <2>4
      <3>. QED
        BY <3>1, <3>2
    <2>. QED
      BY <1>2, <2>1, <2>2, <2>5
  <1>. QED
    BY <1>1, <1>2, <1>3, <1>4

LEMMA GrownAtFirst ==
  ASSUME asked' \in Seq(Nat), selected' = asked', at' = 1, ValidSelection(asked')
  PROVE  Grown'
  <1>0. PICK q : q = asked'
    OBVIOUS
  <1>1. /\ q \in Seq(Services) /\ Len(q) \in Nat
        /\ IsInjective(q) /\ Range(q) \subseteq Services
    <2>1. /\ Len(q) \in Nat /\ DOMAIN q = 1 .. Len(q) /\ q \in Seq(Nat)
          /\ IsInjective(q) /\ Range(q) \subseteq Services
      BY <1>0 DEF ValidSelection
    <2>2. \A i \in 1 .. Len(q) : q[i] \in Services
      BY <2>1 DEF Range
    <2>. QED
      BY <2>1, <2>2
  <1>2. \A t \in Range(q) : ReachedFrom(t, t)'
    BY <1>1 DEF ReachedFrom
  <1>. QED
    BY <1>0, <1>1, <1>2 DEF Grown

LEMMA ExpandStep ==
  ASSUME MarkInv, AgreedInv, ExpandInv, [CommandNext]_commandVars
  PROVE  ExpandInv'
  <1>1. CASE UNCHANGED planVars
    BY <1>1 DEF planVars, ExpandInv, Grown, ReachedFrom, Closed, ValidSelection
  <1>2. CASE ~UNCHANGED planVars /\ ~PlanStep
    <2>1. /\ phase = "none" /\ selected' = asked' /\ asked' \in Seq(Nat)
          /\ depends' \in Manifests /\ UNCHANGED at /\ phase' # "none"
      BY <1>2, NamesGiven
    <2>2. at' = 1
      BY <2>1 DEF ExpandInv
    <2>3. depends' \in [Services -> SUBSET Services]
      BY <2>1, ManifestsAssumption
    <2>4. ValidSelection(asked)' => Grown'
      BY <2>1, <2>2, GrownAtFirst DEF ValidSelection
    <2>. QED
      BY <2>1, <2>3, <2>4 DEF ExpandInv
  <1>3. CASE Expand
    <2>1. phase = "expand" /\ UNCHANGED <<depends, asked>> /\ phase' # "none"
      BY <1>3 DEF Expand
    <2>2. CASE ValidSelection(asked) /\ at <= Len(selected)
      BY <2>1, <2>2, <1>3, ExpandGrows DEF ExpandInv
    <2>3. CASE ValidSelection(asked) /\ ~(at <= Len(selected))
      <3>1. phase' = "check"
        <4>1. Len(selected) \in Nat /\ at \in Nat
          BY <2>1, <2>3 DEF ExpandInv, Grown
        <4>. QED
          BY <4>1, <1>3, <2>3 DEF Expand
      <3>. QED
        BY <3>1, <2>1 DEF ExpandInv
    <2>4. CASE ~ValidSelection(asked)
      BY <2>1, <2>4, <1>3 DEF Expand, ExpandInv
    <2>. QED
      BY <2>2, <2>3, <2>4
  <1>4. CASE PlanStep /\ ~Expand
    <2>1. /\ UNCHANGED depends /\ phase' # "expand" /\ phase' # "none"
      BY <1>4 DEF PlanStep, Check, Root, Descend, Meet, Leave, Count, Take, Ordered, Resolve,
                  ResolveFails
    <2>. QED
      BY <2>1 DEF ExpandInv
  <1>. QED
    BY <1>1, <1>2, <1>3, <1>4

ExpandedExactly ==
    phase = "expand" /\ phase' = "check" =>
        /\ IsInjective(selected)
        /\ Range(selected) = UNION {Reachable(LAMBDA u : depends[u], s) : s \in Range(asked)}
        /\ SubSeq(selected, 1, Len(asked)) = asked

LEMMA StepsExpand ==
  ASSUME ExpandInv, [CommandNext]_commandVars
  PROVE  ExpandedExactly
  <1>. SUFFICES ASSUME phase = "expand", phase' = "check"
                PROVE  /\ IsInjective(selected)
                       /\ Range(selected)
                            = UNION {Reachable(LAMBDA u : depends[u], s) : s \in Range(asked)}
                       /\ SubSeq(selected, 1, Len(asked)) = asked
    BY DEF ExpandedExactly
  <1>1. Expand
    BY Moves DEF PlanMove, planVars, Plan, PlanStep, Check, Root, Descend, Meet, Leave, Count,
                 Take, Ordered, Resolve, ResolveFails
  <1>2. ValidSelection(asked) /\ ~(at <= Len(selected)) /\ Grown /\ asked \in Seq(Nat)
    <2>1. ValidSelection(asked) /\ at > Len(selected)
      BY <1>1 DEF Expand
    <2>2. Grown /\ asked \in Seq(Nat)
      BY <2>1 DEF ExpandInv
    <2>3. at \in Nat /\ Len(selected) \in Nat
      BY <2>2 DEF Grown
    <2>. QED
      BY <2>1, <2>2, <2>3
  <1>. DEFINE m == Len(selected)
              n == Len(asked)
  <1>3. /\ selected \in Seq(Services) /\ IsInjective(selected) /\ m \in Nat
        /\ DOMAIN selected = 1 .. m /\ DOMAIN asked = 1 .. n /\ at - 1 = m
        /\ n \in 0 .. m /\ \A i \in 1 .. n : selected[i] = asked[i]
    BY <1>2 DEF Grown
  <1>4. Range(selected) \in Closed
    <2>1. Range(selected) \subseteq Services /\ \A u \in Range(selected) : \E i \in 1 .. m : u = selected[i]
      BY <1>3 DEF Range
    <2>2. \A i \in 1 .. m : depends[selected[i]] \subseteq Range(selected)
      BY <1>2, <1>3 DEF Grown
    <2>. QED
      BY <2>1, <2>2 DEF Closed
  <1>5. Range(asked) \subseteq Range(selected)
    BY <1>3 DEF Range
  <1>6. \A a, t : t \in Reachable(LAMBDA u : depends[u], a) <=> ReachedFrom(a, t)
    BY DEF Reachable, ReachedFrom, Closed
  <1>7. ASSUME NEW t \in Range(selected)
        PROVE  \E a \in Range(asked) : t \in Reachable(LAMBDA u : depends[u], a)
    <2>1. PICK a \in Range(asked) : ReachedFrom(a, t)
      BY <1>2 DEF Grown
    <2>. QED
      BY <2>1, <1>6
  <1>8. ASSUME NEW a \in Range(asked), NEW t \in Reachable(LAMBDA u : depends[u], a)
        PROVE  t \in Range(selected)
    BY <1>4, <1>5, <1>6 DEF ReachedFrom
  <1>9. SubSeq(selected, 1, n) = asked
    <2>1. /\ SubSeq(selected, 1, n) \in Seq(Services) /\ Len(SubSeq(selected, 1, n)) = n
          /\ \A i \in 1 .. n : SubSeq(selected, 1, n)[i] = selected[i]
      BY <1>3, Prefix
    <2>2. PICK p : p = SubSeq(selected, 1, n)
      OBVIOUS
    <2>3. p \in Seq(Services) /\ Len(p) = n /\ \A i \in 1 .. n : p[i] = asked[i]
      BY <2>1, <2>2, <1>3
    <2>4. \A i \in 1 .. n : asked[i] \in Services
      BY <2>3
    <2>5. asked \in Seq(Services)
      BY <2>4, <1>2
    <2>. QED
      BY <2>2, <2>3, <2>5, SeqEqual
  <1>. QED
    BY <1>3, <1>7, <1>8, <1>9

(* For every manifest and every command line: with --with-dependencies what  *)
(* is selected, when the expansion ends, is what can be reached from the     *)
(* names given over the local dependencies, each once, and the names given   *)
(* are in front in their order (ExpandLocalServiceDependencies).             *)
THEOREM ExpandsExactly == CommandSpec => ExpansionExact
  <1>1. CommandInit => ExpandInv
    BY DEF CommandInit, PlanInit, ExpandInv
  <1>2. MarkInv /\ AgreedInv /\ ExpandInv /\ [CommandNext]_commandVars => ExpandInv'
    BY ExpandStep
  <1>3. ExpandInv /\ [CommandNext]_commandVars => [ExpandedExactly]_planVars
    BY StepsExpand
  <1>4. SelectorInv => MarkInv
    BY DEF SelectorInv
  <1>. QED
    BY <1>1, <1>2, <1>3, <1>4, SelectorInvariance, AgreedInvariance, PTL
       DEF CommandSpec, ExpansionExact, ExpandedExactly
===============================================================================
