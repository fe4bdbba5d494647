------------------------------ MODULE Selector ------------------------------
(* The interactive selector (internal/selector): a list to mark services    *)
(* in, on an alternate screen of a raw terminal, and a confirmation below   *)
(* the normal screen. state.go is the state, selector.go the loop around    *)
(* it: reading and writing may fail at every call, and the terminal is      *)
(* given back by deferred calls whatever happened.                          *)
(*                                                                          *)
(* Keys are taken by their effect; a typed answer is made of letters that   *)
(* mean yes, no, or neither. What is drawn is left out.                     *)
EXTENDS Integers, Sequences, FiniteSets, FiniteSetsExt, SequencesExt, Orders

CONSTANTS
    Candidates,    \* how many candidates there are
    AnswerLength   \* bound: the letters of an answer

ASSUME SelectorAssumption == Candidates \in Nat \ {0} /\ AnswerLength \in Nat \ {0}

RetryLimit == 3   \* confirmationRetryLimit

VARIABLES
    many,       \* selectionMany, not selectionOne
    mode,       \* "off", "picking", "confirming", "leaving", "done"
    cursor, marked,
    answer, retries,
    raw,        \* the terminal is in raw mode
    screen,     \* the alternate screen is shown
    active,     \* screenActive
    outcome,    \* what is about to be returned: "none", "confirmed",
                \* "cancelled", "error"
    chosen,     \* the candidates returned
    broken      \* history: the deferred calls for the terminal that failed

selectorVars == <<many, mode, cursor, marked, answer, retries, raw, screen, active,
                  outcome, chosen, broken>>

Positions == 1 .. Candidates
Letters == {"y", "n", "x"}

SelectorInit ==
    /\ many \in BOOLEAN
    /\ mode = "off" /\ cursor = 1 /\ marked = {}
    /\ answer = <<>> /\ retries = 0
    /\ raw = FALSE /\ screen = FALSE /\ active = FALSE
    /\ outcome = "none" /\ chosen = <<>> /\ broken = {}

(* No candidates, no terminal or no raw mode: nothing was changed.          *)
Refuse ==
    /\ mode = "off"
    /\ mode' = "done" /\ outcome' = "error"
    /\ UNCHANGED <<many, cursor, marked, answer, retries, raw, screen, active,
                   chosen, broken>>

(* selectCandidates up to its loop. Writing the escape sequence may fail,   *)
(* with the screen switched or not.                                         *)
Open ==
    /\ mode = "off"
    /\ raw' = TRUE /\ active' = TRUE
    /\ \/ screen' = TRUE /\ mode' = "picking" /\ UNCHANGED outcome
       \/ screen' \in BOOLEAN /\ mode' = "leaving" /\ outcome' = "error"
    /\ UNCHANGED <<many, cursor, marked, answer, retries, chosen, broken>>

(* A read or a write of the loops fails, or the command was cancelled.      *)
Fails ==
    /\ mode \in {"picking", "confirming"}
    /\ mode' = "leaving" /\ outcome' = "error"
    /\ UNCHANGED <<many, cursor, marked, answer, retries, raw, screen, active,
                   chosen, broken>>

-----------------------------------------------------------------------------
(* The keys of the list. *)

Move(delta) ==
    /\ mode = "picking"
    /\ cursor' = Max({1, Min({Candidates, cursor + delta})})
    /\ UNCHANGED <<many, mode, marked, answer, retries, raw, screen, active,
                   outcome, chosen, broken>>

(* toggleCurrent. *)
Toggled ==
    IF cursor \in marked THEN (IF many THEN marked \ {cursor} ELSE {})
    ELSE (IF many THEN marked ELSE {}) \cup {cursor}

(* 'f', and 'F', which moves down too.                                      *)
Toggle(delta) ==
    /\ mode = "picking"
    /\ marked' = Toggled
    /\ cursor' = Min({Candidates, cursor + delta})
    /\ UNCHANGED <<many, mode, answer, retries, raw, screen, active, outcome,
                   chosen, broken>>

ToggleAll ==
    /\ mode = "picking" /\ many
    /\ marked' = IF marked = Positions THEN {} ELSE Positions
    /\ UNCHANGED <<many, mode, cursor, answer, retries, raw, screen, active,
                   outcome, chosen, broken>>

(* Mutant: the screen is taken for left before it is.                       *)
ProceedEarly ==
    /\ mode = "picking" /\ marked # {}
    /\ mode' = "confirming" /\ active' = FALSE
    /\ UNCHANGED <<many, cursor, marked, answer, retries, raw, screen, outcome,
                   chosen, broken>>

(* Enter: a confirmation is asked for what is marked, if anything is. The   *)
(* alternate screen is left first; if writing that fails, with the screen   *)
(* switched or not, the deferred call tries again.                          *)
Proceed ==
    /\ mode = "picking" /\ marked # {}
    /\ \/ mode' = "confirming" /\ screen' = FALSE /\ active' = FALSE /\ UNCHANGED outcome
       \/ /\ mode' = "leaving" /\ outcome' = "error"
          /\ screen' \in BOOLEAN /\ UNCHANGED active
    /\ UNCHANGED <<many, cursor, marked, answer, retries, raw, chosen, broken>>

(* Escape and 'q' in the list, Escape in the confirmation.                  *)
Abandon ==
    /\ mode \in {"picking", "confirming"}
    /\ mode' = "leaving" /\ outcome' = "cancelled"
    /\ UNCHANGED <<many, cursor, marked, answer, retries, raw, screen, active,
                   chosen, broken>>

-----------------------------------------------------------------------------
(* The keys of the confirmation. *)

Type(letter) ==
    /\ mode = "confirming" /\ Len(answer) < AnswerLength
    /\ answer' = Append(answer, letter)
    /\ UNCHANGED <<many, mode, cursor, marked, retries, raw, screen, active,
                   outcome, chosen, broken>>

Backspace ==
    /\ mode = "confirming" /\ answer # <<>>
    /\ answer' = Front(answer)
    /\ UNCHANGED <<many, mode, cursor, marked, retries, raw, screen, active,
                   outcome, chosen, broken>>

(* Mutant: what was typed before counts.                                    *)
AnswerKept ==
    /\ mode = "confirming"
    /\ IF answer # <<>> /\ Last(answer) = "y"
       THEN mode' = "leaving" /\ outcome' = "confirmed" /\ UNCHANGED <<answer, retries>>
       ELSE IF answer = <<"n">>
       THEN mode' = "leaving" /\ outcome' = "cancelled" /\ UNCHANGED <<answer, retries>>
       ELSE /\ answer' = answer
            /\ IF retries >= RetryLimit
               THEN mode' = "leaving" /\ outcome' = "error" /\ UNCHANGED retries
               ELSE retries' = retries + 1 /\ UNCHANGED <<mode, outcome>>
    /\ UNCHANGED <<many, cursor, marked, raw, screen, active, chosen, broken>>

(* Enter: yes, no, or an answer that is forgotten and asked for again, at   *)
(* most RetryLimit times.                                                   *)
Answer ==
    /\ mode = "confirming"
    /\ IF answer = <<"y">>
       THEN mode' = "leaving" /\ outcome' = "confirmed" /\ UNCHANGED <<answer, retries>>
       ELSE IF answer = <<"n">>
       THEN mode' = "leaving" /\ outcome' = "cancelled" /\ UNCHANGED <<answer, retries>>
       ELSE /\ answer' = <<>>
            /\ IF retries >= RetryLimit
               THEN mode' = "leaving" /\ outcome' = "error" /\ UNCHANGED retries
               ELSE retries' = retries + 1 /\ UNCHANGED <<mode, outcome>>
    /\ UNCHANGED <<many, cursor, marked, raw, screen, active, chosen, broken>>

-----------------------------------------------------------------------------
(* Mutant: after an error the normal screen is not asked for again.         *)
ReturnAtOnce ==
    /\ mode = "leaving"
    /\ mode' = "done"
    /\ \E newlineFails, leaveFails, restoreFails \in BOOLEAN :
          LET fine == /\ ~newlineFails /\ ~leaveFails /\ ~restoreFails
                      /\ outcome = "confirmed" => many \/ Cardinality(marked) = 1
          IN
          /\ newlineFails => ~active
          /\ leaveFails => active
          /\ screen' = (screen /\ (leaveFails \/ ~active \/ outcome = "error"))
          /\ raw' = restoreFails
          /\ broken' = {c \in {"leave", "restore"} :
                           IF c = "leave" THEN leaveFails ELSE restoreFails}
          /\ active' = FALSE
          /\ outcome' = IF fine THEN outcome ELSE "error"
          /\ chosen' = IF fine /\ outcome = "confirmed" THEN Sorted(marked) ELSE <<>>
    /\ UNCHANGED <<many, cursor, marked, answer, retries>>

(* The deferred calls: the newline that ends a confirmation, the normal     *)
(* screen, the terminal's state. Each may fail, and then the outcome is an  *)
(* error without a selection; so it is if SelectOne has not exactly one.    *)
Return ==
    /\ mode = "leaving"
    /\ mode' = "done"
    /\ \E newlineFails, leaveFails, restoreFails \in BOOLEAN :
          LET fine == /\ ~newlineFails /\ ~leaveFails /\ ~restoreFails
                      /\ outcome = "confirmed" => many \/ Cardinality(marked) = 1
          IN
          /\ newlineFails => ~active
          /\ leaveFails => active
          /\ screen' = (screen /\ (leaveFails \/ ~active))
          /\ raw' = restoreFails
          /\ broken' = {c \in {"leave", "restore"} :
                           IF c = "leave" THEN leaveFails ELSE restoreFails}
          /\ active' = FALSE
          /\ outcome' = IF fine THEN outcome ELSE "error"
          /\ chosen' = IF fine /\ outcome = "confirmed" THEN Sorted(marked) ELSE <<>>
    /\ UNCHANGED <<many, cursor, marked, answer, retries>>

(* The call returned: nothing of it is left but what it returned, which the *)
(* caller has taken.                                                        *)
Forget ==
    /\ mode' = "off" /\ cursor' = 1 /\ marked' = {} /\ answer' = <<>> /\ retries' = 0
    /\ outcome' = "none" /\ chosen' = <<>> /\ broken' = {}
    /\ UNCHANGED <<many, raw, screen, active>>

SelectorStep ==
    \/ Refuse \/ Open \/ Fails
    \/ Move(-1) \/ Move(1) \/ Toggle(0) \/ Toggle(1) \/ ToggleAll \/ Proceed
    \/ \E letter \in Letters : Type(letter)
    \/ Backspace \/ Answer \/ Abandon
    \/ Return

-----------------------------------------------------------------------------
SelectorTypeOK ==
    /\ mode \in {"off", "picking", "confirming", "leaving", "done"}
    /\ cursor \in Positions /\ marked \subseteq Positions
    /\ answer \in BoundedSeq(Letters, AnswerLength) /\ retries \in 0 .. RetryLimit
    /\ {many, raw, screen, active} \subseteq BOOLEAN
    /\ outcome \in {"none", "confirmed", "cancelled", "error"}
    /\ chosen = <<>> \/ chosen = Sorted(marked)
    /\ active => raw
    /\ broken \subseteq {"leave", "restore"}

(* The terminal is given back on every way out, the errors and the          *)
(* cancelled command included: whichever call failed before, when the       *)
(* selector returns the terminal is out of raw mode unless restoring it     *)
(* failed, and shows the normal screen unless the deferred attempt to leave *)
(* the alternate one failed. No earlier failure and no earlier attempt      *)
(* takes the place of these two.                                            *)
TerminalGivenBack ==
    mode = "done" => /\ raw => "restore" \in broken
                     /\ screen => "leave" \in broken

(* A single selection that is confirmed has exactly one candidate, and no   *)
(* selection is empty: the error SelectOne keeps for this is unreachable.   *)
OneIsOne ==
    outcome = "confirmed" => marked # {} /\ (~many => Cardinality(marked) = 1)
=============================================================================
