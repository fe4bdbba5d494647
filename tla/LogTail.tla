------------------------------- MODULE LogTail -------------------------------
(***************************************************************************)
(* What following one log promises, and nothing of how it is done: lines   *)
(* fall due one after the other while the log grows, each is delivered     *)
(* once and in order, and as long as the follower is open every line that  *)
(* is due is delivered in the end.                                         *)
(***************************************************************************)
EXTENDS Naturals

VARIABLES
  due,        \* lines of the log that are complete since the follower began
  delivered,  \* how many of them the reader has been given
  open        \* the follower has neither failed nor been cancelled

tailVars == <<due, delivered, open>>

TailInit == due = 0 /\ delivered = 0 /\ open = TRUE

Grow == /\ open = TRUE
        /\ due' \in {due, due + 1}
        /\ UNCHANGED <<delivered, open>>

Deliver == /\ delivered < due
           /\ delivered' = delivered + 1
           /\ UNCHANGED <<due, open>>

\* A closed follower owes nothing more, and counts nothing.
Close == /\ open = TRUE
         /\ open' = FALSE
         /\ due' = 0
         /\ delivered' = 0

TailNext == Grow \/ Deliver \/ Close

TailSpec == /\ TailInit
            /\ [][TailNext]_tailVars
            /\ WF_tailVars(Deliver)
=============================================================================
