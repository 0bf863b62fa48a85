---------------------------- MODULE NumberSequence --------------------------
(***************************************************************************)
(* What the numbering of tickets promises (docs/ticket_number_explain.md:  *)
(* atomic generation, the sequence counts the tickets): a counter per      *)
(* namespace that a creation increments and reads in one step.  A creation *)
(* that a New Year interrupts may read a value the counter has passed.     *)
(***************************************************************************)
EXTENDS Naturals

CONSTANTS Requests, Namespaces

VARIABLES
    last,    \* how many tickets each namespace has got
    issued,  \* the namespace and the sequence each request got, or <<>>
    turned   \* a year has begun since the first ticket

Init ==
    /\ last = [n \in Namespaces |-> 0]
    /\ issued = [r \in Requests |-> <<>>]
    /\ turned = FALSE

Issue(r, n) ==
    /\ issued[r] = <<>>
    /\ last' = [last EXCEPT ![n] = @ + 1]
    /\ \E k \in 1..(last[n] + 1) :
          /\ turned \/ k = last[n] + 1
          /\ issued' = [issued EXCEPT ![r] = <<n, k>>]
    /\ UNCHANGED turned

Turn ==
    /\ turned' = TRUE
    /\ UNCHANGED <<last, issued>>

Next ==
    \/ \E r \in Requests, n \in Namespaces : Issue(r, n)
    \/ Turn

Spec == Init /\ [][Next]_<<last, issued, turned>>
=============================================================================
