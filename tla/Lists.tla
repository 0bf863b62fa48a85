-------------------------------- MODULE Lists -------------------------------
(***************************************************************************)
(* Part of a list, in its order: the characters that strip, re.sub and a   *)
(* comprehension with a condition keep of a text (crm, iam and tickets     *)
(* domain/vo.py), the sockets that list.remove leaves                      *)
(* (shared/infra/websocket.py).  It is built by a function constructor and *)
(* not by a recursion, so that what it contains can be proved.             *)
(***************************************************************************)
EXTENDS Integers, Sequences, FiniteSets

\* The place of a position among some positions, counted from 1.
Place(positions, i) == Cardinality(positions \cap 1..i)

\* What a list has at some of its positions.
Picked(list, positions) ==
    [n \in 1..Cardinality(positions) |-> list[CHOOSE i \in positions : Place(positions, i) = n]]

\* A list without some of its elements.
Stays(list, some) == {i \in DOMAIN list : list[i] \notin some}
Without(list, some) == Picked(list, Stays(list, some))
=============================================================================
