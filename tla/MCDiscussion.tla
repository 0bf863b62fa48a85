---------------------------- MODULE MCDiscussion ----------------------------
(***************************************************************************)
(* Discussion for TLC: requests Now run, the requests Past have left       *)
(* behind a comment of the customer and an answer of the agent.            *)
(***************************************************************************)
EXTENDS Discussion, TLC

CONSTANTS client, agent,  \* users
          root, answer,   \* the requests of the past
          Now             \* the requests of the run

MCRequests == Now \cup {root, answer}
MCUsers == {client, agent}
MCRoleOf == client :> "CUSTOMER" @@ agent :> "SUPPORT_AGENT"
MCColleagues == {client}
NowSymmetry == Permutations(Now)

\* What the first k requests of the past stored.
PastComments(k) ==
    [c \in Requests |->
        IF c = root /\ k >= 1
        THEN Row(None, client, "PUBLIC", root, k - 1, None)
        ELSE IF c = answer /\ k = 2
             THEN Row(root, agent, "INTERNAL", answer, 0, None)
             ELSE NoComment]

After(k) ==
    /\ commentable = TRUE
    /\ comments = PastComments(k)
    /\ reactions = {}
    /\ pc = [r \in Requests |->
               IF r \in Now THEN "idle"
               ELSE IF PastComments(k)[r] = NoComment THEN "failed" ELSE "done"]
    /\ sawOpen = [r \in Requests |-> FALSE]
    /\ snap = [r \in Requests |-> NoRead]
    /\ parent = [r \in Requests |-> NoComment]
    /\ work = [r \in Requests |-> NoWork]
    /\ toggled = {}
    /\ overlapped = FALSE

MCInit == \E k \in 0..2 : After(k)

MCSpec == MCInit /\ [][Next]_vars
=============================================================================
