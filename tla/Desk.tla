-------------------------------- MODULE Desk --------------------------------
(***************************************************************************)
(* What the modules of the smaller services share: HTTP requests, each with *)
(* a database session of its own (core/database.py).  A request is named,  *)
(* runs one operation once, holds what its session has read or is about to *)
(* flush, and ends.  The rows a request creates are named by it.           *)
(*                                                                         *)
(* As in TicketService the isolation is READ COMMITTED and nothing locks a *)
(* row, so that what a request holds may be out of date when it commits.   *)
(***************************************************************************)
EXTENDS TicketDomain, Lists

CONSTANTS
    Requests,   \* identifiers of requests
    Users,      \* identifiers of users
    RoleOf,     \* the system role of each user
    None        \* SQL NULL, and the result of a search that finds nothing

ASSUME DeskAssumption ==
    /\ RoleOf \in [Users -> UserRoles]
    /\ None \notin Requests

VARIABLES
    pc,          \* where each request is
    held,        \* what its session holds
    overlapped   \* two requests have been under way at the same time

deskVars == <<pc, held, overlapped>>

\* "exists" is the end of a request that was told that what it names is taken.
Ended == {"done", "failed", "exists"}

InProgress(r) == pc[r] \notin Ended \cup {"idle"}

DeskInit ==
    /\ pc = [r \in Requests |-> "idle"]
    /\ held = [r \in Requests |-> None]
    /\ overlapped = FALSE

Start(r, label, what) ==
    /\ pc[r] = "idle"
    /\ pc' = [pc EXCEPT ![r] = label]
    /\ held' = [held EXCEPT ![r] = what]
    /\ overlapped' = (overlapped \/ \E q \in Requests : InProgress(q))

Step(r, from, to, what) ==
    /\ pc[r] = from
    /\ pc' = [pc EXCEPT ![r] = to]
    /\ held' = [held EXCEPT ![r] = what]
    /\ UNCHANGED overlapped

\* The session is closed, and rolled back unless it has committed (get_db).
End(r, from, label) == Step(r, from, label, None)

\* A check raises, a statement fails, or the process dies: nothing is stored.
Abandon(r) == InProgress(r) /\ End(r, pc[r], "failed")
=============================================================================
