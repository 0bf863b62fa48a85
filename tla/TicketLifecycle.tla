--------------------------- MODULE TicketLifecycle --------------------------
(***************************************************************************)
(* What the ticket domain promises: a ticket is created once and then      *)
(* changes by single legal operations, each judged on the ticket as it is. *)
(* No requests, no snapshots, no history: module TicketService, with       *)
(* requests that do not overlap, implements this specification.            *)
(***************************************************************************)
EXTENDS TicketDomain

CONSTANTS Users, RoleOf, Priorities, None,
          Stamps    \* names of instants and of new texts

VARIABLE ticket

Absent == [status |-> "ABSENT"]

Owners == {ticket.created_by, ticket.reporter}

Init == ticket = Absent

\* A customer's ticket belongs to a counterparty and waits for approval.
Open(creator, reporter) ==
    /\ ticket = Absent
    /\ \E project, counterparty \in BOOLEAN, stamp \in Stamps, priority \in Priorities :
          /\ IsCustomer(RoleOf[creator]) => counterparty
          /\ ticket' = [project |-> project, counterparty |-> counterparty,
                        created_by |-> creator, reporter |-> reporter,
                        status |-> InitialStatus(RoleOf[creator]), assigned_to |-> None,
                        closed_at |-> None, deleted_at |-> None,
                        title |-> stamp, priority |-> priority]

\* Its author or its reporter rewords it, before the work starts.
Reword(user) ==
    /\ user \in Owners
    /\ ticket.status \in ALLOWED_EDIT_STATUSES
    /\ ticket.deleted_at = None
    /\ \E title \in Stamps, priority \in Priorities :
          ticket' = [ticket EXCEPT !.title = title, !.priority = priority]

\* Once, by its author, its reporter or a manager.
Archive(user) ==
    /\ user \in Owners \/ RoleOf[user] \in Managers
    /\ ticket.deleted_at = None
    /\ \E stamp \in Stamps : ticket' = [ticket EXCEPT !.deleted_at = stamp]

\* The support team hands it to one of its own while it is being worked on.
Assign(user, assignee) ==
    /\ {RoleOf[user], RoleOf[assignee]} \subseteq SupportTeam
    /\ ticket.status \in ALLOWED_ASSIGN_STATUSES
    /\ ticket' = [ticket EXCEPT !.assigned_to = assignee]

\* Along the graph of statuses; closing stamps the time.
Move(user, status) ==
    /\ MayChangeStatus(ticket.status, status, RoleOf[user])
    /\ \E stamp \in Stamps :
          ticket' = [ticket EXCEPT !.status = status,
                                   !.closed_at = IF status = "CLOSED" THEN stamp ELSE @]

Next ==
    \/ \E user, other \in Users : Open(user, other)
    \/ /\ ticket # Absent
       /\ \E user \in Users :
             \/ Reword(user)
             \/ Archive(user)
             \/ \E other \in Users : Assign(user, other)
             \/ \E status \in TicketStatuses : Move(user, status)

Spec == Init /\ [][Next]_ticket
=============================================================================
