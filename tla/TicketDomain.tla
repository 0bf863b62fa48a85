---------------------------- MODULE TicketDomain ----------------------------
(***************************************************************************)
(* The rules of the ticket domain as pure operators: who may do what, and  *)
(* in which status.  Translated from tickets/domain/constants.py, the      *)
(* guards of Ticket's methods (tickets/domain/entities/ticket.py), the     *)
(* project rights of ProjectAccessService and the comment rights           *)
(* (tickets/domain/services.py), and the user roles of iam/domain/vo.py.   *)
(* No state: the modules about handlers EXTEND this one.                   *)
(***************************************************************************)

\* iam/domain/vo.py, UserRole.
UserRoles == {"CUSTOMER_ADMIN", "CUSTOMER", "SUPPORT_AGENT", "SUPPORT_MANAGER",
              "ACCOUNT_MANAGER", "FINANCE", "ADMIN"}

IsCustomer(role) == role \in {"CUSTOMER", "CUSTOMER_ADMIN"}

\* UserRole.is_support; the sets ticket.py spells out in assign_to are the same.
SupportTeam == {"SUPPORT_AGENT", "SUPPORT_MANAGER", "ADMIN"}

\* The two roles that every rule lets through.
Managers == {"ADMIN", "SUPPORT_MANAGER"}

ProjectRoles == {"OWNER", "MANAGER", "MEMBER", "VIEWER", "CUSTOMER", "CUSTOMER_ADMIN"}

\* What get_membership returns for a user who was never added.
NoMembership == "NO_MEMBERSHIP"

-----------------------------------------------------------------------------
(* Statuses and the graph between them.                                    *)

TicketStatuses == {"NEW", "PENDING_APPROVAL", "OPEN", "IN_PROGRESS", "WAITING",
                   "RESOLVED", "CLOSED", "REOPENED", "REJECTED", "CANCELED"}

ALLOWED_TRANSITIONS ==
    {<<"NEW", "PENDING_APPROVAL">>, <<"NEW", "OPEN">>,
     <<"PENDING_APPROVAL", "OPEN">>, <<"PENDING_APPROVAL", "REJECTED">>,
     <<"OPEN", "IN_PROGRESS">>,
     <<"IN_PROGRESS", "WAITING">>, <<"IN_PROGRESS", "RESOLVED">>,
     <<"WAITING", "IN_PROGRESS">>, <<"RESOLVED", "CLOSED">>,
     <<"CLOSED", "REOPENED">>, <<"REOPENED", "OPEN">>}

ALLOWED_ASSIGN_STATUSES == {"OPEN", "IN_PROGRESS", "WAITING", "RESOLVED"}

ALLOWED_EDIT_STATUSES == {"NEW", "PENDING_APPROVAL"}

NON_COMMENTABLE_STATUSES == {"CLOSED", "REJECTED", "CANCELED"}

\* Ticket.create: a customer's ticket waits for approval.
InitialStatus(role) == IF IsCustomer(role) THEN "PENDING_APPROVAL" ELSE "NEW"

-----------------------------------------------------------------------------
(* Rights on one status change: Ticket._can_change_to_status.              *)

\* Mutant: an agent may approve.
AgentApproves(from, to, role) ==
    \/ role \in Managers
    \/ /\ role = "SUPPORT_AGENT"
       /\ to \in {"OPEN", "IN_PROGRESS", "WAITING", "RESOLVED", "CLOSED"}
    \/ /\ role = "CUSTOMER_ADMIN"
       /\ \/ from = "PENDING_APPROVAL" /\ to \in {"OPEN", "REJECTED"}
          \/ from # "PENDING_APPROVAL" /\ to = "REOPENED"
    \/ /\ role = "CUSTOMER"
       /\ from = "CLOSED" /\ to = "REOPENED"

CanChangeToStatus(from, to, role) ==
    \/ role \in Managers
    \/ /\ role = "SUPPORT_AGENT"
       /\ from # "PENDING_APPROVAL"
       /\ to \in {"OPEN", "IN_PROGRESS", "WAITING", "RESOLVED", "CLOSED"}
    \/ /\ role = "CUSTOMER_ADMIN"
       /\ \/ from = "PENDING_APPROVAL" /\ to \in {"OPEN", "REJECTED"}
          \/ from # "PENDING_APPROVAL" /\ to = "REOPENED"
    \/ /\ role = "CUSTOMER"
       /\ from = "CLOSED" /\ to = "REOPENED"

\* Ticket.change_status lets the change through.
MayChangeStatus(from, to, role) ==
    <<from, to>> \in ALLOWED_TRANSITIONS /\ CanChangeToStatus(from, to, role)

-----------------------------------------------------------------------------
(* Rights inside a project: ProjectAccessService.  A membership that is    *)
(* read is always active: MembershipMapper.to_entity drops removed_at.     *)

CanCreateInProject(role, projectRole) ==
    role \in Managers \/ projectRole \in ProjectRoles \ {"VIEWER"}

CanAssignInProject(role, projectRole) ==
    role \in Managers \/ projectRole \in {"OWNER", "MANAGER"}

CanChangeStatusInProject(role, projectRole) ==
    role \in Managers \/ projectRole \in {"OWNER", "MANAGER", "MEMBER"}

=============================================================================
