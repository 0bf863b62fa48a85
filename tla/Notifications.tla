--------------------------- MODULE Notifications ----------------------------
(***************************************************************************)
(* Who is told of a new ticket: on_ticket_created (notifications/infra/    *)
(* handlers.py), the policy that finds its targets (notifications/         *)
(* policies.py), the iteration over pages of accounts (shared/utils/       *)
(* helpers.py, shared/infra/repos.py), the storing and sending of one      *)
(* notification for each target, and mark_as_read (notifications/          *)
(* services.py).                                                           *)
(*                                                                         *)
(* A page is two statements: one counts the accounts, the next reads those *)
(* of the page, newest first; whether there is a next page follows from    *)
(* the count.  Under READ COMMITTED each sees the accounts of its moment.  *)
(*                                                                         *)
(* Abstractions.  The tickets have one counterparty and one project, or    *)
(* none; a notification is named by its handler and target; texts are left *)
(* out.  The repositories of notifications and preferences are not in the  *)
(* source: they are taken to store and find as their protocols say.        *)
(***************************************************************************)
EXTENDS Desk

CONSTANTS
    Customer,       \* the user who creates tickets
    ProjectStaff,   \* the active owners, managers and members of the project
    Media,          \* the channels of the resolver
    Preferred,      \* for each user the channels enabled, or None
    Muted,          \* the users whose preference is muted
    PageSize        \* 50 in the code

ASSUME NotificationsAssumption ==
    /\ Customer \in Users /\ ProjectStaff \subseteq Users /\ Muted \subseteq Users
    /\ PageSize \in Nat \ {0}

VARIABLES
    directory,      \* the rows of table users, by created_at, newest first
    notifications,  \* the rows of table notifications: by, user, read
    asked,          \* for each handler: who was to be told when it began
    shifted         \* the handlers with an account stored between a count and its page

notificationVars == <<directory, notifications, asked, shifted>>

NotificationsInit ==
    /\ directory = <<>> /\ notifications = {} /\ shifted = {}
    /\ asked = [r \in Requests |-> {}]

Registered == {directory[i] : i \in DOMAIN directory}

\* A registration commits; another with a later created_at may have been faster.
StoreAccount(u) ==
    /\ u \notin Registered
    /\ \E i \in 0..Len(directory) :
          directory' = SubSeq(directory, 1, i) \o <<u>> \o
                       SubSeq(directory, i + 1, Len(directory))
    /\ shifted' = shifted \cup {r \in Requests : pc[r] = "counted"}
    /\ UNCHANGED <<notifications, asked>>
    /\ UNCHANGED deskVars

-----------------------------------------------------------------------------
(* TicketCreatedPolicy.get_targets.                                        *)

Support == Without(directory, {u \in Users : RoleOf[u] \notin SupportTeam})
SupportNow == {Support[i] : i \in DOMAIN Support}
CustomerAdmins == {u \in Registered : RoleOf[u] = "CUSTOMER_ADMIN"}

\* The reporter, and the counterparty's administrators if there is a counterparty.
First(hasCounterparty) == {Customer} \cup IF hasCounterparty THEN CustomerAdmins ELSE {}

TargetProject(r, hasCounterparty) ==
    /\ Start(r, "notifying", [targets |-> First(hasCounterparty) \cup ProjectStaff])
    /\ asked' = [asked EXCEPT ![r] = First(hasCounterparty) \cup ProjectStaff]
    /\ UNCHANGED <<directory, notifications, shifted>>

TargetSupport(r, hasCounterparty) ==
    /\ Start(r, "counting", [targets |-> First(hasCounterparty), page |-> 1])
    /\ asked' = [asked EXCEPT ![r] = First(hasCounterparty) \cup SupportNow]
    /\ UNCHANGED <<directory, notifications, shifted>>

\* _paginate, the first statement: with nobody there it is the only one.
CountSupport(r) ==
    /\ IF Support = <<>>
       THEN Step(r, "counting", "notifying", [targets |-> held[r].targets])
       ELSE Step(r, "counting", "counted",
                 [targets |-> held[r].targets, page |-> held[r].page, total |-> Len(Support)])
    /\ UNCHANGED notificationVars

\* Mutant: one too few.
HasNextExclusive(page, total) == page * PageSize < total - 1

HasNext(page, total) == page * PageSize < total

OnPage(page) ==
    {Support[i] : i \in DOMAIN Support \cap ((page - 1) * PageSize + 1)..(page * PageSize)}

\* _paginate, the second statement, and iterate_batches.
FetchSupport(r) ==
    /\ pc[r] = "counted"
    /\ LET targets == held[r].targets \cup OnPage(held[r].page)
       IN  IF HasNext(held[r].page, held[r].total)
           THEN Step(r, "counted", "counting", [targets |-> targets, page |-> held[r].page + 1])
           ELSE Step(r, "counted", "notifying", [targets |-> targets])
    /\ UNCHANGED notificationVars

-----------------------------------------------------------------------------
(* NotificationService.                                                    *)

\* ChannelResolver.resolve; a preference without channels is loaded with all.
Resolved(user) ==
    IF Preferred[user] = None THEN Media
    ELSE IF user \in Muted THEN {}
    ELSE IF Preferred[user] = {} THEN Media
    ELSE Media \cap Preferred[user]

\* notify, up to the commit, for the next target.
StoreNotification(r, user) ==
    /\ pc[r] = "notifying"
    /\ user \in held[r].targets
    /\ Step(r, "notifying", "sending",
            [targets |-> held[r].targets \ {user}, user |-> user, left |-> Resolved(user)])
    /\ notifications' = notifications \cup {[by |-> r, user |-> user, read |-> FALSE]}
    /\ UNCHANGED <<directory, asked, shifted>>

\* A channel sends, or fails with the error that notify catches: the loop goes on
\* alike.  Any other error ends the handler (Abandon).
SendBy(r, channel) ==
    /\ pc[r] = "sending"
    /\ channel \in held[r].left
    /\ Step(r, "sending", "sending", [held[r] EXCEPT !.left = @ \ {channel}])
    /\ UNCHANGED notificationVars

NextTarget(r) ==
    /\ pc[r] = "sending"
    /\ held[r].left = {}
    /\ Step(r, "sending", "notifying", [targets |-> held[r].targets])
    /\ UNCHANGED notificationVars

HandlerEnds(r) ==
    /\ pc[r] = "notifying"
    /\ held[r].targets = {}
    /\ End(r, "notifying", "done")
    /\ UNCHANGED notificationVars

\* mark_as_read: the row is read, and written back by its own user.
ReadNotification(r, n) ==
    /\ Start(r, "marking", n)
    /\ UNCHANGED notificationVars

MarkAsRead(r, by) ==
    /\ pc[r] = "marking"
    /\ ~held[r].read => by = held[r].user
    /\ End(r, "marking", "done")
    /\ notifications' = IF held[r].read THEN notifications
                        ELSE (notifications \ {held[r]}) \cup {[held[r] EXCEPT !.read = TRUE]}
    /\ UNCHANGED <<directory, asked, shifted>>

NotificationsNext ==
    \/ \E u \in Users : StoreAccount(u)
    \/ \E r \in Requests :
        \/ \E known \in BOOLEAN : TargetProject(r, known) \/ TargetSupport(r, known)
        \/ CountSupport(r)
        \/ FetchSupport(r)
        \/ \E u \in Users : StoreNotification(r, u) \/ MarkAsRead(r, u)
        \/ \E channel \in Media : SendBy(r, channel)
        \/ NextTarget(r)
        \/ HandlerEnds(r)
        \/ \E n \in notifications : ReadNotification(r, n)
        \/ Abandon(r) /\ UNCHANGED notificationVars

NotificationsSpec == DeskInit /\ NotificationsInit /\ [][NotificationsNext]_<<deskVars, notificationVars>>

-----------------------------------------------------------------------------
\* A handler that ran to its end has stored a notification for everybody who was
\* to be told when it began, whatever channels failed, unless an account was stored
\* between a count and the page it was for: then the iteration may end a page
\* early.  (get_targets over iterate_batches and _paginate, and notify.)
StaffIsTold ==
    \A r \in Requests :
        pc[r] = "done" /\ r \notin shifted =>
            \A u \in asked[r] : \E n \in notifications : n.by = r /\ n.user = u
=============================================================================
