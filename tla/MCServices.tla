----------------------------- MODULE MCServices -----------------------------
(***************************************************************************)
(* The smaller services for TLC, side by side.  They share no rows, so a   *)
(* behaviour exercises one of them, chosen at the start: their state       *)
(* spaces add up instead of multiplying.  The request old belongs to the   *)
(* past and has left something behind; of the requests Now each service    *)
(* gets as many as its questions need.                                     *)
(***************************************************************************)
EXTENDS Projects, Invitations, Tokens, Counterparties, Contracts, Attachments,
        Values, RateLimiter, Connections, Notifications, TLC

CONSTANTS
    old, Now,                    \* the request of the past, those of the run
    client, owner, agent, boss,  \* users
    inn10, inn12                  \* INNs

VARIABLE active   \* the service this behaviour is about

MCRequests == Now \cup {old}
MCUsers == {client, owner, agent, boss}
MCRoleOf == client :> "CUSTOMER" @@ owner :> "CUSTOMER_ADMIN" @@ agent :> "SUPPORT_AGENT"
            @@ boss :> "SUPPORT_MANAGER"

MCDigits == <<"1", "2">>
MCKeysAsked == {<<"A", "B">>, <<"A", "-", "B", "1">>, <<"1", "A">>}
MCLifetimes == [access |-> 2, refresh |-> 4]
MCInnLength == inn10 :> 10 @@ inn12 :> 12
MCNumberLengths == [INN |-> {2, 4}, KPP |-> {3}, OKPO |-> {2, 3}]
MCSkew == [s1 |-> 0, s2 |-> 1]
MCPreferred == client :> None @@ owner :> {"EMAIL"} @@ agent :> {} @@ boss :> None

Services == {"projects", "invitations", "tokens", "counterparties", "contracts",
             "attachments", "values", "limiter", "connections", "notifications"}

\* How many requests of Now a behaviour uses; the others have failed before it begins.
Uses(s) == CASE s \in {"contracts", "values"} -> 0
             [] s = "notifications" -> 1
             [] s = "connections" -> 2
             [] OTHER -> 3

PastProjects ==
    /\ projects = {[id |-> old, key |-> <<"A", "B">>, owner |-> owner]}
    /\ members = {[by |-> old, project |-> p.id, user |-> p.owner] : p \in projects}
    /\ refusals = {}

PastInvitations ==
    /\ invitations = {Opened(old, "e1", "SUPPORT_AGENT")}
    /\ mailed = {i.id : i \in invitations}
    /\ expired = {} /\ revoked = {} /\ accounts = {}

PastCounterparties ==
    /\ counterparties = {Counterparty(old, "LEGAL_ENTITY", inn10, "c1", None)}
    /\ links = {} /\ contactsAdded = {}

PastNotifications ==
    /\ directory = <<client, agent>>
    /\ notifications = {[by |-> old, user |-> client, read |-> FALSE]}
    /\ shifted = {}
    /\ asked = [r \in Requests |-> {}]

Begin(s, used) ==
    /\ active = s
    /\ pc = [r \in Requests |-> IF r \in used THEN "idle"
                                ELSE IF r = old THEN "done" ELSE "failed"]
    /\ held = [r \in Requests |-> None]
    /\ overlapped = FALSE
    /\ IF s = "projects" THEN PastProjects ELSE ProjectsInit
    /\ IF s = "invitations" THEN PastInvitations ELSE InvitationsInit
    /\ IF s = "counterparties" THEN PastCounterparties ELSE CounterpartiesInit
    /\ IF s = "contracts" THEN ContractsInit
       ELSE contract = Hours("ACTIVE", 1, 0) /\ bought = 1 /\ spent = 0
    /\ IF s = "values" THEN ValuesInit
       ELSE kind = "INN" /\ given = NoText /\ stored = NoText /\ read = NoText
    /\ IF s = "notifications" THEN PastNotifications ELSE NotificationsInit
    /\ TokensInit /\ AttachmentsInit /\ RateLimiterInit /\ ConnectionsInit

MCInit == \E s \in Services, used \in SUBSET Now : Cardinality(used) = Uses(s) /\ Begin(s, used)

IdleBut(s) ==
    /\ UNCHANGED active
    /\ s \notin {"projects"} => UNCHANGED projectVars
    /\ s \notin {"invitations"} => UNCHANGED invitationVars
    /\ s \notin {"tokens"} => UNCHANGED tokenVars
    /\ s \notin {"counterparties"} => UNCHANGED counterpartyVars
    /\ s \notin {"contracts"} => UNCHANGED contractVars
    /\ s \notin {"attachments"} => UNCHANGED attachmentVars
    /\ s \notin {"values"} => UNCHANGED valueVars
    /\ s \notin {"limiter"} => UNCHANGED limiterVars
    /\ s \notin {"connections"} => UNCHANGED connectionVars
    /\ s \notin {"notifications"} => UNCHANGED notificationVars
    /\ s \in {"contracts", "values"} => UNCHANGED deskVars

MCNext ==
    \/ active = "projects" /\ ProjectsNext /\ IdleBut("projects")
    \/ active = "invitations" /\ InvitationsNext /\ IdleBut("invitations")
    \/ active = "tokens" /\ TokensNext /\ IdleBut("tokens")
    \/ active = "counterparties" /\ CounterpartiesNext /\ IdleBut("counterparties")
    \/ active = "contracts" /\ ContractsNext /\ IdleBut("contracts")
    \/ active = "attachments" /\ AttachmentsNext /\ IdleBut("attachments")
    \/ active = "values" /\ ValuesNext /\ IdleBut("values")
    \/ active = "limiter" /\ RateLimiterNext /\ IdleBut("limiter")
    \/ active = "connections" /\ ConnectionsNext /\ IdleBut("connections")
    \/ active = "notifications" /\ NotificationsNext /\ IdleBut("notifications")

MCVars == <<active, deskVars, projectVars, invitationVars, tokenVars, counterpartyVars,
            contractVars, attachmentVars, valueVars, limiterVars, connectionVars,
            notificationVars>>

MCSymmetry == Permutations(Now) \cup Permutations(Channels)

MCSpec == MCInit /\ [][MCNext]_MCVars
=============================================================================
