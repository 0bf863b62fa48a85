--------------------------- MODULE MCTicketService --------------------------
(***************************************************************************)
(* TicketService for TLC.  A request lives once, so from an empty database *)
(* two or three requests reach only the first statuses.  The runs start    *)
(* from tickets with a past: what a sequence of requests, one after the    *)
(* other, made of a new ticket.                                            *)
(*                                                                         *)
(* Many roles with few requests and few roles with many requests are two   *)
(* scenes of one run: a behaviour belongs to one of them, chosen at the    *)
(* start, so that their state spaces add up.                               *)
(***************************************************************************)
EXTENDS TicketService, Naturals, Sequences, FiniteSets, TLC

CONSTANTS cust, cadm, agent, mgr,   \* users
          past,                     \* the requests of the past, a sequence
          Live,                     \* the requests of the run
          Scenes                    \* the scenes of the run

VARIABLE scene

MCPast == <<"p1", "p2", "p3", "p4", "p5", "p6", "p7", "p8">>
MCUsers == {cust, cadm, agent, mgr}
MCTwoUsers == {cust, mgr}
MCRequests == Live \cup {past[i] : i \in DOMAIN past}
AllRoles == cust :> "CUSTOMER" @@ cadm :> "CUSTOMER_ADMIN" @@
            agent :> "SUPPORT_AGENT" @@ mgr :> "SUPPORT_MANAGER"
AllProjectRoles == cust :> "CUSTOMER" @@ cadm :> "CUSTOMER_ADMIN" @@
                   agent :> "MEMBER" @@ mgr :> NoMembership
MCRoleOf == [u \in Users |-> AllRoles[u]]
MCProjectRoleOf == [u \in Users |-> AllProjectRoles[u]]
LiveSymmetry == Permutations(Live)

\* The longest way through the graph; its prefixes reach every status in it.
Way == <<"OPEN", "IN_PROGRESS", "WAITING", "IN_PROGRESS", "RESOLVED", "CLOSED", "REOPENED">>

\* The ticket and its history after the first k changes of status, made by the
\* manager one after the other.
Past[k \in 0..Len(Way)] ==
    IF k = 0
    THEN [row |-> [project |-> FALSE, counterparty |-> TRUE,
                   created_by |-> cust, reporter |-> cust,
                   status |-> InitialStatus("CUSTOMER"), assigned_to |-> None,
                   closed_at |-> None, deleted_at |-> None,
                   title |-> past[1], priority |-> "MEDIUM"],
          entries |-> {Entry(past[1], "ticket_created", cust, None, None)}]
    ELSE LET before == Past[k - 1]
             r == past[k + 1]
         IN  [row |-> [before.row EXCEPT !.status = Way[k],
                          !.closed_at = IF Way[k] = "CLOSED" THEN r ELSE @],
              entries |-> before.entries \cup
                          {Entry(r, "status_changed", mgr, before.row.status, Way[k])}]

\* A scene: who acts, how many requests run, the priorities asked for, and how many
\* changes of status may have gone before (none of them: there is no ticket yet).
Scene(users, running, priorities, starts) ==
    [users |-> users, running |-> running, priorities |-> priorities, starts |-> starts]

AllRolesInPairs == Scene(MCUsers, 2, {"MEDIUM", "HIGH"}, 0..7)
TwoRolesInThrees == Scene(MCTwoUsers, 3, {"MEDIUM"}, {0, 1, 6})

RacingScenes == {AllRolesInPairs, TwoRolesInThrees}
PairScenes == {AllRolesInPairs}
SerialScenes == {Scene(MCTwoUsers, 5, {"MEDIUM"}, {})}

\* Whom and what a session names belongs to the scene.
InScene(session) ==
    session # NoSession =>
        /\ {session.entity.created_by, session.entity.reporter} \subseteq scene.users
        /\ session.entity.assigned_to \in scene.users \cup {None}
        /\ session.entity.priority \in scene.priorities
        /\ \A e \in session.added : e.actor \in scene.users

\* The state after the first k changes, when nothing of the past is running.
After(k, running) ==
    /\ ticket = Past[k].row
    /\ history = Past[k].entries
    /\ pc = [r \in Requests |-> IF \E i \in 1..(k + 1) : r = past[i] THEN "done"
                                ELSE IF r \in running THEN "idle" ELSE "failed"]
    /\ snap = [r \in Requests |-> NoTicket]
    /\ seen = [r \in Requests |-> {}]
    /\ work = [r \in Requests |-> NoSession]
    /\ published = {e \in history : Announced(e)}

\* No ticket yet; the requests of the past never happened.
Empty(running) ==
    /\ ticket = NoTicket
    /\ history = {}
    /\ pc = [r \in Requests |-> IF r \in running THEN "idle" ELSE "failed"]
    /\ snap = [r \in Requests |-> NoTicket]
    /\ seen = [r \in Requests |-> {}]
    /\ work = [r \in Requests |-> NoSession]
    /\ published = {}

MCInit ==
    /\ scene \in Scenes
    /\ \E running \in SUBSET Live :
          /\ Cardinality(running) = scene.running
          /\ Empty(running) \/ \E k \in scene.starts : After(k, running)

MCNext ==
    /\ Next
    /\ \A r \in Live : InScene(work'[r])
    /\ UNCHANGED scene

MCSpec == MCInit /\ [][MCNext]_<<scene, vars>>
=============================================================================
