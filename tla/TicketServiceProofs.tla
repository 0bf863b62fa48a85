------------------------- MODULE TicketServiceProofs ------------------------
(***************************************************************************)
(* Proofs about TicketService, for any set of requests, users and roles.   *)
(***************************************************************************)
EXTENDS TicketService, TLAPS

\* The constants as the proofs use them.
USE DEF Running, Committed

-----------------------------------------------------------------------------
(* Typing.                                                                 *)

\* NoTicket is not a row of the table.
LEMMA NoTicketIsNoRow == NoTicket \notin Tickets
BY DEF NoTicket, Tickets, TicketStatuses

\* The statuses a creation and a change write are statuses.
LEMMA StatusTypes ==
    /\ \A role : InitialStatus(role) \in TicketStatuses
    /\ \A from, to, role : MayChangeStatus(from, to, role) =>
          from \in TicketStatuses /\ to \in TicketStatuses
BY DEF InitialStatus, MayChangeStatus, ALLOWED_TRANSITIONS, TicketStatuses

\* What a handler leaves in its session, when its entity and entries are typed.
LEMMA UpsertTyped ==
    ASSUME TypeOK, NEW r \in Requests, NEW entity \in Tickets, NEW added \in SUBSET Entries,
           pc[r] = "loaded", Upsert(r, entity, added)
    PROVE  TypeOK'
<1>1. snap[r] \in Tickets /\ ticket \in Tickets /\ history \in SUBSET Entries
  BY DEF TypeOK
<1>2. PICK reload \in BOOLEAN :
         work' = [work EXCEPT ![r] =
                    [entity |-> entity, added |-> added,
                     base |-> IF reload THEN ticket ELSE snap[r],
                     orphaned |-> IF reload THEN history \ seen[r] ELSE {}]]
  BY DEF Upsert
<1>3. [entity |-> entity, added |-> added,
       base |-> IF reload THEN ticket ELSE snap[r],
       orphaned |-> IF reload THEN history \ seen[r] ELSE {}] \in Sessions
  BY <1>1 DEF Sessions
<1>4. work' \in [Requests -> Sessions \cup {NoSession}] /\ work'[r] \in Sessions
  BY <1>2, <1>3 DEF TypeOK
<1>5. QED
  BY <1>1, <1>2, <1>4 DEF TypeOK, Upsert, At, PCs

\* A flush writes, column by column, the entity's value or leaves the row's own.
LEMMA FlushedTyped ==
    ASSUME NEW s \in Sessions, NEW row \in Tickets
    PROVE  Flushed(s, row) \in Tickets
<1>1. s.entity \in Tickets /\ s.base \in Tickets
  BY DEF Sessions
<1>2. /\ Written(s.entity.status, s.base.status, row.status) \in TicketStatuses
      /\ Written(s.entity.assigned_to, s.base.assigned_to, row.assigned_to) \in Users \cup {None}
      /\ Written(s.entity.closed_at, s.base.closed_at, row.closed_at) \in Requests \cup {None}
      /\ Written(s.entity.deleted_at, s.base.deleted_at, row.deleted_at) \in Requests \cup {None}
      /\ Written(s.entity.title, s.base.title, row.title) \in Requests
      /\ Written(s.entity.priority, s.base.priority, row.priority) \in Priorities
  BY <1>1 DEF Written, Tickets
<1>3. QED
  BY <1>2 DEF Flushed, Tickets

\* A session that is closed keeps the types, wherever the request stops.
LEMMA CloseTyped ==
    ASSUME TypeOK, NEW r \in Requests, NEW label \in {"failed", "conflict", "done"},
           label \in {"conflict", "done"} => ticket # NoTicket,
           At(r, label), Close(r), UNCHANGED <<ticket, history>>,
           published' \in SUBSET Entries
    PROVE  TypeOK'
BY DEF TypeOK, At, Close, PCs

\* Every step keeps the types.
LEMMA NextTyped == ConstantsAssumption /\ TypeOK /\ [Next]_vars => TypeOK'
<1> SUFFICES ASSUME ConstantsAssumption, TypeOK, [Next]_vars
             PROVE  TypeOK'
  OBVIOUS
<1>0. CASE UNCHANGED vars
  BY <1>0 DEF vars, TypeOK
<1> SUFFICES ASSUME Next PROVE TypeOK'
  BY <1>0
<1> PICK r \in Requests :
        \/ \E user, reporter \in Users, project, counterparty \in BOOLEAN,
              priority \in Priorities :
              Create(r, user, reporter, project, counterparty, priority)
        \/ ReadTicket(r)
        \/ ReadHistory(r)
        \/ \E user \in Users, retitle \in BOOLEAN, priority \in Priorities :
              Edit(r, user, retitle, priority)
        \/ \E user \in Users : Archive(r, user)
        \/ \E user, assignee \in Users : AssignTo(r, user, assignee)
        \/ \E user \in Users, new \in TicketStatuses : ChangeStatus(r, user, new)
        \/ \E user \in Users, adds \in BOOLEAN : Discuss(r, user, adds)
        \/ Commit(r)
        \/ Conflict(r)
        \/ Publish(r)
        \/ Fail(r)
        \/ LoseEvents(r)
  BY DEF Next
<1> USE DEF ConstantsAssumption
<1>1. ASSUME NEW user \in Users, NEW reporter \in Users, NEW project \in BOOLEAN,
             NEW counterparty \in BOOLEAN, NEW priority \in Priorities,
             Create(r, user, reporter, project, counterparty, priority)
      PROVE  TypeOK'
  <2> DEFINE row == [project |-> project, counterparty |-> counterparty,
                     created_by |-> user, reporter |-> reporter,
                     status |-> InitialStatus(RoleOf[user]), assigned_to |-> None,
                     closed_at |-> None, deleted_at |-> None,
                     title |-> r, priority |-> priority]
             added == {Entry(r, "ticket_created", user, None, None)}
  <2>1. row \in Tickets
    BY StatusTypes DEF Tickets
  <2>2. added \in SUBSET Entries
    BY DEF Entries, Entry, Actions, Values
  <2>3. [entity |-> row, base |-> row, added |-> added, orphaned |-> {}] \in Sessions
    BY <2>1, <2>2 DEF Sessions
  <2>4. /\ ticket' = row /\ history' = added
        /\ work' = [work EXCEPT ![r] = [entity |-> row, base |-> row,
                                        added |-> added, orphaned |-> {}]]
        /\ pc' = [pc EXCEPT ![r] = "committed"]
        /\ UNCHANGED <<snap, seen, published>>
    BY <1>1 DEF Create, At
  <2> HIDE DEF row, added
  <2>5. row # NoTicket
    BY <2>1, NoTicketIsNoRow
  <2>6. \A q \in Requests : pc[q] \in {"idle", "failed"}
    BY <1>1 DEF Create, TypeOK
  <2>7. work' \in [Requests -> Sessions \cup {NoSession}] /\ work'[r] \in Sessions
    BY <2>3, <2>4 DEF TypeOK
  <2>8. QED
    BY <2>1, <2>2, <2>4, <2>5, <2>6, <2>7 DEF TypeOK, PCs
<1>2. CASE ReadTicket(r)
  BY <1>2 DEF ReadTicket, MayStart, At, TypeOK, PCs
<1>3. CASE ReadHistory(r)
  BY <1>3 DEF ReadHistory, At, TypeOK, PCs
<1>4. ASSUME NEW user \in Users, NEW retitle \in BOOLEAN, NEW priority \in Priorities,
             Edit(r, user, retitle, priority)
      PROVE  TypeOK'
  <2> DEFINE entity == [snap[r] EXCEPT !.title = IF retitle THEN r ELSE @, !.priority = priority]
             added == {e \in {Entry(r, "title_edited", user, None, None),
                              Entry(r, "priority_edited", user, None, None)} :
                          \/ e.action = "title_edited" /\ retitle
                          \/ e.action = "priority_edited" /\ priority # snap[r].priority}
  <2>1. snap[r] \in Tickets /\ pc[r] = "loaded"
    BY <1>4 DEF Edit, TypeOK
  <2>2. entity \in Tickets
    BY <2>1 DEF Tickets
  <2>3. added \in SUBSET Entries
    BY DEF Entries, Entry, Actions, Values
  <2>4. Upsert(r, entity, added)
    BY <1>4 DEF Edit
  <2> HIDE DEF entity, added
  <2>5. QED
    BY <2>1, <2>2, <2>3, <2>4, UpsertTyped
<1>5. ASSUME NEW user \in Users, Archive(r, user)
      PROVE  TypeOK'
  <2>1. snap[r] \in Tickets /\ pc[r] = "loaded"
    BY <1>5 DEF Archive, TypeOK
  <2>2. [snap[r] EXCEPT !.deleted_at = r] \in Tickets
    BY <2>1 DEF Tickets
  <2>3. {Entry(r, "ticket_archived", user, None, None)} \in SUBSET Entries
    BY DEF Entries, Entry, Actions, Values
  <2>4. \/ Upsert(r, snap[r], {})
        \/ Upsert(r, [snap[r] EXCEPT !.deleted_at = r],
                  {Entry(r, "ticket_archived", user, None, None)})
    BY <1>5 DEF Archive
  <2>5. QED
    BY <2>1, <2>2, <2>3, <2>4, UpsertTyped
<1>6. ASSUME NEW user \in Users, NEW assignee \in Users, AssignTo(r, user, assignee)
      PROVE  TypeOK'
  <2>1. snap[r] \in Tickets /\ pc[r] = "loaded"
    BY <1>6 DEF AssignTo, TypeOK
  <2>2. [snap[r] EXCEPT !.assigned_to = assignee] \in Tickets
    BY <2>1 DEF Tickets
  <2>3. {Entry(r, "assigned", user, None, None)} \in SUBSET Entries
    BY DEF Entries, Entry, Actions, Values
  <2>4. \/ Upsert(r, snap[r], {})
        \/ Upsert(r, [snap[r] EXCEPT !.assigned_to = assignee],
                  {Entry(r, "assigned", user, None, None)})
    BY <1>6 DEF AssignTo
  <2>5. QED
    BY <2>1, <2>2, <2>3, <2>4, UpsertTyped
<1>7. ASSUME NEW user \in Users, NEW new \in TicketStatuses, ChangeStatus(r, user, new)
      PROVE  TypeOK'
  <2>1. snap[r] \in Tickets /\ pc[r] = "loaded"
    BY <1>7 DEF ChangeStatus, TypeOK
  <2> DEFINE entity == [snap[r] EXCEPT !.status = new,
                                       !.closed_at = IF new = "CLOSED" THEN r ELSE @]
             added == {Entry(r, "status_changed", user, snap[r].status, new)}
  <2>2. entity \in Tickets
    BY <2>1 DEF Tickets
  <2>3. added \in SUBSET Entries
    BY <2>1 DEF Entries, Entry, Actions, Values, Tickets
  <2>4. Upsert(r, entity, added)
    BY <1>7 DEF ChangeStatus
  <2> HIDE DEF entity, added
  <2>5. QED
    BY <2>1, <2>2, <2>3, <2>4, UpsertTyped
<1>d. ASSUME NEW user \in Users, NEW adds \in BOOLEAN, Discuss(r, user, adds)
      PROVE  TypeOK'
  <2>1. snap[r] \in Tickets /\ pc[r] = "loaded"
    BY <1>d DEF Discuss, TypeOK
  <2>2. {Entry(r, "commented", user, None, None)} \in SUBSET Entries
    BY DEF Entries, Entry, Actions, Values
  <2>3. \/ Upsert(r, snap[r], {})
        \/ Upsert(r, snap[r], {Entry(r, "commented", user, None, None)})
    BY <1>d DEF Discuss
  <2>4. QED
    BY <2>1, <2>2, <2>3, UpsertTyped
<1>8. CASE Commit(r)
  <2>1. work[r] \in Sessions /\ ticket \in Tickets
    BY <1>8 DEF Commit, TypeOK
  <2>2. Flushed(work[r], ticket) \in Tickets
    BY <2>1, FlushedTyped
  <2>3. (history \ work[r].orphaned) \cup work[r].added \in SUBSET Entries
    BY <2>1 DEF TypeOK, Sessions
  <2>4. QED
    BY <1>8, <2>1, <2>2, <2>3, NoTicketIsNoRow DEF Commit, At, TypeOK, PCs
<1>9. CASE Conflict(r)
  BY <1>9, CloseTyped DEF Conflict, TypeOK
<1>10. CASE Publish(r)
  <2>1. {e \in work[r].added : Announced(e)} \in SUBSET Entries
    BY <1>10 DEF Publish, TypeOK, Sessions
  <2>2. QED
    BY <1>10, <2>1, CloseTyped DEF Publish, TypeOK
<1>11. CASE Fail(r)
  BY <1>11, CloseTyped DEF Fail, TypeOK
<1>12. CASE LoseEvents(r)
  BY <1>12, CloseTyped DEF LoseEvents, TypeOK
<1> QED
  BY <1>1, <1>2, <1>3, <1>4, <1>5, <1>6, <1>7, <1>d, <1>8, <1>9, <1>10, <1>11, <1>12

\* Every reachable state of the service is typed, for any requests and users.
THEOREM TypeCorrect == Spec => []TypeOK
<1>1. Init => TypeOK
  BY DEF Init, TypeOK, PCs
<1>2. QED
  BY <1>1, NextTyped, ConstantsAssumption, PTL DEF Spec

-----------------------------------------------------------------------------
(* What a handler may do to the aggregate.                                 *)

\* It leaves the status alone, and records no change of it ...
KeepsStatus(r, entity, added) ==
    /\ entity.status = snap[r].status
    /\ \A e \in added : e.action # "status_changed"

\* ... or changes it as the rules let one user change what was read.
MovesStatus(r, entity, added) ==
    \E user \in Users :
        /\ MayChangeStatus(snap[r].status, entity.status, RoleOf[user])
        /\ added = {Entry(r, "status_changed", user, snap[r].status, entity.status)}

Handles(r, entity, added) ==
    /\ pc[r] = "loaded"
    /\ entity.created_by = snap[r].created_by
    /\ \A e \in added : e.req = r
    /\ KeepsStatus(r, entity, added) \/ MovesStatus(r, entity, added)
    /\ Upsert(r, entity, added)

\* An edit handles what it read: entries of its own, the status untouched.
LEMMA EditHandles ==
    ASSUME TypeOK, NEW r \in Requests, NEW user \in Users, NEW retitle \in BOOLEAN,
           NEW priority \in Priorities, Edit(r, user, retitle, priority)
    PROVE  \E entity, added : Handles(r, entity, added)
<1> DEFINE entity == [snap[r] EXCEPT !.title = IF retitle THEN r ELSE @, !.priority = priority]
           added == {e \in {Entry(r, "title_edited", user, None, None),
                            Entry(r, "priority_edited", user, None, None)} :
                        \/ e.action = "title_edited" /\ retitle
                        \/ e.action = "priority_edited" /\ priority # snap[r].priority}
<1>1. snap[r] \in Tickets
  BY DEF Edit, TypeOK
<1>2. entity.status = snap[r].status /\ entity.created_by = snap[r].created_by
  BY <1>1 DEF Tickets
<1>3. \A e \in added : e.req = r /\ e.action # "status_changed"
  BY DEF Entry
<1>4. pc[r] = "loaded" /\ Upsert(r, entity, added)
  BY DEF Edit
<1> HIDE DEF entity, added
<1>5. QED
  BY <1>2, <1>3, <1>4 DEF Handles, KeepsStatus

\* So does an archiving,
LEMMA ArchiveHandles ==
    ASSUME TypeOK, NEW r \in Requests, NEW user \in Users, Archive(r, user)
    PROVE  \E entity, added : Handles(r, entity, added)
<1> DEFINE entity == [snap[r] EXCEPT !.deleted_at = r]
           added == {Entry(r, "ticket_archived", user, None, None)}
<1>1. snap[r] \in Tickets /\ pc[r] = "loaded"
  BY DEF Archive, TypeOK
<1>2. entity.status = snap[r].status /\ entity.created_by = snap[r].created_by
  BY <1>1 DEF Tickets
<1>3. \A e \in added : e.req = r /\ e.action # "status_changed"
  BY DEF Entry
<1>4. Upsert(r, snap[r], {}) \/ Upsert(r, entity, added)
  BY DEF Archive
<1> HIDE DEF entity, added
<1>5. CASE Upsert(r, snap[r], {})
  BY <1>1, <1>5 DEF Handles, KeepsStatus
<1>6. CASE Upsert(r, entity, added)
  BY <1>1, <1>2, <1>3, <1>6 DEF Handles, KeepsStatus
<1>7. QED
  BY <1>4, <1>5, <1>6

\* and an assignment.
LEMMA AssignHandles ==
    ASSUME TypeOK, NEW r \in Requests, NEW user \in Users, NEW assignee \in Users,
           AssignTo(r, user, assignee)
    PROVE  \E entity, added : Handles(r, entity, added)
<1> DEFINE entity == [snap[r] EXCEPT !.assigned_to = assignee]
           added == {Entry(r, "assigned", user, None, None)}
<1>1. snap[r] \in Tickets /\ pc[r] = "loaded"
  BY DEF AssignTo, TypeOK
<1>2. entity.status = snap[r].status /\ entity.created_by = snap[r].created_by
  BY <1>1 DEF Tickets
<1>3. \A e \in added : e.req = r /\ e.action # "status_changed"
  BY DEF Entry
<1>4. Upsert(r, snap[r], {}) \/ Upsert(r, entity, added)
  BY DEF AssignTo
<1> HIDE DEF entity, added
<1>5. CASE Upsert(r, snap[r], {})
  BY <1>1, <1>5 DEF Handles, KeepsStatus
<1>6. CASE Upsert(r, entity, added)
  BY <1>1, <1>2, <1>3, <1>6 DEF Handles, KeepsStatus
<1>7. QED
  BY <1>4, <1>5, <1>6

\* A change of status records itself, with its actor, in the one new entry.
LEMMA ChangeHandles ==
    ASSUME TypeOK, NEW r \in Requests, NEW user \in Users, NEW new \in TicketStatuses,
           ChangeStatus(r, user, new)
    PROVE  \E entity, added : Handles(r, entity, added)
<1> DEFINE entity == [snap[r] EXCEPT !.status = new,
                                     !.closed_at = IF new = "CLOSED" THEN r ELSE @]
           added == {Entry(r, "status_changed", user, snap[r].status, new)}
<1>1. snap[r] \in Tickets /\ pc[r] = "loaded"
  BY DEF ChangeStatus, TypeOK
<1>2. entity.status = new /\ entity.created_by = snap[r].created_by
  BY <1>1 DEF Tickets
<1>3. \A e \in added : e.req = r
  BY DEF Entry
<1>4. Upsert(r, entity, added) /\ MayChangeStatus(snap[r].status, new, RoleOf[user])
  BY DEF ChangeStatus
<1>5. added = {Entry(r, "status_changed", user, snap[r].status, entity.status)}
  BY <1>2
<1> HIDE DEF entity, added
<1>6. MovesStatus(r, entity, added)
  BY <1>2, <1>4, <1>5 DEF MovesStatus
<1>7. QED
  BY <1>1, <1>2, <1>3, <1>4, <1>6 DEF Handles

\* A comment keeps the status and adds at most its own entry.
LEMMA DiscussHandles ==
    ASSUME TypeOK, NEW r \in Requests, NEW user \in Users, NEW adds \in BOOLEAN,
           Discuss(r, user, adds)
    PROVE  \E entity, added : Handles(r, entity, added)
<1> DEFINE added == {Entry(r, "commented", user, None, None)}
<1>1. \A e \in added : e.req = r /\ e.action # "status_changed"
  BY DEF Entry
<1>2. pc[r] = "loaded" /\ (Upsert(r, snap[r], {}) \/ Upsert(r, snap[r], added))
  BY DEF Discuss
<1> HIDE DEF added
<1>3. QED
  BY <1>1, <1>2 DEF Handles, KeepsStatus

\* Every step is a creation, a read, a handler's upsert, or an end of a request.
LEMMA NextCases ==
    ASSUME TypeOK, Next
    PROVE  \E r \in Requests :
              \/ \E user, reporter \in Users, project, counterparty \in BOOLEAN,
                    priority \in Priorities :
                    Create(r, user, reporter, project, counterparty, priority)
              \/ ReadTicket(r)
              \/ ReadHistory(r)
              \/ \E entity, added : Handles(r, entity, added)
              \/ Commit(r) \/ Conflict(r) \/ Publish(r) \/ Fail(r) \/ LoseEvents(r)
BY EditHandles, ArchiveHandles, AssignHandles, ChangeHandles, DiscussHandles DEF Next

-----------------------------------------------------------------------------
(* Transactions: what the history holds, and whose it is.                  *)

\* AllOrNothing, ConflictMeansProgress and EventsAreFacts support each other; what
\* makes them inductive is that a session's new entries bear its own request.
TxnInv ==
    /\ AllOrNothing
    /\ ConflictMeansProgress
    /\ EventsAreFacts
    /\ \A r \in Requests : pc[r] \in {"merged", "committed"} =>
          \A e \in work[r].added : e.req = r

\* An end of a request that leaves the tables alone keeps the transaction facts.
LEMMA CloseTxn ==
    ASSUME TypeOK, TxnInv, NEW r \in Requests, NEW label \in {"failed", "conflict", "done"},
           pc[r] \in Running, pc[r] = "committed" => label = "done",
           At(r, label), Close(r), UNCHANGED <<ticket, history>>,
           published' \subseteq history
    PROVE  TxnInv'
<1>1. /\ \A q \in Requests : q # r =>
            pc'[q] = pc[q] /\ work'[q] = work[q] /\ seen'[q] = seen[q]
      /\ pc'[r] = label
  BY DEF At, Close, TypeOK
<1>2. \A e \in Entries : pc[e.req] \in Committed => pc'[e.req] \in Committed
  BY <1>1 DEF Entries
<1>3. AllOrNothing'
  BY <1>1, <1>2 DEF TxnInv, AllOrNothing, TypeOK
<1>4. ConflictMeansProgress'
  BY <1>1, <1>2 DEF TxnInv, ConflictMeansProgress, TypeOK
<1>5. QED
  BY <1>1, <1>3, <1>4 DEF TxnInv, EventsAreFacts

\* Every step keeps the transaction invariant.
LEMMA NextTxn == TypeOK /\ TypeOK' /\ TxnInv /\ [Next]_vars => TxnInv'
<1> SUFFICES ASSUME TypeOK, TypeOK', TxnInv, [Next]_vars
             PROVE  TxnInv'
  OBVIOUS
<1>0. CASE UNCHANGED vars
  BY <1>0 DEF vars, TxnInv, AllOrNothing, ConflictMeansProgress, EventsAreFacts
<1> SUFFICES ASSUME Next PROVE TxnInv'
  BY <1>0
<1> PICK r \in Requests :
        \/ \E user, reporter \in Users, project, counterparty \in BOOLEAN,
              priority \in Priorities :
              Create(r, user, reporter, project, counterparty, priority)
        \/ ReadTicket(r)
        \/ ReadHistory(r)
        \/ \E entity, added : Handles(r, entity, added)
        \/ Commit(r) \/ Conflict(r) \/ Publish(r) \/ Fail(r) \/ LoseEvents(r)
  BY NextCases
<1>1. ASSUME NEW user \in Users, NEW reporter \in Users, NEW project \in BOOLEAN,
             NEW counterparty \in BOOLEAN, NEW priority \in Priorities,
             Create(r, user, reporter, project, counterparty, priority)
      PROVE  TxnInv'
  <2>1. /\ history' = {Entry(r, "ticket_created", user, None, None)}
        /\ work'[r].added = history'
        /\ pc' = [pc EXCEPT ![r] = "committed"]
        /\ published' = published
        /\ \A q \in Requests : pc[q] \in {"idle", "failed"}
    BY <1>1 DEF Create, At, TypeOK
  <2>2. history = {} /\ published = {}
    BY <2>1 DEF TxnInv, AllOrNothing, EventsAreFacts, TypeOK, Entries
  <2>3. \A e \in history' : e.req = r
    BY <2>1 DEF Entry
  <2>4. QED
    BY <2>1, <2>2, <2>3 DEF TxnInv, AllOrNothing, ConflictMeansProgress, EventsAreFacts, TypeOK
<1>2. CASE ReadTicket(r) \/ ReadHistory(r)
  <2>1. /\ \A q \in Requests : q # r => pc'[q] = pc[q] /\ seen'[q] = seen[q]
        /\ pc'[r] \in {"reading", "loaded"} /\ pc[r] \notin Committed
        /\ UNCHANGED <<history, work, published>>
    BY <1>2 DEF ReadTicket, ReadHistory, MayStart, At, TypeOK
  <2>2. \A e \in Entries : pc[e.req] \in Committed => pc'[e.req] \in Committed
    BY <2>1 DEF Entries
  <2>3. QED
    BY <2>1, <2>2 DEF TxnInv, AllOrNothing, ConflictMeansProgress, EventsAreFacts, TypeOK
<1>3. ASSUME NEW entity, NEW added, Handles(r, entity, added)
      PROVE  TxnInv'
  <2>1. /\ \A q \in Requests : q # r => pc'[q] = pc[q] /\ work'[q] = work[q]
        /\ pc'[r] = "merged" /\ pc[r] = "loaded"
        /\ work'[r].added = added /\ work'[r].orphaned \subseteq history \ seen[r]
        /\ \A e \in added : e.req = r
        /\ UNCHANGED <<history, seen, published>>
    BY <1>3 DEF Handles, Upsert, At, TypeOK
  <2>2. \A e \in Entries : pc[e.req] \in Committed => pc'[e.req] \in Committed
    BY <2>1 DEF Entries
  <2>3. AllOrNothing'
    BY <2>1, <2>2 DEF TxnInv, AllOrNothing, TypeOK
  <2>4. \A e \in work'[r].orphaned :
            e \in history \ seen[r] /\ e.req # r /\ pc'[e.req] \in Committed
    BY <2>1, <2>2 DEF TxnInv, AllOrNothing, TypeOK
  <2>5. ConflictMeansProgress'
    BY <2>1, <2>2, <2>4 DEF TxnInv, ConflictMeansProgress, TypeOK
  <2>6. QED
    BY <2>1, <2>3, <2>5 DEF TxnInv, EventsAreFacts
<1>4. CASE Commit(r)
  <2>1. /\ \A q \in Requests : q # r => pc'[q] = pc[q]
        /\ pc'[r] = "committed" /\ pc[r] = "merged"
        /\ work[r].orphaned = {}
        /\ history' = history \cup work[r].added
        /\ UNCHANGED <<work, seen, published>>
    BY <1>4 DEF Commit, Flushable, At, TypeOK
  <2>2. \A e \in Entries : pc[e.req] \in Committed => pc'[e.req] \in Committed
    BY <2>1 DEF Entries
  <2>3. \A e \in history' : pc'[e.req] \in Committed
    BY <2>1, <2>2 DEF TxnInv, AllOrNothing, TypeOK
  <2>4. AllOrNothing'
    BY <2>1, <2>3 DEF TxnInv, AllOrNothing
  <2>5. ConflictMeansProgress'
    BY <2>1, <2>2 DEF TxnInv, ConflictMeansProgress, TypeOK
  <2>6. QED
    BY <2>1, <2>4, <2>5 DEF TxnInv, EventsAreFacts
<1>5. CASE Conflict(r)
  BY <1>5, CloseTxn DEF Conflict, TxnInv, EventsAreFacts
<1>6. CASE Publish(r)
  <2>1. work[r].added \subseteq history
    BY <1>6 DEF Publish, TxnInv, AllOrNothing
  <2>2. published' \subseteq history
    BY <1>6, <2>1 DEF Publish, TxnInv, EventsAreFacts
  <2>3. QED
    BY <1>6, <2>2, CloseTxn DEF Publish
<1>7. CASE Fail(r)
  BY <1>7, CloseTxn DEF Fail, TxnInv, EventsAreFacts
<1>8. CASE LoseEvents(r)
  BY <1>8, CloseTxn DEF LoseEvents, TxnInv, EventsAreFacts
<1> QED
  BY <1>1, <1>2, <1>3, <1>4, <1>5, <1>6, <1>7, <1>8

\* The transaction invariant holds in every reachable state.
LEMMA TxnInvariant == Spec => []TxnInv
<1>1. Init => TxnInv
  BY DEF Init, TxnInv, AllOrNothing, ConflictMeansProgress, EventsAreFacts
<1>2. QED
  BY <1>1, NextTxn, TypeCorrect, PTL DEF Spec

\* Whatever requests overlap, the history and the committed requests agree.
THEOREM TransactionsAreAtomic == Spec => []AllOrNothing
BY TxnInvariant, PTL DEF TxnInv

\* A request fails in the flush only if another request committed meanwhile.
THEOREM ConflictsComeFromCommits == Spec => []ConflictMeansProgress
BY TxnInvariant, PTL DEF TxnInv

\* Events are published for committed changes only.
THEOREM PublishedIsCommitted == Spec => []EventsAreFacts
BY TxnInvariant, PTL DEF TxnInv

\* No step loses a committed entry: Commit can only add, for a merge that took
\* entries out does not get through the flush.
LEMMA HistoryGrows == TypeOK /\ TxnInv /\ Next => history \subseteq history'
<1> SUFFICES ASSUME TypeOK, TxnInv, Next PROVE history \subseteq history'
  OBVIOUS
<1> PICK r \in Requests :
        \/ \E user, reporter \in Users, project, counterparty \in BOOLEAN,
              priority \in Priorities :
              Create(r, user, reporter, project, counterparty, priority)
        \/ ReadTicket(r)
        \/ ReadHistory(r)
        \/ \E entity, added : Handles(r, entity, added)
        \/ Commit(r) \/ Conflict(r) \/ Publish(r) \/ Fail(r) \/ LoseEvents(r)
  BY NextCases
<1>1. ASSUME NEW user \in Users, NEW reporter \in Users, NEW project \in BOOLEAN,
             NEW counterparty \in BOOLEAN, NEW priority \in Priorities,
             Create(r, user, reporter, project, counterparty, priority)
      PROVE  history \subseteq history'
  <2>1. \A q \in Requests : pc[q] \in {"idle", "failed"}
    BY <1>1 DEF Create, TypeOK
  <2>2. history = {}
    BY <2>1 DEF TxnInv, AllOrNothing, TypeOK, Entries
  <2>3. QED
    BY <2>2
<1>2. CASE Commit(r)
  BY <1>2 DEF Commit, Flushable
<1>3. CASE \/ ReadTicket(r) \/ ReadHistory(r) \/ \E entity, added : Handles(r, entity, added)
           \/ Conflict(r) \/ Publish(r) \/ Fail(r) \/ LoseEvents(r)
  BY <1>3 DEF ReadTicket, ReadHistory, Handles, Upsert, Conflict, Publish, Fail, LoseEvents
<1> QED
  BY <1>1, <1>2, <1>3

\* The audit trail is append-only under any interleaving.
THEOREM HistoryNeverShrinks == Spec => HistoryAppendOnly
<1>1. TypeOK /\ TxnInv /\ [Next]_vars => [history \subseteq history']_vars
  BY HistoryGrows
<1>2. QED
  BY <1>1, TypeCorrect, TxnInvariant, PTL DEF Spec, HistoryAppendOnly

-----------------------------------------------------------------------------
(* Where a status comes from.                                              *)

Known(creator, status, entries) ==
    status = InitialStatus(RoleOf[creator]) \/ Recorded(status, entries)

Approved(creator, status, entries) ==
    IsCustomer(RoleOf[creator]) =>
        status \in {"PENDING_APPROVAL", "REJECTED"} \/ \E e \in entries : IsApproval(e)

Legit(row, entries) ==
    Known(row.created_by, row.status, entries) /\ Approved(row.created_by, row.status, entries)

\* The stored ticket is legitimate for the stored history; so is every row a
\* request still holds, however stale it is; and what a session is about to write
\* is legitimate for the history with the session's own entries added.
Provenance ==
    /\ ticket # NoTicket =>
          /\ Legit(ticket, history)
          /\ \A e \in history : e.action = "status_changed" =>
                Known(ticket.created_by, e.old, history)
    /\ \A r \in Requests : pc[r] \in {"reading", "loaded"} =>
          snap[r].created_by = ticket.created_by /\ Legit(snap[r], history)
    /\ \A r \in Requests : pc[r] = "merged" =>
          /\ work[r].entity.created_by = ticket.created_by
          /\ Legit(work[r].entity, history \cup work[r].added)
          /\ \A e \in work[r].added : e.action = "status_changed" =>
                Known(ticket.created_by, e.old, history)

\* More history cannot make a row less legitimate.
LEMMA LegitMonotone ==
    ASSUME NEW row, NEW small, NEW big, small \subseteq big, Legit(row, small)
    PROVE  Legit(row, big)
BY DEF Legit, Known, Approved, Recorded

\* A known status stays known when the history grows.
LEMMA KnownMonotone ==
    ASSUME NEW creator, NEW status, NEW small, NEW big, small \subseteq big,
           Known(creator, status, small)
    PROVE  Known(creator, status, big)
BY DEF Known, Recorded

\* The heart of the approval gate: one permitted change of status, of a legitimate
\* row, is legitimate once its own entry is counted.
LEMMA MoveIsLegit ==
    ASSUME NEW row, NEW entity, NEW entries, NEW r, NEW user,
           Legit(row, entries), entity.created_by = row.created_by,
           MayChangeStatus(row.status, entity.status, RoleOf[user])
    PROVE  Legit(entity, entries \cup
                 {Entry(r, "status_changed", user, row.status, entity.status)})
<1> DEFINE entry == Entry(r, "status_changed", user, row.status, entity.status)
           all == entries \cup {entry}
<1>1. /\ entry.action = "status_changed" /\ entry.actor = user
      /\ entry.old = row.status /\ entry.new = entity.status
  BY DEF Entry
<1> HIDE DEF entry
<1>2. Known(entity.created_by, entity.status, all)
  BY <1>1 DEF Known, Recorded
<1>3. Approved(entity.created_by, entity.status, all)
  <2>1. SUFFICES ASSUME IsCustomer(RoleOf[row.created_by]),
                        entity.status \notin {"PENDING_APPROVAL", "REJECTED"}
                 PROVE  \E e \in all : IsApproval(e)
    BY DEF Approved
  <2>2. CASE row.status = "PENDING_APPROVAL"
    <3>1. entity.status = "OPEN"
      BY <2>1, <2>2 DEF MayChangeStatus, ALLOWED_TRANSITIONS
    <3>2. RoleOf[user] \in Approvers
      BY <2>2, <3>1 DEF MayChangeStatus, CanChangeToStatus, Approvers
    <3>3. IsApproval(entry)
      BY <1>1, <2>2, <3>1, <3>2 DEF IsApproval
    <3>4. QED
      BY <3>3
  <2>3. CASE row.status # "PENDING_APPROVAL"
    <3>1. row.status # "REJECTED"
      BY DEF MayChangeStatus, ALLOWED_TRANSITIONS
    <3>2. QED
      BY <2>1, <2>3, <3>1 DEF Legit, Approved
  <2>4. QED
    BY <2>2, <2>3
<1>4. QED
  BY <1>2, <1>3 DEF Legit, entry

\* What an end of a request leaves of the facts about provenance.
LEMMA CloseProvenance ==
    ASSUME TypeOK, Provenance, NEW r \in Requests,
           NEW label \in {"failed", "conflict", "done"},
           At(r, label), Close(r), UNCHANGED <<ticket, history>>
    PROVE  Provenance'
<1>1. /\ \A q \in Requests : q # r => pc'[q] = pc[q] /\ work'[q] = work[q] /\ snap'[q] = snap[q]
      /\ pc'[r] \in {"failed", "conflict", "done"}
  BY DEF At, Close, TypeOK
<1> QED
  BY <1>1 DEF Provenance

\* Every step keeps the provenance of statuses.
LEMMA NextProvenance ==
    TypeOK /\ TypeOK' /\ TxnInv /\ Provenance /\ [Next]_vars => Provenance'
<1> SUFFICES ASSUME TypeOK, TypeOK', TxnInv, Provenance, [Next]_vars
             PROVE  Provenance'
  OBVIOUS
<1>0. CASE UNCHANGED vars
  BY <1>0 DEF vars, Provenance
<1> SUFFICES ASSUME Next PROVE Provenance'
  BY <1>0
<1> PICK r \in Requests :
        \/ \E user, reporter \in Users, project, counterparty \in BOOLEAN,
              priority \in Priorities :
              Create(r, user, reporter, project, counterparty, priority)
        \/ ReadTicket(r)
        \/ ReadHistory(r)
        \/ \E entity, added : Handles(r, entity, added)
        \/ Commit(r) \/ Conflict(r) \/ Publish(r) \/ Fail(r) \/ LoseEvents(r)
  BY NextCases
<1>1. ASSUME NEW user \in Users, NEW reporter \in Users, NEW project \in BOOLEAN,
             NEW counterparty \in BOOLEAN, NEW priority \in Priorities,
             Create(r, user, reporter, project, counterparty, priority)
      PROVE  Provenance'
  <2>1. /\ history' = {Entry(r, "ticket_created", user, None, None)}
        /\ ticket'.created_by = user /\ ticket'.status = InitialStatus(RoleOf[user])
        /\ \A q \in Requests : pc'[q] \in {"idle", "failed", "committed"}
    BY <1>1 DEF Create, At, TypeOK
  <2>2. Legit(ticket', history')
    BY <2>1 DEF Legit, Known, Approved, InitialStatus
  <2>3. \A e \in history' : e.action # "status_changed"
    BY <2>1 DEF Entry
  <2>4. QED
    BY <2>1, <2>2, <2>3 DEF Provenance
<1>2. CASE ReadTicket(r)
  <2>1. /\ \A q \in Requests : q # r => pc'[q] = pc[q] /\ snap'[q] = snap[q]
        /\ pc'[r] = "reading" /\ snap'[r] = ticket /\ ticket # NoTicket
        /\ UNCHANGED <<ticket, history, work>>
    BY <1>2 DEF ReadTicket, At, TypeOK
  <2>2. QED
    BY <2>1 DEF Provenance
<1>3. CASE ReadHistory(r)
  <2>1. /\ \A q \in Requests : q # r => pc'[q] = pc[q]
        /\ pc[r] = "reading" /\ pc'[r] = "loaded"
        /\ UNCHANGED <<ticket, history, work, snap>>
    BY <1>3 DEF ReadHistory, At, TypeOK
  <2>2. QED
    BY <2>1 DEF Provenance
<1>4. ASSUME NEW entity, NEW added, Handles(r, entity, added)
      PROVE  Provenance'
  <2>1. /\ \A q \in Requests : q # r => pc'[q] = pc[q] /\ work'[q] = work[q]
        /\ pc'[r] = "merged" /\ pc[r] = "loaded"
        /\ work'[r].entity = entity /\ work'[r].added = added
        /\ UNCHANGED <<ticket, history, snap>>
    BY <1>4 DEF Handles, Upsert, At, TypeOK
  <2>2. /\ entity.created_by = snap[r].created_by
        /\ snap[r].created_by = ticket.created_by /\ Legit(snap[r], history)
    BY <1>4, <2>1 DEF Handles, Provenance
  <2>3. Legit(entity, history \cup added)
    <3>1. CASE KeepsStatus(r, entity, added)
      <4>1. Legit(entity, history)
        BY <2>2, <3>1 DEF KeepsStatus, Legit
      <4>2. QED
        BY <4>1, LegitMonotone
    <3>2. CASE MovesStatus(r, entity, added)
      BY <2>2, <3>2, MoveIsLegit DEF MovesStatus
    <3>3. QED
      BY <1>4, <3>1, <3>2 DEF Handles
  <2>4. \A e \in added : e.action = "status_changed" => Known(ticket.created_by, e.old, history)
    <3>1. CASE KeepsStatus(r, entity, added)
      BY <3>1 DEF KeepsStatus
    <3>2. CASE MovesStatus(r, entity, added)
      <4>1. \A e \in added : e.old = snap[r].status
        BY <3>2 DEF MovesStatus, Entry
      <4>2. QED
        BY <2>2, <4>1 DEF Legit
    <3>3. QED
      BY <1>4, <3>1, <3>2 DEF Handles
  <2>5. QED
    BY <2>1, <2>2, <2>3, <2>4 DEF Provenance
<1>5. CASE Commit(r)
  <2> DEFINE entity == work[r].entity
             added == work[r].added
  <2>1. /\ \A q \in Requests : q # r => pc'[q] = pc[q]
        /\ pc'[r] = "committed" /\ pc[r] = "merged"
        /\ history' = history \cup added
        /\ ticket \in Tickets /\ entity \in Tickets /\ ticket # NoTicket
        /\ UNCHANGED <<work, snap>>
    BY <1>5, NoTicketIsNoRow DEF Commit, Flushable, At, TypeOK, Sessions
  <2>2. /\ ticket'.created_by = ticket.created_by
        /\ ticket'.status \in {ticket.status, entity.status}
    BY <1>5, <2>1 DEF Commit, Flushed, Written, Tickets
  <2>3. /\ entity.created_by = ticket.created_by
        /\ Legit(entity, history') /\ Legit(ticket, history)
        /\ \A e \in history' : e.action = "status_changed" =>
              Known(ticket.created_by, e.old, history)
    BY <2>1 DEF Provenance
  <2>4. Legit(ticket, history')
    BY <2>1, <2>3, LegitMonotone
  <2>5. Legit(ticket', history')
    BY <2>2, <2>3, <2>4 DEF Legit
  <2>6. \A e \in history' : e.action = "status_changed" =>
           Known(ticket'.created_by, e.old, history')
    BY <2>1, <2>2, <2>3, KnownMonotone
  <2>7. \A q \in Requests : pc'[q] \in {"reading", "loaded"} =>
           snap'[q].created_by = ticket'.created_by /\ Legit(snap'[q], history')
    BY <2>1, <2>2, LegitMonotone DEF Provenance
  <2>8. ASSUME NEW q \in Requests, pc'[q] = "merged"
        PROVE  /\ work'[q].entity.created_by = ticket'.created_by
               /\ Legit(work'[q].entity, history' \cup work'[q].added)
               /\ \A e \in work'[q].added : e.action = "status_changed" =>
                     Known(ticket'.created_by, e.old, history')
    <3>1. /\ work'[q] = work[q] /\ pc[q] = "merged"
          /\ history \cup work[q].added \subseteq history' \cup work[q].added
          /\ history \subseteq history'
      BY <2>1, <2>8
    <3>2. /\ work[q].entity.created_by = ticket.created_by
          /\ Legit(work[q].entity, history \cup work[q].added)
          /\ \A e \in work[q].added : e.action = "status_changed" =>
                Known(ticket.created_by, e.old, history)
      BY <3>1 DEF Provenance
    <3>3. Legit(work[q].entity, history' \cup work[q].added)
      BY <3>1, <3>2, LegitMonotone
    <3>4. \A e \in work[q].added : e.action = "status_changed" =>
             Known(ticket.created_by, e.old, history')
      BY <3>1, <3>2, KnownMonotone
    <3>5. QED
      BY <2>2, <3>1, <3>2, <3>3, <3>4
  <2>9. QED
    BY <2>5, <2>6, <2>7, <2>8 DEF Provenance
<1>6. CASE Conflict(r) \/ Publish(r) \/ Fail(r) \/ LoseEvents(r)
  BY <1>6, CloseProvenance DEF Conflict, Publish, Fail, LoseEvents
<1> QED
  BY <1>1, <1>2, <1>3, <1>4, <1>5, <1>6

\* Every status anybody holds has its provenance in the history.
LEMMA ProvenanceInvariant == Spec => []Provenance
<1>1. Init => Provenance
  BY DEF Init, Provenance
<1>2. QED
  BY <1>1, NextProvenance, TypeCorrect, TxnInvariant, PTL DEF Spec

\* No work on a customer's ticket without an approval in its history, for every
\* interleaving of any number of requests.
THEOREM ApprovalGateHolds == Spec => []ApprovalGate
<1>1. Provenance => ApprovalGate
  BY DEF Provenance, ApprovalGate, Legit, Approved
<1>2. QED
  BY <1>1, ProvenanceInvariant, PTL

\* The stored status, and the origin of every recorded change, is the initial
\* status or one that a recorded change set.
THEOREM StatusIsExplained == Spec => []StatusExplained
<1>1. Provenance => StatusExplained
  BY DEF Provenance, StatusExplained, Legit, Known
<1>2. QED
  BY <1>1, ProvenanceInvariant, PTL

-----------------------------------------------------------------------------
(* Requests that do not overlap: TicketService implements TicketLifecycle. *)
(*                                                                         *)
(* The argument: a lone request's snapshot is the stored row up to its     *)
(* commit, so merge finds the row the checks were made on and the flush    *)
(* writes exactly the entity.  For the same reason the stamps of the row   *)
(* and the history of their setting stay together.                         *)

\* The entity e is what one legal operation makes of the row t, or t itself.
LegalResult(t, e) ==
    \/ e = t
    \/ \E user \in Users, title \in Requests, priority \in Priorities :
          /\ user \in {t.created_by, t.reporter}
          /\ t.status \in ALLOWED_EDIT_STATUSES
          /\ t.deleted_at = None
          /\ e = [t EXCEPT !.title = title, !.priority = priority]
    \/ \E user \in Users, stamp \in Requests :
          /\ user \in {t.created_by, t.reporter} \/ RoleOf[user] \in Managers
          /\ t.deleted_at = None
          /\ e = [t EXCEPT !.deleted_at = stamp]
    \/ \E user, assignee \in Users :
          /\ {RoleOf[user], RoleOf[assignee]} \subseteq SupportTeam
          /\ t.status \in ALLOWED_ASSIGN_STATUSES
          /\ e = [t EXCEPT !.assigned_to = assignee]
    \/ \E user \in Users, new \in TicketStatuses, stamp \in Requests :
          /\ MayChangeStatus(t.status, new, RoleOf[user])
          /\ e = [t EXCEPT !.status = new,
                           !.closed_at = IF new = "CLOSED" THEN stamp ELSE @]

\* One request at a time, and what it holds is current.
SerialInv ==
    /\ \A q, r \in Requests : pc[q] \in Running /\ pc[r] \in Running => q = r
    /\ \A r \in Requests : pc[r] \in {"reading", "loaded"} => snap[r] = ticket
    /\ \A r \in Requests : pc[r] = "merged" =>
          work[r].base = ticket /\ LegalResult(ticket, work[r].entity)

\* The handlers produce legal results of the row they read.
LEMMA HandlersAreLegal ==
    ASSUME TypeOK, NEW r \in Requests,
           \/ \E user \in Users, retitle \in BOOLEAN, priority \in Priorities :
                 Edit(r, user, retitle, priority)
           \/ \E user \in Users : Archive(r, user)
           \/ \E user, assignee \in Users : AssignTo(r, user, assignee)
           \/ \E user \in Users, new \in TicketStatuses : ChangeStatus(r, user, new)
           \/ \E user \in Users, adds \in BOOLEAN : Discuss(r, user, adds)
    PROVE  /\ pc[r] = "loaded"
           /\ \E entity, added : LegalResult(snap[r], entity) /\ Upsert(r, entity, added)
<1>0. pc[r] = "loaded" /\ snap[r] \in Tickets
  BY DEF Edit, Archive, AssignTo, ChangeStatus, Discuss, TypeOK
<1>1. ASSUME NEW user \in Users, NEW retitle \in BOOLEAN, NEW priority \in Priorities,
             Edit(r, user, retitle, priority)
      PROVE  \E entity, added : LegalResult(snap[r], entity) /\ Upsert(r, entity, added)
  <2> DEFINE title == IF retitle THEN r ELSE snap[r].title
             entity == [snap[r] EXCEPT !.title = title, !.priority = priority]
  <2>1. title \in Requests
    BY <1>0 DEF Tickets
  <2>2. LegalResult(snap[r], entity)
    <3>1. /\ user \in {snap[r].created_by, snap[r].reporter}
          /\ snap[r].status \in ALLOWED_EDIT_STATUSES
          /\ snap[r].deleted_at = None
      BY <1>1 DEF Edit
    <3> HIDE DEF title
    <3>2. QED
      BY <2>1, <3>1 DEF LegalResult
  <2>3. \E added : Upsert(r, entity, added)
    BY <1>1 DEF Edit
  <2>4. QED
    BY <2>2, <2>3
<1>2. ASSUME NEW user \in Users, Archive(r, user)
      PROVE  \E entity, added : LegalResult(snap[r], entity) /\ Upsert(r, entity, added)
  <2>1. CASE Upsert(r, snap[r], {})
    BY <2>1 DEF LegalResult
  <2>2. CASE /\ snap[r].deleted_at = None
             /\ \E added : Upsert(r, [snap[r] EXCEPT !.deleted_at = r], added)
    <3>1. LegalResult(snap[r], [snap[r] EXCEPT !.deleted_at = r])
      BY <1>2, <2>2 DEF Archive, LegalResult
    <3>2. QED
      BY <2>2, <3>1
  <2>3. QED
    BY <1>2, <2>1, <2>2 DEF Archive
<1>3. ASSUME NEW user \in Users, NEW assignee \in Users, AssignTo(r, user, assignee)
      PROVE  \E entity, added : LegalResult(snap[r], entity) /\ Upsert(r, entity, added)
  <2>1. CASE Upsert(r, snap[r], {})
    BY <2>1 DEF LegalResult
  <2>2. CASE \E added : Upsert(r, [snap[r] EXCEPT !.assigned_to = assignee], added)
    <3>1. LegalResult(snap[r], [snap[r] EXCEPT !.assigned_to = assignee])
      BY <1>3 DEF AssignTo, LegalResult
    <3>2. QED
      BY <2>2, <3>1
  <2>3. QED
    BY <1>3, <2>1, <2>2 DEF AssignTo
<1>4. ASSUME NEW user \in Users, NEW new \in TicketStatuses, ChangeStatus(r, user, new)
      PROVE  \E entity, added : LegalResult(snap[r], entity) /\ Upsert(r, entity, added)
  <2> DEFINE entity == [snap[r] EXCEPT !.status = new,
                                       !.closed_at = IF new = "CLOSED" THEN r ELSE @]
  <2>1. LegalResult(snap[r], entity)
    BY <1>4 DEF ChangeStatus, LegalResult
  <2>2. \E added : Upsert(r, entity, added)
    BY <1>4 DEF ChangeStatus
  <2>3. QED
    BY <2>1, <2>2
<1>5. ASSUME NEW user \in Users, NEW adds \in BOOLEAN, Discuss(r, user, adds)
      PROVE  \E entity, added : LegalResult(snap[r], entity) /\ Upsert(r, entity, added)
  BY <1>5 DEF Discuss, LegalResult
<1>6. QED
  BY <1>0, <1>1, <1>2, <1>3, <1>4, <1>5

\* A row is the record of its columns.
LEMMA RowIsItsColumns ==
    ASSUME NEW row \in Tickets
    PROVE  row = [project |-> row.project, counterparty |-> row.counterparty,
                  created_by |-> row.created_by, reporter |-> row.reporter,
                  status |-> row.status, assigned_to |-> row.assigned_to,
                  closed_at |-> row.closed_at, deleted_at |-> row.deleted_at,
                  title |-> row.title, priority |-> row.priority]
BY DEF Tickets

\* Two rows that agree on every column are equal.
LEMMA RowsAgree ==
    ASSUME NEW a \in Tickets, NEW b \in Tickets,
           a.project = b.project, a.counterparty = b.counterparty,
           a.created_by = b.created_by, a.reporter = b.reporter,
           a.status = b.status, a.assigned_to = b.assigned_to,
           a.closed_at = b.closed_at, a.deleted_at = b.deleted_at,
           a.title = b.title, a.priority = b.priority
    PROVE  a = b
BY RowIsItsColumns

\* Merged into the row it was computed from, an entity is written as it is.
LEMMA FlushWritesEntity ==
    ASSUME NEW s, NEW row \in Tickets, s.entity \in Tickets, s.base = row,
           LegalResult(row, s.entity)
    PROVE  Flushed(s, row) = s.entity
<1>1. /\ s.entity.project = row.project /\ s.entity.counterparty = row.counterparty
      /\ s.entity.created_by = row.created_by /\ s.entity.reporter = row.reporter
  BY DEF LegalResult, Tickets
<1>2. /\ Written(s.entity.status, s.base.status, row.status) = s.entity.status
      /\ Written(s.entity.assigned_to, s.base.assigned_to, row.assigned_to) = s.entity.assigned_to
      /\ Written(s.entity.closed_at, s.base.closed_at, row.closed_at) = s.entity.closed_at
      /\ Written(s.entity.deleted_at, s.base.deleted_at, row.deleted_at) = s.entity.deleted_at
      /\ Written(s.entity.title, s.base.title, row.title) = s.entity.title
      /\ Written(s.entity.priority, s.base.priority, row.priority) = s.entity.priority
  BY DEF Written
<1> DEFINE f == Flushed(s, row)
<1>3. /\ f.project = row.project /\ f.counterparty = row.counterparty
      /\ f.created_by = row.created_by /\ f.reporter = row.reporter
      /\ f.status = s.entity.status /\ f.assigned_to = s.entity.assigned_to
      /\ f.closed_at = s.entity.closed_at /\ f.deleted_at = s.entity.deleted_at
      /\ f.title = s.entity.title /\ f.priority = s.entity.priority
  BY <1>2 DEF Flushed, Tickets
<1>4. f \in Tickets
  BY <1>2 DEF Flushed, Tickets
<1> HIDE DEF f
<1>5. f = s.entity
  BY <1>1, <1>3, <1>4, RowsAgree
<1>6. QED
  BY <1>5 DEF f

\* What a legal operation makes of the current ticket is a step of its life.
LEMMA LegalResultIsLegal ==
    ASSUME ticket # NoTicket, LegalResult(ticket, ticket')
    PROVE  [L!Next]_ticket
<1>1. CASE ticket' = ticket
  BY <1>1
<1>2. CASE \E user \in Users, title \in Requests, priority \in Priorities :
             /\ user \in {ticket.created_by, ticket.reporter}
             /\ ticket.status \in ALLOWED_EDIT_STATUSES
             /\ ticket.deleted_at = None
             /\ ticket' = [ticket EXCEPT !.title = title, !.priority = priority]
  <2>1. \E user \in Users : L!Reword(user)
    BY <1>2 DEF L!Reword, L!Owners, L!ALLOWED_EDIT_STATUSES, ALLOWED_EDIT_STATUSES
  <2>2. QED
    BY <2>1 DEF L!Next, L!Absent, NoTicket
<1>3. CASE \E user \in Users, stamp \in Requests :
             /\ user \in {ticket.created_by, ticket.reporter} \/ RoleOf[user] \in Managers
             /\ ticket.deleted_at = None
             /\ ticket' = [ticket EXCEPT !.deleted_at = stamp]
  <2>1. \E user \in Users : L!Archive(user)
    BY <1>3 DEF L!Archive, L!Owners, L!Managers, Managers
  <2>2. QED
    BY <2>1 DEF L!Next, L!Absent, NoTicket
<1>4. CASE \E user, assignee \in Users :
             /\ {RoleOf[user], RoleOf[assignee]} \subseteq SupportTeam
             /\ ticket.status \in ALLOWED_ASSIGN_STATUSES
             /\ ticket' = [ticket EXCEPT !.assigned_to = assignee]
  <2>1. \E user, assignee \in Users : L!Assign(user, assignee)
    BY <1>4 DEF L!Assign, L!SupportTeam, SupportTeam, L!ALLOWED_ASSIGN_STATUSES,
                ALLOWED_ASSIGN_STATUSES
  <2>2. QED
    BY <2>1 DEF L!Next, L!Absent, NoTicket
<1>5. CASE \E user \in Users, new \in TicketStatuses, stamp \in Requests :
             /\ MayChangeStatus(ticket.status, new, RoleOf[user])
             /\ ticket' = [ticket EXCEPT !.status = new,
                              !.closed_at = IF new = "CLOSED" THEN stamp ELSE @]
  <2>1. \E user \in Users, new \in TicketStatuses : L!Move(user, new)
    BY <1>5 DEF L!Move, L!MayChangeStatus, MayChangeStatus, L!ALLOWED_TRANSITIONS,
                ALLOWED_TRANSITIONS, L!CanChangeToStatus, CanChangeToStatus,
                L!Managers, Managers
  <2>2. QED
    BY <2>1 DEF L!Next, L!Absent, NoTicket, L!TicketStatuses, TicketStatuses
<1>6. QED
  BY <1>1, <1>2, <1>3, <1>4, <1>5 DEF LegalResult

-----------------------------------------------------------------------------

\* Every step of the serial service keeps the invariant and is a step of the
\* lifecycle, or leaves the ticket alone.
LEMMA NextSerial ==
    ASSUME Serial, TypeOK, SerialInv, [Next]_vars
    PROVE  SerialInv' /\ [L!Next]_ticket
<1>0. CASE UNCHANGED vars
  BY <1>0 DEF vars, SerialInv
<1> SUFFICES ASSUME Next PROVE SerialInv' /\ [L!Next]_ticket
  BY <1>0
<1> PICK r \in Requests :
        \/ \E user, reporter \in Users, project, counterparty \in BOOLEAN,
              priority \in Priorities :
              Create(r, user, reporter, project, counterparty, priority)
        \/ ReadTicket(r)
        \/ ReadHistory(r)
        \/ \E entity, added : LegalResult(snap[r], entity) /\ Upsert(r, entity, added)
                             /\ pc[r] = "loaded"
        \/ Commit(r) \/ Conflict(r) \/ Publish(r) \/ Fail(r) \/ LoseEvents(r)
  BY HandlersAreLegal DEF Next
<1>1. ASSUME NEW user \in Users, NEW reporter \in Users, NEW project \in BOOLEAN,
             NEW counterparty \in BOOLEAN, NEW priority \in Priorities,
             Create(r, user, reporter, project, counterparty, priority)
      PROVE  SerialInv' /\ [L!Next]_ticket
  <2>1. /\ \A q \in Requests : q # r => pc'[q] = pc[q]
        /\ \A q \in Requests : pc[q] \in {"idle", "failed"}
        /\ pc'[r] = "committed"
    BY <1>1 DEF Create, At, TypeOK
  <2>2. SerialInv'
    BY <2>1 DEF SerialInv
  <2>3. L!Open(user, reporter)
    BY <1>1 DEF Create, NoTicket, IsCustomer, InitialStatus,
                L!Open, L!Absent, L!IsCustomer, L!InitialStatus
  <2>4. QED
    BY <2>2, <2>3 DEF L!Next
<1>2. CASE ReadTicket(r)
  <2>1. /\ \A q \in Requests : q # r => pc'[q] = pc[q]
        /\ \A q \in Requests : pc[q] \notin Running
        /\ pc'[r] = "reading" /\ snap'[r] = ticket /\ ticket' = ticket
    BY <1>2 DEF ReadTicket, MayStart, At, TypeOK
  <2>2. QED
    BY <2>1 DEF SerialInv
<1>3. CASE ReadHistory(r)
  <2>1. /\ \A q \in Requests : q # r => pc'[q] = pc[q]
        /\ pc[r] = "reading" /\ pc'[r] = "loaded"
        /\ UNCHANGED <<ticket, snap, work>>
    BY <1>3 DEF ReadHistory, At, TypeOK
  <2>2. QED
    BY <2>1 DEF SerialInv
<1>4. ASSUME NEW entity, NEW added, LegalResult(snap[r], entity), Upsert(r, entity, added),
             pc[r] = "loaded"
      PROVE  SerialInv' /\ [L!Next]_ticket
  <2>1. /\ \A q \in Requests : q # r => pc'[q] = pc[q] /\ work'[q] = work[q]
        /\ pc'[r] = "merged" /\ snap[r] = ticket
        /\ work'[r].entity = entity /\ work'[r].base \in {ticket, snap[r]}
        /\ UNCHANGED <<ticket, snap>>
    BY <1>4 DEF Upsert, At, TypeOK, SerialInv
  <2>2. work'[r].base = ticket /\ LegalResult(ticket, work'[r].entity)
    BY <1>4, <2>1
  <2>3. QED
    BY <1>4, <2>1, <2>2 DEF SerialInv
<1>5. CASE Commit(r)
  <2>1. /\ \A q \in Requests : q # r => pc'[q] = pc[q] /\ pc[q] \notin Running
        /\ pc'[r] = "committed" /\ pc[r] = "merged"
        /\ ticket \in Tickets /\ work[r].entity \in Tickets /\ ticket # NoTicket
        /\ work[r].base = ticket /\ LegalResult(ticket, work[r].entity)
    BY <1>5, NoTicketIsNoRow DEF Commit, At, TypeOK, Sessions, SerialInv
  <2>2. ticket' = work[r].entity
    BY <1>5, <2>1, FlushWritesEntity DEF Commit
  <2>3. SerialInv'
    BY <2>1 DEF SerialInv
  <2>4. LegalResult(ticket, ticket')
    BY <2>1, <2>2
  <2>5. QED
    BY <2>1, <2>3, <2>4, LegalResultIsLegal
<1>6. CASE Conflict(r) \/ Publish(r) \/ Fail(r) \/ LoseEvents(r)
  <2>1. /\ \A q \in Requests : q # r =>
              pc'[q] = pc[q] /\ work'[q] = work[q] /\ snap'[q] = snap[q]
        /\ pc'[r] \notin Running /\ ticket' = ticket
    BY <1>6 DEF Conflict, Publish, Fail, LoseEvents, Close, At, TypeOK
  <2>2. QED
    BY <2>1 DEF SerialInv
<1>7. QED
  BY <1>1, <1>2, <1>3, <1>4, <1>5, <1>6

\* Requests that do not overlap implement the abstract life of a ticket: every
\* change of the stored row is one legal operation on the row as it is.
THEOREM SerialRefinement == Serial => (Spec => ImplementsLifecycle)
<1> SUFFICES ASSUME Serial PROVE Spec => ImplementsLifecycle
  OBVIOUS
<1>1. Init => L!Init /\ SerialInv
  BY DEF Init, L!Init, L!Absent, NoTicket, SerialInv
<1>2. TypeOK /\ SerialInv /\ [Next]_vars => SerialInv' /\ [L!Next]_ticket
  BY NextSerial
<1>3. QED
  BY <1>1, <1>2, TypeCorrect, PTL DEF Spec, ImplementsLifecycle, L!Spec

\* A legal operation on the current ticket moves its status, if at all, along the graph.
LEMMA LegalStatus ==
    ASSUME ticket \in Tickets, L!Next, ticket'.status # ticket.status
    PROVE  <<ticket.status, ticket'.status>> \in ALLOWED_TRANSITIONS
<1>1. ticket # L!Absent
  BY NoTicketIsNoRow DEF L!Absent, NoTicket
<1>2. ASSUME NEW user \in Users, L!Reword(user) PROVE FALSE
  BY <1>2 DEF L!Reword, Tickets
<1>3. ASSUME NEW user \in Users, L!Archive(user) PROVE FALSE
  BY <1>3 DEF L!Archive, Tickets
<1>4. ASSUME NEW user \in Users, NEW other \in Users, L!Assign(user, other) PROVE FALSE
  BY <1>4 DEF L!Assign, Tickets
<1>5. PICK user \in Users, status \in L!TicketStatuses : L!Move(user, status)
  BY <1>1, <1>2, <1>3, <1>4 DEF L!Next, L!Open
<1>6. ticket'.status = status
  BY <1>5 DEF L!Move, Tickets
<1> QED
  BY <1>5, <1>6 DEF L!Move, L!MayChangeStatus, L!ALLOWED_TRANSITIONS, ALLOWED_TRANSITIONS

\* What tickets/domain/constants.py says of statuses, and overlapping requests break,
\* is true of requests that do not overlap: every change of the stored status is a
\* permitted transition.
THEOREM SerialTransitions == Serial => (Spec => StatusFollowsTransitions)
<1> SUFFICES ASSUME Serial PROVE Spec => StatusFollowsTransitions
  OBVIOUS
<1>1. Init => SerialInv
  BY DEF Init, SerialInv
<1>2. TypeOK /\ SerialInv /\ [Next]_vars => SerialInv' /\ [L!Next]_ticket
  BY NextSerial
<1>3. TypeOK /\ [L!Next]_ticket =>
         [ticket # NoTicket /\ ticket'.status # ticket.status =>
            <<ticket.status, ticket'.status>> \in ALLOWED_TRANSITIONS]_vars
  BY LegalStatus DEF TypeOK
<1> QED
  BY <1>1, <1>2, <1>3, TypeCorrect, PTL DEF Spec, StatusFollowsTransitions

-----------------------------------------------------------------------------
(* Requests that overlap: what departs from TicketLifecycle.  The snapshot *)
(* of a request does not change between the domain method and the commit,  *)
(* so what the method decided still relates the entity to it, however old  *)
(* the snapshot is by then.                                                *)

\* What a request is about to store is a legal result of the row it read.
ResultInv ==
    \A r \in Requests : pc[r] = "merged" => LegalResult(snap[r], work[r].entity)

LEMMA NextResult == TypeOK /\ ResultInv /\ [Next]_vars => ResultInv'
<1> SUFFICES ASSUME TypeOK, ResultInv, [Next]_vars PROVE ResultInv'
  OBVIOUS
<1>0. CASE UNCHANGED vars
  BY <1>0 DEF vars, ResultInv
<1> SUFFICES ASSUME Next PROVE ResultInv'
  BY <1>0
<1> PICK r \in Requests :
        \/ \E user, reporter \in Users, project, counterparty \in BOOLEAN,
              priority \in Priorities :
              Create(r, user, reporter, project, counterparty, priority)
        \/ ReadTicket(r)
        \/ ReadHistory(r)
        \/ \E entity, added : LegalResult(snap[r], entity) /\ Upsert(r, entity, added)
                             /\ pc[r] = "loaded"
        \/ Commit(r) \/ Conflict(r) \/ Publish(r) \/ Fail(r) \/ LoseEvents(r)
  BY HandlersAreLegal DEF Next
<1>1. CASE \E user, reporter \in Users, project, counterparty \in BOOLEAN,
              priority \in Priorities :
              Create(r, user, reporter, project, counterparty, priority)
  <2>1. \A q \in Requests : pc'[q] # "merged"
    BY <1>1 DEF Create, At, TypeOK
  <2> QED
    BY <2>1 DEF ResultInv
<1>2. CASE \/ ReadTicket(r) \/ ReadHistory(r) \/ Commit(r)
           \/ Conflict(r) \/ Publish(r) \/ Fail(r) \/ LoseEvents(r)
  <2>1. \A q \in Requests : pc'[q] = "merged" =>
           pc[q] = "merged" /\ work'[q] = work[q] /\ snap'[q] = snap[q]
    BY <1>2 DEF ReadTicket, ReadHistory, MayStart, Commit, Conflict, Publish, Fail,
                LoseEvents, Close, At, TypeOK
  <2> QED
    BY <2>1 DEF ResultInv
<1>3. ASSUME NEW entity, NEW added, LegalResult(snap[r], entity), Upsert(r, entity, added)
      PROVE  ResultInv'
  <2>1. /\ \A q \in Requests : q # r => pc'[q] = pc[q] /\ work'[q] = work[q]
        /\ work'[r].entity = entity
        /\ UNCHANGED snap
    BY <1>3 DEF Upsert, At, TypeOK
  <2> QED
    BY <1>3, <2>1 DEF ResultInv
<1> QED
  BY <1>1, <1>2, <1>3

\* A step that changes the row is a creation or the commit of a request.
LEMMA TicketIsCommitted ==
    ASSUME TypeOK, Next, ticket' # ticket
    PROVE  \/ L!Next
           \/ \E r \in Requests : Commit(r) /\ pc[r] = "merged" /\ pc'[r] = "committed"
<1> PICK r \in Requests :
        \/ \E user, reporter \in Users, project, counterparty \in BOOLEAN,
              priority \in Priorities :
              Create(r, user, reporter, project, counterparty, priority)
        \/ ReadTicket(r)
        \/ ReadHistory(r)
        \/ \E entity, added : Handles(r, entity, added)
        \/ Commit(r) \/ Conflict(r) \/ Publish(r) \/ Fail(r) \/ LoseEvents(r)
  BY NextCases
<1>1. ASSUME NEW user \in Users, NEW reporter \in Users, NEW project \in BOOLEAN,
             NEW counterparty \in BOOLEAN, NEW priority \in Priorities,
             Create(r, user, reporter, project, counterparty, priority)
      PROVE  L!Next
  <2>1. L!Open(user, reporter)
    BY <1>1 DEF Create, NoTicket, IsCustomer, InitialStatus,
                L!Open, L!Absent, L!IsCustomer, L!InitialStatus
  <2> QED
    BY <2>1 DEF L!Next
<1>2. CASE Commit(r)
  BY <1>2 DEF Commit, At, TypeOK
<1> QED
  BY <1>1, <1>2 DEF ReadTicket, ReadHistory, Handles, Upsert, Conflict, Publish, Fail, LoseEvents

\* The commit of a request that was not overtaken is a step of the life of a ticket.
LEMMA CurrentCommitIsLegal ==
    ASSUME TypeOK, ResultInv, NEW r \in Requests, pc[r] = "merged", Commit(r), ~OutOfDate(r)
    PROVE  [L!Next]_ticket
<1>1. /\ ticket \in Tickets /\ work[r].entity \in Tickets /\ ticket # NoTicket
      /\ work[r].base = ticket /\ LegalResult(ticket, work[r].entity)
  BY NoTicketIsNoRow DEF Commit, TypeOK, Sessions, OutOfDate, ResultInv
<1>2. ticket' = work[r].entity
  BY <1>1, FlushWritesEntity DEF Commit
<1> QED
  BY <1>1, <1>2, LegalResultIsLegal

\* A commit leaves the status alone or writes the one its request has worked out.
LEMMA CommittedStatus ==
    ASSUME TypeOK, ResultInv, NEW r \in Requests, pc[r] = "merged", Commit(r)
    PROVE  \/ ticket'.status \in {ticket.status, snap[r].status}
           \/ <<snap[r].status, ticket'.status>> \in ALLOWED_TRANSITIONS
<1>1. ticket \in Tickets
  BY NoTicketIsNoRow DEF Commit, TypeOK
<1>2. ticket'.status = Written(work[r].entity.status, work[r].base.status, ticket.status)
  BY <1>1 DEF Commit, Flushed, Tickets
<1>3. ticket'.status \in {ticket.status, work[r].entity.status}
  BY <1>2 DEF Written
<1>4. \/ work[r].entity.status = snap[r].status
      \/ <<snap[r].status, work[r].entity.status>> \in ALLOWED_TRANSITIONS
  <2>1. LegalResult(snap[r], work[r].entity)
    BY DEF ResultInv
  <2>2. snap[r] = [c \in DOMAIN snap[r] |-> snap[r][c]] /\ "status" \in DOMAIN snap[r]
    BY DEF TypeOK, Tickets, NoTicket
  <2> QED
    BY <2>1, <2>2 DEF LegalResult, MayChangeStatus
<1> QED
  BY <1>3, <1>4

\* For any number of requests, users and priorities, however the requests overlap:
\* every change of the stored ticket is one legal operation on the ticket as it is, or
\* the commit of a request whose ticket has changed since it read or merged it; and that
\* too writes no status but the one it read or a permitted successor.
THEOREM LegalUnlessStale == Spec => OnlyStaleCommitsDepart
<1>1. Init => ResultInv
  BY DEF Init, ResultInv
<1>2. ASSUME TypeOK, ResultInv, Next, ticket' # ticket, ~L!Next
      PROVE  \E r \in Requests :
                /\ pc[r] = "merged" /\ pc'[r] = "committed"
                /\ OutOfDate(r)
                /\ \/ ticket'.status \in {ticket.status, snap[r].status}
                   \/ <<snap[r].status, ticket'.status>> \in ALLOWED_TRANSITIONS
  <2>1. PICK r \in Requests : Commit(r) /\ pc[r] = "merged" /\ pc'[r] = "committed"
    BY <1>2, TicketIsCommitted
  <2>2. OutOfDate(r)
    BY <1>2, <2>1, CurrentCommitIsLegal
  <2>3. \/ ticket'.status \in {ticket.status, snap[r].status}
        \/ <<snap[r].status, ticket'.status>> \in ALLOWED_TRANSITIONS
    BY <1>2, <2>1, CommittedStatus
  <2> QED
    BY <2>1, <2>2, <2>3
<1>3. TypeOK /\ ResultInv /\ [Next]_vars =>
         [ticket' # ticket =>
            \/ L!Next
            \/ \E r \in Requests :
                  /\ pc[r] = "merged" /\ pc'[r] = "committed"
                  /\ OutOfDate(r)
                  /\ \/ ticket'.status \in {ticket.status, snap[r].status}
                     \/ <<snap[r].status, ticket'.status>> \in ALLOWED_TRANSITIONS]_vars
  BY <1>2
<1> QED
  BY <1>1, <1>3, NextResult, TypeCorrect, PTL DEF Spec, OnlyStaleCommitsDepart

-----------------------------------------------------------------------------
(* The stamps of the row and the history.  The flush writes the entity and *)
(* the new entries together, so what matters is that every handler adds    *)
(* the entry of the stamp it sets, to the history of the row it stamps.    *)

Stamped(row, entries) ==
    /\ row.closed_at # None \/ Recorded("CLOSED", entries) =>
          \E e \in entries : e.new = "CLOSED" /\ e.req = row.closed_at
    /\ row.deleted_at # None \/ (\E e \in entries : e.action = "ticket_archived") =>
          \E e \in entries : e.action = "ticket_archived" /\ e.req = row.deleted_at

\* The stored row matches the stored history, and what a lone request is going to
\* store will.
StampsInv ==
    /\ StampsMatchHistory
    /\ \A r \in Requests : pc[r] = "merged" =>
          Stamped(work[r].entity, history \cup work[r].added)

LEMMA EntryFields ==
    ASSUME NEW r, NEW action, NEW actor, NEW old, NEW new
    PROVE  LET e == Entry(r, action, actor, old, new)
           IN  e.req = r /\ e.action = action /\ e.new = new
BY DEF Entry

\* An operation that sets no stamp adds no entry about one.
LEMMA StampsUntouched ==
    ASSUME NEW row, NEW entries, Stamped(row, entries), NEW entity, NEW added,
           entity.closed_at = row.closed_at, entity.deleted_at = row.deleted_at,
           \A e \in added : /\ e.action # "ticket_archived"
                            /\ e.action # "status_changed" \/ e.new # "CLOSED"
    PROVE  Stamped(entity, entries \cup added)
<1>1. Recorded("CLOSED", entries \cup added) => Recorded("CLOSED", entries)
  BY DEF Recorded
<1> QED
  BY <1>1 DEF Stamped

LEMMA StampOfArchiving ==
    ASSUME NEW row, NEW entries, Stamped(row, entries), NEW entity, NEW e,
           e.action = "ticket_archived", entity.deleted_at = e.req,
           entity.closed_at = row.closed_at
    PROVE  Stamped(entity, entries \cup {e})
<1>1. Recorded("CLOSED", entries \cup {e}) => Recorded("CLOSED", entries)
  BY DEF Recorded
<1> QED
  BY <1>1 DEF Stamped

LEMMA StampOfClosing ==
    ASSUME NEW row, NEW entries, Stamped(row, entries), NEW entity, NEW e,
           e.action = "status_changed", e.new = "CLOSED", entity.closed_at = e.req,
           entity.deleted_at = row.deleted_at
    PROVE  Stamped(entity, entries \cup {e})
BY DEF Stamped

\* Every handler stamps the row it read and records the stamp.
LEMMA HandlersStamp ==
    ASSUME TypeOK, NEW r \in Requests, NEW entries, Stamped(snap[r], entries),
           \/ \E user \in Users, retitle \in BOOLEAN, priority \in Priorities :
                 Edit(r, user, retitle, priority)
           \/ \E user \in Users : Archive(r, user)
           \/ \E user, assignee \in Users : AssignTo(r, user, assignee)
           \/ \E user \in Users, new \in TicketStatuses : ChangeStatus(r, user, new)
           \/ \E user \in Users, adds \in BOOLEAN : Discuss(r, user, adds)
    PROVE  Stamped(work'[r].entity, entries \cup work'[r].added)
<1> DEFINE t == snap[r]
<1>0. snap[r] \in Tickets
  BY DEF Edit, Archive, AssignTo, ChangeStatus, Discuss, TypeOK
<1>1. ASSUME NEW entity, NEW added, Upsert(r, entity, added)
      PROVE  work'[r].entity = entity /\ work'[r].added = added
  BY <1>1 DEF Upsert, TypeOK
<1>2. ASSUME Upsert(r, t, {}) PROVE Stamped(work'[r].entity, entries \cup work'[r].added)
  BY <1>1, <1>2, StampsUntouched
<1>3. ASSUME NEW user \in Users, NEW retitle \in BOOLEAN, NEW priority \in Priorities,
             Edit(r, user, retitle, priority)
      PROVE  Stamped(work'[r].entity, entries \cup work'[r].added)
  <2> DEFINE entity == [t EXCEPT !.title = IF retitle THEN r ELSE @, !.priority = priority]
             added == {e \in {Entry(r, "title_edited", user, None, None),
                              Entry(r, "priority_edited", user, None, None)} :
                         \/ e.action = "title_edited" /\ retitle
                         \/ e.action = "priority_edited" /\ priority # t.priority}
  <2>1. Upsert(r, entity, added)
    BY <1>3 DEF Edit
  <2>2. entity.closed_at = t.closed_at /\ entity.deleted_at = t.deleted_at
    BY <1>0 DEF Tickets
  <2>3. \A e \in added : e.action # "ticket_archived" /\ e.action # "status_changed"
    OBVIOUS
  <2> HIDE DEF entity, added
  <2>4. Stamped(entity, entries \cup added)
    BY <2>2, <2>3, StampsUntouched
  <2> QED
    BY <1>1, <2>1, <2>4
<1>4. ASSUME NEW user \in Users, Archive(r, user)
      PROVE  Stamped(work'[r].entity, entries \cup work'[r].added)
  <2> DEFINE e == Entry(r, "ticket_archived", user, None, None)
             entity == [t EXCEPT !.deleted_at = r]
  <2>1. Upsert(r, t, {}) \/ Upsert(r, entity, {e})
    BY <1>4 DEF Archive
  <2>2. e.action = "ticket_archived" /\ entity.deleted_at = e.req /\ entity.closed_at = t.closed_at
    BY <1>0 DEF Tickets, Entry
  <2> HIDE DEF e, entity
  <2>3. Stamped(entity, entries \cup {e})
    BY <2>2, StampOfArchiving
  <2> QED
    BY <1>1, <1>2, <2>1, <2>3
<1>5. ASSUME NEW user \in Users, NEW assignee \in Users, AssignTo(r, user, assignee)
      PROVE  Stamped(work'[r].entity, entries \cup work'[r].added)
  <2> DEFINE e == Entry(r, "assigned", user, None, None)
             entity == [t EXCEPT !.assigned_to = assignee]
  <2>1. Upsert(r, t, {}) \/ Upsert(r, entity, {e})
    BY <1>5 DEF AssignTo
  <2>2. /\ e.action = "assigned"
        /\ entity.closed_at = t.closed_at /\ entity.deleted_at = t.deleted_at
    BY <1>0 DEF Tickets, Entry
  <2> HIDE DEF e, entity
  <2>3. Stamped(entity, entries \cup {e})
    BY <2>2, StampsUntouched
  <2> QED
    BY <1>1, <1>2, <2>1, <2>3
<1>6. ASSUME NEW user \in Users, NEW new \in TicketStatuses, ChangeStatus(r, user, new)
      PROVE  Stamped(work'[r].entity, entries \cup work'[r].added)
  <2> DEFINE e == Entry(r, "status_changed", user, t.status, new)
             entity == [t EXCEPT !.status = new,
                                 !.closed_at = IF new = "CLOSED" THEN r ELSE @]
  <2>1. Upsert(r, entity, {e})
    BY <1>6 DEF ChangeStatus
  <2>2. /\ e.action = "status_changed" /\ e.new = new /\ e.req = r
        /\ entity.deleted_at = t.deleted_at
        /\ entity.closed_at = IF new = "CLOSED" THEN r ELSE t.closed_at
    BY <1>0 DEF Tickets, Entry
  <2> HIDE DEF e, entity
  <2>3. Stamped(entity, entries \cup {e})
    <3>1. CASE new = "CLOSED"
      BY <2>2, <3>1, StampOfClosing
    <3>2. CASE new # "CLOSED"
      BY <2>2, <3>2, StampsUntouched
    <3> QED
      BY <3>1, <3>2
  <2> QED
    BY <1>1, <2>1, <2>3
<1>7. ASSUME NEW user \in Users, NEW adds \in BOOLEAN, Discuss(r, user, adds)
      PROVE  Stamped(work'[r].entity, entries \cup work'[r].added)
  <2> DEFINE e == Entry(r, "commented", user, None, None)
  <2>1. Upsert(r, t, {}) \/ Upsert(r, t, {e})
    BY <1>7 DEF Discuss
  <2>2. e.action = "commented"
    BY DEF Entry
  <2> HIDE DEF e
  <2>3. Stamped(t, entries \cup {e})
    BY <2>2, StampsUntouched
  <2> QED
    BY <1>1, <1>2, <2>1, <2>3
<1> QED
  BY <1>3, <1>4, <1>5, <1>6, <1>7

LEMMA NextStamps ==
    ASSUME Serial, TypeOK, SerialInv, StampsInv, [Next]_vars
    PROVE  StampsInv'
<1>0. CASE UNCHANGED vars
  BY <1>0 DEF vars, StampsInv, StampsMatchHistory, Recorded
<1> SUFFICES ASSUME NEW r \in Requests,
        \/ \E user, reporter \in Users, project, counterparty \in BOOLEAN,
              priority \in Priorities :
              Create(r, user, reporter, project, counterparty, priority)
        \/ ReadTicket(r) \/ ReadHistory(r)
        \/ \/ \E user \in Users, retitle \in BOOLEAN, priority \in Priorities :
                 Edit(r, user, retitle, priority)
           \/ \E user \in Users : Archive(r, user)
           \/ \E user, assignee \in Users : AssignTo(r, user, assignee)
           \/ \E user \in Users, new \in TicketStatuses : ChangeStatus(r, user, new)
           \/ \E user \in Users, adds \in BOOLEAN : Discuss(r, user, adds)
        \/ Commit(r)
        \/ Conflict(r) \/ Publish(r) \/ Fail(r) \/ LoseEvents(r)
             PROVE  StampsInv'
  BY <1>0 DEF Next
<1>1. ASSUME NEW user \in Users, NEW reporter \in Users, NEW project \in BOOLEAN,
             NEW counterparty \in BOOLEAN, NEW priority \in Priorities,
             Create(r, user, reporter, project, counterparty, priority)
      PROVE  StampsInv'
  <2> DEFINE e == Entry(r, "ticket_created", user, None, None)
  <2>1. /\ \A q \in Requests : pc'[q] # "merged"
        /\ ticket'.closed_at = None /\ ticket'.deleted_at = None /\ history' = {e}
    BY <1>1 DEF Create, At, TypeOK
  <2>2. e.action = "ticket_created"
    BY DEF Entry
  <2> HIDE DEF e
  <2>3. StampsMatchHistory'
    BY <2>1, <2>2 DEF StampsMatchHistory, Recorded
  <2> QED
    BY <2>1, <2>3 DEF StampsInv
<1>2. CASE ReadTicket(r) \/ ReadHistory(r)
  <2>1. /\ \A q \in Requests : pc'[q] = "merged" => pc[q] = "merged"
        /\ UNCHANGED ticket /\ UNCHANGED history /\ UNCHANGED work
    BY <1>2 DEF ReadTicket, ReadHistory, At, TypeOK
  <2>2. StampsMatchHistory'
    BY <2>1 DEF StampsInv, StampsMatchHistory
  <2> QED
    BY <2>1, <2>2 DEF StampsInv
<1>3. CASE \/ \E user \in Users, retitle \in BOOLEAN, priority \in Priorities :
                 Edit(r, user, retitle, priority)
           \/ \E user \in Users : Archive(r, user)
           \/ \E user, assignee \in Users : AssignTo(r, user, assignee)
           \/ \E user \in Users, new \in TicketStatuses : ChangeStatus(r, user, new)
           \/ \E user \in Users, adds \in BOOLEAN : Discuss(r, user, adds)
  <2>1. PICK entity, added : Upsert(r, entity, added) /\ pc[r] = "loaded"
    BY <1>3, HandlersAreLegal
  <2>2. /\ \A q \in Requests : q # r => pc'[q] = pc[q] /\ work'[q] = work[q]
        /\ snap[r] = ticket /\ ticket # NoTicket
        /\ UNCHANGED ticket /\ UNCHANGED history
    BY <2>1 DEF Upsert, At, TypeOK, SerialInv
  <2>3. Stamped(ticket, history)
    BY <2>2 DEF StampsInv, StampsMatchHistory, Stamped
  <2>4. Stamped(work'[r].entity, history \cup work'[r].added)
    BY <1>3, <2>2, <2>3, HandlersStamp
  <2>5. StampsMatchHistory'
    BY <2>2 DEF StampsInv, StampsMatchHistory
  <2>6. \A q \in Requests : q # r /\ pc'[q] = "merged" =>
           Stamped(work'[q].entity, history \cup work'[q].added)
    BY <2>2 DEF StampsInv
  <2>7. \A q \in Requests : pc'[q] = "merged" =>
           Stamped(work'[q].entity, history' \cup work'[q].added)
    BY <2>2, <2>4, <2>6
  <2> QED
    BY <2>5, <2>7 DEF StampsInv, Stamped, Recorded
<1>4. CASE Commit(r)
  <2>1. /\ \A q \in Requests : pc'[q] # "merged"
        /\ pc[r] = "merged" /\ work[r].orphaned = {}
        /\ ticket \in Tickets /\ work[r].entity \in Tickets
        /\ work[r].base = ticket /\ LegalResult(ticket, work[r].entity)
    BY <1>4, NoTicketIsNoRow DEF Commit, Flushable, At, TypeOK, Sessions, SerialInv
  <2>2. ticket' = work[r].entity
    BY <1>4, <2>1, FlushWritesEntity DEF Commit
  <2>3. history' = history \cup work[r].added
    BY <1>4, <2>1 DEF Commit
  <2>4. Stamped(work[r].entity, history \cup work[r].added)
    BY <2>1 DEF StampsInv
  <2>5. Stamped(ticket', history')
    BY <2>2, <2>3, <2>4
  <2>6. StampsMatchHistory'
    BY <2>5 DEF StampsMatchHistory, Stamped, Recorded
  <2> QED
    BY <2>1, <2>6 DEF StampsInv
<1>5. CASE Conflict(r) \/ Publish(r) \/ Fail(r) \/ LoseEvents(r)
  <2>1. /\ \A q \in Requests : pc'[q] = "merged" => pc[q] = "merged" /\ work'[q] = work[q]
        /\ UNCHANGED ticket /\ UNCHANGED history
    BY <1>5 DEF Conflict, Publish, Fail, LoseEvents, Close, At, TypeOK
  <2>2. StampsMatchHistory'
    BY <2>1 DEF StampsInv, StampsMatchHistory
  <2> QED
    BY <2>1, <2>2 DEF StampsInv
<1> QED
  BY <1>1, <1>2, <1>3, <1>4, <1>5

\* Requests that do not overlap keep the stamps and the history together: closed_at
\* names the last recorded closing, deleted_at the archiving, and there is none without
\* the other (Ticket.change_status, Ticket.archive).
THEOREM SerialStamps == Serial => (Spec => []StampsMatchHistory)
<1> SUFFICES ASSUME Serial PROVE Spec => []StampsMatchHistory
  OBVIOUS
<1>1. Init => SerialInv /\ StampsInv
  BY DEF Init, SerialInv, StampsInv, StampsMatchHistory
<1>2. TypeOK /\ SerialInv /\ StampsInv /\ [Next]_vars => SerialInv' /\ StampsInv'
  BY NextSerial, NextStamps
<1>3. StampsInv => StampsMatchHistory
  BY DEF StampsInv
<1>4. QED
  BY <1>1, <1>2, <1>3, TypeCorrect, PTL DEF Spec
=============================================================================
