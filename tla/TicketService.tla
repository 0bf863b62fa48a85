---------------------------- MODULE TicketService ---------------------------
(***************************************************************************)
(* The life of one ticket under concurrent HTTP requests.                  *)
(*                                                                         *)
(* Every handler of TicketService (tickets/services/ticket.py) runs in a   *)
(* database session of its own: it reads the ticket, checks and mutates    *)
(* the aggregate in memory, merges it into the session (upsert), commits,  *)
(* and then publishes the aggregate's events.  Nothing locks the row and   *)
(* no version is compared, the isolation level is PostgreSQL's default     *)
(* READ COMMITTED, so the checks are made on a snapshot that other         *)
(* requests may overtake.  The steps of a request are                      *)
(*                                                                         *)
(*   ReadTicket    SELECT of the ticket's row                              *)
(*   ReadHistory   the second SELECT, by selectinload, of its history      *)
(*   Edit, Archive, AssignTo, ChangeStatus, Discuss                        *)
(*                 the rights and the domain method, on what was read,     *)
(*                 and session.merge of the result; Discuss stands for the *)
(*                 writers of CommentService, who merge the ticket too     *)
(*   Commit        the flush: UPDATE of the columns that differ from the   *)
(*                 row merged into, INSERT of the new history entries      *)
(*   Conflict      the flush fails and the whole transaction rolls back    *)
(*   Publish       the events, after the commit                            *)
(*                                                                         *)
(* and a request may stop at any of them: refused by a check, or because   *)
(* its process or connection died.                                         *)
(*                                                                         *)
(* Merging.  merge copies the entity over the row of the session's         *)
(* identity map, which holds objects weakly: the row read earlier if it is *)
(* still alive, otherwise the row as it is in the database now.  Both can  *)
(* happen.  The history relationship is merged as a whole, so an entry     *)
(* found at a reload that the entity does not know is taken out of the     *)
(* collection; its ticket_id would become NULL, the column is NOT NULL,    *)
(* and the flush fails: an accidental detection of a concurrent change.    *)
(*                                                                         *)
(* Abstractions.  title stands for title, description and tags, and a new  *)
(* text is named by the request that wrote it, as are the two timestamps   *)
(* closed_at and deleted_at.  updated_at, the number (module               *)
(* TicketNumbers) and the product are left out.  A user's roles do not     *)
(* change.                                                                 *)
(***************************************************************************)
EXTENDS TicketDomain

CONSTANTS
    Requests,       \* identifiers of requests, each used once
    Users,          \* identifiers of users
    RoleOf,         \* the system role of each user
    ProjectRoleOf,  \* the role of each user in the ticket's project
    Priorities,     \* ticket priorities
    None,           \* SQL NULL
    Serial          \* TRUE: a request starts only when no other one is running

ASSUME ConstantsAssumption ==
    /\ RoleOf \in [Users -> UserRoles]
    /\ ProjectRoleOf \in [Users -> ProjectRoles \cup {NoMembership}]
    /\ None \notin Requests \cup Users
    /\ Serial \in BOOLEAN

VARIABLES
    ticket,     \* the row of table tickets, or NoTicket
    history,    \* the rows of ticket_history_entries of this ticket
    pc,         \* where each request is
    snap,       \* the row each request read
    seen,       \* the history each request read
    work,       \* what each request's session holds after the merge
    published   \* the history entries whose domain event was published

vars == <<ticket, history, pc, snap, seen, work, published>>

-----------------------------------------------------------------------------
(* Rows, history entries and sessions.                                     *)

NoTicket == [status |-> "ABSENT"]

Tickets == [project : BOOLEAN, counterparty : BOOLEAN,
            created_by : Users, reporter : Users,
            status : TicketStatuses, assigned_to : Users \cup {None},
            closed_at : Requests \cup {None}, deleted_at : Requests \cup {None},
            title : Requests, priority : Priorities]

\* Mutant: the old and the new value in the wrong order.
SwappedEntry(r, action, actor, old, new) ==
    [req |-> r, action |-> action, actor |-> actor, old |-> new, new |-> old]

Entry(r, action, actor, old, new) ==
    [req |-> r, action |-> action, actor |-> actor, old |-> old, new |-> new]

\* "commented" stands for comment_added, comment_edited and comment_deleted.
Actions == {"ticket_created", "title_edited", "priority_edited",
            "ticket_archived", "assigned", "status_changed", "commented"}

\* old and new are kept where a property reads them: for the status changes.
Values == TicketStatuses \cup {None}

Entries == [req : Requests, action : Actions, actor : Users, old : Values, new : Values]

\* The entity, the row merge found, the new entries, and the entries that the
\* merge took out of the collection.
Sessions == [entity : Tickets, base : Tickets,
             added : SUBSET Entries, orphaned : SUBSET Entries]

\* The methods of Ticket that register a domain event: change_status registers
\* none, and the events of comments are their own.
Announced(e) == e.action \in {"ticket_created", "priority_edited",
                              "ticket_archived", "assigned"}

Running == {"reading", "loaded", "merged", "committed"}
Committed == {"committed", "done"}
PCs == {"idle", "failed", "conflict", "done"} \cup Running

NoSession == [entity |-> NoTicket, base |-> NoTicket, added |-> {}, orphaned |-> {}]

MayStart(r) ==
    /\ pc[r] = "idle"
    /\ Serial => \A q \in Requests : pc[q] \notin Running

At(r, label) == pc' = [pc EXCEPT ![r] = label]

\* The request's session is closed and what it held is gone (get_db).
Close(r) ==
    /\ snap' = [snap EXCEPT ![r] = NoTicket]
    /\ seen' = [seen EXCEPT ![r] = {}]
    /\ work' = [work EXCEPT ![r] = NoSession]

-----------------------------------------------------------------------------
Init ==
    /\ ticket = NoTicket
    /\ history = {}
    /\ pc = [r \in Requests |-> "idle"]
    /\ snap = [r \in Requests |-> NoTicket]
    /\ seen = [r \in Requests |-> {}]
    /\ work = [r \in Requests |-> NoSession]
    /\ published = {}

(***************************************************************************)
(* TicketService.create and Ticket.create.  The new id is known to nobody  *)
(* before the commit, so the steps of a creation cannot interleave with    *)
(* another request on this ticket and are one step.  A project may or may  *)
(* not belong to a counterparty; the reporter is taken from the request.   *)
(***************************************************************************)
Create(r, user, reporter, project, counterparty, priority) ==
    /\ MayStart(r)
    /\ ticket = NoTicket
    /\ project => CanCreateInProject(RoleOf[user], ProjectRoleOf[user])
    /\ IsCustomer(RoleOf[user]) => counterparty
    /\ LET row == [project |-> project, counterparty |-> counterparty,
                   created_by |-> user, reporter |-> reporter,
                   status |-> InitialStatus(RoleOf[user]), assigned_to |-> None,
                   closed_at |-> None, deleted_at |-> None,
                   title |-> r, priority |-> priority]
           added == {Entry(r, "ticket_created", user, None, None)}
       IN  /\ ticket' = row
           /\ history' = added
           /\ work' = [work EXCEPT ![r] = [entity |-> row, base |-> row,
                                           added |-> added, orphaned |-> {}]]
    /\ At(r, "committed")
    /\ UNCHANGED <<snap, seen, published>>

\* Mutant: no NotFoundError.
ReadTicketUnchecked(r) ==
    /\ MayStart(r)
    /\ snap' = [snap EXCEPT ![r] = ticket]
    /\ At(r, "reading")
    /\ UNCHANGED <<ticket, history, seen, work, published>>

\* SqlTicketRepository.read, its first statement.
ReadTicket(r) ==
    /\ MayStart(r)
    /\ ticket # NoTicket
    /\ snap' = [snap EXCEPT ![r] = ticket]
    /\ At(r, "reading")
    /\ UNCHANGED <<ticket, history, seen, work, published>>

\* SqlTicketRepository.read, the statement of selectinload(history).
ReadHistory(r) ==
    /\ pc[r] = "reading"
    /\ seen' = [seen EXCEPT ![r] = history]
    /\ At(r, "loaded")
    /\ UNCHANGED <<ticket, history, snap, work, published>>

-----------------------------------------------------------------------------
(* The domain methods on the snapshot, and the merge of their result.      *)

\* Mutant: the entity merged was mapped without its history, as to_preview does.
UpsertPreview(r, entity, added) ==
    /\ \E reload \in BOOLEAN :
          work' = [work EXCEPT ![r] =
                     [entity |-> entity, added |-> added,
                      base |-> IF reload THEN ticket ELSE snap[r],
                      orphaned |-> IF reload THEN history ELSE seen[r]]]
    /\ At(r, "merged")
    /\ UNCHANGED <<ticket, history, snap, seen, published>>

\* SqlAlchemyRepository.upsert: session.merge of the whole aggregate.
Upsert(r, entity, added) ==
    /\ \E reload \in BOOLEAN :
          work' = [work EXCEPT ![r] =
                     [entity |-> entity, added |-> added,
                      base |-> IF reload THEN ticket ELSE snap[r],
                      orphaned |-> IF reload THEN history \ seen[r] ELSE {}]]
    /\ At(r, "merged")
    /\ UNCHANGED <<ticket, history, snap, seen, published>>

\* Ticket.edit: of the fields given, those that differ are written and recorded.
Edit(r, user, retitle, priority) ==
    /\ pc[r] = "loaded"
    /\ LET t == snap[r] IN
       /\ user \in {t.reporter, t.created_by}
       /\ t.status \in ALLOWED_EDIT_STATUSES
       /\ t.deleted_at = None
       /\ Upsert(r,
            [t EXCEPT !.title = IF retitle THEN r ELSE @, !.priority = priority],
            {e \in {Entry(r, "title_edited", user, None, None),
                    Entry(r, "priority_edited", user, None, None)} :
                \/ e.action = "title_edited" /\ retitle
                \/ e.action = "priority_edited" /\ priority # t.priority})

\* Mutant: no early return for an archived ticket.
ArchiveAgain(r, user) ==
    /\ pc[r] = "loaded"
    /\ LET t == snap[r] IN
       /\ user \in {t.created_by, t.reporter} \/ RoleOf[user] \in Managers
       /\ Upsert(r, [t EXCEPT !.deleted_at = r],
                 {Entry(r, "ticket_archived", user, None, None)})

\* Ticket.archive; archiving an archived ticket changes nothing.
Archive(r, user) ==
    /\ pc[r] = "loaded"
    /\ LET t == snap[r] IN
       /\ user \in {t.created_by, t.reporter} \/ RoleOf[user] \in Managers
       /\ \/ /\ t.deleted_at # None
             /\ Upsert(r, t, {})
          \/ /\ t.deleted_at = None
             /\ Upsert(r, [t EXCEPT !.deleted_at = r],
                       {Entry(r, "ticket_archived", user, None, None)})

\* TicketService.assign_to and Ticket.assign_to; assigning the same user again
\* changes nothing.
AssignTo(r, user, assignee) ==
    /\ pc[r] = "loaded"
    /\ LET t == snap[r] IN
       /\ t.project => CanAssignInProject(RoleOf[user], ProjectRoleOf[user])
       /\ RoleOf[user] \in SupportTeam
       /\ RoleOf[assignee] \in SupportTeam
       /\ t.status \in ALLOWED_ASSIGN_STATUSES
       /\ \/ /\ assignee = t.assigned_to
             /\ Upsert(r, t, {})
          \/ /\ assignee # t.assigned_to
             /\ Upsert(r, [t EXCEPT !.assigned_to = assignee],
                       {Entry(r, "assigned", user, None, None)})

\* TicketService.change_status and Ticket.change_status.
ChangeStatus(r, user, new) ==
    /\ pc[r] = "loaded"
    /\ LET t == snap[r] IN
       /\ t.project => CanChangeStatusInProject(RoleOf[user], ProjectRoleOf[user])
       /\ MayChangeStatus(t.status, new, RoleOf[user])
       /\ Upsert(r, [t EXCEPT !.status = new,
                              !.closed_at = IF new = "CLOSED" THEN r ELSE @],
                 {Entry(r, "status_changed", user, t.status, new)})

\* CommentService.add_comment, reply_to_comment, edit_comment, delete_comment, as
\* far as the ticket goes: the aggregate they read is merged with one entry more.
\* An edit that keeps the text writes none.  The rights on the comment itself are
\* not modelled here.
Discuss(r, user, adds) ==
    /\ pc[r] = "loaded"
    /\ LET t == snap[r] IN
       /\ adds => /\ t.status \notin NON_COMMENTABLE_STATUSES
                  /\ RoleOf[user] = "CUSTOMER" => user = t.reporter
       /\ \/ Upsert(r, t, {Entry(r, "commented", user, None, None)})
          \/ ~adds /\ Upsert(r, t, {})

-----------------------------------------------------------------------------
(* The end of the transaction.                                             *)

\* The UPDATE writes a column only if the entity differs from the merged row.
Written(entity, base, current) == IF entity # base THEN entity ELSE current

\* Mutant: the mapper forgets closed_at.
FlushedNoStamp(s, row) ==
    [row EXCEPT
       !.status      = Written(s.entity.status, s.base.status, @),
       !.assigned_to = Written(s.entity.assigned_to, s.base.assigned_to, @),
       !.deleted_at  = Written(s.entity.deleted_at, s.base.deleted_at, @),
       !.title       = Written(s.entity.title, s.base.title, @),
       !.priority    = Written(s.entity.priority, s.base.priority, @)]

Flushed(s, row) ==
    [row EXCEPT
       !.status      = Written(s.entity.status, s.base.status, @),
       !.assigned_to = Written(s.entity.assigned_to, s.base.assigned_to, @),
       !.closed_at   = Written(s.entity.closed_at, s.base.closed_at, @),
       !.deleted_at  = Written(s.entity.deleted_at, s.base.deleted_at, @),
       !.title       = Written(s.entity.title, s.base.title, @),
       !.priority    = Written(s.entity.priority, s.base.priority, @)]

\* Mutant: a nullable foreign key.
FlushableAlways(s) == TRUE

\* The foreign key of an entry is NOT NULL: no entry can be taken out.
Flushable(s) == s.orphaned = {}

Commit(r) ==
    /\ pc[r] = "merged"
    /\ Flushable(work[r])
    /\ ticket' = Flushed(work[r], ticket)
    /\ history' = (history \ work[r].orphaned) \cup work[r].added
    /\ At(r, "committed")
    /\ UNCHANGED <<snap, seen, work, published>>

\* Mutant: the failed flush is not rolled back, the new entries stay.
ConflictKeepsEntries(r) ==
    /\ pc[r] = "merged"
    /\ ~Flushable(work[r])
    /\ history' = history \cup work[r].added
    /\ At(r, "conflict")
    /\ Close(r)
    /\ UNCHANGED <<ticket, published>>

Conflict(r) ==
    /\ pc[r] = "merged"
    /\ ~Flushable(work[r])
    /\ At(r, "conflict")
    /\ Close(r)
    /\ UNCHANGED <<ticket, history, published>>

\* Mutant: the events are published before the commit.
PublishFirst(r) ==
    /\ pc[r] \in {"merged", "committed"}
    /\ published' = published \cup {e \in work[r].added : Announced(e)}
    /\ At(r, "done")
    /\ Close(r)
    /\ UNCHANGED <<ticket, history>>

\* for event in ticket.collect_events(): publish(event), after the commit.
Publish(r) ==
    /\ pc[r] = "committed"
    /\ published' = published \cup {e \in work[r].added : Announced(e)}
    /\ At(r, "done")
    /\ Close(r)
    /\ UNCHANGED <<ticket, history>>

\* A check raises, or the process or the connection dies before the commit.
Fail(r) ==
    /\ pc[r] \in {"reading", "loaded", "merged"}
    /\ At(r, "failed")
    /\ Close(r)
    /\ UNCHANGED <<ticket, history, published>>

\* The process dies between the commit and the publication: the events are lost.
LoseEvents(r) ==
    /\ pc[r] = "committed"
    /\ At(r, "done")
    /\ Close(r)
    /\ UNCHANGED <<ticket, history, published>>

-----------------------------------------------------------------------------
Next ==
    \E r \in Requests :
        \/ /\ ticket = NoTicket
           /\ \E user, reporter \in Users, project, counterparty \in BOOLEAN,
                 priority \in Priorities :
                 Create(r, user, reporter, project, counterparty, priority)
        \/ ReadTicket(r)
        \/ ReadHistory(r)
        \/ /\ pc[r] = "loaded"
           /\ \E user \in Users :
                 \/ \E retitle \in BOOLEAN, priority \in Priorities :
                       Edit(r, user, retitle, priority)
                 \/ Archive(r, user)
                 \/ \E assignee \in Users : AssignTo(r, user, assignee)
                 \/ \E new \in TicketStatuses : ChangeStatus(r, user, new)
                 \/ \E adds \in BOOLEAN : Discuss(r, user, adds)
        \/ Commit(r)
        \/ Conflict(r)
        \/ Publish(r)
        \/ Fail(r)
        \/ LoseEvents(r)

Spec == Init /\ [][Next]_vars

-----------------------------------------------------------------------------
(* Properties of every interleaving.                                       *)

\* Every variable has its type, and a request holds what its step has read:
\* the row from ReadTicket on, the history from ReadHistory on, the session of
\* Upsert from the merge on.
TypeOK ==
    /\ ticket \in Tickets \cup {NoTicket}
    /\ history \in SUBSET Entries
    /\ pc \in [Requests -> PCs]
    /\ snap \in [Requests -> Tickets \cup {NoTicket}]
    /\ seen \in [Requests -> SUBSET Entries]
    /\ work \in [Requests -> Sessions \cup {NoSession}]
    /\ published \in SUBSET Entries
    /\ \A r \in Requests :
          /\ pc[r] \in {"reading", "loaded"} => snap[r] \in Tickets
          /\ pc[r] \in {"merged", "committed"} => work[r] \in Sessions
          /\ ticket = NoTicket => pc[r] \in {"idle", "failed"}

Approvers == Managers \cup {"CUSTOMER_ADMIN"}

IsApproval(e) ==
    /\ e.action = "status_changed"
    /\ e.old = "PENDING_APPROVAL" /\ e.new = "OPEN"
    /\ RoleOf[e.actor] \in Approvers

Recorded(status, entries) ==
    \E e \in entries : e.action = "status_changed" /\ e.new = status

\* No work on a customer's ticket without approval: once its status has left
\* PENDING_APPROVAL otherwise than by a rejection, the history holds the approval
\* of an administrator, a support manager or the customer's administrator -
\* whatever requests raced on stale reads.  (Ticket._can_change_to_status.)
ApprovalGate ==
    ticket # NoTicket /\ IsCustomer(RoleOf[ticket.created_by]) =>
        \/ ticket.status \in {"PENDING_APPROVAL", "REJECTED"}
        \/ \E e \in history : IsApproval(e)

\* The history explains the status: the current status, and the status that each
\* recorded change started from, is the initial one or was set by a recorded
\* change.  A lost update may bring back an old status, but never one the ticket
\* did not have.  (Ticket.change_status writes the entry with the status.)
StatusExplained ==
    ticket # NoTicket =>
        LET Known(status) == \/ status = InitialStatus(RoleOf[ticket.created_by])
                             \/ Recorded(status, history)
        IN  /\ Known(ticket.status)
            /\ \A e \in history : e.action = "status_changed" => Known(e.old)

\* A transaction is all or nothing: the entries in the history are those of
\* requests that committed, and a request that committed has all of its own there.
AllOrNothing ==
    /\ \A e \in history : pc[e.req] \in Committed
    /\ \A r \in Requests : pc[r] = "committed" => work[r].added \subseteq history

\* A request that is going to fail in the flush was overtaken: what its merge took
\* out of the history was committed by other requests after it read the ticket.
\* Conflicts therefore cannot starve everyone.
ConflictMeansProgress ==
    \A r \in Requests : pc[r] = "merged" =>
        \A e \in work[r].orphaned :
            /\ e \in history \ seen[r]
            /\ e.req # r /\ pc[e.req] \in Committed

\* Subscribers are told only of facts: an event is published for nothing but an
\* entry that is in the committed history.
EventsAreFacts == published \subseteq history

\* The audit trail only grows: no committed entry is ever lost, although merge
\* replaces the whole collection by what a stale request knew.
HistoryAppendOnly == [][history \subseteq history']_vars

-----------------------------------------------------------------------------
(* The legal life of a ticket, and what departs from it.                   *)

L == INSTANCE TicketLifecycle WITH Stamps <- Requests

\* The row a request judged, or the row its merge found, is not the stored one.
OutOfDate(r) == snap[r] # ticket \/ work[r].base # ticket

\* Whatever overlaps, the ticket departs from its legal life only by the commit of a
\* request that was overtaken between its read and its commit, and even then the status
\* it writes is the one it read or a permitted successor of that.  Every other change
\* of the row is one legal operation on the ticket as it is.
\* (TicketService reads, judges and merges; nothing reads again before the commit.)
OnlyStaleCommitsDepart ==
    [][ticket' # ticket =>
          \/ L!Next
          \/ \E r \in Requests :
                /\ pc[r] = "merged" /\ pc'[r] = "committed"
                /\ OutOfDate(r)
                /\ \/ ticket'.status \in {ticket.status, snap[r].status}
                   \/ <<snap[r].status, ticket'.status>> \in ALLOWED_TRANSITIONS]_vars

-----------------------------------------------------------------------------
(* What holds when requests do not overlap.                                *)

\* Each step of the service is one legal operation on the current ticket.  The
\* handlers promise it; it takes Serial = TRUE.
ImplementsLifecycle == L!Spec

\* closed_at is set exactly when the history has a change to CLOSED, deleted_at
\* exactly when it has an archiving, and the last writer of each is recorded.
StampsMatchHistory ==
    ticket # NoTicket =>
        /\ ticket.closed_at # None \/ Recorded("CLOSED", history) =>
              \E e \in history : e.new = "CLOSED" /\ e.req = ticket.closed_at
        /\ ticket.deleted_at # None \/ (\E e \in history : e.action = "ticket_archived") =>
              \E e \in history : e.action = "ticket_archived" /\ e.req = ticket.deleted_at

-----------------------------------------------------------------------------
(* What the sources say, and overlapping requests break.                   *)

\* tickets/domain/constants.py:3: the permitted transitions between the statuses
\* of a ticket.  Every change of the stored status is one of them.
StatusFollowsTransitions ==
    [][ticket # NoTicket /\ ticket'.status # ticket.status =>
          <<ticket.status, ticket'.status>> \in ALLOWED_TRANSITIONS]_vars
=============================================================================
