----------------------------- MODULE Discussion -----------------------------
(***************************************************************************)
(* The comments of one ticket, the replies to them and the reactions, under *)
(* concurrent HTTP requests (tickets/services/comment.py, reaction.py).     *)
(*                                                                         *)
(* A handler reads the ticket, the comment it is about and, to delete a    *)
(* reply, the parent; mutates what it read; merges every entity it touched *)
(* and commits.  As in TicketService nothing locks a row: merge copies an  *)
(* entity over the row read, or over the row as it is now when the         *)
(* identity map has lost the one read, and the UPDATE writes the columns   *)
(* in which the two differ.                                                *)
(*                                                                         *)
(* A comment and a reaction are named by the request that creates them, as *)
(* are a text and the timestamp deleted_at.                                *)
(*                                                                         *)
(* Abstractions.  The ticket's status is reduced to whether it may be      *)
(* commented; TicketService changes it.  The ticket is merged too: the     *)
(* entry this adds to its history is TicketService's Discuss, and the      *)
(* flush that fails on that history is Fail here.  Publication follows     *)
(* the commit, as there.  Attachments belong to module Attachments.        *)
(***************************************************************************)
EXTENDS TicketDomain, Integers, FiniteSets

CONSTANTS
    Requests,       \* identifiers of requests, each used once
    Users,          \* identifiers of users
    RoleOf,         \* the system role of each user
    Reporter,       \* the user who reports the ticket
    Colleagues,     \* the users of the ticket's counterparty
    ReactionTypes,  \* the reactions in use, out of ReactionType
    None            \* SQL NULL

CommentTypes == {"PUBLIC", "INTERNAL", "NOTE"}

ASSUME DiscussionAssumption ==
    /\ RoleOf \in [Users -> UserRoles]
    /\ Colleagues \subseteq Users
    /\ None \notin Requests
    /\ IsFiniteSet(Requests)

VARIABLES
    commentable,  \* the ticket's status allows comments
    comments,     \* the rows of table comments, by the request that made them
    reactions,    \* the rows of table reactions
    pc,           \* where each request is
    sawOpen,      \* the status each request read
    snap,         \* the comment each request read, with its id
    parent,       \* the parent each deletion read
    work,         \* what each request's session is going to flush
    toggled,      \* the toggles that have committed: who asked, and for what
    overlapped    \* two requests have been under way at the same time

vars == <<commentable, comments, reactions, pc, sawOpen, snap, parent, work,
          toggled, overlapped>>

-----------------------------------------------------------------------------
(* Rows and sessions.                                                      *)

NoComment == [author |-> None]

Row(up, author, type, text, count, deleted) ==
    [parent_comment_id |-> up, author |-> author, type |-> type, text |-> text,
     reply_count |-> count, deleted_at |-> deleted]

Rows == [parent_comment_id : Requests \cup {None}, author : Users,
         type : CommentTypes, text : Requests, reply_count : Nat,
         deleted_at : Requests \cup {None}]

Exists(c) == comments[c] # NoComment

Live(row) == row # NoComment /\ row.deleted_at = None

Reactions == [id : Requests, comment : Requests, author : Users, type : ReactionTypes]

SameReaction(x, y) == x.comment = y.comment /\ x.author = y.author /\ x.type = y.type

\* A merged comment: the entity, and the row it was copied over.
Merges == [id : Requests, entity : Rows, base : Rows]

NoRead == [id |-> None]
Work(row, merged, set, removed, asked) ==
    [created |-> row, merged |-> merged, set |-> set, removed |-> removed, asked |-> asked]

NoWork == Work(NoComment, {}, {}, {}, {})
Created(row, merged) == Work(row, merged, {}, {}, {})
Merged(merged) == Work(NoComment, merged, {}, {}, {})

Running == {"opened", "loaded", "family", "reacting", "merged"}
PCs == {"idle", "done", "failed"} \cup Running

-----------------------------------------------------------------------------
(* Rights and counters.                                                    *)

\* can_access_ticket.
CanAccess(user) ==
    \/ RoleOf[user] \in SupportTeam
    \/ RoleOf[user] = "CUSTOMER" /\ user = Reporter /\ user \in Colleagues
    \/ RoleOf[user] = "CUSTOMER_ADMIN" /\ user \in Colleagues

\* can_comment_ticket, for the status that was read.  It names no other roles:
\* whoever is not a customer may comment.
CanComment(user, seenOpen) ==
    /\ seenOpen
    /\ RoleOf[user] = "CUSTOMER" => user = Reporter
    /\ RoleOf[user] = "CUSTOMER_ADMIN" => user \in Colleagues

\* Mutant: no restriction on a customer's types.
AnyTypeForAll(user, type) == type \in CommentTypes

\* Comment._can_create.
CanCreateType(user, type) == IsCustomer(RoleOf[user]) => type = "PUBLIC"

\* Reaction.create.
CanReact(user, type) == IsCustomer(RoleOf[user]) => type # "IN_PROGRESS"

\* Mutant: the reply is counted by the service and by the entity.
CountedTwice(n) == n + 2

Incremented(n) == n + 1

\* Mutant: no test for zero.
DecrementedBelowZero(n) == n - 1

Decremented(n) == IF n > 0 THEN n - 1 ELSE n

-----------------------------------------------------------------------------
Init ==
    /\ commentable = TRUE
    /\ comments = [c \in Requests |-> NoComment]
    /\ reactions = {}
    /\ pc = [r \in Requests |-> "idle"]
    /\ sawOpen = [r \in Requests |-> FALSE]
    /\ snap = [r \in Requests |-> NoRead]
    /\ parent = [r \in Requests |-> NoComment]
    /\ work = [r \in Requests |-> NoWork]
    /\ toggled = {}
    /\ overlapped = FALSE

At(r, label) == pc' = [pc EXCEPT ![r] = label]

Overlaps(r) == overlapped' = (overlapped \/ \E q \in Requests : pc[q] \in Running)

\* The request's session is closed and what it held is gone (get_db).
Close(r) ==
    /\ sawOpen' = [sawOpen EXCEPT ![r] = FALSE]
    /\ snap' = [snap EXCEPT ![r] = NoRead]
    /\ parent' = [parent EXCEPT ![r] = NoComment]
    /\ work' = [work EXCEPT ![r] = NoWork]

\* A request of TicketService moves the ticket into or out of the statuses that
\* allow no comment.
TicketMoves ==
    /\ commentable' = ~commentable
    /\ overlapped' = (overlapped \/ \E q \in Requests : pc[q] \in Running)
    /\ UNCHANGED <<comments, reactions, pc, sawOpen, snap, parent, work, toggled>>

\* ticket_repo.read, the first call of every handler of CommentService.
ReadTicket(r) ==
    /\ pc[r] = "idle"
    /\ sawOpen' = [sawOpen EXCEPT ![r] = commentable]
    /\ At(r, "opened")
    /\ Overlaps(r)
    /\ UNCHANGED <<commentable, comments, reactions, snap, parent, work, toggled>>

\* comment_repo.read of the comment the request is about; a deleted one is found.
ReadComment(r, c) ==
    /\ pc[r] = "opened"
    /\ Exists(c)
    /\ snap' = [snap EXCEPT ![r] = [id |-> c, row |-> comments[c]]]
    /\ At(r, "loaded")
    /\ UNCHANGED <<commentable, comments, reactions, sawOpen, parent, work,
                   toggled, overlapped>>

\* delete_comment of a reply: comment_repo.read of the parent.
ReadParent(r) ==
    /\ pc[r] = "loaded"
    /\ snap[r].row.parent_comment_id # None
    /\ parent' = [parent EXCEPT ![r] = comments[snap[r].row.parent_comment_id]]
    /\ At(r, "family")
    /\ UNCHANGED <<commentable, comments, reactions, sawOpen, snap, work,
                   toggled, overlapped>>

Flushing(r, w) ==
    /\ work' = [work EXCEPT ![r] = w]
    /\ At(r, "merged")
    /\ UNCHANGED <<commentable, comments, reactions, sawOpen, snap, parent,
                   toggled, overlapped>>

\* session.merge copies the entity over the row read, or over the row as it is now.
Bases(c, read) == {read, comments[c]}

-----------------------------------------------------------------------------
(* CommentService.                                                         *)

\* add_comment.
AddComment(r, user, type) ==
    /\ pc[r] = "opened"
    /\ CanComment(user, sawOpen[r])
    /\ CanCreateType(user, type)
    /\ Flushing(r, Created(Row(None, user, type, r, 0, None), {}))

\* reply_to_comment and Comment.create_reply: the parent's counter goes up with
\* the reply.
Reply(r, user, type) ==
    /\ pc[r] = "loaded"
    /\ LET c == snap[r].id
           up == snap[r].row
       IN  /\ CanComment(user, sawOpen[r])
           /\ Live(up)
           /\ CanCreateType(user, type)
           /\ \E base \in Bases(c, up) :
                 Flushing(r, Created(Row(c, user, type, r, 0, None),
                     {[id |-> c, base |-> base,
                       entity |-> Row(up.parent_comment_id, up.author, up.type, up.text,
                                      Incremented(up.reply_count), None)]}))

\* edit_comment and Comment.edit; neither looks at the ticket's status or at the
\* rights on the ticket.
EditComment(r, user) ==
    /\ pc[r] = "loaded"
    /\ LET c == snap[r].id
           row == snap[r].row
       IN  /\ Live(row)
           /\ user = row.author
           /\ \E base \in Bases(c, row) :
                 Flushing(r, Merged({[id |-> c, base |-> base,
                     entity |-> Row(row.parent_comment_id, row.author, row.type, r,
                                    row.reply_count, row.deleted_at)]}))

\* Comment.delete on the row read.
Deletion(r, base) ==
    LET row == snap[r].row
    IN  [id |-> snap[r].id, base |-> base,
         entity |-> Row(row.parent_comment_id, row.author, row.type, row.text,
                        row.reply_count, r)]

\* Mutant: no test whether the comment is deleted.
MayDeleteAgain(r, user) ==
    user = snap[r].row.author \/ RoleOf[user] \in SupportTeam

MayDelete(r, user) ==
    /\ Live(snap[r].row)
    /\ user = snap[r].row.author \/ RoleOf[user] \in SupportTeam

\* delete_comment of a root comment.
DeleteComment(r, user) ==
    /\ pc[r] = "loaded"
    /\ snap[r].row.parent_comment_id = None
    /\ MayDelete(r, user)
    /\ \E base \in Bases(snap[r].id, snap[r].row) :
          Flushing(r, Merged({Deletion(r, base)}))

\* Mutant: the parent is not touched.
DeleteReplyAlone(r, user) ==
    /\ pc[r] = "family"
    /\ MayDelete(r, user)
    /\ \E base \in Bases(snap[r].id, snap[r].row) :
          Flushing(r, Merged({Deletion(r, base)}))

\* delete_comment of a reply: the parent is merged as well, and a live parent's
\* counter goes down.
DeleteReply(r, user) ==
    /\ pc[r] = "family"
    /\ MayDelete(r, user)
    /\ LET c == snap[r].row.parent_comment_id
           up == parent[r]
           count == IF Live(up) THEN Decremented(up.reply_count) ELSE up.reply_count
       IN  \E base \in Bases(snap[r].id, snap[r].row), upBase \in Bases(c, up) :
              Flushing(r, Merged(
                  {Deletion(r, base),
                   [id |-> c, base |-> upBase,
                    entity |-> Row(up.parent_comment_id, up.author, up.type, up.text,
                                   count, up.deleted_at)]}))

-----------------------------------------------------------------------------
(* ReactionService.                                                        *)

\* toggle, its first call: the comment must be there and not deleted.
ReadForReaction(r, c) ==
    /\ pc[r] = "idle"
    /\ Live(comments[c])
    /\ snap' = [snap EXCEPT ![r] = [id |-> c, row |-> comments[c]]]
    /\ At(r, "reacting")
    /\ Overlaps(r)
    /\ UNCHANGED <<commentable, comments, reactions, sawOpen, parent, work, toggled>>

\* Mutant: the query forgets the author.
AnyonesReactions(reaction) ==
    {x \in reactions : x.comment = reaction.comment /\ x.type = reaction.type}

\* SqlReactionRepository.find.
Find(reaction) == {x \in reactions : SameReaction(x, reaction)}

\* toggle, the rest: find, then create the reaction or delete the one found by
\* its id.  What is found has the type asked for, so its last branch, which
\* would change the type, is never taken.
Toggle(r, user, type) ==
    /\ pc[r] = "reacting"
    /\ LET reaction == [id |-> r, comment |-> snap[r].id, author |-> user, type |-> type]
       IN  \/ /\ Find(reaction) = {}
              /\ CanReact(user, type)
              /\ Flushing(r, Work(NoComment, {}, {reaction}, {}, {reaction}))
           \/ /\ Find(reaction) # {}
              /\ Flushing(r, Work(NoComment, {}, {}, Find(reaction), {reaction}))

-----------------------------------------------------------------------------
(* The end of the transaction.                                             *)

Written(entity, base, current) == IF entity # base THEN entity ELSE current

\* The UPDATE of one merged comment.
Updated(m, row) ==
    Row(row.parent_comment_id, row.author, row.type,
        Written(m.entity.text, m.base.text, row.text),
        Written(m.entity.reply_count, m.base.reply_count, row.reply_count),
        Written(m.entity.deleted_at, m.base.deleted_at, row.deleted_at))

Flushed(r, c) ==
    IF c = r /\ work[r].created # NoComment THEN work[r].created
    ELSE IF \E m \in work[r].merged : m.id = c
         THEN Updated(CHOOSE m \in work[r].merged : m.id = c, comments[c])
         ELSE comments[c]

\* uq_comment_reaction.
UniqueReactions(w) ==
    \A x \in w.set : ~ \E y \in reactions : SameReaction(x, y)

Commit(r) ==
    /\ pc[r] = "merged"
    /\ UniqueReactions(work[r])
    /\ comments' = [c \in Requests |-> Flushed(r, c)]
    /\ reactions' = (reactions \ work[r].removed) \cup work[r].set
    /\ toggled' = toggled \cup work[r].asked
    /\ At(r, "done")
    /\ Close(r)
    /\ UNCHANGED <<commentable, overlapped>>

\* The INSERT of a reaction that is there already: IntegrityError, rolled back.
Refuse(r) ==
    /\ pc[r] = "merged"
    /\ ~UniqueReactions(work[r])
    /\ At(r, "failed")
    /\ Close(r)
    /\ UNCHANGED <<commentable, comments, reactions, toggled, overlapped>>

\* A check raises, the flush fails on the ticket's history, or the process dies.
Fail(r) ==
    /\ pc[r] \in Running
    /\ At(r, "failed")
    /\ Close(r)
    /\ UNCHANGED <<commentable, comments, reactions, toggled, overlapped>>

-----------------------------------------------------------------------------
Next ==
    \/ TicketMoves
    \/ \E r \in Requests :
        \/ ReadTicket(r)
        \/ \E c \in Requests : ReadComment(r, c)
        \/ ReadParent(r)
        \/ \E user \in Users, type \in CommentTypes : AddComment(r, user, type)
        \/ \E user \in Users, type \in CommentTypes : Reply(r, user, type)
        \/ \E user \in Users : EditComment(r, user)
        \/ \E user \in Users : DeleteComment(r, user)
        \/ \E user \in Users : DeleteReply(r, user)
        \/ \E c \in Requests : ReadForReaction(r, c)
        \/ \E user \in Users, type \in ReactionTypes : Toggle(r, user, type)
        \/ Commit(r)
        \/ Refuse(r)
        \/ Fail(r)

Spec == Init /\ [][Next]_vars

-----------------------------------------------------------------------------
(* Properties of every interleaving.                                       *)

\* Every variable has its type; counters are natural numbers (Comment.
\* decrement_reply_count stops at zero, also when two deletions of one reply
\* race); a request holds what its step has read.
TypeOK ==
    /\ commentable \in BOOLEAN /\ overlapped \in BOOLEAN
    /\ comments \in [Requests -> Rows \cup {NoComment}]
    /\ reactions \in SUBSET Reactions
    /\ pc \in [Requests -> PCs]
    /\ sawOpen \in [Requests -> BOOLEAN]
    /\ snap \in [Requests -> [id : Requests, row : Rows] \cup {NoRead}]
    /\ parent \in [Requests -> Rows \cup {NoComment}]
    /\ work \in [Requests -> [created : Rows \cup {NoComment}, merged : SUBSET Merges,
                              set : SUBSET Reactions, removed : SUBSET Reactions,
                              asked : SUBSET Reactions]]
    /\ toggled \in SUBSET Reactions
    /\ \A r \in Requests :
          /\ pc[r] \in {"loaded", "family", "reacting"} => snap[r] # NoRead
          /\ pc[r] = "family" => parent[r] # NoComment

Replies(c) == {x \in Requests : Exists(x) /\ comments[x].parent_comment_id = c}
LiveReplies(c) == {x \in Replies(c) : Live(comments[x])}

\* The counter of a comment never exceeds the replies ever made to it, deleted
\* ones included, whatever stale counter was merged over it.
\* (Comment.increment_reply_count, committed with the reply.)
CounterNeverInvents ==
    \A c \in Requests :
        Exists(c) => comments[c].reply_count <= Cardinality(Replies(c))

\* What a user can be shown: the roots by get_comments, the replies to a live
\* comment by get_comment_replies, which does not ask for notes.
Listed(user, c) ==
    LET row == comments[c]
        internal == RoleOf[user] \in SupportTeam
        visible == row.type = "PUBLIC" \/ (row.type = "INTERNAL" /\ internal)
    IN  /\ CanAccess(user)
        /\ Live(row)
        /\ IF row.parent_comment_id = None
           THEN visible \/ (row.type = "NOTE" /\ row.author = user)
           ELSE visible /\ Live(comments[row.parent_comment_id])

\* Authors with access to the ticket find what they wrote, until it or the
\* comment it answers is deleted.  Notes in reply are the exception.
\* (Comment._can_create against SqlCommentRepository.get_by_ticket, get_replies.)
AuthorsFindTheirComments ==
    \A c \in Requests :
        LET row == comments[c] IN
        Live(row) /\ CanAccess(row.author) =>
            \/ Listed(row.author, c)
            \/ /\ row.parent_comment_id # None
               /\ row.type = "NOTE" \/ ~Live(comments[row.parent_comment_id])

\* The reply_count of a live comment is the number of its live replies.
CountsRight(c) ==
    Live(comments[c]) => comments[c].reply_count = Cardinality(LiveReplies(c))

\* What a request read, or what its merge found, is not what is stored.
OutOfDate(r) ==
    \/ snap[r] # NoRead /\ snap[r].row # comments[snap[r].id]
    \/ parent[r] # NoComment /\ parent[r] # comments[snap[r].row.parent_comment_id]
    \/ \E m \in work[r].merged : m.base # comments[m.id]

\* A counter that was right is wrong, or a deleted comment is not as it was left.
Spoilt(c) ==
    \/ CountsRight(c) /\ ~CountsRight(c)'
    \/ Exists(c) /\ ~Live(comments[c]) /\ comments'[c] # comments[c]

\* A comment is spoilt only when requests overlap, and then only by the commit of one
\* that was overtaken: one whose rows have changed since it read or merged them.
\* Neither other requests, other comments nor a failure spoil it; without overlaps a
\* deletion is final: no answer, no edit, no second deletion and no merge touches it.
\* (Comment.increment_reply_count and decrement_reply_count, merged with the reply;
\* Comment.edit and delete.)
OnlyStaleWritesSpoil ==
    [][\A c \in Requests : Spoilt(c) =>
          /\ overlapped
          /\ \E r \in Requests : pc[r] = "merged" /\ pc'[r] = "done" /\ OutOfDate(r)]_vars

-----------------------------------------------------------------------------
(* What holds until two requests overlap.                                  *)

\* tickets/infra/models.py:77: reply_count is the number of replies to the
\* comment, the deleted ones not counted.
CounterIsExact ==
    ~overlapped =>
        \A c \in Requests :
            Live(comments[c]) => comments[c].reply_count = Cardinality(LiveReplies(c))

\* Each toggle that succeeds turns the reaction round: it is there after an odd
\* number of them.  (ReactionService.toggle.)
TogglesAlternate ==
    ~overlapped =>
        \A c \in Requests, user \in Users, type \in ReactionTypes :
            LET Of(set) == {x \in set : x.comment = c /\ x.author = user /\ x.type = type}
            IN  Cardinality(Of(reactions)) = Cardinality(Of(toggled)) % 2

-----------------------------------------------------------------------------
(* What the sources say, and overlapping requests break.                   *)

\* tickets/infra/models.py:77: the number of replies, for requests that overlap.
ReplyCountIsReplies ==
    \A c \in Requests :
        Live(comments[c]) => comments[c].reply_count = Cardinality(LiveReplies(c))
=============================================================================
