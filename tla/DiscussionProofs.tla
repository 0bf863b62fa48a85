-------------------------- MODULE DiscussionProofs --------------------------
(***************************************************************************)
(* Counters and comments of a ticket, for any number of requests and users. *)
(*                                                                         *)
(* A counter is written from a row read long ago, so a statement about the *)
(* stored rows alone is not inductive: the rows that requests have read,   *)
(* and the entities they are going to flush, are counted against the       *)
(* replies stored as well.  A session that brings a reply of its own may   *)
(* count one more, and the reply is stored with the counter.               *)
(*                                                                         *)
(* For requests that do not overlap, SerialInv: what the request that runs *)
(* has read is what is stored, and what it is going to store is sound.     *)
(*                                                                         *)
(* For requests that do, RaceInv: what a session is going to flush was     *)
(* worked out from what it holds; a counter goes wrong only when that is   *)
(* no longer what is stored.                                               *)
(***************************************************************************)
EXTENDS Discussion, FiniteSetTheorems, TLAPS

USE DiscussionAssumption

Works == [created : Rows \cup {NoComment}, merged : SUBSET Merges,
          set : SUBSET Reactions, removed : SUBSET Reactions,
          asked : SUBSET Reactions]

-----------------------------------------------------------------------------
(* Rows and what sessions hold.                                            *)

LEMMA RowFields ==
  ASSUME NEW up, NEW author, NEW type, NEW text, NEW count, NEW deleted
  PROVE  LET row == Row(up, author, type, text, count, deleted)
         IN  /\ row.parent_comment_id = up /\ row.author = author /\ row.type = type
             /\ row.text = text /\ row.reply_count = count /\ row.deleted_at = deleted
             /\ row # NoComment
<1> DEFINE row == Row(up, author, type, text, count, deleted)
<1>1. /\ row.parent_comment_id = up /\ row.author = author /\ row.type = type
      /\ row.text = text /\ row.reply_count = count /\ row.deleted_at = deleted
  BY DEF Row
<1>2. row # NoComment
  <2>1. "type" \in DOMAIN row
    BY DEF Row
  <2>2. "type" \notin DOMAIN NoComment
    BY DEF NoComment
  <2> QED
    BY <2>1, <2>2
<1> QED
  BY <1>1, <1>2

LEMMA RowTyped ==
  ASSUME NEW up \in Requests \cup {None}, NEW author \in Users, NEW type \in CommentTypes,
         NEW text \in Requests, NEW count \in Nat, NEW deleted \in Requests \cup {None}
  PROVE  Row(up, author, type, text, count, deleted) \in Rows
BY DEF Row, Rows

LEMMA RowParts ==
  ASSUME NEW row \in Rows
  PROVE  /\ row.parent_comment_id \in Requests \cup {None} /\ row.author \in Users
         /\ row.type \in CommentTypes /\ row.text \in Requests
         /\ row.reply_count \in Nat /\ row.deleted_at \in Requests \cup {None}
         /\ row # NoComment
<1>1. "type" \in DOMAIN row
  BY DEF Rows
<1>2. "type" \notin DOMAIN NoComment
  BY DEF NoComment
<1> QED
  BY <1>1, <1>2 DEF Rows

LEMMA WorkTyped ==
  ASSUME NEW row \in Rows \cup {NoComment}, NEW merged \in SUBSET Merges,
         NEW set \in SUBSET Reactions, NEW removed \in SUBSET Reactions,
         NEW asked \in SUBSET Reactions
  PROVE  /\ Work(row, merged, set, removed, asked) \in Works
         /\ Work(row, merged, set, removed, asked).created = row
         /\ Work(row, merged, set, removed, asked).merged = merged
BY DEF Work, Works

\* What TypeOK says of the work of a request, by its name here.
LEMMA TypeOKParts ==
  TypeOK <=>
    /\ commentable \in BOOLEAN /\ overlapped \in BOOLEAN
    /\ comments \in [Requests -> Rows \cup {NoComment}]
    /\ reactions \in SUBSET Reactions
    /\ pc \in [Requests -> PCs]
    /\ sawOpen \in [Requests -> BOOLEAN]
    /\ snap \in [Requests -> [id : Requests, row : Rows] \cup {NoRead}]
    /\ parent \in [Requests -> Rows \cup {NoComment}]
    /\ work \in [Requests -> Works]
    /\ toggled \in SUBSET Reactions
    /\ \A r \in Requests :
          /\ pc[r] \in {"loaded", "family", "reacting"} => snap[r] # NoRead
          /\ pc[r] = "family" => parent[r] # NoComment
BY DEF TypeOK, Works

-----------------------------------------------------------------------------
(* The inductive invariant.                                                *)

\* A row, stored or about to be: its parent is stored, a customer's type is PUBLIC.
RowSound(row) ==
    /\ row.parent_comment_id # None => Exists(row.parent_comment_id)
    /\ IsCustomer(RoleOf[row.author]) => row.type = "PUBLIC"

\* A row as some request has read it: it is stored, under the same parent, and counts
\* no reply that is not stored.
ReadSound(c, row) ==
    /\ Exists(c)
    /\ row.parent_comment_id = comments[c].parent_comment_id
    /\ row.reply_count <= Cardinality(Replies(c))

\* The reply to c that a session brings.
Brings(w, c) == w.created # NoComment /\ w.created.parent_comment_id = c

MergeSound(w, m) ==
    /\ Exists(m.id)
    /\ m.entity.reply_count <= Cardinality(Replies(m.id)) + (IF Brings(w, m.id) THEN 1 ELSE 0)

WorkSound(w) ==
    /\ w.created # NoComment => RowSound(w.created) /\ w.created.reply_count = 0
    /\ \A m \in w.merged : MergeSound(w, m)

\* The rows; the request that made one is done.
StoreSound ==
    \A c \in Requests : Exists(c) =>
        pc[c] = "done" /\ RowSound(comments[c]) /\ ReadSound(c, comments[c])

\* What the requests hold.
SessionSound(r) ==
    /\ snap[r] # NoRead => ReadSound(snap[r].id, snap[r].row)
    /\ pc[r] = "family" =>
          /\ snap[r].row.parent_comment_id # None
          /\ ReadSound(snap[r].row.parent_comment_id, parent[r])
    /\ WorkSound(work[r])

DiscussionInv == TypeOK /\ StoreSound /\ \A r \in Requests : SessionSound(r)

LEMMA RepliesFinite ==
  ASSUME NEW c
  PROVE  IsFiniteSet(Replies(c)) /\ Cardinality(Replies(c)) \in Nat
<1>1. Replies(c) \subseteq Requests
  BY DEF Replies
<1> QED
  BY <1>1, FS_Subset, FS_CardinalityType

LEMMA NoWorkSound == NoWork \in Works /\ WorkSound(NoWork)
<1>1. /\ NoWork \in Works /\ NoWork.created = NoComment /\ NoWork.merged = {}
  BY WorkTyped DEF NoWork
<1> QED
  BY <1>1 DEF WorkSound

LEMMA DiscussionInitInv == Init => DiscussionInv
<1> SUFFICES ASSUME Init PROVE DiscussionInv
  OBVIOUS
<1>1. TypeOK
  <2>1. work \in [Requests -> Works]
    BY NoWorkSound DEF Init
  <2>2. "idle" \in PCs
    BY DEF PCs
  <2> QED
    BY <2>1, <2>2, TypeOKParts DEF Init
<1>2. StoreSound
  BY DEF Init, StoreSound, Exists
<1>3. \A r \in Requests : SessionSound(r)
  BY NoWorkSound DEF Init, SessionSound
<1> QED
  BY <1>1, <1>2, <1>3 DEF DiscussionInv

-----------------------------------------------------------------------------
(* Steps that leave the comments alone.                                    *)

LEMMA SameStore ==
  ASSUME UNCHANGED comments
  PROVE  /\ \A c : (Exists(c)' <=> Exists(c)) /\ Replies(c)' = Replies(c)
         /\ \A row : RowSound(row)' <=> RowSound(row)
         /\ \A c, row : ReadSound(c, row)' <=> ReadSound(c, row)
         /\ \A w : WorkSound(w)' <=> WorkSound(w)
<1>1. \A c : (Exists(c)' <=> Exists(c)) /\ Replies(c)' = Replies(c)
  BY DEF Exists, Replies
<1>2. \A row : RowSound(row)' <=> RowSound(row)
  BY <1>1 DEF RowSound
<1>3. \A c, row : ReadSound(c, row)' <=> ReadSound(c, row)
  BY <1>1 DEF ReadSound
<1>4. \A w, m : MergeSound(w, m)' <=> MergeSound(w, m)
  BY <1>1 DEF MergeSound, Brings
<1>5. \A w : WorkSound(w)' <=> WorkSound(w)
  BY <1>2, <1>4 DEF WorkSound
<1> QED
  BY <1>1, <1>2, <1>3, <1>5

\* A request that has not ended moves on; the others keep what they hold.
LEMMA QuietMove ==
  ASSUME DiscussionInv, NEW r \in Requests, pc[r] # "done", UNCHANGED comments, TypeOK',
         \A q \in Requests \ {r} : /\ pc'[q] = pc[q] /\ snap'[q] = snap[q]
                                   /\ parent'[q] = parent[q] /\ work'[q] = work[q],
         SessionSound(r)'
  PROVE  DiscussionInv'
<1>1. ASSUME NEW q \in Requests, q # r PROVE SessionSound(q)'
  <2>1. SessionSound(q)
    BY DEF DiscussionInv
  <2> QED
    BY <1>1, <2>1, SameStore DEF SessionSound
<1>2. StoreSound'
  <2> SUFFICES ASSUME NEW c \in Requests, Exists(c)'
               PROVE  (pc[c] = "done" /\ RowSound(comments[c]) /\ ReadSound(c, comments[c]))'
    BY DEF StoreSound
  <2>1. pc[c] = "done" /\ RowSound(comments[c]) /\ ReadSound(c, comments[c])
    BY SameStore DEF DiscussionInv, StoreSound
  <2>2. pc'[c] = "done"
    BY <2>1
  <2>3. RowSound(comments[c])' /\ ReadSound(c, comments[c])'
    BY <2>1, SameStore DEF RowSound, ReadSound, Exists, Replies
  <2> QED
    BY <2>2, <2>3
<1> QED
  BY <1>1, <1>2 DEF DiscussionInv

LEMMA FlushingStep ==
  ASSUME DiscussionInv, NEW r \in Requests, pc[r] # "done",
         NEW w \in Works, WorkSound(w), Flushing(r, w)
  PROVE  DiscussionInv'
<1>1. /\ work' = [work EXCEPT ![r] = w] /\ pc' = [pc EXCEPT ![r] = "merged"]
      /\ UNCHANGED <<commentable, comments, reactions, sawOpen, snap, parent, toggled, overlapped>>
  BY DEF Flushing, At
<1>2. TypeOK
  BY DEF DiscussionInv
<1>3. /\ work' \in [Requests -> Works] /\ pc' \in [Requests -> PCs]
      /\ pc'[r] = "merged" /\ work'[r] = w
      /\ \A q \in Requests \ {r} : pc'[q] = pc[q] /\ work'[q] = work[q]
  BY <1>1, <1>2, TypeOKParts DEF PCs, Running
<1>4. TypeOK'
  BY <1>1, <1>2, <1>3 DEF TypeOK, Works
<1>5. SessionSound(r)'
  <2>1. snap[r] # NoRead => ReadSound(snap[r].id, snap[r].row)
    BY DEF DiscussionInv, SessionSound
  <2>2. snap'[r] # NoRead => ReadSound(snap[r].id, snap[r].row)'
    BY <1>1, <2>1, SameStore DEF ReadSound, Exists, Replies
  <2>3. WorkSound(work[r])'
    BY <1>1, <1>3, SameStore
  <2> QED
    BY <1>1, <1>3, <2>2, <2>3 DEF SessionSound
<1> QED
  BY <1>1, <1>3, <1>4, <1>5, QuietMove

\* The session is closed without a trace.
LEMMA ClosedStep ==
  ASSUME DiscussionInv, NEW r \in Requests, pc[r] # "done", At(r, "failed"), Close(r),
         UNCHANGED <<commentable, comments, reactions, toggled, overlapped>>
  PROVE  DiscussionInv'
<1>1. /\ pc' = [pc EXCEPT ![r] = "failed"] /\ sawOpen' = [sawOpen EXCEPT ![r] = FALSE]
      /\ snap' = [snap EXCEPT ![r] = NoRead] /\ parent' = [parent EXCEPT ![r] = NoComment]
      /\ work' = [work EXCEPT ![r] = NoWork]
  BY DEF At, Close
<1>2. TypeOK
  BY DEF DiscussionInv
<1>3. /\ pc' \in [Requests -> PCs] /\ sawOpen' \in [Requests -> BOOLEAN]
      /\ snap' \in [Requests -> [id : Requests, row : Rows] \cup {NoRead}]
      /\ parent' \in [Requests -> Rows \cup {NoComment}]
      /\ work' \in [Requests -> Works]
  BY <1>1, <1>2, TypeOKParts, NoWorkSound DEF PCs
<1>4. /\ pc'[r] = "failed" /\ snap'[r] = NoRead /\ work'[r] = NoWork
      /\ \A q \in Requests \ {r} : /\ pc'[q] = pc[q] /\ snap'[q] = snap[q]
                                   /\ parent'[q] = parent[q] /\ work'[q] = work[q]
  BY <1>1, <1>2, TypeOKParts
<1>5. TypeOK'
  BY <1>2, <1>3, <1>4 DEF TypeOK, Works
<1>6. SessionSound(r)'
  BY <1>4, NoWorkSound, SameStore DEF SessionSound
<1> QED
  BY <1>4, <1>5, <1>6, QuietMove

\* Reading a stored comment, for whatever comes next.
LEMMA ReadingStep ==
  ASSUME DiscussionInv, NEW r \in Requests, pc[r] # "done", NEW c \in Requests, Exists(c),
         NEW label \in {"loaded", "reacting"}, At(r, label),
         snap' = [snap EXCEPT ![r] = [id |-> c, row |-> comments[c]]],
         overlapped' \in BOOLEAN,
         UNCHANGED <<commentable, comments, reactions, sawOpen, parent, work, toggled>>
  PROVE  DiscussionInv'
<1>1. pc' = [pc EXCEPT ![r] = label]
  BY DEF At
<1>2. TypeOK /\ comments[c] \in Rows
  BY TypeOKParts DEF DiscussionInv, Exists
<1>3. [id |-> c, row |-> comments[c]] \in [id : Requests, row : Rows]
  BY <1>2
<1>4. [id |-> c, row |-> comments[c]] # NoRead
  BY DEF NoRead
<1>5. /\ pc' \in [Requests -> PCs]
      /\ snap' \in [Requests -> [id : Requests, row : Rows] \cup {NoRead}]
      /\ pc'[r] = label /\ snap'[r] = [id |-> c, row |-> comments[c]]
      /\ \A q \in Requests \ {r} : pc'[q] = pc[q] /\ snap'[q] = snap[q]
  BY <1>1, <1>2, <1>3, TypeOKParts DEF PCs, Running
<1>6. TypeOK'
  BY <1>2, <1>4, <1>5 DEF TypeOK, Works
<1>7. SessionSound(r)'
  <2>1. ReadSound(c, comments[c]) /\ WorkSound(work[r])
    BY DEF DiscussionInv, StoreSound, SessionSound
  <2>2. ReadSound(c, comments[c])' /\ WorkSound(work[r])'
    BY <2>1, SameStore DEF ReadSound, Exists, Replies
  <2>3. snap'[r].id = c /\ snap'[r].row = comments[c]
    BY <1>5
  <2> QED
    BY <1>5, <2>2, <2>3 DEF SessionSound
<1> QED
  BY <1>5, <1>6, <1>7, QuietMove

-----------------------------------------------------------------------------
(* What the handlers bring to the flush.                                   *)

\* The row a request has read.
LEMMA ReadParts ==
  ASSUME DiscussionInv, NEW r \in Requests, snap[r] # NoRead
  PROVE  /\ snap[r].id \in Requests /\ snap[r].row \in Rows
         /\ ReadSound(snap[r].id, snap[r].row)
<1>1. snap[r] \in [id : Requests, row : Rows]
  BY TypeOKParts DEF DiscussionInv
<1>2. ReadSound(snap[r].id, snap[r].row)
  BY DEF DiscussionInv, SessionSound
<1> QED
  BY <1>1, <1>2

LEMMA SnapParts ==
  ASSUME DiscussionInv, NEW r \in Requests, pc[r] \in {"loaded", "family", "reacting"}
  PROVE  /\ snap[r] # NoRead /\ snap[r].id \in Requests /\ snap[r].row \in Rows
         /\ ReadSound(snap[r].id, snap[r].row)
<1>1. snap[r] # NoRead
  BY TypeOKParts DEF DiscussionInv
<1> QED
  BY <1>1, ReadParts

\* An entity over one of its bases, which counts no more than it may.
LEMMA OneMerge ==
  ASSUME DiscussionInv, NEW w, NEW c \in Requests, Exists(c), NEW read \in Rows,
         NEW base \in Bases(c, read), NEW entity \in Rows,
         entity.reply_count <= Cardinality(Replies(c)) + (IF Brings(w, c) THEN 1 ELSE 0)
  PROVE  LET m == [id |-> c, base |-> base, entity |-> entity]
         IN  m \in Merges /\ MergeSound(w, m)
<1>1. base \in Rows
  BY TypeOKParts DEF DiscussionInv, Bases, Exists
<1> QED
  BY <1>1 DEF Merges, MergeSound

LEMMA AddCommentStep ==
  ASSUME DiscussionInv, NEW r \in Requests, NEW user \in Users, NEW type \in CommentTypes,
         AddComment(r, user, type)
  PROVE  DiscussionInv'
<1> DEFINE row == Row(None, user, type, r, 0, None)
           w == Created(row, {})
<1>1. /\ pc[r] = "opened" /\ CanCreateType(user, type) /\ Flushing(r, w)
  BY DEF AddComment
<1>2. row \in Rows
  BY RowTyped
<1>3. w \in Works /\ w.created = row /\ w.merged = {}
  BY <1>2, WorkTyped DEF Created
<1>4. RowSound(row) /\ row.reply_count = 0
  BY <1>1, RowFields DEF RowSound, CanCreateType
<1>5. WorkSound(w)
  BY <1>3, <1>4 DEF WorkSound
<1> QED
  BY <1>1, <1>3, <1>5, FlushingStep

LEMMA ReplyStep ==
  ASSUME DiscussionInv, NEW r \in Requests, NEW user \in Users, NEW type \in CommentTypes,
         Reply(r, user, type)
  PROVE  DiscussionInv'
<1> DEFINE c == snap[r].id
           up == snap[r].row
           row == Row(c, user, type, r, 0, None)
           entity == Row(up.parent_comment_id, up.author, up.type, up.text,
                         Incremented(up.reply_count), None)
           merge(base) == [id |-> c, base |-> base, entity |-> entity]
           w(base) == Created(row, {merge(base)})
<1>1. PICK base \in Bases(c, up) : Flushing(r, w(base))
  BY DEF Reply
<1>2. pc[r] = "loaded" /\ CanCreateType(user, type)
  BY DEF Reply
<1>3. c \in Requests /\ up \in Rows /\ ReadSound(c, up)
  BY <1>2, SnapParts
<1>4. row \in Rows /\ entity \in Rows
  <2>1. /\ up.parent_comment_id \in Requests \cup {None} /\ up.author \in Users
        /\ up.type \in CommentTypes /\ up.text \in Requests
        /\ Incremented(up.reply_count) \in Nat
    BY <1>3, RowParts DEF Incremented
  <2>2. row \in Rows
    BY <1>3, RowTyped
  <2>3. entity \in Rows
    BY <2>1, RowTyped
  <2> QED
    BY <2>2, <2>3
<1>5. /\ row.parent_comment_id = c /\ row.author = user /\ row.type = type
      /\ row.reply_count = 0 /\ row # NoComment
      /\ entity.reply_count = up.reply_count + 1
  BY RowFields DEF Incremented
<1>6. Exists(c) /\ up.reply_count <= Cardinality(Replies(c)) /\ up.reply_count \in Nat
  BY <1>3, RowParts DEF ReadSound
<1>7. w(base).created = row
  BY DEF Created, Work
<1>8. merge(base) \in Merges /\ MergeSound(w(base), merge(base))
  <2>1. Brings(w(base), c)
    BY <1>5, <1>7 DEF Brings
  <2>2. entity.reply_count <= Cardinality(Replies(c)) + 1
    BY <1>5, <1>6, RepliesFinite
  <2> HIDE DEF w
  <2> QED
    BY <1>3, <1>4, <1>6, <2>1, <2>2, OneMerge
<1>9. w(base) \in Works /\ w(base).merged = {merge(base)}
  BY <1>4, <1>8, WorkTyped DEF Created
<1>10. RowSound(row)
  BY <1>2, <1>5, <1>6 DEF RowSound, CanCreateType
<1>11. WorkSound(w(base))
  BY <1>5, <1>7, <1>8, <1>9, <1>10 DEF WorkSound
<1> QED
  BY <1>1, <1>2, <1>9, <1>11, FlushingStep

\* One merged comment and nothing else.
LEMMA MergedStep ==
  ASSUME DiscussionInv, NEW r \in Requests, pc[r] # "done",
         NEW c \in Requests, Exists(c), NEW read \in Rows, NEW base \in Bases(c, read),
         NEW entity \in Rows, entity.reply_count <= Cardinality(Replies(c)),
         Flushing(r, Merged({[id |-> c, base |-> base, entity |-> entity]}))
  PROVE  DiscussionInv'
<1> DEFINE m == [id |-> c, base |-> base, entity |-> entity]
           w == Merged({m})
<1>1. w.created = NoComment
  BY DEF Merged, Work
<1>2. entity.reply_count <= Cardinality(Replies(c)) + (IF Brings(w, c) THEN 1 ELSE 0)
  BY <1>1, RepliesFinite, RowParts DEF Brings
<1>3. m \in Merges /\ MergeSound(w, m)
  BY <1>2, OneMerge
<1>4. w \in Works /\ w.merged = {m}
  <2>1. {m} \in SUBSET Merges /\ NoComment \in Rows \cup {NoComment}
    BY <1>3
  <2> HIDE DEF m
  <2> QED
    BY <2>1 DEF Merged, Work, Works
<1>5. WorkSound(w)
  BY <1>1, <1>3, <1>4 DEF WorkSound
<1> QED
  BY <1>4, <1>5, FlushingStep

LEMMA EditStep ==
  ASSUME DiscussionInv, NEW r \in Requests, NEW user, EditComment(r, user)
  PROVE  DiscussionInv'
<1> DEFINE c == snap[r].id
           row == snap[r].row
           entity == Row(row.parent_comment_id, row.author, row.type, r,
                         row.reply_count, row.deleted_at)
<1>1. pc[r] = "loaded"
  BY DEF EditComment
<1>2. PICK base \in Bases(c, row) :
         Flushing(r, Merged({[id |-> c, base |-> base, entity |-> entity]}))
  BY DEF EditComment
<1>3. c \in Requests /\ row \in Rows /\ ReadSound(c, row)
  BY <1>1, SnapParts
<1>4. entity \in Rows /\ entity.reply_count = row.reply_count
  <2>1. /\ row.parent_comment_id \in Requests \cup {None} /\ row.author \in Users
        /\ row.type \in CommentTypes /\ row.reply_count \in Nat
        /\ row.deleted_at \in Requests \cup {None}
    BY <1>3, RowParts
  <2>2. entity \in Rows
    BY <2>1, RowTyped
  <2> QED
    BY <2>2, RowFields
<1>5. Exists(c) /\ entity.reply_count <= Cardinality(Replies(c))
  BY <1>3, <1>4 DEF ReadSound
<1> QED
  BY <1>1, <1>2, <1>3, <1>4, <1>5, MergedStep

LEMMA DeletionParts ==
  ASSUME DiscussionInv, NEW r \in Requests, snap[r] # NoRead, NEW base
  PROVE  /\ Deletion(r, base).entity \in Rows
         /\ Deletion(r, base) = [id |-> snap[r].id, base |-> base,
                                 entity |-> Deletion(r, base).entity]
         /\ Deletion(r, base).entity.reply_count <= Cardinality(Replies(snap[r].id))
<1>1. snap[r].row \in Rows /\ ReadSound(snap[r].id, snap[r].row)
  BY ReadParts
<1>2. Deletion(r, base).entity \in Rows
  BY <1>1, RowParts, RowTyped DEF Deletion
<1>3. Deletion(r, base).entity.reply_count = snap[r].row.reply_count
  BY RowFields DEF Deletion
<1> QED
  BY <1>1, <1>2, <1>3 DEF Deletion, ReadSound

LEMMA DeleteStep ==
  ASSUME DiscussionInv, NEW r \in Requests, NEW user, DeleteComment(r, user)
  PROVE  DiscussionInv'
<1>1. pc[r] = "loaded"
  BY DEF DeleteComment
<1>2. PICK base \in Bases(snap[r].id, snap[r].row) : Flushing(r, Merged({Deletion(r, base)}))
  BY DEF DeleteComment
<1>3. snap[r].id \in Requests /\ snap[r].row \in Rows /\ Exists(snap[r].id)
  BY <1>1, SnapParts DEF ReadSound
<1> DEFINE entity == Deletion(r, base).entity
<1>4. /\ entity \in Rows
      /\ Deletion(r, base) = [id |-> snap[r].id, base |-> base, entity |-> entity]
      /\ entity.reply_count <= Cardinality(Replies(snap[r].id))
  BY <1>1, SnapParts, DeletionParts
<1> HIDE DEF entity
<1> QED
  BY <1>1, <1>2, <1>3, <1>4, MergedStep

LEMMA DeleteReplyStep ==
  ASSUME DiscussionInv, NEW r \in Requests, NEW user, DeleteReply(r, user)
  PROVE  DiscussionInv'
<1> DEFINE c == snap[r].row.parent_comment_id
           up == parent[r]
           count == IF Live(up) THEN Decremented(up.reply_count) ELSE up.reply_count
           entity == Row(up.parent_comment_id, up.author, up.type, up.text,
                         count, up.deleted_at)
           mine(base) == Deletion(r, base)
           its(base) == [id |-> c, base |-> base, entity |-> entity]
           w(base, upBase) == Merged({mine(base), its(upBase)})
<1>1. pc[r] = "family"
  BY DEF DeleteReply
<1>2. PICK base \in Bases(snap[r].id, snap[r].row), upBase \in Bases(c, up) :
         Flushing(r, w(base, upBase))
  BY DEF DeleteReply
<1>3. /\ snap[r].id \in Requests /\ snap[r].row \in Rows /\ Exists(snap[r].id)
  BY <1>1, SnapParts DEF ReadSound
<1>4. c \in Requests /\ ReadSound(c, up) /\ up \in Rows
  <2>1. c # None /\ ReadSound(c, up) /\ up # NoComment
    BY <1>1, TypeOKParts DEF DiscussionInv, SessionSound
  <2> QED
    BY <1>3, <2>1, RowParts, TypeOKParts DEF DiscussionInv
<1>5. count \in Nat /\ count <= up.reply_count
  BY <1>4, RowParts DEF Decremented
<1>6. entity \in Rows /\ entity.reply_count = count
  <2>1. /\ up.parent_comment_id \in Requests \cup {None} /\ up.author \in Users
        /\ up.type \in CommentTypes /\ up.text \in Requests
        /\ up.deleted_at \in Requests \cup {None}
    BY <1>4, RowParts
  <2> HIDE DEF count
  <2>2. entity \in Rows
    BY <1>5, <2>1, RowTyped
  <2> QED
    BY <2>2, RowFields
<1>7. Exists(c) /\ entity.reply_count <= Cardinality(Replies(c))
  <2>1. Exists(c) /\ up.reply_count <= Cardinality(Replies(c)) /\ up.reply_count \in Nat
    BY <1>4, RowParts DEF ReadSound
  <2> QED
    BY <1>5, <1>6, <2>1, RepliesFinite
<1> HIDE DEF count, entity
<1>8. w(base, upBase).created = NoComment
  BY DEF Merged, Work
<1>9. /\ mine(base) \in Merges /\ MergeSound(w(base, upBase), mine(base))
  <2> DEFINE e == Deletion(r, base).entity
             v == w(base, upBase)
  <2>1. /\ e \in Rows /\ mine(base) = [id |-> snap[r].id, base |-> base, entity |-> e]
        /\ e.reply_count <= Cardinality(Replies(snap[r].id))
    BY <1>1, SnapParts, DeletionParts
  <2>2. ~Brings(v, snap[r].id)
    BY <1>8 DEF Brings
  <2> HIDE DEF e, v
  <2>3. e.reply_count <= Cardinality(Replies(snap[r].id)) + (IF Brings(v, snap[r].id) THEN 1 ELSE 0)
    BY <2>1, <2>2, RowParts, RepliesFinite
  <2>4. mine(base) \in Merges /\ MergeSound(v, mine(base))
    BY <1>3, <2>1, <2>3, OneMerge
  <2> QED
    BY <2>4 DEF v
<1>10. its(upBase) \in Merges /\ MergeSound(w(base, upBase), its(upBase))
  <2> DEFINE v == w(base, upBase)
  <2>1. ~Brings(v, c)
    BY <1>8 DEF Brings
  <2> HIDE DEF v
  <2>2. entity.reply_count <= Cardinality(Replies(c)) + (IF Brings(v, c) THEN 1 ELSE 0)
    BY <1>6, <1>7, <2>1, RowParts, RepliesFinite
  <2>3. its(upBase) \in Merges /\ MergeSound(v, its(upBase))
    BY <1>4, <1>6, <1>7, <2>2, OneMerge
  <2> QED
    BY <2>3 DEF v
<1>11. w(base, upBase) \in Works /\ w(base, upBase).merged = {mine(base), its(upBase)}
  <2>1. {mine(base), its(upBase)} \in SUBSET Merges
    BY <1>9, <1>10
  <2> HIDE DEF mine, its
  <2> QED
    BY <2>1 DEF Merged, Work, Works
<1>12. WorkSound(w(base, upBase))
  <2> DEFINE v == w(base, upBase)
  <2>1. v.created = NoComment /\ v.merged = {mine(base), its(upBase)}
    BY <1>8, <1>11
  <2>2. MergeSound(v, mine(base)) /\ MergeSound(v, its(upBase))
    BY <1>9, <1>10
  <2> HIDE DEF v, mine, its
  <2>3. WorkSound(v)
    BY <2>1, <2>2 DEF WorkSound
  <2> QED
    BY <2>3 DEF v
<1> HIDE DEF w
<1> QED
  BY <1>1, <1>2, <1>11, <1>12, FlushingStep

LEMMA ReadTicketStep ==
  ASSUME DiscussionInv, NEW r \in Requests, ReadTicket(r)
  PROVE  DiscussionInv'
<1>1. /\ pc[r] = "idle" /\ pc' = [pc EXCEPT ![r] = "opened"]
      /\ sawOpen' = [sawOpen EXCEPT ![r] = commentable]
      /\ overlapped' \in BOOLEAN
      /\ UNCHANGED <<commentable, comments, reactions, snap, parent, work, toggled>>
  BY TypeOKParts DEF ReadTicket, At, Overlaps, DiscussionInv
<1>2. TypeOK
  BY DEF DiscussionInv
<1>3. /\ pc' \in [Requests -> PCs] /\ sawOpen' \in [Requests -> BOOLEAN]
      /\ pc'[r] = "opened" /\ \A q \in Requests \ {r} : pc'[q] = pc[q]
  BY <1>1, <1>2, TypeOKParts DEF PCs, Running
<1>4. TypeOK'
  BY <1>1, <1>2, <1>3 DEF TypeOK, Works
<1>5. SessionSound(r)'
  <2>1. (snap[r] # NoRead => ReadSound(snap[r].id, snap[r].row)) /\ WorkSound(work[r])
    BY DEF DiscussionInv, SessionSound
  <2> QED
    BY <1>1, <1>3, <2>1, SameStore DEF SessionSound
<1> QED
  BY <1>1, <1>3, <1>4, <1>5, QuietMove

LEMMA ReadParentStep ==
  ASSUME DiscussionInv, NEW r \in Requests, ReadParent(r)
  PROVE  DiscussionInv'
<1> DEFINE c == snap[r].row.parent_comment_id
<1>1. /\ pc[r] = "loaded" /\ c # None
      /\ pc' = [pc EXCEPT ![r] = "family"]
      /\ parent' = [parent EXCEPT ![r] = comments[c]]
      /\ UNCHANGED <<commentable, comments, reactions, sawOpen, snap, work, toggled, overlapped>>
  BY DEF ReadParent, At
<1>2. TypeOK
  BY DEF DiscussionInv
<1>3. c \in Requests /\ Exists(c) /\ ReadSound(c, comments[c]) /\ comments[c] \in Rows
  <2>1. /\ snap[r].id \in Requests /\ snap[r].row \in Rows
        /\ ReadSound(snap[r].id, snap[r].row)
    BY <1>1, SnapParts
  <2>2. Exists(snap[r].id) /\ comments[snap[r].id].parent_comment_id = c
    BY <2>1 DEF ReadSound
  <2>3. c \in Requests
    BY <1>1, <2>1, RowParts
  <2>4. Exists(c)
    BY <1>1, <2>1, <2>2 DEF DiscussionInv, StoreSound, RowSound
  <2> QED
    BY <1>2, <2>3, <2>4, TypeOKParts DEF DiscussionInv, StoreSound, Exists
<1>4. /\ pc' \in [Requests -> PCs] /\ parent' \in [Requests -> Rows \cup {NoComment}]
      /\ pc'[r] = "family" /\ parent'[r] = comments[c]
      /\ \A q \in Requests \ {r} : pc'[q] = pc[q] /\ parent'[q] = parent[q]
  BY <1>1, <1>2, <1>3, TypeOKParts DEF PCs, Running
<1>5. snap[r] # NoRead
  BY <1>1, <1>2, TypeOKParts
<1>6. TypeOK'
  BY <1>1, <1>2, <1>3, <1>4, <1>5 DEF TypeOK, Works, Exists
<1>7. SessionSound(r)'
  <2>1. (snap[r] # NoRead => ReadSound(snap[r].id, snap[r].row)) /\ WorkSound(work[r])
    BY DEF DiscussionInv, SessionSound
  <2>2. ReadSound(c, parent'[r])
    BY <1>3, <1>4
  <2> QED
    BY <1>1, <1>4, <2>1, <2>2, SameStore DEF SessionSound
<1> QED
  BY <1>1, <1>4, <1>6, <1>7, QuietMove

LEMMA ToggleStep ==
  ASSUME DiscussionInv, NEW r \in Requests, NEW user \in Users, NEW type \in ReactionTypes,
         Toggle(r, user, type)
  PROVE  DiscussionInv'
<1> DEFINE reaction == [id |-> r, comment |-> snap[r].id, author |-> user, type |-> type]
<1>1. pc[r] = "reacting"
  BY DEF Toggle
<1>2. reaction \in Reactions
  BY <1>1, SnapParts DEF Reactions
<1>3. Find(reaction) \in SUBSET Reactions
  BY TypeOKParts DEF Find, DiscussionInv
<1>4. PICK set \in {{}, {reaction}}, removed \in {{}, Find(reaction)} :
         Flushing(r, Work(NoComment, {}, set, removed, {reaction}))
  BY DEF Toggle
<1> DEFINE w == Work(NoComment, {}, set, removed, {reaction})
<1>5. w \in Works /\ w.created = NoComment /\ w.merged = {}
  <2>1. set \in SUBSET Reactions /\ removed \in SUBSET Reactions /\ {reaction} \in SUBSET Reactions
    BY <1>2, <1>3
  <2> HIDE DEF reaction
  <2> QED
    BY <2>1 DEF Work, Works
<1>6. WorkSound(w)
  BY <1>5 DEF WorkSound
<1> HIDE DEF w
<1> QED
  BY <1>1, <1>4, <1>5, <1>6, FlushingStep DEF w

-----------------------------------------------------------------------------
(* The commit.                                                             *)

\* What a commit makes of the comments: it adds the one the session brings, and of
\* the others touches neither author, type nor parent.
LEMMA CommitWrites ==
  ASSUME DiscussionInv, NEW r \in Requests, Commit(r)
  PROVE  /\ comments' \in [Requests -> Rows \cup {NoComment}]
         /\ ~Exists(r)
         /\ work[r].created # NoComment => comments'[r] = work[r].created
         /\ work[r].created = NoComment => ~Exists(r)'
         /\ \A c \in Requests \ {r} :
               /\ Exists(c)' <=> Exists(c)
               /\ Exists(c) =>
                     /\ comments'[c].parent_comment_id = comments[c].parent_comment_id
                     /\ comments'[c].author = comments[c].author
                     /\ comments'[c].type = comments[c].type
                     /\ \/ comments'[c].reply_count = comments[c].reply_count
                        \/ \E m \in work[r].merged :
                              m.id = c /\ comments'[c].reply_count = m.entity.reply_count
<1>1. /\ pc[r] = "merged" /\ comments' = [c \in Requests |-> Flushed(r, c)]
  BY DEF Commit
<1>2. TypeOK /\ work[r] \in Works /\ WorkSound(work[r])
  BY TypeOKParts DEF DiscussionInv, SessionSound
<1>3. ~Exists(r)
  BY <1>1 DEF DiscussionInv, StoreSound
<1>4. work[r].created \in Rows \cup {NoComment} /\ work[r].merged \in SUBSET Merges
  BY <1>2 DEF Works
<1>5. ASSUME NEW c \in Requests, \E m \in work[r].merged : m.id = c
      PROVE  \E m \in work[r].merged :
                /\ m.id = c /\ Exists(c) /\ m \in Merges
                /\ (c = r /\ work[r].created # NoComment) \/ comments'[c] = Updated(m, comments[c])
  <2>1. /\ (CHOOSE m \in work[r].merged : m.id = c) \in work[r].merged
        /\ (CHOOSE m \in work[r].merged : m.id = c).id = c
    BY <1>5
  <2> DEFINE m == CHOOSE m \in work[r].merged : m.id = c
  <2>2. m \in work[r].merged /\ m.id = c
    BY <2>1
  <2>3. (c = r /\ work[r].created # NoComment) \/ comments'[c] = Updated(m, comments[c])
    BY <1>1, <1>5 DEF Flushed
  <2> HIDE DEF m
  <2>4. Exists(c) /\ m \in Merges
    BY <1>2, <1>4, <2>2 DEF WorkSound, MergeSound
  <2> QED
    BY <2>2, <2>3, <2>4
<1>6. ASSUME NEW c \in Requests, Exists(c), NEW m \in Merges
      PROVE  LET row == Updated(m, comments[c])
             IN  /\ row \in Rows
                 /\ row.parent_comment_id = comments[c].parent_comment_id
                 /\ row.author = comments[c].author /\ row.type = comments[c].type
                 /\ row.reply_count \in {comments[c].reply_count, m.entity.reply_count}
  <2> DEFINE text == Written(m.entity.text, m.base.text, comments[c].text)
             count == Written(m.entity.reply_count, m.base.reply_count, comments[c].reply_count)
             deleted == Written(m.entity.deleted_at, m.base.deleted_at, comments[c].deleted_at)
             row == Row(comments[c].parent_comment_id, comments[c].author, comments[c].type,
                        text, count, deleted)
  <2>1. comments[c] \in Rows /\ m.entity \in Rows
    BY <1>2, <1>6, TypeOKParts DEF Exists, Merges
  <2>2. /\ text \in Requests /\ count \in Nat /\ deleted \in Requests \cup {None}
        /\ count \in {comments[c].reply_count, m.entity.reply_count}
    BY <2>1, RowParts DEF Written
  <2>3. /\ comments[c].parent_comment_id \in Requests \cup {None}
        /\ comments[c].author \in Users /\ comments[c].type \in CommentTypes
    BY <2>1, RowParts
  <2>4. Updated(m, comments[c]) = row
    BY DEF Updated
  <2> HIDE DEF text, count, deleted
  <2>5. row \in Rows
    BY <2>2, <2>3, RowTyped
  <2>6. /\ row.parent_comment_id = comments[c].parent_comment_id
        /\ row.author = comments[c].author /\ row.type = comments[c].type
        /\ row.reply_count = count
    BY RowFields
  <2> HIDE DEF row
  <2> QED
    BY <2>2, <2>4, <2>5, <2>6
<1>7. ASSUME NEW c \in Requests, ~ \E m \in work[r].merged : m.id = c
      PROVE  (c = r /\ work[r].created # NoComment) \/ comments'[c] = comments[c]
  BY <1>1, <1>7 DEF Flushed
<1>8. work[r].created # NoComment => comments'[r] = work[r].created
  BY <1>1 DEF Flushed
<1>9. work[r].created = NoComment => comments'[r] = comments[r]
  BY <1>3, <1>5, <1>7
<1>10. ASSUME NEW c \in Requests, c # r
       PROVE  /\ comments'[c] \in Rows \cup {NoComment}
              /\ Exists(c)' <=> Exists(c)
              /\ Exists(c) =>
                     /\ comments'[c].parent_comment_id = comments[c].parent_comment_id
                     /\ comments'[c].author = comments[c].author
                     /\ comments'[c].type = comments[c].type
                     /\ \/ comments'[c].reply_count = comments[c].reply_count
                        \/ \E m \in work[r].merged :
                              m.id = c /\ comments'[c].reply_count = m.entity.reply_count
  <2>1. CASE \E m \in work[r].merged : m.id = c
    <3>1. PICK m \in work[r].merged : /\ m.id = c /\ Exists(c) /\ m \in Merges
                                      /\ comments'[c] = Updated(m, comments[c])
      BY <1>5, <1>10, <2>1
    <3>2. /\ comments'[c] \in Rows
          /\ comments'[c].parent_comment_id = comments[c].parent_comment_id
          /\ comments'[c].author = comments[c].author
          /\ comments'[c].type = comments[c].type
          /\ comments'[c].reply_count \in {comments[c].reply_count, m.entity.reply_count}
      BY <1>6, <3>1
    <3> QED
      BY <3>1, <3>2, RowParts DEF Exists
  <2>2. CASE ~ \E m \in work[r].merged : m.id = c
    BY <1>2, <1>7, <1>10, <2>2, TypeOKParts DEF Exists
  <2> QED
    BY <2>1, <2>2
<1>11. comments'[r] \in Rows \cup {NoComment}
  BY <1>2, <1>4, <1>8, <1>9, TypeOKParts
<1>12. comments' \in [Requests -> Rows \cup {NoComment}]
  BY <1>1, <1>10, <1>11
<1> QED
  BY <1>3, <1>8, <1>9, <1>10, <1>12 DEF Exists

\* The replies after a commit: those before, and the one the session brings.
LEMMA CommitReplies ==
  ASSUME DiscussionInv, NEW r \in Requests, Commit(r), NEW c
  PROVE  Cardinality(Replies(c)') = Cardinality(Replies(c)) + (IF Brings(work[r], c) THEN 1 ELSE 0)
<1>1. r \notin Replies(c)
  BY CommitWrites DEF Replies
<1>2. Replies(c)' = IF Brings(work[r], c) THEN Replies(c) \cup {r} ELSE Replies(c)
  <2>1. \A x \in Requests \ {r} : x \in Replies(c)' <=> x \in Replies(c)
    BY CommitWrites DEF Replies
  <2>2. r \in Replies(c)' <=> Brings(work[r], c)
    <3>1. CASE work[r].created = NoComment
      BY <3>1, CommitWrites DEF Replies, Brings
    <3>2. CASE work[r].created # NoComment
      BY <3>2, CommitWrites DEF Replies, Brings, Exists
    <3> QED
      BY <3>1, <3>2
  <2>3. Replies(c) \subseteq Requests /\ Replies(c)' \subseteq Requests
    BY DEF Replies
  <2> QED
    BY <1>1, <2>1, <2>2, <2>3
<1>3. IsFiniteSet(Replies(c)) /\ Cardinality(Replies(c)) \in Nat
  BY RepliesFinite
<1>4. Cardinality(Replies(c) \cup {r}) = Cardinality(Replies(c)) + 1
  BY <1>1, <1>3, FS_AddElement
<1> QED
  BY <1>2, <1>3, <1>4

LEMMA CommitStep ==
  ASSUME DiscussionInv, NEW r \in Requests, Commit(r)
  PROVE  DiscussionInv'
<1>1. /\ pc[r] = "merged" /\ pc' = [pc EXCEPT ![r] = "done"]
      /\ sawOpen' = [sawOpen EXCEPT ![r] = FALSE]
      /\ snap' = [snap EXCEPT ![r] = NoRead] /\ parent' = [parent EXCEPT ![r] = NoComment]
      /\ work' = [work EXCEPT ![r] = NoWork]
      /\ reactions' = (reactions \ work[r].removed) \cup work[r].set
      /\ toggled' = toggled \cup work[r].asked
      /\ UNCHANGED <<commentable, overlapped>>
  BY DEF Commit, At, Close
<1>2. TypeOK /\ work[r] \in Works /\ WorkSound(work[r])
  BY TypeOKParts DEF DiscussionInv, SessionSound
<1>3. /\ pc' \in [Requests -> PCs] /\ sawOpen' \in [Requests -> BOOLEAN]
      /\ snap' \in [Requests -> [id : Requests, row : Rows] \cup {NoRead}]
      /\ parent' \in [Requests -> Rows \cup {NoComment}]
      /\ work' \in [Requests -> Works]
      /\ reactions' \in SUBSET Reactions /\ toggled' \in SUBSET Reactions
  BY <1>1, <1>2, TypeOKParts, NoWorkSound DEF PCs, Works
<1>4. /\ pc'[r] = "done" /\ snap'[r] = NoRead /\ work'[r] = NoWork
      /\ \A q \in Requests \ {r} : /\ pc'[q] = pc[q] /\ snap'[q] = snap[q]
                                   /\ parent'[q] = parent[q] /\ work'[q] = work[q]
  BY <1>1, <1>2, TypeOKParts
<1>5. comments' \in [Requests -> Rows \cup {NoComment}]
  BY CommitWrites
<1>6. TypeOK'
  BY <1>1, <1>2, <1>3, <1>4, <1>5 DEF TypeOK, Works
<1>7. \A c \in Requests : Exists(c) =>
          Exists(c)' /\ comments'[c].parent_comment_id = comments[c].parent_comment_id
  BY CommitWrites
<1>8. \A c : /\ Cardinality(Replies(c)) \in Nat /\ Cardinality(Replies(c)') \in Nat
             /\ Cardinality(Replies(c)) <= Cardinality(Replies(c)')
             /\ Cardinality(Replies(c)) + (IF Brings(work[r], c) THEN 1 ELSE 0)
                   <= Cardinality(Replies(c)')
  BY CommitReplies, RepliesFinite
<1>9. \A row \in Rows : RowSound(row) => RowSound(row)'
  BY <1>7, RowParts DEF RowSound
<1>10. \A c \in Requests, row \in Rows : ReadSound(c, row) => ReadSound(c, row)'
  BY <1>7, <1>8, RowParts DEF ReadSound
<1>11. ASSUME NEW w \in Works, WorkSound(w) PROVE WorkSound(w)'
  <2>1. w.created \in Rows \cup {NoComment} /\ w.merged \in SUBSET Merges
    BY DEF Works
  <2>2. w.created # NoComment => RowSound(w.created)' /\ w.created.reply_count = 0
    BY <1>9, <1>11, <2>1 DEF WorkSound
  <2>3. ASSUME NEW m \in w.merged PROVE MergeSound(w, m)'
    <3>1. MergeSound(w, m) /\ m.id \in Requests /\ m.entity.reply_count \in Nat
      BY <1>11, <2>1, RowParts DEF WorkSound, Merges
    <3> QED
      BY <1>7, <1>8, <3>1 DEF MergeSound, Brings
  <2> QED
    BY <2>2, <2>3 DEF WorkSound
<1>12. ASSUME NEW q \in Requests PROVE SessionSound(q)'
  <2>1. CASE q = r
    <3>1. WorkSound(NoWork)'
      BY <1>11, NoWorkSound
    <3> QED
      BY <1>4, <2>1, <3>1 DEF SessionSound
  <2>2. CASE q # r
    <3>1. SessionSound(q) /\ work[q] \in Works
      BY <1>2, TypeOKParts DEF DiscussionInv
    <3>2. WorkSound(work[q])'
      BY <1>4, <1>11, <2>2, <3>1 DEF SessionSound
    <3>3. (snap[q] # NoRead => ReadSound(snap[q].id, snap[q].row))'
      <4>1. snap[q] # NoRead => snap[q].id \in Requests /\ snap[q].row \in Rows
        BY <1>2, TypeOKParts
      <4>2. snap[q] # NoRead => ReadSound(snap[q].id, snap[q].row)
        BY <3>1 DEF SessionSound
      <4>3. snap'[q] = snap[q]
        BY <1>4, <2>2
      <4> QED
        BY <1>10, <4>1, <4>2, <4>3 DEF ReadSound
    <3>4. ASSUME pc'[q] = "family"
          PROVE  (/\ snap[q].row.parent_comment_id # None
                  /\ ReadSound(snap[q].row.parent_comment_id, parent[q]))'
      <4>1. pc[q] = "family" /\ snap'[q] = snap[q] /\ parent'[q] = parent[q]
        BY <1>4, <2>2, <3>4
      <4>2. /\ snap[q].row.parent_comment_id # None
            /\ ReadSound(snap[q].row.parent_comment_id, parent[q])
            /\ parent[q] \in Rows /\ snap[q].row \in Rows
        BY <1>2, <3>1, <4>1, SnapParts, TypeOKParts DEF SessionSound
      <4>3. snap[q].row.parent_comment_id \in Requests
        BY <4>2, RowParts
      <4> QED
        BY <1>10, <4>1, <4>2, <4>3 DEF ReadSound
    <3> QED
      BY <3>2, <3>3, <3>4 DEF SessionSound
  <2> QED
    BY <2>1, <2>2
<1>13. ASSUME NEW c \in Requests, Exists(c)'
       PROVE  (pc[c] = "done" /\ RowSound(comments[c]) /\ ReadSound(c, comments[c]))'
  <2>1. CASE c = r
    <3>0. PICK row : row = work[r].created
      OBVIOUS
    <3>1. row # NoComment /\ comments'[r] = row
      BY <1>13, <2>1, <3>0, CommitWrites
    <3>2. row \in Rows /\ RowSound(row) /\ row.reply_count = 0
      BY <1>2, <3>0, <3>1 DEF Works, WorkSound
    <3>3. RowSound(row)'
      BY <1>9, <3>2
    <3>4. RowSound(comments[c])'
      BY <2>1, <3>1, <3>3 DEF RowSound
    <3>5. ReadSound(c, comments[c])'
      BY <1>8, <1>13, <2>1, <3>1, <3>2 DEF ReadSound
    <3> QED
      BY <1>4, <2>1, <3>4, <3>5
  <2>2. CASE c # r
    <3>1. /\ Exists(c) /\ pc[c] = "done" /\ RowSound(comments[c]) /\ ReadSound(c, comments[c])
          /\ comments[c] \in Rows /\ comments'[c] \in Rows
      BY <1>2, <1>5, <1>13, <2>2, CommitWrites, TypeOKParts DEF DiscussionInv, StoreSound, Exists
    <3>2. /\ comments'[c].parent_comment_id = comments[c].parent_comment_id
          /\ comments'[c].author = comments[c].author
          /\ comments'[c].type = comments[c].type
      BY <2>2, <3>1, CommitWrites
    <3>3. RowSound(comments[c])'
      <4>1. comments[c].parent_comment_id \in Requests \cup {None}
        BY <3>1, RowParts
      <4> QED
        BY <1>7, <3>1, <3>2, <4>1 DEF RowSound
    <3>4. comments'[c].reply_count <= Cardinality(Replies(c)')
      <4>1. CASE comments'[c].reply_count = comments[c].reply_count
        BY <1>8, <3>1, <4>1, RowParts DEF ReadSound
      <4>2. CASE \E m \in work[r].merged :
                    m.id = c /\ comments'[c].reply_count = m.entity.reply_count
        <5>1. PICK m \in work[r].merged :
                  m.id = c /\ comments'[c].reply_count = m.entity.reply_count
          BY <4>2
        <5>2. MergeSound(work[r], m) /\ m.entity.reply_count \in Nat
          BY <1>2, <3>1, <5>1, RowParts DEF WorkSound
        <5> QED
          BY <1>8, <5>1, <5>2 DEF MergeSound
      <4> QED
        BY <2>2, <3>1, <4>1, <4>2, CommitWrites
    <3>5. ReadSound(c, comments[c])'
      BY <1>13, <3>4 DEF ReadSound
    <3> QED
      BY <1>4, <2>2, <3>1, <3>3, <3>5
  <2> QED
    BY <2>1, <2>2
<1> QED
  BY <1>6, <1>12, <1>13 DEF DiscussionInv, StoreSound

-----------------------------------------------------------------------------
LEMMA DiscussionStepInv == DiscussionInv /\ [Next]_vars => DiscussionInv'
<1> SUFFICES ASSUME DiscussionInv, [Next]_vars PROVE DiscussionInv'
  OBVIOUS
<1>1. CASE UNCHANGED vars
  <2>1. UNCHANGED comments /\ TypeOK'
    BY <1>1 DEF DiscussionInv, TypeOK, vars
  <2>2. ASSUME NEW q \in Requests PROVE SessionSound(q)'
    <3>1. SessionSound(q)
      BY DEF DiscussionInv
    <3> QED
      BY <1>1, <3>1, SameStore DEF SessionSound, vars
  <2>3. StoreSound'
    BY <1>1 DEF DiscussionInv, StoreSound, RowSound, ReadSound, Exists, Replies, vars
  <2> QED
    BY <2>1, <2>2, <2>3 DEF DiscussionInv
<1>2. CASE TicketMoves
  <2>1. /\ UNCHANGED <<comments, reactions, pc, sawOpen, snap, parent, work, toggled>>
        /\ commentable' \in BOOLEAN /\ overlapped' \in BOOLEAN
    BY <1>2 DEF TicketMoves, DiscussionInv, TypeOK
  <2>2. TypeOK'
    BY <2>1 DEF DiscussionInv, TypeOK
  <2>3. ASSUME NEW q \in Requests PROVE SessionSound(q)'
    <3>1. SessionSound(q)
      BY DEF DiscussionInv
    <3> QED
      BY <2>1, <3>1, SameStore DEF SessionSound
  <2>4. StoreSound'
    BY <2>1 DEF DiscussionInv, StoreSound, RowSound, ReadSound, Exists, Replies
  <2> QED
    BY <2>2, <2>3, <2>4 DEF DiscussionInv
<1>3. ASSUME NEW r \in Requests, NEW c \in Requests, ReadComment(r, c) PROVE DiscussionInv'
  BY <1>3, ReadingStep DEF ReadComment, DiscussionInv, TypeOK
<1>4. ASSUME NEW r \in Requests, NEW c \in Requests, ReadForReaction(r, c) PROVE DiscussionInv'
  <2>1. Exists(c)
    BY <1>4 DEF ReadForReaction, Live, Exists
  <2>2. overlapped' \in BOOLEAN
    BY <1>4 DEF ReadForReaction, Overlaps, DiscussionInv, TypeOK
  <2> QED
    BY <1>4, <2>1, <2>2, ReadingStep DEF ReadForReaction
<1>5. ASSUME NEW r \in Requests, Refuse(r) \/ Fail(r) PROVE DiscussionInv'
  <2>1. pc[r] # "done"
    BY <1>5 DEF Refuse, Fail, Running
  <2> QED
    BY <1>5, <2>1, ClosedStep DEF Refuse, Fail
<1> QED
  BY <1>1, <1>2, <1>3, <1>4, <1>5, ReadTicketStep, ReadParentStep, AddCommentStep, ReplyStep,
     EditStep, DeleteStep, DeleteReplyStep, ToggleStep, CommitStep
     DEF Next

LEMMA DiscussionInvariant == Spec => []DiscussionInv
BY DiscussionInitInv, DiscussionStepInv, PTL DEF Spec

-----------------------------------------------------------------------------
(* While no two requests overlap.                                          *)
(*                                                                         *)
(* A request that runs alone holds rows that are still what is stored, so   *)
(* what its flush will store is known before it commits: SerialInv says    *)
(* that this store is sound, and the commit has nothing left to prove.     *)

LiveIn(store, c) ==
    {x \in Requests : Live(store[x]) /\ store[x].parent_comment_id = c}

\* The counter of a comment of a store, and a store whose counters are all exact.
Right(store, c) == Live(store[c]) => store[c].reply_count = Cardinality(LiveIn(store, c))

NoneAnswersItself(store) ==
    \A c \in Requests : store[c] # NoComment => store[c].parent_comment_id # c

Exact(store) == NoneAnswersItself(store) /\ \A c \in Requests : Right(store, c)

KeepsDead(before, after) ==
    \A c \in Requests :
        before[c] # NoComment /\ ~Live(before[c]) => after[c] = before[c]

\* What a handler may make of the comments: every counter that was right still is.
Keeps(before, after) ==
    /\ NoneAnswersItself(after)
    /\ KeepsDead(before, after)
    /\ \A c \in Requests : Right(before, c) => Right(after, c)

Of(set, c, user, type) == {x \in set : x.comment = c /\ x.author = user /\ x.type = type}

\* Reactions there are after an odd number of toggles.
Alternating(present, asked) ==
    /\ IsFiniteSet(present) /\ IsFiniteSet(asked)
    /\ \A c \in Requests, user \in Users, type \in ReactionTypes :
          Cardinality(Of(present, c, user, type)) = Cardinality(Of(asked, c, user, type)) % 2

\* The comments after the flush of w, were it to happen now.
Landing(r, w) ==
    [c \in Requests |->
        IF c = r /\ w.created # NoComment THEN w.created
        ELSE IF \E m \in w.merged : m.id = c
             THEN Updated(CHOOSE m \in w.merged : m.id = c, comments[c])
             ELSE comments[c]]

LandsWell(r, w) ==
    /\ Exact(Landing(r, w)) /\ KeepsDead(comments, Landing(r, w))
    /\ Alternating((reactions \ w.removed) \cup w.set, toggled \cup w.asked)
    /\ \A x \in w.asked : x.id = r

\* What a request holds is what is stored.
Fresh(r) ==
    /\ pc[r] \in {"loaded", "family", "reacting"} => snap[r].row = comments[snap[r].id]
    /\ pc[r] = "family" => parent[r] = comments[snap[r].row.parent_comment_id]
    /\ pc[r] = "merged" => LandsWell(r, work[r])

Alone == \A q, r \in Requests : pc[q] \in Running /\ pc[r] \in Running => q = r

Settled ==
    /\ Exact(comments)
    /\ Alternating(reactions, toggled)
    /\ \A x \in toggled : pc[x.id] = "done"

SerialInv == ~overlapped => Alone /\ Settled /\ \A r \in Requests : Fresh(r)

Stores == [Requests -> Rows \cup {NoComment}]

LEMMA LiveInFinite ==
  ASSUME NEW s, NEW c
  PROVE  IsFiniteSet(LiveIn(s, c)) /\ Cardinality(LiveIn(s, c)) \in Nat
<1>1. LiveIn(s, c) \subseteq Requests
  BY DEF LiveIn
<1> QED
  BY <1>1, FS_Subset, FS_CardinalityType

\* A new comment, which nobody can have answered.
LEMMA NewCommentKeeps ==
  ASSUME NEW s \in Stores, NEW t \in Stores, NEW r \in Requests, NoneAnswersItself(s),
         s[r] = NoComment, t[r].parent_comment_id = None, t[r].reply_count = 0,
         \A x \in Requests : s[x] # NoComment => s[x].parent_comment_id # r,
         \A x \in Requests \ {r} : t[x] = s[x]
  PROVE  Keeps(s, t)
<1>1. ASSUME NEW c \in Requests PROVE LiveIn(t, c) = LiveIn(s, c)
  BY DEF LiveIn, Live
<1>2. LiveIn(t, r) = {}
  BY <1>1 DEF LiveIn, Live
<1>3. Cardinality(LiveIn(t, r)) = 0
  BY <1>2, FS_EmptySet
<1> QED
  BY <1>1, <1>3 DEF Keeps, NoneAnswersItself, Right, Live, KeepsDead

\* A reply, counted by the comment it answers.
LEMMA NewReplyKeeps ==
  ASSUME NEW s \in Stores, NEW t \in Stores, NEW r \in Requests, NEW c \in Requests, NoneAnswersItself(s),
         s[r] = NoComment, Live(s[c]),
         \A x \in Requests : s[x] # NoComment => s[x].parent_comment_id # r,
         Live(t[r]), t[r].parent_comment_id = c, t[r].reply_count = 0,
         Live(t[c]), t[c].parent_comment_id = s[c].parent_comment_id,
         t[c].reply_count = s[c].reply_count + 1,
         \A x \in Requests \ {r, c} : t[x] = s[x]
  PROVE  Keeps(s, t)
<1>0. r # c
  BY DEF Live
<1>1. ASSUME NEW d \in Requests, d # c PROVE LiveIn(t, d) = LiveIn(s, d)
  <2>1. \A x \in Requests : x \in LiveIn(t, d) <=> x \in LiveIn(s, d)
    BY <1>0, <1>1 DEF LiveIn, Live
  <2> QED
    BY <2>1 DEF LiveIn
<1>2. LiveIn(t, c) = LiveIn(s, c) \cup {r} /\ r \notin LiveIn(s, c)
  <2>1. \A x \in Requests : x \in LiveIn(t, c) <=> x \in LiveIn(s, c) \cup {r}
    BY <1>0 DEF LiveIn, Live
  <2> QED
    BY <2>1 DEF LiveIn, Live
<1>3. Cardinality(LiveIn(t, c)) = Cardinality(LiveIn(s, c)) + 1
  <2>1. PICK had : had = LiveIn(s, c)
    OBVIOUS
  <2>2. IsFiniteSet(had) /\ r \notin had /\ LiveIn(t, c) = had \cup {r}
    BY <1>2, <2>1, LiveInFinite
  <2>3. Cardinality(had \cup {r}) = Cardinality(had) + 1
    BY ONLY <2>2, FS_AddElement
  <2> QED
    BY <2>1, <2>2, <2>3
<1>4. LiveIn(t, r) = {}
  BY <1>0, <1>1 DEF LiveIn, Live
<1>5. Cardinality(LiveIn(t, r)) = 0
  BY <1>4, FS_EmptySet
<1>6. NoneAnswersItself(t)
  BY <1>0 DEF NoneAnswersItself, Live
<1>7. ASSUME NEW d \in Requests, Right(s, d) PROVE Right(t, d)
  <2>1. CASE d = r
    BY <1>5, <2>1 DEF Right
  <2>2. CASE d = c
    BY <1>3, <1>7, <2>2 DEF Right
  <2>3. CASE d \notin {r, c}
    BY <1>1, <1>7, <2>3 DEF Right
  <2> QED
    BY <2>1, <2>2, <2>3
<1>8. KeepsDead(s, t)
  BY DEF KeepsDead
<1> QED
  BY <1>6, <1>7, <1>8 DEF Keeps

\* A live comment of which only the text changes.
LEMMA EditKeeps ==
  ASSUME NEW s \in Stores, NEW t \in Stores, NEW c \in Requests, NoneAnswersItself(s),
         Live(s[c]), Live(t[c]), t[c].parent_comment_id = s[c].parent_comment_id,
         t[c].reply_count = s[c].reply_count,
         \A x \in Requests \ {c} : t[x] = s[x]
  PROVE  Keeps(s, t)
<1>1. ASSUME NEW d PROVE LiveIn(t, d) = LiveIn(s, d)
  <2>1. \A x \in Requests : x \in LiveIn(t, d) <=> x \in LiveIn(s, d)
    BY DEF LiveIn
  <2> QED
    BY <2>1 DEF LiveIn
<1>2. NoneAnswersItself(t)
  BY DEF NoneAnswersItself, Live
<1>3. ASSUME NEW d \in Requests, Right(s, d) PROVE Right(t, d)
  <2>1. CASE d = c
    BY <1>1, <1>3, <2>1 DEF Right
  <2>2. CASE d # c
    BY <1>1, <1>3, <2>2 DEF Right
  <2> QED
    BY <2>1, <2>2
<1> QED
  BY <1>2, <1>3 DEF Keeps, KeepsDead

\* A live root is deleted.
LEMMA DeletionKeeps ==
  ASSUME NEW s \in Stores, NEW t \in Stores, NEW c \in Requests, NoneAnswersItself(s),
         Live(s[c]), s[c].parent_comment_id = None,
         t[c].parent_comment_id = None, t[c].deleted_at # None,
         \A x \in Requests \ {c} : t[x] = s[x]
  PROVE  Keeps(s, t)
<1>1. ASSUME NEW d \in Requests PROVE LiveIn(t, d) = LiveIn(s, d)
  <2>1. \A x \in Requests : x \in LiveIn(t, d) <=> x \in LiveIn(s, d)
    BY DEF LiveIn
  <2> QED
    BY <2>1 DEF LiveIn
<1> QED
  BY <1>1 DEF Keeps, NoneAnswersItself, Right, Live, KeepsDead

\* A live reply c is deleted, and its parent p, if live, counts one less.
LEMMA ReplyDeletionKeeps ==
  ASSUME NEW s \in Stores, NEW t \in Stores, NEW c \in Requests, NEW p \in Requests, NoneAnswersItself(s),
         Live(s[c]), s[c].parent_comment_id = p, s[p] # NoComment,
         t[c].parent_comment_id = p, t[c].deleted_at # None,
         ~Live(s[p]) => t[p] = s[p],
         Live(s[p]) =>
             /\ Live(t[p]) /\ t[p].parent_comment_id = s[p].parent_comment_id
             /\ t[p].reply_count = Decremented(s[p].reply_count),
         \A x \in Requests \ {c, p} : t[x] = s[x]
  PROVE  Keeps(s, t)
<1>0. c # p
  BY DEF NoneAnswersItself, Live
<1>1. ASSUME NEW d \in Requests, d # p PROVE LiveIn(t, d) = LiveIn(s, d)
  <2>1. \A x \in Requests : x \in LiveIn(t, d) <=> x \in LiveIn(s, d)
    <3>1. p \in LiveIn(t, d) <=> p \in LiveIn(s, d)
      BY DEF LiveIn
    <3>2. c \notin LiveIn(t, d) /\ c \notin LiveIn(s, d)
      BY <1>1 DEF LiveIn
    <3> QED
      BY <3>1, <3>2 DEF LiveIn
  <2> QED
    BY <2>1 DEF LiveIn
<1>2. LiveIn(t, p) = LiveIn(s, p) \ {c} /\ c \in LiveIn(s, p)
  <2>1. \A x \in Requests \ {c} : x \in LiveIn(t, p) <=> x \in LiveIn(s, p)
    <3>1. p \in LiveIn(t, p) <=> p \in LiveIn(s, p)
      BY DEF LiveIn
    <3> QED
      BY <3>1 DEF LiveIn
  <2>2. c \notin LiveIn(t, p) /\ c \in LiveIn(s, p)
    BY DEF LiveIn, Live
  <2> QED
    BY <2>1, <2>2 DEF LiveIn
<1>3. Cardinality(LiveIn(t, p)) = Cardinality(LiveIn(s, p)) - 1
  <2>1. PICK had : had = LiveIn(s, p)
    OBVIOUS
  <2>2. IsFiniteSet(had) /\ c \in had /\ LiveIn(t, p) = had \ {c}
    BY <1>2, <2>1, LiveInFinite
  <2>3. Cardinality(had \ {c}) = Cardinality(had) - 1
    BY ONLY <2>2, FS_RemoveElement
  <2> QED
    BY <2>1, <2>2, <2>3
<1>4. ASSUME Right(s, p), Live(s[p]) PROVE t[p].reply_count = Cardinality(LiveIn(t, p))
  <2>1. s[p].reply_count = Cardinality(LiveIn(s, p))
    BY <1>4 DEF Right
  <2>2. /\ Cardinality(LiveIn(s, p)) \in Nat /\ Cardinality(LiveIn(t, p)) \in Nat
    BY LiveInFinite
  <2> QED
    BY <1>3, <1>4, <2>1, <2>2 DEF Decremented
<1>5. NoneAnswersItself(t)
  BY <1>0 DEF NoneAnswersItself, Live
<1>6. ASSUME NEW d \in Requests, Right(s, d) PROVE Right(t, d)
  <2>1. CASE d = c
    BY <2>1 DEF Right, Live
  <2>2. CASE d = p
    BY <1>4, <1>6, <2>2 DEF Right
  <2>3. CASE d \notin {c, p}
    BY <1>1, <1>6, <2>3 DEF Right
  <2> QED
    BY <2>1, <2>2, <2>3
<1>7. KeepsDead(s, t)
  BY DEF KeepsDead
<1> QED
  BY <1>5, <1>6, <1>7 DEF Keeps

-----------------------------------------------------------------------------
(* What the handlers are going to store.                                   *)

\* An entity merged over the row that is still stored overwrites what it can.
LEMMA UpdateOfCurrent ==
  ASSUME NEW m, NEW row, m.base = row
  PROVE  Updated(m, row) = Row(row.parent_comment_id, row.author, row.type,
                               m.entity.text, m.entity.reply_count, m.entity.deleted_at)
BY DEF Updated, Written

\* A row is what its fields are.
LEMMA RowOfParts ==
  ASSUME NEW row \in Rows
  PROVE  row = Row(row.parent_comment_id, row.author, row.type, row.text,
                   row.reply_count, row.deleted_at)
BY DEF Rows, Row

\* The flush stores what the comments become.
LEMMA LandingIsCommit ==
  ASSUME NEW r \in Requests, Commit(r)
  PROVE  comments' = Landing(r, work[r])
BY DEF Commit, Flushed, Landing

\* Nobody has answered a comment that is not there.
LEMMA NoAnswers ==
  ASSUME DiscussionInv, NEW r \in Requests, pc[r] # "done"
  PROVE  /\ comments \in Stores /\ comments[r] = NoComment
         /\ \A x \in Requests : comments[x] # NoComment => comments[x].parent_comment_id # r
<1>1. comments \in Stores
  BY TypeOKParts DEF DiscussionInv, Stores
<1>2. comments[r] = NoComment
  BY DEF DiscussionInv, StoreSound, Exists
<1>3. ASSUME NEW x \in Requests, comments[x] # NoComment
      PROVE  comments[x].parent_comment_id # r
  <2>1. r # None
    OBVIOUS
  <2> QED
    BY <1>2, <1>3, <2>1 DEF DiscussionInv, StoreSound, RowSound, Exists
<1> QED
  BY <1>1, <1>2, <1>3

\* What a request has read is what is stored.
Current(r) == snap[r] # NoRead /\ snap[r].row = comments[snap[r].id]

\* A session that stores no reaction and spoils no counter.
LandsRight(r, w) ==
    /\ Keeps(comments, Landing(r, w))
    /\ w.set = {} /\ w.removed = {} /\ w.asked = {}

\* It lands well when all counters are exact.
LEMMA CommentsLand ==
  ASSUME Settled, NEW r \in Requests, NEW w, LandsRight(r, w)
  PROVE  LandsWell(r, w)
<1>1. (reactions \ w.removed) \cup w.set = reactions /\ toggled \cup w.asked = toggled
  BY DEF LandsRight
<1> QED
  BY <1>1 DEF LandsWell, Settled, LandsRight, Keeps, Exact

\* One entity over the row still stored.
LEMMA OneMergeLands ==
  ASSUME DiscussionInv, NEW r \in Requests, NEW c \in Requests, Exists(c), NEW entity \in Rows,
         NEW w, w.created = NoComment,
         w.merged = {[id |-> c, base |-> comments[c], entity |-> entity]}
  PROVE  /\ Landing(r, w) \in Stores
         /\ Landing(r, w)[c] = Row(comments[c].parent_comment_id, comments[c].author,
                                   comments[c].type, entity.text, entity.reply_count,
                                   entity.deleted_at)
         /\ Landing(r, w)[c] \in Rows
         /\ \A x \in Requests \ {c} : Landing(r, w)[x] = comments[x]
<1> DEFINE m == [id |-> c, base |-> comments[c], entity |-> entity]
           row == Row(comments[c].parent_comment_id, comments[c].author,
                      comments[c].type, entity.text, entity.reply_count, entity.deleted_at)
<1>1. comments \in Stores /\ comments[c] \in Rows
  BY TypeOKParts DEF DiscussionInv, Stores, Exists
<1>2. row \in Rows
  <2>1. /\ comments[c].parent_comment_id \in Requests \cup {None}
        /\ comments[c].author \in Users /\ comments[c].type \in CommentTypes
    BY <1>1, RowParts
  <2>2. /\ entity.text \in Requests /\ entity.reply_count \in Nat
        /\ entity.deleted_at \in Requests \cup {None}
    BY RowParts
  <2> QED
    BY <2>1, <2>2, RowTyped
<1>3. m.id = c /\ m.base = comments[c] /\ m.entity = entity
  OBVIOUS
<1>4. Updated(m, comments[c]) = row
  BY <1>3, UpdateOfCurrent
<1> HIDE DEF m, row
<1>5. w.merged = {m}
  BY DEF m
<1>6. (CHOOSE n \in w.merged : n.id = c) = m
  BY <1>3, <1>5
<1>7. Landing(r, w)[c] = row
  BY <1>3, <1>4, <1>5, <1>6 DEF Landing
<1>8. \A x \in Requests \ {c} : Landing(r, w)[x] = comments[x]
  BY <1>3, <1>5 DEF Landing
<1>9. Landing(r, w) \in Stores
  <2>1. Landing(r, w) = [x \in Requests |-> Landing(r, w)[x]]
    BY DEF Landing
  <2>2. \A x \in Requests : Landing(r, w)[x] \in Rows \cup {NoComment}
    BY <1>1, <1>2, <1>7, <1>8 DEF Stores
  <2> QED
    BY <2>1, <2>2 DEF Stores
<1> QED
  BY <1>2, <1>7, <1>8, <1>9 DEF row

\* A new comment.
LEMMA AddCommentKeeps ==
  ASSUME DiscussionInv, NoneAnswersItself(comments), NEW r \in Requests, NEW user \in Users,
         NEW type \in CommentTypes, pc[r] # "done"
  PROVE  LandsRight(r, Created(Row(None, user, type, r, 0, None), {}))
<1> DEFINE row == Row(None, user, type, r, 0, None)
           w == Created(row, {})
           t == Landing(r, w)
<1>1. row \in Rows /\ row # NoComment /\ row.parent_comment_id = None /\ row.reply_count = 0
  BY RowTyped, RowFields
<1>2. /\ comments \in Stores /\ comments[r] = NoComment
      /\ \A x \in Requests : comments[x] # NoComment => comments[x].parent_comment_id # r
  BY NoAnswers
<1> HIDE DEF row
<1>3. /\ w.created = row /\ w.merged = {} /\ w.set = {} /\ w.removed = {} /\ w.asked = {}
  BY DEF Created, Work
<1> HIDE DEF w
<1>4. t[r] = row /\ \A x \in Requests \ {r} : t[x] = comments[x]
  BY <1>1, <1>3 DEF Landing
<1>5. t \in Stores
  <2>1. t = [x \in Requests |-> t[x]]
    BY DEF Landing
  <2> HIDE DEF t
  <2>2. \A x \in Requests : t[x] \in Rows \cup {NoComment}
    BY <1>1, <1>2, <1>4 DEF Stores
  <2> QED
    BY <2>1, <2>2 DEF Stores
<1>6. Keeps(comments, t)
  <2> HIDE DEF t
  <2> QED
    BY <1>1, <1>2, <1>4, <1>5, NewCommentKeeps
<1> QED
  BY <1>3, <1>6 DEF LandsRight, w, row

\* A reply, over the comment that is still as it was read.
LEMMA ReplyKeeps ==
  ASSUME DiscussionInv, NoneAnswersItself(comments), NEW r \in Requests, Current(r),
         NEW user \in Users, NEW type \in CommentTypes, pc[r] # "done", Live(snap[r].row),
         NEW base, base = comments[snap[r].id]
  PROVE  LET c == snap[r].id
             up == snap[r].row
         IN  LandsRight(r, Created(Row(c, user, type, r, 0, None),
                 {[id |-> c, base |-> base,
                   entity |-> Row(up.parent_comment_id, up.author, up.type, up.text,
                                  Incremented(up.reply_count), None)]}))
<1> DEFINE c == snap[r].id
           up == snap[r].row
           row == Row(c, user, type, r, 0, None)
           entity == Row(up.parent_comment_id, up.author, up.type, up.text,
                         Incremented(up.reply_count), None)
           m == [id |-> c, base |-> base, entity |-> entity]
           w == Created(row, {m})
           t == Landing(r, w)
<1>1. /\ c \in Requests /\ up \in Rows /\ Exists(c)
  BY ReadParts DEF ReadSound, Current
<1>2. up = comments[c] /\ base = comments[c]
  BY DEF Current
<1>3. /\ comments \in Stores /\ comments[r] = NoComment
      /\ \A x \in Requests : comments[x] # NoComment => comments[x].parent_comment_id # r
  BY NoAnswers
<1>4. /\ row \in Rows /\ row # NoComment /\ row.parent_comment_id = c
      /\ row.reply_count = 0 /\ row.deleted_at = None
  BY <1>1, RowTyped, RowFields
<1>5. /\ entity.text = up.text /\ entity.reply_count = up.reply_count + 1
      /\ entity.deleted_at = None /\ up.reply_count \in Nat
  BY <1>1, RowFields, RowParts DEF Incremented
<1>6. m.id = c /\ m.base = comments[c] /\ m.entity = entity
  BY <1>2
<1> HIDE DEF row, entity, m
<1>7. /\ w.created = row /\ w.merged = {m} /\ w.set = {} /\ w.removed = {} /\ w.asked = {}
  BY DEF Created, Work
<1> HIDE DEF w, c, up
<1> DEFINE new == Row(up.parent_comment_id, up.author, up.type, up.text, up.reply_count + 1, None)
<1>8. r # c
  BY <1>1, <1>3 DEF Exists
<1>9. Updated(m, comments[c]) = new
  BY <1>2, <1>5, <1>6, UpdateOfCurrent
<1>10. /\ new \in Rows /\ new # NoComment
       /\ new.parent_comment_id = up.parent_comment_id
       /\ new.reply_count = up.reply_count + 1 /\ new.deleted_at = None
  <2>1. /\ up.parent_comment_id \in Requests \cup {None} /\ up.author \in Users
        /\ up.type \in CommentTypes /\ up.text \in Requests /\ up.reply_count + 1 \in Nat
    BY <1>1, RowParts
  <2>2. new \in Rows
    BY <2>1, RowTyped
  <2> QED
    BY <2>2, RowFields
<1> HIDE DEF new
<1>11. (CHOOSE n \in w.merged : n.id = c) = m
  BY <1>6, <1>7
<1>12. /\ t[r] = row /\ t[c] = new /\ \A x \in Requests \ {r, c} : t[x] = comments[x]
  <2>1. t[r] = row
    BY <1>4, <1>7 DEF Landing
  <2>2. t[c] = new
    BY <1>1, <1>6, <1>7, <1>8, <1>9, <1>11 DEF Landing
  <2>3. \A x \in Requests \ {r, c} : t[x] = comments[x]
    BY <1>6, <1>7 DEF Landing
  <2> QED
    BY <2>1, <2>2, <2>3
<1>13. t \in Stores
  <2>1. t = [x \in Requests |-> t[x]]
    BY DEF Landing
  <2> HIDE DEF t
  <2>2. \A x \in Requests : t[x] \in Rows \cup {NoComment}
    BY <1>3, <1>4, <1>10, <1>12 DEF Stores
  <2> QED
    BY <2>1, <2>2 DEF Stores
<1>14. Keeps(comments, t)
  <2> HIDE DEF t
  <2>1. Live(comments[c]) /\ Live(t[c]) /\ Live(t[r])
    BY <1>2, <1>4, <1>10, <1>12 DEF Live, up
  <2>2. /\ t[r].parent_comment_id = c /\ t[r].reply_count = 0
        /\ t[c].parent_comment_id = comments[c].parent_comment_id
        /\ t[c].reply_count = comments[c].reply_count + 1
    BY <1>2, <1>4, <1>10, <1>12
  <2> QED
    BY <1>1, <1>3, <1>12, <1>13, <2>1, <2>2, NewReplyKeeps
<1> QED
  BY <1>7, <1>14 DEF LandsRight, w, row, entity, m, c, up

\* An edit.
LEMMA RewordingKeeps ==
  ASSUME DiscussionInv, NoneAnswersItself(comments), NEW r \in Requests, Current(r),
         pc[r] # "done", Live(snap[r].row), NEW base, base = comments[snap[r].id]
  PROVE  LET row == snap[r].row
         IN  LandsRight(r, Merged({[id |-> snap[r].id, base |-> base,
                 entity |-> Row(row.parent_comment_id, row.author, row.type, r,
                                row.reply_count, row.deleted_at)]}))
<1> DEFINE c == snap[r].id
           row == snap[r].row
           entity == Row(row.parent_comment_id, row.author, row.type, r,
                         row.reply_count, row.deleted_at)
           w == Merged({[id |-> c, base |-> base, entity |-> entity]})
           t == Landing(r, w)
<1>1. /\ c \in Requests /\ row \in Rows /\ Exists(c)
  BY ReadParts DEF ReadSound, Current
<1>2. row = comments[c] /\ base = comments[c] /\ comments \in Stores
  BY NoAnswers DEF Current
<1>3. /\ entity \in Rows /\ entity.reply_count = row.reply_count
      /\ entity.deleted_at = row.deleted_at
  <2>1. /\ row.parent_comment_id \in Requests \cup {None} /\ row.author \in Users
        /\ row.type \in CommentTypes /\ row.reply_count \in Nat
        /\ row.deleted_at \in Requests \cup {None}
    BY <1>1, RowParts
  <2>2. entity \in Rows
    BY <2>1, RowTyped
  <2> QED
    BY <2>2, RowFields
<1> HIDE DEF entity
<1>4. /\ w.created = NoComment /\ w.merged = {[id |-> c, base |-> comments[c], entity |-> entity]}
      /\ w.set = {} /\ w.removed = {} /\ w.asked = {}
  BY <1>2 DEF Merged, Work
<1> HIDE DEF w
<1>5. /\ t \in Stores /\ t[c] \in Rows
      /\ t[c] = Row(comments[c].parent_comment_id, comments[c].author,
                    comments[c].type, entity.text, entity.reply_count, entity.deleted_at)
      /\ \A x \in Requests \ {c} : t[x] = comments[x]
  BY <1>1, <1>3, <1>4, OneMergeLands
<1> HIDE DEF t
<1>6. /\ t[c].parent_comment_id = comments[c].parent_comment_id
      /\ t[c].reply_count = comments[c].reply_count /\ t[c].deleted_at = comments[c].deleted_at
      /\ t[c] # NoComment
  BY <1>2, <1>3, <1>5, RowFields
<1>7. Live(comments[c]) /\ Live(t[c])
  BY <1>2, <1>6 DEF Live
<1>8. Keeps(comments, t)
  BY <1>1, <1>2, <1>5, <1>6, <1>7, EditKeeps
<1> QED
  BY <1>4, <1>8 DEF LandsRight, t, w, entity

\* The deletion of a root.
LEMMA RootDeletionKeeps ==
  ASSUME DiscussionInv, NoneAnswersItself(comments), NEW r \in Requests, Current(r),
         pc[r] # "done", Live(snap[r].row), snap[r].row.parent_comment_id = None,
         NEW base, base = comments[snap[r].id]
  PROVE  LandsRight(r, Merged({Deletion(r, base)}))
<1> DEFINE c == snap[r].id
           row == snap[r].row
           entity == Deletion(r, base).entity
           w == Merged({Deletion(r, base)})
           t == Landing(r, w)
<1>1. /\ c \in Requests /\ row \in Rows /\ Exists(c)
  BY ReadParts DEF ReadSound, Current
<1>2. row = comments[c] /\ base = comments[c] /\ comments \in Stores
  BY NoAnswers DEF Current
<1>3. entity \in Rows /\ Deletion(r, base) = [id |-> c, base |-> base, entity |-> entity]
  BY DeletionParts DEF Current
<1>4. entity.deleted_at = r
  BY RowFields DEF Deletion
<1> HIDE DEF entity
<1>5. /\ w.created = NoComment /\ w.merged = {[id |-> c, base |-> comments[c], entity |-> entity]}
      /\ w.set = {} /\ w.removed = {} /\ w.asked = {}
  BY <1>2, <1>3 DEF Merged, Work
<1> HIDE DEF w
<1>6. /\ t \in Stores
      /\ t[c] = Row(comments[c].parent_comment_id, comments[c].author,
                    comments[c].type, entity.text, entity.reply_count, entity.deleted_at)
      /\ \A x \in Requests \ {c} : t[x] = comments[x]
  BY <1>1, <1>3, <1>5, OneMergeLands
<1> HIDE DEF t
<1>7. t[c].parent_comment_id = None /\ t[c].deleted_at # None
  <2>1. t[c].parent_comment_id = comments[c].parent_comment_id /\ t[c].deleted_at = r
    BY <1>4, <1>6, RowFields
  <2> QED
    BY <1>2, <2>1
<1>8. Keeps(comments, t)
  BY <1>1, <1>2, <1>6, <1>7, DeletionKeeps
<1> QED
  BY <1>5, <1>8 DEF LandsRight, t, w

\* The deletion of a reply, over a reply and a parent that are still as they were read.
LEMMA AnswerDeletionKeeps ==
  ASSUME DiscussionInv, NoneAnswersItself(comments), NEW r \in Requests, Current(r),
         pc[r] # "done", Live(snap[r].row),
         snap[r].row.parent_comment_id # None, parent[r] # NoComment,
         parent[r] = comments[snap[r].row.parent_comment_id],
         NEW base, base = comments[snap[r].id],
         NEW upBase, upBase = comments[snap[r].row.parent_comment_id]
  PROVE  LET up == parent[r]
             count == IF Live(up) THEN Decremented(up.reply_count) ELSE up.reply_count
         IN  LandsRight(r, Merged({Deletion(r, base),
                 [id |-> snap[r].row.parent_comment_id, base |-> upBase,
                  entity |-> Row(up.parent_comment_id, up.author, up.type, up.text,
                                 count, up.deleted_at)]}))
<1> DEFINE c == snap[r].id
           p == snap[r].row.parent_comment_id
           up == parent[r]
           count == IF Live(up) THEN Decremented(up.reply_count) ELSE up.reply_count
           entity == Row(up.parent_comment_id, up.author, up.type, up.text, count, up.deleted_at)
           mine == Deletion(r, base)
           its == [id |-> p, base |-> upBase, entity |-> entity]
           w == Merged({mine, its})
           t == Landing(r, w)
           gone == Row(comments[c].parent_comment_id, comments[c].author, comments[c].type,
                       mine.entity.text, mine.entity.reply_count, mine.entity.deleted_at)
           new == Row(up.parent_comment_id, up.author, up.type, up.text, count, up.deleted_at)
<1>1. /\ c \in Requests /\ snap[r].row \in Rows /\ Exists(c)
  BY ReadParts DEF ReadSound, Current
<1>2. snap[r].row = comments[c] /\ base = comments[c]
  BY DEF Current
<1>3. p \in Requests /\ up \in Rows /\ up # NoComment
  BY <1>1, RowParts, TypeOKParts DEF DiscussionInv
<1>4. up = comments[p] /\ upBase = comments[p]
  OBVIOUS
<1>5. comments \in Stores /\ comments[c] \in Rows
  BY <1>1, <1>2, NoAnswers
<1>6. p # c
  BY <1>1, <1>2 DEF NoneAnswersItself, Exists
<1>7. count \in Nat
  BY <1>3, RowParts DEF Decremented
<1>8. mine.id = c /\ mine.base = comments[c] /\ mine.entity \in Rows /\ mine.entity.deleted_at = r
  <2>1. mine.entity.deleted_at = r
    BY RowFields DEF Deletion
  <2>2. mine.id = c /\ mine.base = base
    BY DEF Deletion
  <2> QED
    BY <1>2, <2>1, <2>2, DeletionParts DEF Current
<1>9. /\ its.id = p /\ its.base = comments[p]
      /\ its.entity.text = up.text /\ its.entity.reply_count = count
      /\ its.entity.deleted_at = up.deleted_at
  <2>1. its.id = p /\ its.base = upBase /\ its.entity = entity
    OBVIOUS
  <2> HIDE DEF count, its
  <2>2. /\ entity.text = up.text /\ entity.reply_count = count
        /\ entity.deleted_at = up.deleted_at
    BY ONLY RowFields
  <2> HIDE DEF its, entity
  <2> QED
    BY <1>4, <2>1, <2>2
<1>10. Updated(mine, comments[c]) = gone
  BY <1>8, UpdateOfCurrent
<1> HIDE DEF mine, its, count
<1>11. Updated(its, comments[p]) = new
  BY <1>4, <1>9, UpdateOfCurrent
<1>12. /\ gone \in Rows /\ gone # NoComment
       /\ gone.parent_comment_id = p /\ gone.deleted_at # None
  <2>1. /\ comments[c].parent_comment_id = p
        /\ comments[c].author \in Users /\ comments[c].type \in CommentTypes
    BY <1>2, <1>5, RowParts
  <2>2. /\ mine.entity.text \in Requests /\ mine.entity.reply_count \in Nat
        /\ mine.entity.deleted_at = r
    BY <1>8, RowParts
  <2>3. gone \in Rows
    BY <1>3, <2>1, <2>2, RowTyped
  <2>4. gone.parent_comment_id = p /\ gone.deleted_at = r /\ gone # NoComment
    BY <2>1, <2>2, RowFields
  <2> QED
    BY <2>3, <2>4
<1>13. /\ new \in Rows /\ new # NoComment /\ new.parent_comment_id = up.parent_comment_id
       /\ new.reply_count = count /\ new.deleted_at = up.deleted_at
  <2>1. /\ up.parent_comment_id \in Requests \cup {None} /\ up.author \in Users
        /\ up.type \in CommentTypes /\ up.text \in Requests
        /\ up.deleted_at \in Requests \cup {None}
    BY <1>3, RowParts
  <2>2. new \in Rows
    BY <1>7, <2>1, RowTyped
  <2>3. /\ new # NoComment /\ new.parent_comment_id = up.parent_comment_id
        /\ new.reply_count = count /\ new.deleted_at = up.deleted_at
    BY ONLY RowFields
  <2> QED
    BY <2>2, <2>3
<1>14. ~Live(up) => new = up
  BY <1>3, RowOfParts DEF count
<1> HIDE DEF gone, new
<1>15. /\ w.created = NoComment /\ w.merged = {mine, its}
       /\ w.set = {} /\ w.removed = {} /\ w.asked = {}
  BY DEF Merged, Work
<1> HIDE DEF w, p, c
<1>16. (CHOOSE n \in w.merged : n.id = c) = mine /\ (CHOOSE n \in w.merged : n.id = p) = its
  BY <1>6, <1>8, <1>9, <1>15
<1>17. t[c] = gone
  BY <1>1, <1>8, <1>10, <1>15, <1>16 DEF Landing
<1>18. t[p] = new
  BY <1>3, <1>9, <1>11, <1>15, <1>16 DEF Landing
<1>19. \A x \in Requests \ {c, p} : t[x] = comments[x]
  BY <1>8, <1>9, <1>15 DEF Landing
<1>20. t \in Stores
  <2>1. t = [x \in Requests |-> t[x]]
    BY DEF Landing
  <2> HIDE DEF t
  <2>2. \A x \in Requests : t[x] \in Rows \cup {NoComment}
    BY <1>5, <1>12, <1>13, <1>17, <1>18, <1>19 DEF Stores
  <2> QED
    BY <2>1, <2>2 DEF Stores
<1> HIDE DEF t
<1>21. Live(comments[c]) /\ comments[c].parent_comment_id = p /\ comments[p] # NoComment
  BY <1>2, <1>3, <1>4 DEF p
<1>22. ~Live(comments[p]) => t[p] = comments[p]
  BY <1>4, <1>14, <1>18
<1>23. Live(comments[p]) =>
          /\ Live(t[p]) /\ t[p].parent_comment_id = comments[p].parent_comment_id
          /\ t[p].reply_count = Decremented(comments[p].reply_count)
  BY <1>4, <1>13, <1>18 DEF Live, count
<1>24. t[c].parent_comment_id = p /\ t[c].deleted_at # None
  BY <1>12, <1>17
<1>25. Keeps(comments, t)
  BY <1>1, <1>3, <1>5, <1>19, <1>20, <1>21, <1>22, <1>23, <1>24, ReplyDeletionKeeps
<1> QED
  BY <1>15, <1>25 DEF LandsRight, t, w, mine, its, p, c, count

-----------------------------------------------------------------------------
(* A lone request reads and merges what is stored.                         *)

LEMMA AddCommentLands ==
  ASSUME DiscussionInv, Settled, NEW r \in Requests, NEW user \in Users,
         NEW type \in CommentTypes, pc[r] = "opened"
  PROVE  LandsWell(r, Created(Row(None, user, type, r, 0, None), {}))
<1>1. NoneAnswersItself(comments) /\ pc[r] # "done"
  BY DEF Settled, Exact
<1> QED
  BY <1>1, AddCommentKeeps, CommentsLand

LEMMA ReplyLands ==
  ASSUME DiscussionInv, Settled, NEW r \in Requests, Fresh(r), NEW user \in Users,
         NEW type \in CommentTypes, pc[r] = "loaded", Live(snap[r].row),
         NEW base \in Bases(snap[r].id, snap[r].row)
  PROVE  LET c == snap[r].id
             up == snap[r].row
         IN  LandsWell(r, Created(Row(c, user, type, r, 0, None),
                 {[id |-> c, base |-> base,
                   entity |-> Row(up.parent_comment_id, up.author, up.type, up.text,
                                  Incremented(up.reply_count), None)]}))
<1>1. NoneAnswersItself(comments) /\ pc[r] # "done" /\ Current(r)
  BY SnapParts DEF Settled, Exact, Fresh, Current
<1>2. base = comments[snap[r].id]
  BY <1>1 DEF Current, Bases
<1> QED
  BY <1>1, <1>2, ReplyKeeps, CommentsLand

LEMMA EditLands ==
  ASSUME DiscussionInv, Settled, NEW r \in Requests, Fresh(r), pc[r] = "loaded",
         Live(snap[r].row), NEW base \in Bases(snap[r].id, snap[r].row)
  PROVE  LET row == snap[r].row
         IN  LandsWell(r, Merged({[id |-> snap[r].id, base |-> base,
                 entity |-> Row(row.parent_comment_id, row.author, row.type, r,
                                row.reply_count, row.deleted_at)]}))
<1>1. NoneAnswersItself(comments) /\ pc[r] # "done" /\ Current(r)
  BY SnapParts DEF Settled, Exact, Fresh, Current
<1>2. base = comments[snap[r].id]
  BY <1>1 DEF Current, Bases
<1> QED
  BY <1>1, <1>2, RewordingKeeps, CommentsLand

LEMMA DeletionLands ==
  ASSUME DiscussionInv, Settled, NEW r \in Requests, Fresh(r), pc[r] = "loaded",
         Live(snap[r].row), snap[r].row.parent_comment_id = None,
         NEW base \in Bases(snap[r].id, snap[r].row)
  PROVE  LandsWell(r, Merged({Deletion(r, base)}))
<1>1. NoneAnswersItself(comments) /\ pc[r] # "done" /\ Current(r)
  BY SnapParts DEF Settled, Exact, Fresh, Current
<1>2. base = comments[snap[r].id]
  BY <1>1 DEF Current, Bases
<1> QED
  BY <1>1, <1>2, RootDeletionKeeps, CommentsLand

LEMMA ReplyDeletionLands ==
  ASSUME DiscussionInv, Settled, NEW r \in Requests, Fresh(r), pc[r] = "family",
         Live(snap[r].row),
         NEW base \in Bases(snap[r].id, snap[r].row),
         NEW upBase \in Bases(snap[r].row.parent_comment_id, parent[r])
  PROVE  LET up == parent[r]
             count == IF Live(up) THEN Decremented(up.reply_count) ELSE up.reply_count
         IN  LandsWell(r, Merged({Deletion(r, base),
                 [id |-> snap[r].row.parent_comment_id, base |-> upBase,
                  entity |-> Row(up.parent_comment_id, up.author, up.type, up.text,
                                 count, up.deleted_at)]}))
<1>1. NoneAnswersItself(comments) /\ pc[r] # "done" /\ Current(r)
  BY SnapParts DEF Settled, Exact, Fresh, Current
<1>2. /\ snap[r].row.parent_comment_id # None /\ parent[r] # NoComment
      /\ parent[r] = comments[snap[r].row.parent_comment_id]
  BY TypeOKParts DEF DiscussionInv, SessionSound, Fresh
<1>3. base = comments[snap[r].id] /\ upBase = comments[snap[r].row.parent_comment_id]
  BY <1>1, <1>2 DEF Current, Bases
<1> QED
  BY <1>1, <1>2, <1>3, AnswerDeletionKeeps, CommentsLand

\* One more toggle of a reaction: set if it was not there, removed if it was.
LEMMA ToggleAlternates ==
  ASSUME NEW present, NEW asked, Alternating(present, asked),
         NEW x \in Reactions, x \notin asked,
         NEW after,
         LET found == {y \in present : SameReaction(y, x)}
         IN  \/ found = {} /\ after = present \cup {x}
             \/ found # {} /\ after = present \ found
  PROVE  Alternating(after, asked \cup {x})
<1> DEFINE found == {y \in present : SameReaction(y, x)}
<1>1. IsFiniteSet(asked \cup {x}) /\ IsFiniteSet(after)
  <2>1. CASE after = present \cup {x}
    BY <2>1, FS_AddElement DEF Alternating
  <2>2. CASE after = present \ found
    <3>1. after \subseteq present
      BY <2>2
    <3> QED
      BY <3>1, FS_Subset, FS_AddElement DEF Alternating
  <2> QED
    BY <2>1, <2>2
<1>2. ASSUME NEW c \in Requests, NEW user \in Users, NEW type \in ReactionTypes
      PROVE  Cardinality(Of(after, c, user, type))
                = Cardinality(Of(asked \cup {x}, c, user, type)) % 2
  <2> DEFINE S == Of(present, c, user, type)
             T == Of(asked, c, user, type)
  <2>1. Cardinality(S) = Cardinality(T) % 2
    BY DEF Alternating
  <2>2. IsFiniteSet(T) /\ Cardinality(T) \in Nat
    <3>1. T \subseteq asked
      BY DEF Of
    <3> QED
      BY <3>1, FS_Subset, FS_CardinalityType DEF Alternating
  <2>3. CASE x.comment = c /\ x.author = user /\ x.type = type
    <3>1. Of(asked \cup {x}, c, user, type) = T \cup {x} /\ x \notin T
      BY <2>3 DEF Of
    <3>2. Cardinality(Of(asked \cup {x}, c, user, type)) = Cardinality(T) + 1
      <4> HIDE DEF T
      <4> QED
        BY <2>2, <3>1, FS_AddElement
    <3>3. found = S
      BY <2>3 DEF SameReaction, Of
    <3>4. CASE found = {} /\ after = present \cup {x}
      <4>1. Of(after, c, user, type) = {x}
        BY <2>3, <3>3, <3>4 DEF Of
      <4>2. Cardinality({x}) = 1 /\ Cardinality(S) = 0
        BY <3>3, <3>4, FS_Singleton, FS_EmptySet
      <4> HIDE DEF S, T
      <4>3. Cardinality(T) % 2 = 0
        BY <2>1, <4>2
      <4>4. (Cardinality(T) + 1) % 2 = 1
        BY <2>2, <4>3
      <4> QED
        BY <3>2, <4>1, <4>2, <4>4
    <3>5. CASE found # {} /\ after = present \ found
      <4>1. Of(after, c, user, type) = {}
        BY <2>3, <3>5 DEF Of, SameReaction
      <4>2. Cardinality(T) % 2 \in {0, 1}
        <5> HIDE DEF T
        <5> QED
          BY <2>2
      <4>3. Cardinality(S) # 0
        <5>1. Cardinality(S) = 0 => S = {}
          <6>1. S \subseteq present
            BY DEF Of
          <6> QED
            BY <6>1, FS_Subset, FS_EmptySet DEF Alternating
        <5> QED
          BY <3>3, <3>5, <5>1
      <4> HIDE DEF S, T
      <4>4. (Cardinality(T) + 1) % 2 = 0
        BY <2>1, <2>2, <4>2, <4>3
      <4> QED
        BY <3>2, <4>1, <4>4, FS_EmptySet
    <3> QED
      BY <3>4, <3>5
  <2>4. CASE ~(x.comment = c /\ x.author = user /\ x.type = type)
    <3>1. Of(asked \cup {x}, c, user, type) = T
      BY <2>4 DEF Of
    <3>2. Of(after, c, user, type) = S
      BY <2>4 DEF Of, SameReaction
    <3> QED
      BY <2>1, <3>1, <3>2
  <2> QED
    BY <2>3, <2>4
<1> QED
  BY <1>1, <1>2 DEF Alternating

LEMMA ToggleLands ==
  ASSUME DiscussionInv, Settled, NEW r \in Requests, pc[r] = "reacting",
         NEW x \in Reactions, x.id = r, NEW set, NEW removed,
         \/ Find(x) = {} /\ set = {x} /\ removed = {}
         \/ Find(x) # {} /\ set = {} /\ removed = Find(x)
  PROVE  LandsWell(r, Work(NoComment, {}, set, removed, {x}))
<1> DEFINE w == Work(NoComment, {}, set, removed, {x})
           after == (reactions \ removed) \cup set
<1>1. /\ w.created = NoComment /\ w.merged = {}
      /\ w.set = set /\ w.removed = removed /\ w.asked = {x}
  BY DEF Work
<1> HIDE DEF w
<1>2. Landing(r, w) = comments
  <2>1. comments = [c \in Requests |-> comments[c]]
    BY NoAnswers DEF Stores
  <2> QED
    BY <1>1, <2>1 DEF Landing
<1>3. x \notin toggled
  BY DEF Settled
<1>4. Alternating(after, toggled \cup {x})
  <2> DEFINE found == {y \in reactions : SameReaction(y, x)}
  <2>1. found = Find(x)
    BY DEF Find
  <2>2. \/ found = {} /\ after = reactions \cup {x}
        \/ found # {} /\ after = reactions \ found
    BY <2>1
  <2> HIDE DEF after
  <2> QED
    BY <1>3, <2>2, ToggleAlternates DEF Settled
<1> QED
  BY <1>1, <1>2, <1>4 DEF LandsWell, KeepsDead, Settled, w

-----------------------------------------------------------------------------
(* The steps of a request that runs alone.                                 *)

\* The request that moves is the only one.
LEMMA MovesAlone ==
  ASSUME TypeOK, NEW r \in Requests, \A q \in Requests \ {r} : pc[q] \notin Running,
         NEW label, pc' = [pc EXCEPT ![r] = label], Settled', Fresh(r)'
  PROVE  SerialInv'
<1>1. \A q \in Requests \ {r} : pc'[q] \notin Running
  BY DEF TypeOK
<1>2. Alone'
  BY <1>1 DEF Alone
<1>3. \A q \in Requests \ {r} : Fresh(q)'
  BY <1>1 DEF Fresh, Running
<1> QED
  BY <1>2, <1>3 DEF SerialInv

\* What is stored stays sound while no request ends.
LEMMA StaysSettled ==
  ASSUME TypeOK, Settled, NEW r \in Requests, pc[r] # "done",
         NEW label, pc' = [pc EXCEPT ![r] = label], UNCHANGED <<comments, reactions, toggled>>
  PROVE  Settled'
<1>1. UNCHANGED comments /\ UNCHANGED reactions /\ UNCHANGED toggled
  OBVIOUS
<1>2. \A x \in toggled : x.id \in Requests
  BY DEF TypeOK, Reactions
<1>3. \A x \in toggled : pc'[x.id] = "done"
  BY <1>2 DEF TypeOK, Settled
<1> QED
  BY <1>1, <1>3 DEF Settled

\* Whoever runs is alone.
LEMMA OthersRest ==
  ASSUME SerialInv, ~overlapped, NEW r \in Requests, pc[r] \in Running
  PROVE  /\ \A q \in Requests \ {r} : pc[q] \notin Running
         /\ Settled /\ Fresh(r)
BY DEF SerialInv, Alone

\* A handler that lands well, whatever it is.
LEMMA HandlerAlone ==
  ASSUME DiscussionInv, SerialInv, ~overlapped, NEW r \in Requests, pc[r] \in Running,
         NEW w, Flushing(r, w), LandsWell(r, w)
  PROVE  SerialInv'
<1>1. /\ work' = [work EXCEPT ![r] = w] /\ pc' = [pc EXCEPT ![r] = "merged"]
      /\ UNCHANGED comments /\ UNCHANGED reactions /\ UNCHANGED toggled
  BY DEF Flushing, At
<1>2. TypeOK /\ pc[r] # "done"
  BY DEF DiscussionInv, Running
<1>3. Settled'
  BY <1>1, <1>2, OthersRest, StaysSettled
<1>4. LandsWell(r, w)'
  BY <1>1 DEF LandsWell, Landing
<1>5. pc'[r] = "merged" /\ work'[r] = w
  BY <1>1, <1>2 DEF TypeOK
<1>6. Fresh(r)'
  BY <1>4, <1>5 DEF Fresh
<1> QED
  BY <1>1, <1>2, <1>3, <1>6, OthersRest, MovesAlone

\* The commit stores what was foreseen.
LEMMA CommitAlone ==
  ASSUME DiscussionInv, SerialInv, ~overlapped, NEW r \in Requests, Commit(r)
  PROVE  /\ SerialInv'
         /\ KeepsDead(comments, comments')
<1>1. /\ pc[r] = "merged" /\ pc' = [pc EXCEPT ![r] = "done"]
      /\ reactions' = (reactions \ work[r].removed) \cup work[r].set
      /\ toggled' = toggled \cup work[r].asked
  BY DEF Commit, At
<1>2. comments' = Landing(r, work[r])
  BY LandingIsCommit
<1>3. TypeOK /\ pc[r] \in Running
  BY <1>1 DEF DiscussionInv, Running
<1>4. Settled /\ LandsWell(r, work[r])
  BY <1>1, <1>3, OthersRest DEF Fresh
<1>5. \A x \in toggled' : pc'[x.id] = "done"
  <2>1. \A x \in toggled : x.id \in Requests /\ pc[x.id] = "done"
    BY <1>3, <1>4 DEF TypeOK, Reactions, Settled
  <2>2. \A x \in work[r].asked : x.id = r
    BY <1>4 DEF LandsWell
  <2> QED
    BY <1>1, <1>3, <2>1, <2>2 DEF TypeOK
<1>6. Settled'
  BY <1>1, <1>2, <1>4, <1>5 DEF Settled, LandsWell
<1>7. Fresh(r)'
  BY <1>1, <1>3 DEF Fresh, TypeOK
<1> QED
  BY <1>1, <1>2, <1>3, <1>4, <1>6, <1>7, OthersRest, MovesAlone DEF LandsWell

LEMMA SerialInitInv == Init => SerialInv
<1> SUFFICES ASSUME Init PROVE SerialInv
  OBVIOUS
<1>1. Alone /\ \A r \in Requests : Fresh(r)
  BY DEF Init, Alone, Fresh, Running
<1>2. Exact(comments)
  BY DEF Init, Exact, NoneAnswersItself, Right, Live
<1>3. Alternating({}, {})
  <2>1. \A c, user, type : Of({}, c, user, type) = {}
    BY DEF Of
  <2>2. Cardinality({}) = 0 /\ 0 % 2 = 0
    BY FS_EmptySet
  <2> QED
    BY <2>1, <2>2, FS_EmptySet DEF Alternating
<1> QED
  BY <1>1, <1>2, <1>3 DEF Init, SerialInv, Settled

LEMMA SerialStep == DiscussionInv /\ SerialInv /\ [Next]_vars => SerialInv'
<1> SUFFICES ASSUME DiscussionInv, SerialInv, [Next]_vars, ~overlapped' PROVE SerialInv'
  BY DEF SerialInv
<1>0. TypeOK
  BY DEF DiscussionInv
<1>1. CASE UNCHANGED vars
  <2>1. /\ UNCHANGED comments /\ UNCHANGED reactions /\ UNCHANGED toggled /\ UNCHANGED overlapped
        /\ UNCHANGED pc /\ UNCHANGED snap /\ UNCHANGED parent /\ UNCHANGED work
    BY <1>1 DEF vars
  <2>2. Alone /\ Settled /\ \A r \in Requests : Fresh(r)
    BY <2>1 DEF SerialInv
  <2>3. Alone' /\ Settled'
    BY <2>1, <2>2 DEF Alone, Settled
  <2>4. ASSUME NEW r \in Requests PROVE Fresh(r)'
    <3>1. Landing(r, work[r])' = Landing(r, work[r])
      BY <2>1 DEF Landing
    <3> QED
      BY <2>1, <2>2, <3>1 DEF Fresh, LandsWell
  <2> QED
    BY <2>3, <2>4 DEF SerialInv
<1>2. CASE TicketMoves
  <2>1. /\ ~overlapped /\ UNCHANGED comments /\ UNCHANGED reactions /\ UNCHANGED toggled
        /\ UNCHANGED pc /\ \A q \in Requests : pc[q] \notin Running
    BY <1>2 DEF TicketMoves
  <2>2. Alone' /\ Settled'
    BY <2>1 DEF SerialInv, Alone, Settled
  <2>3. \A r \in Requests : Fresh(r)'
    BY <2>1 DEF Fresh, Running
  <2> QED
    BY <2>2, <2>3 DEF SerialInv
<1>3. ASSUME NEW r \in Requests, ReadTicket(r) PROVE SerialInv'
  <2>1. /\ ~overlapped /\ pc[r] = "idle" /\ pc' = [pc EXCEPT ![r] = "opened"]
        /\ UNCHANGED <<comments, reactions, toggled>>
        /\ \A q \in Requests : pc[q] \notin Running
    BY <1>3 DEF ReadTicket, Overlaps, At
  <2>2. Settled'
    BY <1>0, <2>1, StaysSettled DEF SerialInv
  <2>3. Fresh(r)'
    BY <1>0, <2>1 DEF Fresh, TypeOK
  <2> QED
    BY <1>0, <2>1, <2>2, <2>3, MovesAlone
<1>4. ASSUME NEW r \in Requests, NEW c \in Requests, ReadForReaction(r, c) PROVE SerialInv'
  <2>1. /\ ~overlapped /\ pc[r] = "idle" /\ pc' = [pc EXCEPT ![r] = "reacting"]
        /\ UNCHANGED <<comments, reactions, toggled>>
        /\ snap' = [snap EXCEPT ![r] = [id |-> c, row |-> comments[c]]]
        /\ \A q \in Requests : pc[q] \notin Running
    BY <1>4 DEF ReadForReaction, Overlaps, At
  <2>2. Settled'
    BY <1>0, <2>1, StaysSettled DEF SerialInv
  <2>3. Fresh(r)'
    BY <1>0, <2>1 DEF Fresh, TypeOK
  <2> QED
    BY <1>0, <2>1, <2>2, <2>3, MovesAlone
<1>5. ASSUME NEW r \in Requests, NEW c \in Requests, ReadComment(r, c) PROVE SerialInv'
  <2>1. /\ ~overlapped /\ pc[r] = "opened" /\ pc' = [pc EXCEPT ![r] = "loaded"]
        /\ UNCHANGED <<comments, reactions, toggled>>
        /\ snap' = [snap EXCEPT ![r] = [id |-> c, row |-> comments[c]]]
    BY <1>5 DEF ReadComment, At
  <2>2. Settled /\ \A q \in Requests \ {r} : pc[q] \notin Running
    BY <2>1, OthersRest DEF Running
  <2>3. Settled'
    BY <1>0, <2>1, <2>2, StaysSettled
  <2>4. Fresh(r)'
    BY <1>0, <2>1 DEF Fresh, TypeOK
  <2> QED
    BY <1>0, <2>1, <2>2, <2>3, <2>4, MovesAlone
<1>6. ASSUME NEW r \in Requests, ReadParent(r) PROVE SerialInv'
  <2>1. /\ ~overlapped /\ pc[r] = "loaded" /\ pc' = [pc EXCEPT ![r] = "family"]
        /\ UNCHANGED <<comments, reactions, toggled>> /\ UNCHANGED snap
        /\ parent' = [parent EXCEPT ![r] = comments[snap[r].row.parent_comment_id]]
    BY <1>6 DEF ReadParent, At
  <2>2. Settled /\ Fresh(r) /\ \A q \in Requests \ {r} : pc[q] \notin Running
    BY <2>1, OthersRest DEF Running
  <2>3. Settled'
    BY <1>0, <2>1, <2>2, StaysSettled
  <2>4. Fresh(r)'
    BY <1>0, <2>1, <2>2 DEF Fresh, TypeOK
  <2> QED
    BY <1>0, <2>1, <2>2, <2>3, <2>4, MovesAlone
<1>7. ASSUME NEW r \in Requests, NEW user \in Users, NEW type \in CommentTypes,
             AddComment(r, user, type)
      PROVE  SerialInv'
  <2>1. /\ pc[r] = "opened" /\ pc[r] \in Running /\ ~overlapped
        /\ Flushing(r, Created(Row(None, user, type, r, 0, None), {}))
    BY <1>7 DEF AddComment, Flushing, Running
  <2>2. LandsWell(r, Created(Row(None, user, type, r, 0, None), {}))
    BY <2>1, OthersRest, AddCommentLands
  <2> QED
    BY <2>1, <2>2, HandlerAlone
<1>8. ASSUME NEW r \in Requests, NEW user \in Users, NEW type \in CommentTypes,
             Reply(r, user, type)
      PROVE  SerialInv'
  <2> DEFINE c == snap[r].id
             up == snap[r].row
             w(base) == Created(Row(c, user, type, r, 0, None),
                 {[id |-> c, base |-> base,
                   entity |-> Row(up.parent_comment_id, up.author, up.type, up.text,
                                  Incremented(up.reply_count), None)]})
  <2>1. PICK base \in Bases(c, up) : Flushing(r, w(base))
    BY <1>8 DEF Reply
  <2>2. /\ pc[r] = "loaded" /\ Live(snap[r].row)
    BY <1>8 DEF Reply
  <2>3. ~overlapped
    BY <2>1 DEF Flushing
  <2>4. pc[r] \in Running
    BY <2>2 DEF Running
  <2>5. LandsWell(r, w(base))
    BY <2>2, <2>3, <2>4, OthersRest, ReplyLands
  <2> HIDE DEF w
  <2> QED
    BY <2>1, <2>3, <2>4, <2>5, HandlerAlone
<1>9. ASSUME NEW r \in Requests, NEW user \in Users, EditComment(r, user) PROVE SerialInv'
  <2> DEFINE row == snap[r].row
             w(base) == Merged({[id |-> snap[r].id, base |-> base,
                 entity |-> Row(row.parent_comment_id, row.author, row.type, r,
                                row.reply_count, row.deleted_at)]})
  <2>1. PICK base \in Bases(snap[r].id, snap[r].row) : Flushing(r, w(base))
    BY <1>9 DEF EditComment
  <2>2. /\ pc[r] = "loaded" /\ Live(snap[r].row)
    BY <1>9 DEF EditComment
  <2>3. ~overlapped
    BY <2>1 DEF Flushing
  <2>4. pc[r] \in Running
    BY <2>2 DEF Running
  <2>5. LandsWell(r, w(base))
    BY <2>2, <2>3, <2>4, OthersRest, EditLands
  <2> HIDE DEF w
  <2> QED
    BY <2>1, <2>3, <2>4, <2>5, HandlerAlone
<1>10. ASSUME NEW r \in Requests, NEW user \in Users, DeleteComment(r, user) PROVE SerialInv'
  <2>1. PICK base \in Bases(snap[r].id, snap[r].row) : Flushing(r, Merged({Deletion(r, base)}))
    BY <1>10 DEF DeleteComment
  <2>2. /\ pc[r] = "loaded" /\ Live(snap[r].row) /\ snap[r].row.parent_comment_id = None
    BY <1>10 DEF DeleteComment, MayDelete
  <2>3. ~overlapped
    BY <2>1 DEF Flushing
  <2>4. pc[r] \in Running
    BY <2>2 DEF Running
  <2>5. LandsWell(r, Merged({Deletion(r, base)}))
    BY <2>2, <2>3, <2>4, OthersRest, DeletionLands
  <2> QED
    BY <2>1, <2>3, <2>4, <2>5, HandlerAlone
<1>11. ASSUME NEW r \in Requests, NEW user \in Users, DeleteReply(r, user) PROVE SerialInv'
  <2> DEFINE c == snap[r].row.parent_comment_id
             up == parent[r]
             count == IF Live(up) THEN Decremented(up.reply_count) ELSE up.reply_count
             w(base, upBase) == Merged({Deletion(r, base),
                 [id |-> c, base |-> upBase,
                  entity |-> Row(up.parent_comment_id, up.author, up.type, up.text,
                                 count, up.deleted_at)]})
  <2>1. PICK base \in Bases(snap[r].id, snap[r].row), upBase \in Bases(c, up) :
           Flushing(r, w(base, upBase))
    BY <1>11 DEF DeleteReply
  <2>2. /\ pc[r] = "family" /\ Live(snap[r].row)
    BY <1>11 DEF DeleteReply, MayDelete
  <2>3. ~overlapped
    BY <2>1 DEF Flushing
  <2>4. pc[r] \in Running
    BY <2>2 DEF Running
  <2>5. LandsWell(r, w(base, upBase))
    BY <2>2, <2>3, <2>4, OthersRest, ReplyDeletionLands
  <2> HIDE DEF w
  <2> QED
    BY <2>1, <2>3, <2>4, <2>5, HandlerAlone
<1>12. ASSUME NEW r \in Requests, NEW user \in Users, NEW type \in ReactionTypes,
              Toggle(r, user, type)
       PROVE  SerialInv'
  <2> DEFINE x == [id |-> r, comment |-> snap[r].id, author |-> user, type |-> type]
  <2>1. pc[r] = "reacting" /\ pc[r] \in Running
    BY <1>12 DEF Toggle, Running
  <2>2. x \in Reactions /\ x.id = r
    BY <2>1, SnapParts DEF Reactions
  <2>3. \/ Find(x) = {} /\ Flushing(r, Work(NoComment, {}, {x}, {}, {x}))
        \/ Find(x) # {} /\ Flushing(r, Work(NoComment, {}, {}, Find(x), {x}))
    BY <1>12 DEF Toggle
  <2> HIDE DEF x
  <2>4. ~overlapped
    BY <2>3 DEF Flushing
  <2>5. Settled
    BY <2>1, <2>4, OthersRest
  <2>6. CASE Find(x) = {} /\ Flushing(r, Work(NoComment, {}, {x}, {}, {x}))
    <3>1. LandsWell(r, Work(NoComment, {}, {x}, {}, {x}))
      BY <2>1, <2>2, <2>5, <2>6, ToggleLands
    <3> QED
      BY <2>1, <2>4, <2>6, <3>1, HandlerAlone
  <2>7. CASE Find(x) # {} /\ Flushing(r, Work(NoComment, {}, {}, Find(x), {x}))
    <3>1. LandsWell(r, Work(NoComment, {}, {}, Find(x), {x}))
      BY <2>1, <2>2, <2>5, <2>7, ToggleLands
    <3> QED
      BY <2>1, <2>4, <2>7, <3>1, HandlerAlone
  <2> QED
    BY <2>3, <2>6, <2>7
<1>13. ASSUME NEW r \in Requests, Commit(r) PROVE SerialInv'
  <2>1. ~overlapped
    BY <1>13 DEF Commit
  <2> QED
    BY <1>13, <2>1, CommitAlone
<1>14. ASSUME NEW r \in Requests, Refuse(r) \/ Fail(r) PROVE SerialInv'
  <2>1. /\ ~overlapped /\ pc[r] \in Running /\ pc' = [pc EXCEPT ![r] = "failed"]
        /\ UNCHANGED <<comments, reactions, toggled>> /\ pc[r] # "done"
    BY <1>14 DEF Refuse, Fail, At, Running
  <2>2. Settled /\ \A q \in Requests \ {r} : pc[q] \notin Running
    BY <2>1, OthersRest
  <2>3. Settled'
    BY <1>0, <2>1, <2>2, StaysSettled
  <2>4. Fresh(r)'
    BY <1>0, <2>1 DEF Fresh, TypeOK
  <2> QED
    BY <1>0, <2>1, <2>2, <2>3, <2>4, MovesAlone
<1> QED
  BY <1>1, <1>2, <1>3, <1>4, <1>5, <1>6, <1>7, <1>8, <1>9, <1>10, <1>11, <1>12, <1>13, <1>14
     DEF Next

LEMMA SerialInvariant == Spec => [](DiscussionInv /\ SerialInv)
<1>1. Init => DiscussionInv /\ SerialInv
  BY DiscussionInitInv, SerialInitInv
<1>2. DiscussionInv /\ SerialInv /\ [Next]_vars => (DiscussionInv /\ SerialInv)'
  BY DiscussionStepInv, SerialStep
<1> QED
  BY <1>1, <1>2, PTL DEF Spec

-----------------------------------------------------------------------------
(* Requests that overlap.                                                  *)
(*                                                                         *)
(* What a session is going to flush was worked out from what it holds, and *)
(* it holds that until it ends.  When none of it has changed since, the    *)
(* flush lands as it would for a request that runs alone.                  *)

Counting(read, base) ==
    LET up == read.row
    IN  [id |-> read.id, base |-> base,
         entity |-> Row(up.parent_comment_id, up.author, up.type, up.text,
                        Incremented(up.reply_count), None)]

Answering(r, read, user, type, base) ==
    Created(Row(read.id, user, type, r, 0, None), {Counting(read, base)})

Reworded(r, read, base) ==
    LET row == read.row
    IN  [id |-> read.id, base |-> base,
         entity |-> Row(row.parent_comment_id, row.author, row.type, r,
                        row.reply_count, row.deleted_at)]

Rewording(r, read, base) == Merged({Reworded(r, read, base)})

\* Deletion, of what was read.
Erasure(r, read, base) ==
    LET row == read.row
    IN  [id |-> read.id, base |-> base,
         entity |-> Row(row.parent_comment_id, row.author, row.type, row.text,
                        row.reply_count, r)]

RootDeletion(r, read, base) == Merged({Erasure(r, read, base)})

Uncounting(read, up, upBase) ==
    LET count == IF Live(up) THEN Decremented(up.reply_count) ELSE up.reply_count
    IN  [id |-> read.row.parent_comment_id, base |-> upBase,
         entity |-> Row(up.parent_comment_id, up.author, up.type, up.text,
                        count, up.deleted_at)]

AnswerDeletion(r, read, up, base, upBase) ==
    Merged({Erasure(r, read, base), Uncounting(read, up, upBase)})

\* The work of a toggle, a new comment, a reply, an edit and the two deletions.
Untouched(w) == w.created = NoComment /\ w.merged = {}

New(r, w) ==
    \E user \in Users, type \in CommentTypes :
        w = Created(Row(None, user, type, r, 0, None), {})

OnLive(r, read, up, w) ==
    /\ read # NoRead /\ Live(read.row)
    /\ \/ \E user \in Users, type \in CommentTypes :
             \E base : w = Answering(r, read, user, type, base)
       \/ \E base : w = Rewording(r, read, base)
       \/ read.row.parent_comment_id = None /\ \E base : w = RootDeletion(r, read, base)
       \/ /\ read.row.parent_comment_id # None /\ up # NoComment
          /\ \E base, upBase : w = AnswerDeletion(r, read, up, base, upBase)

WorkOf(r, read, up, w) == Untouched(w) \/ New(r, w) \/ OnLive(r, read, up, w)

WorkedOut(r) == WorkOf(r, snap[r], parent[r], work[r])

RaceInv ==
    /\ NoneAnswersItself(comments)
    /\ \A r \in Requests : pc[r] = "merged" => WorkedOut(r)

\* The flush of a request that was not overtaken spoils no comment.
LEMMA CurrentWorkKeeps ==
  ASSUME DiscussionInv, RaceInv, NEW r \in Requests, pc[r] = "merged", ~OutOfDate(r)
  PROVE  /\ KeepsDead(comments, Landing(r, work[r]))
         /\ \A c \in Requests : Right(comments, c) => Right(Landing(r, work[r]), c)
<1>1. pc[r] # "done" /\ NoneAnswersItself(comments) /\ WorkedOut(r)
  BY DEF RaceInv
<1>2. /\ snap[r] # NoRead => Current(r)
      /\ parent[r] # NoComment => parent[r] = comments[snap[r].row.parent_comment_id]
      /\ \A m \in work[r].merged : m.base = comments[m.id]
  BY DEF OutOfDate, Current
<1>3. LandsRight(r, work[r]) => Keeps(comments, Landing(r, work[r]))
  BY DEF LandsRight
<1>4. CASE Untouched(work[r])
  <2>1. comments = [c \in Requests |-> comments[c]]
    BY <1>1, NoAnswers DEF Stores
  <2>2. Landing(r, work[r]) = comments
    BY <1>4, <2>1 DEF Landing, Untouched
  <2> QED
    BY <2>2 DEF KeepsDead
<1>5. CASE New(r, work[r])
  <2>1. LandsRight(r, work[r])
    BY <1>1, <1>5, AddCommentKeeps DEF New
  <2> QED
    BY <1>3, <2>1 DEF Keeps
<1>6. CASE OnLive(r, snap[r], parent[r], work[r])
  <2>1. Current(r) /\ Live(snap[r].row)
    BY <1>2, <1>6 DEF OnLive
  <2>2. ASSUME NEW user \in Users, NEW type \in CommentTypes, NEW base,
               work[r] = Answering(r, snap[r], user, type, base)
        PROVE  LandsRight(r, work[r])
    <3>1. Counting(snap[r], base) \in work[r].merged
      BY <2>2 DEF Answering, Created, Work
    <3>2. base = comments[snap[r].id]
      <4>1. Counting(snap[r], base).base = base /\ Counting(snap[r], base).id = snap[r].id
        BY DEF Counting
      <4> QED
        BY <1>2, <3>1, <4>1
    <3> QED
      BY <1>1, <2>1, <2>2, <3>2, ReplyKeeps DEF Answering, Counting
  <2>3. ASSUME NEW base, work[r] = Rewording(r, snap[r], base) PROVE LandsRight(r, work[r])
    <3>1. Reworded(r, snap[r], base) \in work[r].merged
      BY <2>3 DEF Rewording, Merged, Work
    <3>2. base = comments[snap[r].id]
      <4>1. Reworded(r, snap[r], base).base = base /\ Reworded(r, snap[r], base).id = snap[r].id
        BY DEF Reworded
      <4> QED
        BY <1>2, <3>1, <4>1
    <3> QED
      BY <1>1, <2>1, <2>3, <3>2, RewordingKeeps DEF Rewording, Reworded
  <2>4. ASSUME snap[r].row.parent_comment_id = None, NEW base,
               work[r] = RootDeletion(r, snap[r], base)
        PROVE  LandsRight(r, work[r])
    <3>1. Erasure(r, snap[r], base) \in work[r].merged
      BY <2>4 DEF RootDeletion, Merged, Work
    <3>2. base = comments[snap[r].id]
      <4>1. Erasure(r, snap[r], base).base = base /\ Erasure(r, snap[r], base).id = snap[r].id
        BY DEF Erasure
      <4> QED
        BY <1>2, <3>1, <4>1
    <3>3. work[r] = Merged({Deletion(r, base)})
      BY <2>4 DEF RootDeletion, Erasure, Deletion
    <3> QED
      BY <1>1, <2>1, <2>4, <3>2, <3>3, RootDeletionKeeps
  <2>5. ASSUME snap[r].row.parent_comment_id # None, parent[r] # NoComment,
               NEW base, NEW upBase,
               work[r] = AnswerDeletion(r, snap[r], parent[r], base, upBase)
        PROVE  LandsRight(r, work[r])
    <3>1. /\ Erasure(r, snap[r], base) \in work[r].merged
          /\ Uncounting(snap[r], parent[r], upBase) \in work[r].merged
      BY <2>5 DEF AnswerDeletion, Merged, Work
    <3>2. /\ Erasure(r, snap[r], base).base = base
          /\ Erasure(r, snap[r], base).id = snap[r].id
          /\ Uncounting(snap[r], parent[r], upBase).base = upBase
          /\ Uncounting(snap[r], parent[r], upBase).id = snap[r].row.parent_comment_id
      BY DEF Erasure, Uncounting
    <3>3. /\ base = comments[snap[r].id]
          /\ upBase = comments[snap[r].row.parent_comment_id]
      BY <1>2, <3>1, <3>2
    <3>4. parent[r] = comments[snap[r].row.parent_comment_id]
      BY <1>2, <2>5
    <3>5. Erasure(r, snap[r], base) = Deletion(r, base)
      BY DEF Erasure, Deletion
    <3>6. work[r] = Merged({Deletion(r, base), Uncounting(snap[r], parent[r], upBase)})
      BY <2>5, <3>5 DEF AnswerDeletion
    <3>7. LandsRight(r, Merged({Deletion(r, base), Uncounting(snap[r], parent[r], upBase)}))
      BY <1>1, <2>1, <2>5, <3>3, <3>4, AnswerDeletionKeeps DEF Uncounting
    <3> QED
      BY <3>6, <3>7
  <2>6. LandsRight(r, work[r])
    BY <1>6, <2>2, <2>3, <2>4, <2>5 DEF OnLive
  <2> QED
    BY <1>3, <2>6 DEF Keeps
<1> QED
  BY <1>1, <1>4, <1>5, <1>6 DEF WorkedOut, WorkOf

\* What the others hold stays with them.
LEMMA OthersKeepTheirWork ==
  ASSUME RaceInv, NEW r \in Requests, NoneAnswersItself(comments)',
         \A q \in Requests \ {r} : /\ pc'[q] = pc[q] /\ snap'[q] = snap[q]
                                   /\ parent'[q] = parent[q] /\ work'[q] = work[q],
         pc'[r] = "merged" => WorkedOut(r)'
  PROVE  RaceInv'
<1>1. ASSUME NEW q \in Requests, q # r, pc'[q] = "merged" PROVE WorkedOut(q)'
  <2>1. WorkedOut(q)
    BY <1>1 DEF RaceInv
  <2>2. snap'[q] = snap[q] /\ parent'[q] = parent[q] /\ work'[q] = work[q]
    BY <1>1
  <2> QED
    BY <2>1, <2>2 DEF WorkedOut
<1> QED
  BY <1>1 DEF RaceInv

\* The steps of a request that is not flushing yet, or ends without a trace.
LEMMA StepBeforeWork ==
  ASSUME TypeOK, RaceInv, NEW r \in Requests, UNCHANGED comments,
         NEW label, label # "merged", pc' = [pc EXCEPT ![r] = label],
         \A q \in Requests \ {r} : /\ snap'[q] = snap[q] /\ parent'[q] = parent[q]
                                   /\ work'[q] = work[q]
  PROVE  RaceInv'
<1>1. NoneAnswersItself(comments)'
  BY DEF RaceInv, NoneAnswersItself
<1>2. pc'[r] # "merged" /\ \A q \in Requests \ {r} : pc'[q] = pc[q]
  BY DEF TypeOK
<1> QED
  BY <1>1, <1>2, OthersKeepTheirWork

\* A handler works out its flush.
LEMMA HandlerWorks ==
  ASSUME TypeOK, RaceInv, NEW r \in Requests, NEW w, Flushing(r, w),
         WorkOf(r, snap[r], parent[r], w)
  PROVE  RaceInv'
<1>1. /\ work' = [work EXCEPT ![r] = w] /\ pc' = [pc EXCEPT ![r] = "merged"]
      /\ UNCHANGED comments /\ UNCHANGED snap /\ UNCHANGED parent
  BY DEF Flushing, At
<1>2. /\ work'[r] = w
      /\ \A q \in Requests \ {r} : pc'[q] = pc[q] /\ work'[q] = work[q]
  BY <1>1, TypeOKParts
<1>3. NoneAnswersItself(comments)'
  BY <1>1 DEF RaceInv, NoneAnswersItself
<1>4. WorkedOut(r)'
  BY <1>1, <1>2 DEF WorkedOut
<1> QED
  BY <1>1, <1>2, <1>3, <1>4, OthersKeepTheirWork

LEMMA RaceStep == DiscussionInv /\ RaceInv /\ [Next]_vars => RaceInv'
<1> SUFFICES ASSUME DiscussionInv, RaceInv, [Next]_vars PROVE RaceInv'
  OBVIOUS
<1>0. TypeOK
  BY DEF DiscussionInv
<1>1. CASE UNCHANGED vars \/ TicketMoves
  <2>1. /\ UNCHANGED comments /\ UNCHANGED pc /\ UNCHANGED snap /\ UNCHANGED parent
        /\ UNCHANGED work
    BY <1>1 DEF vars, TicketMoves
  <2> QED
    BY <2>1 DEF RaceInv, NoneAnswersItself, WorkedOut
<1>2. ASSUME NEW r \in Requests,
             \/ ReadTicket(r) \/ ReadParent(r)
             \/ \E c \in Requests : ReadComment(r, c) \/ ReadForReaction(r, c)
      PROVE  RaceInv'
  <2>1. PICK label \in {"opened", "loaded", "family", "reacting"} :
           /\ pc' = [pc EXCEPT ![r] = label] /\ UNCHANGED comments /\ UNCHANGED work
           /\ \/ UNCHANGED snap
              \/ \E c \in Requests : snap' = [snap EXCEPT ![r] = [id |-> c, row |-> comments[c]]]
           /\ \/ UNCHANGED parent
              \/ parent' = [parent EXCEPT ![r] = comments[snap[r].row.parent_comment_id]]
    BY <1>2 DEF ReadTicket, ReadParent, ReadComment, ReadForReaction, At
  <2>2. \A q \in Requests \ {r} : snap'[q] = snap[q] /\ parent'[q] = parent[q]
    BY <1>0, <2>1, TypeOKParts
  <2> QED
    BY <1>0, <2>1, <2>2, StepBeforeWork
<1>3. ASSUME NEW r \in Requests, Refuse(r) \/ Fail(r) PROVE RaceInv'
  <2>1. /\ pc' = [pc EXCEPT ![r] = "failed"] /\ UNCHANGED comments
        /\ snap' = [snap EXCEPT ![r] = NoRead] /\ parent' = [parent EXCEPT ![r] = NoComment]
        /\ work' = [work EXCEPT ![r] = NoWork]
    BY <1>3 DEF Refuse, Fail, At, Close
  <2>2. \A q \in Requests \ {r} : /\ snap'[q] = snap[q] /\ parent'[q] = parent[q]
                                  /\ work'[q] = work[q]
    BY <1>0, <2>1, TypeOKParts
  <2> QED
    BY <1>0, <2>1, <2>2, StepBeforeWork
<1>4. ASSUME NEW r \in Requests, NEW user \in Users, NEW type \in CommentTypes,
             AddComment(r, user, type)
      PROVE  RaceInv'
  BY <1>0, <1>4, HandlerWorks DEF AddComment, New, WorkOf
<1>5. ASSUME NEW r \in Requests, NEW user \in Users, NEW type \in CommentTypes,
             Reply(r, user, type)
      PROVE  RaceInv'
  <2>1. PICK base : Flushing(r, Answering(r, snap[r], user, type, base))
    BY <1>5 DEF Reply, Answering, Counting
  <2>2. snap[r] # NoRead /\ Live(snap[r].row)
    BY <1>5, SnapParts DEF Reply
  <2> QED
    BY <1>0, <2>1, <2>2, HandlerWorks DEF OnLive, WorkOf
<1>6. ASSUME NEW r \in Requests, NEW user \in Users, EditComment(r, user) PROVE RaceInv'
  <2>1. PICK base : Flushing(r, Rewording(r, snap[r], base))
    BY <1>6 DEF EditComment, Rewording, Reworded
  <2>2. snap[r] # NoRead /\ Live(snap[r].row)
    BY <1>6, SnapParts DEF EditComment
  <2> QED
    BY <1>0, <2>1, <2>2, HandlerWorks DEF OnLive, WorkOf
<1>7. ASSUME NEW r \in Requests, NEW user \in Users, DeleteComment(r, user) PROVE RaceInv'
  <2>1. PICK base : Flushing(r, RootDeletion(r, snap[r], base))
    BY <1>7 DEF DeleteComment, RootDeletion, Erasure, Deletion
  <2>2. snap[r] # NoRead /\ Live(snap[r].row) /\ snap[r].row.parent_comment_id = None
    BY <1>7, SnapParts DEF DeleteComment, MayDelete
  <2> QED
    BY <1>0, <2>1, <2>2, HandlerWorks DEF OnLive, WorkOf
<1>8. ASSUME NEW r \in Requests, NEW user \in Users, DeleteReply(r, user) PROVE RaceInv'
  <2>1. PICK base, upBase : Flushing(r, AnswerDeletion(r, snap[r], parent[r], base, upBase))
    BY <1>8 DEF DeleteReply, AnswerDeletion, Erasure, Uncounting, Deletion
  <2>2. pc[r] = "family" /\ Live(snap[r].row)
    BY <1>8 DEF DeleteReply, MayDelete
  <2>3. /\ snap[r] # NoRead /\ snap[r].row.parent_comment_id # None
        /\ parent[r] # NoComment
    BY <2>2, SnapParts, TypeOKParts DEF DiscussionInv, SessionSound
  <2> QED
    BY <1>0, <2>1, <2>2, <2>3, HandlerWorks DEF OnLive, WorkOf
<1>9. ASSUME NEW r \in Requests, NEW user \in Users, NEW type \in ReactionTypes,
             Toggle(r, user, type)
      PROVE  RaceInv'
  <2>1. PICK set, removed, asked : Flushing(r, Work(NoComment, {}, set, removed, asked))
    BY <1>9 DEF Toggle
  <2>2. Untouched(Work(NoComment, {}, set, removed, asked))
    BY DEF Untouched, Work
  <2> QED
    BY <1>0, <2>1, <2>2, HandlerWorks DEF WorkOf
<1>10. ASSUME NEW r \in Requests, Commit(r) PROVE RaceInv'
  <2>1. /\ pc[r] = "merged" /\ pc' = [pc EXCEPT ![r] = "done"]
        /\ snap' = [snap EXCEPT ![r] = NoRead] /\ parent' = [parent EXCEPT ![r] = NoComment]
        /\ work' = [work EXCEPT ![r] = NoWork]
    BY <1>10 DEF Commit, At, Close
  <2>2. /\ pc'[r] = "done"
        /\ \A q \in Requests \ {r} : /\ pc'[q] = pc[q] /\ snap'[q] = snap[q]
                                     /\ parent'[q] = parent[q] /\ work'[q] = work[q]
    BY <1>0, <2>1, TypeOKParts
  <2>3. ASSUME NEW c \in Requests, Exists(c)' PROVE comments'[c].parent_comment_id # c
    <3>1. CASE c = r
      <4>1. work[r].created # NoComment /\ comments'[r] = work[r].created /\ ~Exists(r)
        BY <1>10, <2>3, <3>1, CommitWrites
      <4>2. RowSound(work[r].created)
        BY <4>1 DEF DiscussionInv, SessionSound, WorkSound
      <4> QED
        BY <3>1, <4>1, <4>2 DEF RowSound
    <3>2. CASE c # r
      <4>1. Exists(c) /\ comments'[c].parent_comment_id = comments[c].parent_comment_id
        BY <1>10, <2>3, <3>2, CommitWrites
      <4> QED
        BY <4>1 DEF RaceInv, NoneAnswersItself, Exists
    <3> QED
      BY <3>1, <3>2
  <2>4. NoneAnswersItself(comments)'
    BY <2>3 DEF NoneAnswersItself, Exists
  <2> QED
    BY <2>2, <2>4, OthersKeepTheirWork
<1> QED
  BY <1>1, <1>2, <1>3, <1>4, <1>5, <1>6, <1>7, <1>8, <1>9, <1>10 DEF Next

\* Only a commit writes comments.
LEMMA OnlyCommitsWrite ==
  ASSUME Next, ~ UNCHANGED comments
  PROVE  \E r \in Requests : Commit(r)
<1>1. ASSUME NEW r, NEW w, Flushing(r, w) PROVE UNCHANGED comments
  BY <1>1 DEF Flushing
<1>2. ASSUME NEW r \in Requests, NEW user \in Users
      PROVE  /\ \A type \in CommentTypes :
                  AddComment(r, user, type) \/ Reply(r, user, type) => UNCHANGED comments
             /\ \A type \in ReactionTypes : Toggle(r, user, type) => UNCHANGED comments
             /\ EditComment(r, user) \/ DeleteComment(r, user) \/ DeleteReply(r, user)
                  => UNCHANGED comments
  BY <1>1 DEF AddComment, Reply, Toggle, EditComment, DeleteComment, DeleteReply
<1>3. ASSUME NEW r \in Requests
      PROVE  /\ ReadTicket(r) \/ ReadParent(r) \/ Refuse(r) \/ Fail(r) => UNCHANGED comments
             /\ \A d \in Requests : ReadComment(r, d) \/ ReadForReaction(r, d)
                                       => UNCHANGED comments
  BY DEF ReadTicket, ReadParent, Refuse, Fail, ReadComment, ReadForReaction
<1>4. TicketMoves => UNCHANGED comments
  BY DEF TicketMoves
<1> QED
  BY <1>2, <1>3, <1>4 DEF Next

LEMMA RaceInvariant == Spec => [](DiscussionInv /\ RaceInv)
<1>1. Init => DiscussionInv /\ RaceInv
  BY DiscussionInitInv DEF Init, RaceInv, NoneAnswersItself
<1>2. DiscussionInv /\ RaceInv /\ [Next]_vars => (DiscussionInv /\ RaceInv)'
  BY DiscussionStepInv, RaceStep
<1> QED
  BY <1>1, <1>2, PTL DEF Spec

-----------------------------------------------------------------------------
\* For any number of requests, as long as no two overlap: reply_count is the number of
\* the replies that are not deleted (tickets/infra/models.py:77, kept by
\* reply_to_comment and delete_comment).
THEOREM CountersAreExact == Spec => []CounterIsExact
<1>1. SerialInv => CounterIsExact
  <2> SUFFICES ASSUME SerialInv, ~overlapped, NEW c \in Requests, Live(comments[c])
               PROVE  comments[c].reply_count = Cardinality(LiveReplies(c))
    BY DEF CounterIsExact
  <2>1. LiveReplies(c) = LiveIn(comments, c)
    BY DEF LiveReplies, Replies, LiveIn, Live, Exists
  <2>2. comments[c].reply_count = Cardinality(LiveIn(comments, c))
    BY DEF SerialInv, Settled, Exact, Right
  <2> QED
    BY <2>1, <2>2
<1> QED
  BY SerialInvariant, <1>1, PTL

\* For any number of requests, as long as no two overlap: each toggle that succeeds
\* turns the reaction round, and a user never has two of one type (ReactionService.toggle).
THEOREM TogglesTakeTurns == Spec => []TogglesAlternate
<1>1. SerialInv => TogglesAlternate
  BY DEF SerialInv, Settled, Alternating, Of, TogglesAlternate
<1> QED
  BY SerialInvariant, <1>1, PTL

\* For any number of requests: a reply counter that is right goes wrong, and a comment
\* that is deleted changes, only when requests overlap, and then only by the commit of
\* one whose rows have changed since it read or merged them
\* (CommentService.reply_to_comment, edit_comment, delete_comment).
THEOREM SpoiltByStaleWrites == Spec => OnlyStaleWritesSpoil
<1>1. ASSUME DiscussionInv, SerialInv, RaceInv, Next, NEW c \in Requests, Spoilt(c)
      PROVE  /\ overlapped
             /\ \E r \in Requests : pc[r] = "merged" /\ pc'[r] = "done" /\ OutOfDate(r)
  <2>1. \/ Right(comments, c) /\ ~Right(comments', c)
        \/ comments[c] # NoComment /\ ~Live(comments[c]) /\ comments'[c] # comments[c]
    BY <1>1 DEF Spoilt, CountsRight, LiveReplies, Replies, Right, LiveIn, Live, Exists
  <2>2. ~ UNCHANGED comments
    BY <2>1
  <2>3. PICK r \in Requests : Commit(r)
    BY <1>1, <2>2, OnlyCommitsWrite
  <2>4. pc[r] = "merged" /\ pc'[r] = "done"
    BY <1>1, <2>3, TypeOKParts DEF DiscussionInv, Commit, At
  <2>5. comments' = Landing(r, work[r])
    BY <2>3, LandingIsCommit
  <2>6. OutOfDate(r)
    BY <1>1, <2>1, <2>4, <2>5, CurrentWorkKeeps DEF KeepsDead
  <2>7. overlapped
    <3>1. SUFFICES ASSUME ~overlapped PROVE FALSE
      OBVIOUS
    <3>2. Fresh(r)
      BY <1>1, <3>1 DEF SerialInv
    <3>3. LandsWell(r, work[r])
      BY <2>4, <3>2 DEF Fresh
    <3>4. Exact(comments') /\ KeepsDead(comments, comments')
      BY <2>5, <3>3 DEF LandsWell
    <3> QED
      BY <2>1, <3>4 DEF Exact, KeepsDead
  <2> QED
    BY <2>4, <2>6, <2>7
<1>2. DiscussionInv /\ SerialInv /\ RaceInv /\ [Next]_vars =>
         [\A c \in Requests : Spoilt(c) =>
            /\ overlapped
            /\ \E r \in Requests : pc[r] = "merged" /\ pc'[r] = "done" /\ OutOfDate(r)]_vars
  BY <1>1
<1> QED
  BY RaceInvariant, SerialInvariant, <1>2, PTL DEF Spec, OnlyStaleWritesSpoil

\* For any number of requests that race: every variable keeps its type, and no counter
\* falls below zero (Comment.decrement_reply_count on rows read long ago).
THEOREM DiscussionTypeCorrect == Spec => []TypeOK
<1>1. DiscussionInv => TypeOK
  BY DEF DiscussionInv
<1> QED
  BY DiscussionInvariant, <1>1, PTL

\* For any number of requests that race: a reply counter never exceeds the replies ever
\* made to the comment (CommentService.reply_to_comment, merging a stale parent).
THEOREM CountersStayBelow == Spec => []CounterNeverInvents
<1>1. DiscussionInv => CounterNeverInvents
  BY DEF DiscussionInv, StoreSound, ReadSound, CounterNeverInvents
<1> QED
  BY DiscussionInvariant, <1>1, PTL

\* For any users and any requests that race: authors who have access find what they
\* wrote until it, or the comment it answers, is deleted; notes in reply excepted
\* (Comment._can_create against get_by_ticket and get_replies).
THEOREM AuthorsKeepTheirComments == Spec => []AuthorsFindTheirComments
<1>1. DiscussionInv => AuthorsFindTheirComments
  <2> SUFFICES ASSUME DiscussionInv, NEW c \in Requests,
                      Live(comments[c]), CanAccess(comments[c].author)
               PROVE  \/ Listed(comments[c].author, c)
                      \/ /\ comments[c].parent_comment_id # None
                         /\ \/ comments[c].type = "NOTE"
                            \/ ~Live(comments[comments[c].parent_comment_id])
    BY DEF AuthorsFindTheirComments
  <2>1. /\ comments[c] \in Rows
        /\ IsCustomer(RoleOf[comments[c].author]) => comments[c].type = "PUBLIC"
    BY TypeOKParts DEF DiscussionInv, StoreSound, RowSound, Exists, Live
  <2>2. comments[c].type \in {"PUBLIC", "INTERNAL", "NOTE"}
    BY <2>1, RowParts DEF CommentTypes
  <2>3. \/ RoleOf[comments[c].author] \in SupportTeam
        \/ IsCustomer(RoleOf[comments[c].author])
    BY DEF CanAccess, IsCustomer
  <2> QED
    BY <2>1, <2>2, <2>3 DEF Listed
<1> QED
  BY DiscussionInvariant, <1>1, PTL
=============================================================================
