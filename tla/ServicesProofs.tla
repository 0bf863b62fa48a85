--------------------------- MODULE ServicesProofs ----------------------------
(***************************************************************************)
(* What the smaller services promise, for any number of requests: whoever  *)
(* is to be told of a ticket is, broadcasts reach the channels open then,  *)
(* attachments are backed by objects, refused keys are taken, memberships  *)
(* stay readable, and a window of the rate limiter keeps its limit.        *)
(***************************************************************************)
EXTENDS Projects, Attachments, RateLimiter, Connections, Notifications, DeskProofs

-----------------------------------------------------------------------------
(* Attachments: the sizes that are stored.                                 *)
(*                                                                         *)
(* What is true of a row is true of the one a confirmation is about to     *)
(* store: an upload that makes its size untrue marks the key.              *)

\* A pair of a key and a size is sound: the object is there, and as large as the size
\* says unless the key was written again.
Backed(a) ==
    /\ a.storage_key \in Keys
    /\ objects[a.storage_key] # None
    /\ a.storage_key \notin rewritten => a.size = objects[a.storage_key]

AttachmentsInv ==
    /\ DeskTyped /\ OneAtATime
    /\ objects \in [Keys -> Uploads \cup {None}]
    /\ \A a \in attachments : Backed(a)
    /\ \A r \in Requests : pc[r] = "sized" => Backed(held[r])

LEMMA AttachmentsInitInv == DeskInit /\ AttachmentsInit => AttachmentsInv
BY DeskInitTyped DEF DeskInit, AttachmentsInit, AttachmentsInv

\* A request that moves, and may store a row that is sound, while the storage stays.
LEMMA AttachmentsQuiet ==
  ASSUME AttachmentsInv, NEW r \in Requests, NEW to, NEW what, Moves(r, to, what),
         UNCHANGED objects, UNCHANGED rewritten,
         \A a \in attachments' : Backed(a),
         to = "sized" => Backed(what)
  PROVE  AttachmentsInv'
<1>1. /\ DeskTyped' /\ OneAtATime'
      /\ pc'[r] = to /\ held'[r] = what
      /\ \A q \in Requests \ {r} : pc'[q] = pc[q] /\ held'[q] = held[q]
  BY MoveTouches DEF AttachmentsInv
<1>2. \A q \in Requests : pc'[q] = "sized" => Backed(held'[q])
  BY <1>1 DEF AttachmentsInv
<1> QED
  BY <1>1, <1>2 DEF AttachmentsInv, Backed

LEMMA UploadStep ==
  ASSUME AttachmentsInv, NEW k \in Keys, NEW u \in Uploads, Upload(k, u)
  PROVE  AttachmentsInv'
<1>1. /\ objects' = [objects EXCEPT ![k] = u]
      /\ UNCHANGED pc /\ UNCHANGED held /\ UNCHANGED overlapped /\ UNCHANGED attachments
  BY DEF Upload, deskVars
<1>2. objects' \in [Keys -> Uploads \cup {None}]
  BY <1>1 DEF AttachmentsInv
<1>3. /\ rewritten \subseteq rewritten'
      /\ \A a \in attachments : a.storage_key = k => k \in rewritten'
      /\ \A r \in Requests : pc[r] = "sized" /\ held[r].storage_key = k => k \in rewritten'
  BY DEF Upload
<1>4. ASSUME NEW a, Backed(a), a.storage_key = k => k \in rewritten'
      PROVE  Backed(a)'
  <2>1. CASE a.storage_key = k
    BY <1>1, <1>4, <2>1, AttachmentsAssumption DEF AttachmentsInv, Backed
  <2>2. CASE a.storage_key # k
    BY <1>1, <1>3, <1>4, <2>2 DEF AttachmentsInv, Backed
  <2> QED
    BY <2>1, <2>2
<1>5. (\A a \in attachments : Backed(a))'
  <2> SUFFICES ASSUME NEW a \in attachments PROVE Backed(a)'
    BY <1>1
  <2> QED
    BY <1>3, <1>4 DEF AttachmentsInv
<1>6. (\A r \in Requests : pc[r] = "sized" => Backed(held[r]))'
  <2> SUFFICES ASSUME NEW r \in Requests, pc[r] = "sized", NEW a, a = held[r] PROVE Backed(a)'
    BY <1>1 DEF Backed
  <2> QED
    BY <1>3, <1>4 DEF AttachmentsInv
<1>7. DeskTyped' /\ OneAtATime'
  BY <1>1 DEF AttachmentsInv, DeskTyped, OneAtATime, InProgress
<1> QED
  BY <1>2, <1>5, <1>6, <1>7 DEF AttachmentsInv

LEMMA AttachmentsStepInv ==
  AttachmentsInv /\ [AttachmentsNext]_<<deskVars, attachmentVars>> => AttachmentsInv'
<1> SUFFICES ASSUME AttachmentsInv, [AttachmentsNext]_<<deskVars, attachmentVars>>
             PROVE  AttachmentsInv'
  OBVIOUS
<1>1. ASSUME UNCHANGED deskVars, UNCHANGED objects, UNCHANGED attachments, UNCHANGED rewritten
      PROVE  AttachmentsInv'
  <2>1. UNCHANGED pc /\ UNCHANGED held /\ UNCHANGED overlapped
    BY <1>1 DEF deskVars
  <2> QED
    BY <1>1, <2>1 DEF AttachmentsInv, DeskTyped, OneAtATime, InProgress, Backed
<1>2. ASSUME NEW k \in Keys, UrlExpires(k)
      PROVE  AttachmentsInv'
  BY <1>1, <1>2 DEF UrlExpires
<1>3. CASE UNCHANGED <<deskVars, attachmentVars>>
  BY <1>1, <1>3 DEF attachmentVars
<1>4. ASSUME NEW r \in Requests, CreateUploadUrl(r)
      PROVE  AttachmentsInv'
  <2>1. /\ Moves(r, "done", None)
        /\ UNCHANGED objects /\ UNCHANGED attachments /\ UNCHANGED rewritten
    BY <1>4 DEF CreateUploadUrl, Moves
  <2> QED
    BY <2>1, AttachmentsQuiet DEF AttachmentsInv
<1>5. ASSUME NEW r \in Requests, NEW k \in Keys, NEW u \in Uploads, ConfirmUpload(r, k, u)
      PROVE  AttachmentsInv'
  <2> DEFINE what == [storage_key |-> k, size |-> u]
  <2>1. /\ Moves(r, "sized", what)
        /\ UNCHANGED objects /\ UNCHANGED attachments /\ UNCHANGED rewritten
    BY <1>5 DEF ConfirmUpload, Moves, attachmentVars
  <2>2. Backed(what)
    BY <1>5, AttachmentsAssumption DEF ConfirmUpload, Backed
  <2> HIDE DEF what
  <2> QED
    BY <2>1, <2>2, AttachmentsQuiet DEF AttachmentsInv
<1>6. ASSUME NEW r \in Requests, StoreAttachment(r)
      PROVE  AttachmentsInv'
  <2>1. /\ Moves(r, "done", None) /\ pc[r] = "sized"
        /\ UNCHANGED objects /\ UNCHANGED rewritten
        /\ attachments' = attachments \cup {held[r]}
    BY <1>6, EndMoves DEF StoreAttachment, Ended
  <2>2. \A a \in attachments' : Backed(a)
    BY <2>1 DEF AttachmentsInv
  <2> QED
    BY <2>1, <2>2, AttachmentsQuiet
<1>7. ASSUME NEW r \in Requests,
             RefuseAttachment(r) \/ (Abandon(r) /\ UNCHANGED attachmentVars)
      PROVE  AttachmentsInv'
  <2>1. /\ Moves(r, "failed", None)
        /\ UNCHANGED objects /\ UNCHANGED attachments /\ UNCHANGED rewritten
    BY <1>7, EndMoves, AbandonMoves DEF RefuseAttachment, Ended, attachmentVars
  <2> QED
    BY <2>1, AttachmentsQuiet DEF AttachmentsInv
<1> QED
  BY <1>2, <1>3, <1>4, <1>5, <1>6, <1>7, UploadStep DEF AttachmentsNext

\* For any number of uploads and confirmations that race: an attachment has an object
\* behind it, and is as large as it says unless its key was written again since
\* (AttachmentService.confirm_upload, with a URL that stays valid).
THEOREM AttachmentsAreBacked == AttachmentsSpec => []AttachmentsAreStored
<1>1. AttachmentsInv => AttachmentsAreStored
  BY DEF AttachmentsInv, AttachmentsAreStored, Backed
<1>2. AttachmentsSpec => []AttachmentsInv
  BY AttachmentsInitInv, AttachmentsStepInv, PTL DEF AttachmentsSpec
<1> QED
  BY <1>1, <1>2, PTL

-----------------------------------------------------------------------------
(* Connections: whom a broadcast reaches.                                  *)
(*                                                                         *)
(* A channel that was open when a broadcast began is broken, has the       *)
(* message, or is still ahead of the walk; the list of sockets keeps that  *)
(* only until something leaves it.                                         *)

\* A channel that broadcast r need not think of any more.
DealtWith(r, c) == c \in broken \/ <<r, c>> \in received

\* The channels that the walk of a broadcast has before it.
Ahead(what) == {sockets[i] : i \in what.next..Len(sockets)}
LeftOf(what) == {what.left[i] : i \in DOMAIN what.left}

\* What is true of a broadcast at label to.
WalksWell(r, to, what) ==
    /\ to = "sending" =>
          /\ what.next \in Nat \ {0}
          /\ r \notin disturbed => \A c \in audience[r] : DealtWith(r, c) \/ c \in Ahead(what)
    /\ to = "putting" =>
          /\ what.left \in Seq(Channels)
          /\ \A c \in audience[r] : DealtWith(r, c) \/ c \in LeftOf(what)
    /\ to = "done" /\ r \notin disturbed => \A c \in audience[r] : DealtWith(r, c)

ConnectionsInv ==
    /\ DeskTyped
    /\ sockets \in Seq(OnList)
    /\ queues \subseteq Channels /\ IsFiniteSet(queues)
    /\ audience = [r \in Requests |-> audience[r]]
    /\ \A r \in Requests : WalksWell(r, pc[r], held[r])

LEMMA ConnectionsInitInv == DeskInit /\ ConnectionsInit => ConnectionsInv
<1> SUFFICES ASSUME DeskInit, ConnectionsInit PROVE ConnectionsInv
  OBVIOUS
<1>1. sockets \in Seq(OnList)
  BY DEF ConnectionsInit
<1>2. IsFiniteSet({})
  BY FS_EmptySet
<1> QED
  BY <1>1, <1>2, DeskInitTyped DEF DeskInit, ConnectionsInit, ConnectionsInv, WalksWell

\* The channels change while no broadcast moves: no walk loses what it has before it,
\* unless it is marked.
LEMMA ChannelsChange ==
  ASSUME ConnectionsInv, UNCHANGED deskVars, UNCHANGED received, UNCHANGED audience,
         broken \subseteq broken', disturbed \subseteq disturbed',
         sockets' \in Seq(OnList'), queues' \subseteq Channels, IsFiniteSet(queues'),
         \/ SendingOnSockets \subseteq disturbed'
         \/ /\ Len(sockets) <= Len(sockets')
            /\ \A i \in 1..Len(sockets) : sockets'[i] = sockets[i]
  PROVE  ConnectionsInv'
<1>1. UNCHANGED pc /\ UNCHANGED held
  BY DEF deskVars
<1>2. \A r, c : DealtWith(r, c) => DealtWith(r, c)'
  BY DEF DealtWith
<1>3. ASSUME NEW r \in Requests
      PROVE  WalksWell(r, pc[r], held[r])'
  <2>1. WalksWell(r, pc[r], held[r])
    BY DEF ConnectionsInv
  <2>2. ASSUME pc[r] = "sending", r \notin disturbed', NEW c \in audience[r]
        PROVE  DealtWith(r, c)' \/ c \in Ahead(held[r])'
    <3>1. DealtWith(r, c) \/ c \in Ahead(held[r])
      BY <2>1, <2>2 DEF WalksWell
    <3>2. ASSUME NEW i \in held[r].next..Len(sockets)
          PROVE  i \in held[r].next..Len(sockets') /\ sockets'[i] = sockets[i]
      <4>1. Len(sockets) \in Nat /\ Len(sockets') \in Nat
        BY DEF ConnectionsInv
      <4>2. held[r].next \in Nat \ {0}
        BY <2>1, <2>2 DEF WalksWell
      <4> QED
        BY <2>2, <4>1, <4>2 DEF SendingOnSockets
    <3> QED
      BY <1>1, <1>2, <3>1, <3>2 DEF Ahead
  <2> QED
    BY <1>1, <1>2, <2>1, <2>2 DEF WalksWell, LeftOf
<1> QED
  BY <1>1, <1>3 DEF ConnectionsInv, DeskTyped

\* A broadcast moves: the others keep what is before them, unless they are marked.
LEMMA BroadcastMoves ==
  ASSUME ConnectionsInv, NEW r \in Requests, NEW to, NEW what, Moves(r, to, what),
         UNCHANGED broken, received \subseteq received', disturbed \subseteq disturbed',
         audience' = [audience EXCEPT ![r] = audience'[r]],
         sockets' \in Seq(OnList'), queues' \subseteq Channels, IsFiniteSet(queues'),
         SendingOnSockets \ {r} \subseteq disturbed' \/ UNCHANGED sockets,
         WalksWell(r, to, what)'
  PROVE  ConnectionsInv'
<1>1. /\ DeskTyped' /\ pc'[r] = to /\ held'[r] = what
      /\ \A q \in Requests \ {r} : pc'[q] = pc[q] /\ held'[q] = held[q]
  <2>1. DeskTyped
    BY DEF ConnectionsInv
  <2> QED
    BY <2>1 DEF Moves, DeskTyped, Start, Step
<1>2. \A q, c : DealtWith(q, c) => DealtWith(q, c)'
  BY DEF DealtWith
<1>3. /\ audience' = [q \in Requests |-> audience'[q]]
      /\ \A q \in Requests \ {r} : audience'[q] = audience[q]
  BY DEF ConnectionsInv
<1>4. ASSUME NEW q \in Requests \ {r}
      PROVE  WalksWell(q, pc[q], held[q])'
  <2>1. WalksWell(q, pc[q], held[q])
    BY DEF ConnectionsInv
  <2>2. ASSUME pc[q] = "sending", q \notin disturbed', NEW c \in audience[q]
        PROVE  DealtWith(q, c)' \/ c \in Ahead(held[q])'
    <3>1. DealtWith(q, c) \/ c \in Ahead(held[q])
      BY <2>1, <2>2 DEF WalksWell
    <3>2. UNCHANGED sockets
      BY <2>2 DEF SendingOnSockets
    <3> QED
      BY <1>1, <1>2, <3>1, <3>2 DEF Ahead
  <2> QED
    BY <1>1, <1>2, <1>3, <2>1, <2>2 DEF WalksWell, LeftOf
<1>5. WalksWell(r, pc[r], held[r])'
  BY <1>1 DEF WalksWell, Ahead, LeftOf, DealtWith
<1> QED
  BY <1>1, <1>3, <1>4, <1>5 DEF ConnectionsInv

LEMMA SendSteps ==
  ASSUME ConnectionsInv, NEW r \in Requests, BeginSend(r) \/ SendNext(r) \/ RemoveDead(r)
  PROVE  ConnectionsInv'
<1>1. /\ sockets \in Seq(OnList) /\ Len(sockets) \in Nat /\ DOMAIN sockets = 1..Len(sockets)
      /\ queues \subseteq Channels /\ IsFiniteSet(queues)
      /\ audience = [q \in Requests |-> audience[q]]
  BY DEF ConnectionsInv
<1>2. CASE BeginSend(r)
  <2> DEFINE what == [next |-> 1, dead |-> <<>>]
  <2>1. /\ Moves(r, "sending", what)
        /\ audience' = [audience EXCEPT ![r] = OnList]
        /\ UNCHANGED sockets /\ UNCHANGED queues /\ UNCHANGED broken
        /\ UNCHANGED received /\ UNCHANGED disturbed
    BY <1>2 DEF BeginSend, Moves
  <2>2. audience'[r] = OnList
    BY <1>1, <2>1
  <2>3. what.next = 1
    OBVIOUS
  <2> HIDE DEF what
  <2>4. WalksWell(r, "sending", what)'
    BY <1>1, <2>1, <2>2, <2>3 DEF WalksWell, Ahead, OnList
  <2> QED
    BY <1>1, <2>1, <2>2, <2>4, BroadcastMoves DEF OnList
<1>3. CASE SendNext(r)
  <2>0. PICK c, what :
           /\ c = sockets[held[r].next]
           /\ what = [next |-> held[r].next + 1,
                       dead |-> held[r].dead \o (IF c \in broken THEN <<c>> ELSE <<>>)]
    OBVIOUS
  <2>1. /\ Moves(r, "sending", what) /\ pc[r] = "sending"
        /\ held[r].next <= Len(sockets)
        /\ received' = IF c \in broken THEN received ELSE received \cup {<<r, c>>}
        /\ UNCHANGED sockets /\ UNCHANGED queues /\ UNCHANGED broken
        /\ UNCHANGED audience /\ UNCHANGED disturbed
    BY <1>3, <2>0, StepMoves DEF SendNext, Ended
  <2>2. what.next = held[r].next + 1
    BY <2>0
  <2>3. WalksWell(r, "sending", held[r])
    BY <2>1 DEF ConnectionsInv
  <2>4. held[r].next \in Nat \ {0}
    BY <2>3 DEF WalksWell
  <2>5. DealtWith(r, c)' /\ \A d : DealtWith(r, d) => DealtWith(r, d)'
    BY <2>1 DEF DealtWith
  <2>6. \A d \in Ahead(held[r]) : d = c \/ d \in Ahead(what)'
    <3> SUFFICES ASSUME NEW i \in held[r].next..Len(sockets), i # held[r].next
                 PROVE  i \in what.next..Len(sockets)
      BY <2>0, <2>1 DEF Ahead
    <3> QED
      BY <1>1, <2>2, <2>4
  <2>7. WalksWell(r, "sending", what)'
    <3>1. what.next \in Nat \ {0}
      BY <2>2, <2>4
    <3>2. ASSUME r \notin disturbed, NEW d \in audience[r]
          PROVE  DealtWith(r, d)' \/ d \in Ahead(what)'
      <4>1. DealtWith(r, d) \/ d \in Ahead(held[r])
        BY <2>3, <3>2 DEF WalksWell
      <4> QED
        BY <2>5, <2>6, <4>1
    <3> QED
      BY <2>1, <3>1, <3>2 DEF WalksWell
  <2>8. received \subseteq received' /\ audience' = [audience EXCEPT ![r] = audience'[r]]
    BY <1>1, <2>1
  <2> QED
    BY <1>1, <2>1, <2>7, <2>8, BroadcastMoves DEF OnList
<1>4. CASE RemoveDead(r)
  <2>0. PICK removed, to :
           /\ removed = Removable(held[r].dead)
           /\ to = IF \A i \in DOMAIN held[r].dead : held[r].dead[i] \in OnList
                   THEN "done" ELSE "failed"
    OBVIOUS
  <2>1. /\ Moves(r, to, None) /\ pc[r] = "sending"
        /\ held[r].next > Len(sockets)
        /\ sockets' = Without(sockets, removed)
        /\ disturbed' = disturbed \cup (IF removed = {} THEN {} ELSE SendingOnSockets \ {r})
        /\ UNCHANGED queues /\ UNCHANGED broken /\ UNCHANGED audience /\ UNCHANGED received
    BY <1>4, <2>0, EndMoves DEF RemoveDead, Ended
  <2>2. to \in {"done", "failed"}
    BY <2>0
  <2>3. sockets' \in Seq(OnList')
    BY <1>1, <2>1, WithoutSeq DEF OnList
  <2>4. SendingOnSockets \ {r} \subseteq disturbed' \/ UNCHANGED sockets
    BY <1>1, <2>1, WithoutNothing
  <2>5. WalksWell(r, "sending", held[r])
    BY <2>1 DEF ConnectionsInv
  <2>6. Ahead(held[r]) = {}
    BY <1>1, <2>1, <2>5 DEF Ahead, WalksWell
  <2>7. WalksWell(r, to, None)'
    BY <2>1, <2>2, <2>5, <2>6 DEF WalksWell, DealtWith
  <2>8. audience' = [audience EXCEPT ![r] = audience'[r]]
    BY <1>1, <2>1
  <2> QED
    BY <1>1, <2>1, <2>3, <2>4, <2>7, <2>8, BroadcastMoves
<1> QED
  BY <1>2, <1>3, <1>4

LEMMA BroadcastSteps ==
  ASSUME ConnectionsInv, NEW r \in Requests,
         BeginBroadcast(r) \/ PutNext(r) \/ DiscardDead(r)
  PROVE  ConnectionsInv'
<1>1. /\ sockets \in Seq(OnList) /\ queues \subseteq Channels /\ IsFiniteSet(queues)
      /\ audience = [q \in Requests |-> audience[q]]
  BY DEF ConnectionsInv
<1>2. CASE BeginBroadcast(r)
  <2>1. PICK order \in Bijection(1..Cardinality(queues), queues) :
           Start(r, "putting", [left |-> order, dead |-> {}])
    BY <1>2 DEF BeginBroadcast
  <2> DEFINE what == [left |-> order, dead |-> {}]
  <2>2. /\ Moves(r, "putting", what)
        /\ audience' = [audience EXCEPT ![r] = queues]
        /\ UNCHANGED sockets /\ UNCHANGED queues /\ UNCHANGED broken
        /\ UNCHANGED received /\ UNCHANGED disturbed
    BY <1>2, <2>1 DEF BeginBroadcast, Moves
  <2>3. audience'[r] = queues
    BY <1>1, <2>2
  <2>4. Cardinality(queues) \in Nat
    BY <1>1, FS_CardinalityType
  <2>5. /\ order \in [1..Cardinality(queues) -> queues]
        /\ \A c \in queues : \E i \in 1..Cardinality(queues) : order[i] = c
    BY DEF Bijection, Surjection, Injection
  <2>6. what.left = order
    OBVIOUS
  <2> HIDE DEF what
  <2>7. what.left \in Seq(Channels) /\ queues \subseteq LeftOf(what)
    BY <1>1, <2>4, <2>5, <2>6 DEF LeftOf
  <2>8. WalksWell(r, "putting", what)'
    BY <2>2, <2>3, <2>7 DEF WalksWell, LeftOf
  <2> QED
    BY <1>1, <2>2, <2>3, <2>8, BroadcastMoves DEF OnList
<1>3. CASE PutNext(r)
  <2>0. PICK c, what :
           /\ c = Head(held[r].left)
           /\ what = [left |-> NextOnCopy(held[r].left),
                      dead |-> held[r].dead \cup ({c} \cap broken)]
    OBVIOUS
  <2>1. /\ Moves(r, "putting", what) /\ pc[r] = "putting" /\ held[r].left # <<>>
        /\ c \notin broken => received' = received \cup {<<r, c>>}
        /\ c \in broken => UNCHANGED received
        /\ UNCHANGED sockets /\ UNCHANGED queues /\ UNCHANGED broken
        /\ UNCHANGED audience /\ UNCHANGED disturbed
    BY <1>3, <2>0, StepMoves DEF PutNext, Ended
  <2>2. what.left = Tail(held[r].left)
    BY <2>0 DEF NextOnCopy
  <2>3. WalksWell(r, "putting", held[r])
    BY <2>1 DEF ConnectionsInv
  <2>4. held[r].left \in Seq(Channels)
    BY <2>3 DEF WalksWell
  <2>5. DealtWith(r, c)' /\ \A d : DealtWith(r, d) => DealtWith(r, d)'
    BY <2>1 DEF DealtWith
  <2>6. what.left \in Seq(Channels) /\ \A d \in LeftOf(held[r]) : d = c \/ d \in LeftOf(what)
    <3>1. /\ Len(held[r].left) \in Nat \ {0} /\ what.left \in Seq(Channels)
          /\ Len(what.left) = Len(held[r].left) - 1
          /\ \A i \in 1..Len(what.left) : what.left[i] = held[r].left[i + 1]
      BY <2>1, <2>2, <2>4
    <3>2. ASSUME NEW i \in 1..Len(held[r].left)
          PROVE  held[r].left[i] = c \/ held[r].left[i] \in LeftOf(what)
      <4>1. CASE i = 1
        BY <2>0, <2>4, <4>1
      <4>2. CASE i # 1
        <5>1. i - 1 \in 1..Len(what.left) /\ what.left[i - 1] = held[r].left[i]
          BY <3>1, <4>2
        <5>2. DOMAIN what.left = 1..Len(what.left)
          BY <3>1
        <5> QED
          BY <5>1, <5>2 DEF LeftOf
      <4> QED
        BY <4>1, <4>2
    <3>3. DOMAIN held[r].left = 1..Len(held[r].left)
      BY <2>4
    <3> QED
      BY <3>1, <3>2, <3>3 DEF LeftOf
  <2>7. WalksWell(r, "putting", what)'
    <3> SUFFICES ASSUME NEW d \in audience[r]
                 PROVE  DealtWith(r, d)' \/ d \in LeftOf(what)
      BY <2>1, <2>6 DEF WalksWell, LeftOf
    <3>1. DealtWith(r, d) \/ d \in LeftOf(held[r])
      BY <2>3 DEF WalksWell
    <3> QED
      BY <2>5, <2>6, <3>1
  <2>8. received \subseteq received' /\ audience' = [audience EXCEPT ![r] = audience'[r]]
    BY <1>1, <2>1
  <2> QED
    BY <1>1, <2>1, <2>7, <2>8, BroadcastMoves DEF OnList
<1>4. CASE DiscardDead(r)
  <2>1. /\ Moves(r, "done", None) /\ pc[r] = "putting" /\ held[r].left = <<>>
        /\ queues' = queues \ held[r].dead
        /\ UNCHANGED sockets /\ UNCHANGED broken
        /\ UNCHANGED audience /\ UNCHANGED received /\ UNCHANGED disturbed
    BY <1>4, EndMoves DEF DiscardDead, Ended
  <2>2. WalksWell(r, "putting", held[r])
    BY <2>1 DEF ConnectionsInv
  <2>3. LeftOf(held[r]) = {}
    BY <2>1 DEF LeftOf
  <2>4. WalksWell(r, "done", None)'
    BY <2>1, <2>2, <2>3 DEF WalksWell, DealtWith
  <2>5. queues' \subseteq Channels /\ IsFiniteSet(queues')
    BY <1>1, <2>1, FS_Subset
  <2>6. audience' = [audience EXCEPT ![r] = audience'[r]]
    BY <1>1, <2>1
  <2>7. sockets' \in Seq(OnList')
    BY <1>1, <2>1 DEF OnList
  <2>8. received \subseteq received' /\ disturbed \subseteq disturbed'
    BY <2>1
  <2> QED
    BY <2>1, <2>4, <2>5, <2>6, <2>7, <2>8, BroadcastMoves
<1> QED
  BY <1>2, <1>3, <1>4

LEMMA ChannelSteps ==
  ASSUME ConnectionsInv, NEW c \in Channels,
         \/ ConnectSocket(c) \/ DisconnectSocket(c)
         \/ ConnectQueue(c) \/ DisconnectQueue(c)
         \/ Break(c)
         \/ \E m \in Requests : Take(c, m)
  PROVE  ConnectionsInv'
<1>1. sockets \in Seq(OnList) /\ queues \subseteq Channels /\ IsFiniteSet(queues)
  BY DEF ConnectionsInv
<1>2. CASE ConnectSocket(c)
  <2>1. /\ sockets' = Append(sockets, c)
        /\ UNCHANGED deskVars /\ UNCHANGED queues /\ UNCHANGED broken
        /\ UNCHANGED received /\ UNCHANGED audience /\ UNCHANGED disturbed
    BY <1>2 DEF ConnectSocket
  <2>2. sockets \in Seq(OnList \cup {c})
    BY <1>1
  <2>3. /\ sockets' \in Seq(OnList \cup {c}) /\ Len(sockets') = Len(sockets) + 1
        /\ \A i \in 1..Len(sockets) : sockets'[i] = sockets[i]
        /\ Len(sockets) \in Nat
    BY <2>1, <2>2
  <2>4. sockets' \in Seq(OnList')
    <3>1. DOMAIN sockets' = 1..Len(sockets') /\ Len(sockets') \in Nat
      BY <2>3
    <3>2. sockets' = [i \in 1..Len(sockets') |-> sockets'[i]]
      BY <2>3, <3>1
    <3> QED
      BY <3>1, <3>2, ListSeq DEF OnList
  <2> QED
    BY <1>1, <2>1, <2>3, <2>4, ChannelsChange
<1>3. CASE DisconnectSocket(c)
  <2>0. PICK some : some = {c}
    OBVIOUS
  <2>1. /\ sockets' = Without(sockets, some) /\ disturbed' = disturbed \cup SendingOnSockets
        /\ UNCHANGED deskVars /\ UNCHANGED queues /\ UNCHANGED broken
        /\ UNCHANGED received /\ UNCHANGED audience
    BY <1>3, <2>0 DEF DisconnectSocket
  <2>2. sockets' \in Seq(OnList')
    BY <1>1, <2>1, WithoutSeq DEF OnList
  <2> QED
    BY <1>1, <2>1, <2>2, ChannelsChange
<1>4. CASE ConnectQueue(c) \/ DisconnectQueue(c) \/ Break(c) \/ \E m \in Requests : Take(c, m)
  <2>1. /\ UNCHANGED deskVars /\ UNCHANGED sockets /\ broken \subseteq broken'
        /\ UNCHANGED received /\ UNCHANGED audience /\ UNCHANGED disturbed
        /\ queues' = queues \/ queues' = queues \cup {c} \/ queues' = queues \ {c}
    BY <1>4 DEF ConnectQueue, DisconnectQueue, Break, Take
  <2>2. queues' \subseteq Channels /\ IsFiniteSet(queues')
    BY <1>1, <2>1, FS_AddElement, FS_RemoveElement
  <2>3. sockets' \in Seq(OnList') /\ Len(sockets) <= Len(sockets')
    BY <1>1, <2>1 DEF OnList
  <2> QED
    BY <1>1, <2>1, <2>2, <2>3, ChannelsChange
<1> QED
  BY <1>2, <1>3, <1>4

LEMMA ConnectionsStepInv ==
  ConnectionsInv /\ [ConnectionsNext]_<<deskVars, connectionVars>> => ConnectionsInv'
<1> SUFFICES ASSUME ConnectionsInv, [ConnectionsNext]_<<deskVars, connectionVars>>
             PROVE  ConnectionsInv'
  OBVIOUS
<1>1. /\ sockets \in Seq(OnList) /\ queues \subseteq Channels /\ IsFiniteSet(queues)
      /\ audience = [q \in Requests |-> audience[q]] /\ Len(sockets) \in Nat
  BY DEF ConnectionsInv
<1>2. CASE UNCHANGED <<deskVars, connectionVars>>
  <2>1. /\ UNCHANGED deskVars /\ UNCHANGED sockets /\ UNCHANGED queues /\ UNCHANGED broken
        /\ UNCHANGED received /\ UNCHANGED audience /\ UNCHANGED disturbed
    BY <1>2 DEF connectionVars
  <2> QED
    BY <1>1, <2>1, ChannelsChange DEF OnList
<1>3. ASSUME NEW r \in Requests, Abandon(r), UNCHANGED connectionVars
      PROVE  ConnectionsInv'
  <2>1. /\ Moves(r, "failed", None)
        /\ UNCHANGED sockets /\ UNCHANGED queues /\ UNCHANGED broken
        /\ UNCHANGED received /\ UNCHANGED audience /\ UNCHANGED disturbed
    BY <1>3, AbandonMoves DEF connectionVars
  <2>2. WalksWell(r, "failed", None)'
    BY DEF WalksWell
  <2>3. audience' = [audience EXCEPT ![r] = audience'[r]]
    BY <1>1, <2>1
  <2> QED
    BY <1>1, <2>1, <2>2, <2>3, BroadcastMoves DEF OnList
<1> QED
  BY <1>2, <1>3, ChannelSteps, SendSteps, BroadcastSteps DEF ConnectionsNext

\* For any number of channels and broadcasts: one that ran to its end reached every
\* channel that was open when it began and did not break, over sockets unless the list
\* lost a connection meanwhile (WebsocketManager.send_to_user and
\* SSEManager.broadcast_to_local).
THEOREM BroadcastsReachAll == ConnectionsSpec => []BroadcastReachesAll
<1>1. ConnectionsInv => BroadcastReachesAll
  BY DEF ConnectionsInv, WalksWell, DealtWith, BroadcastReachesAll
<1>2. ConnectionsSpec => []ConnectionsInv
  BY ConnectionsInitInv, ConnectionsStepInv, PTL DEF ConnectionsSpec
<1> QED
  BY <1>1, <1>2, PTL

-----------------------------------------------------------------------------
(* Notifications: who is told.                                             *)
(*                                                                         *)
(* Somebody to be told is among the targets or on a page to come.  New     *)
(* accounts only push the others to later places, so the pages to come     *)
(* keep whom they had; that there is one to come is decided with a count   *)
(* that is right unless the handler is marked.                             *)

USE NotificationsAssumption

Others == {u \in Users : RoleOf[u] \notin SupportTeam}

\* The user u of the support team is on page number page or later.
OnPageFrom(u, page) ==
    \E i \in Stays(directory, Others) :
        directory[i] = u /\ Place(Stays(directory, Others), i) > (page - 1) * PageSize

Told(r, u) == \E n \in notifications : n.by = r /\ n.user = u

\* What is true of a handler at label to.
TellsWell(r, to, what) ==
    /\ to \in {"idle", "marking"} => asked[r] = {}
    /\ to = "marking" => what \in [by : Requests, user : Users, read : BOOLEAN]
    /\ to = "sending" => what = [targets |-> what.targets, user |-> what.user, left |-> what.left]
    /\ to \in {"counting", "counted"} => what.page \in Nat \ {0}
    /\ r \notin shifted =>
          /\ to \in {"counting", "counted"} =>
                \A u \in asked[r] : u \in what.targets \/ OnPageFrom(u, what.page)
          /\ to = "counted" => what.total = Len(Support)
          /\ to \in {"notifying", "sending"} =>
                \A u \in asked[r] : u \in what.targets \/ Told(r, u)
          /\ to = "done" => \A u \in asked[r] : Told(r, u)

NotificationsInv ==
    /\ DeskTyped
    /\ directory \in Seq(Users)
    /\ notifications \subseteq [by : Requests, user : Users, read : BOOLEAN]
    /\ asked = [r \in Requests |-> asked[r]]
    /\ \A r \in Requests : TellsWell(r, pc[r], held[r])

LEMMA NotificationsInitInv == DeskInit /\ NotificationsInit => NotificationsInv
BY DeskInitTyped DEF DeskInit, NotificationsInit, NotificationsInv, TellsWell

\* The support team and the places of its members.
LEMMA SupportPlaces ==
  ASSUME directory \in Seq(Users)
  PROVE  /\ Len(Support) \in Nat /\ DOMAIN Support = 1..Len(Support)
         /\ \A i \in Stays(directory, Others) :
               /\ Place(Stays(directory, Others), i) \in 1..Len(Support)
               /\ Support[Place(Stays(directory, Others), i)] = directory[i]
         /\ \A u \in SupportNow : OnPageFrom(u, 1)
<1>1. Support = Picked(directory, Stays(directory, Others))
  BY DEF Support, Others, Without
<1>2. /\ DOMAIN Support = 1..Cardinality(Stays(directory, Others))
      /\ Len(Support) = Cardinality(Stays(directory, Others))
      /\ \A i \in Stays(directory, Others) : Support[Place(Stays(directory, Others), i)] = directory[i]
      /\ \A n \in DOMAIN Support : \E i \in Stays(directory, Others) :
            Place(Stays(directory, Others), i) = n /\ Support[n] = directory[i]
  <2>1. Stays(directory, Others) \in SUBSET DOMAIN directory
    BY DEF Stays
  <2> QED
    BY <1>1, <2>1, AtPlace
<1>3. /\ Cardinality(Stays(directory, Others)) \in Nat
      /\ \A i \in Stays(directory, Others) :
            Place(Stays(directory, Others), i) \in 1..Cardinality(Stays(directory, Others))
  <2>1. Len(directory) \in Nat /\ Stays(directory, Others) \in SUBSET (1..Len(directory))
    BY DEF Stays
  <2> QED
    BY <2>1, PlacesFinite, PlacesTaken
<1>4. \A i \in Stays(directory, Others) : Place(Stays(directory, Others), i) \in 1..Len(Support)
  BY <1>2, <1>3
<1>5. \A u \in SupportNow : OnPageFrom(u, 1)
  <2> SUFFICES ASSUME NEW n \in DOMAIN Support PROVE OnPageFrom(Support[n], 1)
    BY DEF SupportNow
  <2>1. PICK i \in Stays(directory, Others) :
           Place(Stays(directory, Others), i) = n /\ Support[n] = directory[i]
    BY <1>2
  <2>2. n > 0 /\ (1 - 1) * PageSize = 0
    BY <1>2
  <2> QED
    BY <2>1, <2>2 DEF OnPageFrom
<1> QED
  BY <1>2, <1>3, <1>4, <1>5

\* A handler moves or a notification is marked: nobody who was told is forgotten.
LEMMA HandlerMoves ==
  ASSUME NotificationsInv, NEW r \in Requests, NEW to, NEW what, Moves(r, to, what),
         UNCHANGED directory, UNCHANGED shifted,
         notifications' \subseteq [by : Requests, user : Users, read : BOOLEAN],
         \A q, u : Told(q, u) => Told(q, u)',
         asked' = [asked EXCEPT ![r] = asked'[r]],
         TellsWell(r, to, what)'
  PROVE  NotificationsInv'
<1>1. /\ DeskTyped' /\ pc'[r] = to /\ held'[r] = what
      /\ \A q \in Requests \ {r} : pc'[q] = pc[q] /\ held'[q] = held[q]
  <2>1. DeskTyped
    BY DEF NotificationsInv
  <2> QED
    BY <2>1 DEF Moves, DeskTyped, Start, Step
<1>2. /\ asked' = [q \in Requests |-> asked'[q]]
      /\ \A q \in Requests \ {r} : asked'[q] = asked[q]
  BY DEF NotificationsInv
<1>3. UNCHANGED Support /\ \A u, page : OnPageFrom(u, page) => OnPageFrom(u, page)'
  BY DEF Support, OnPageFrom
<1>4. ASSUME NEW q \in Requests \ {r}
      PROVE  TellsWell(q, pc[q], held[q])'
  <2>1. TellsWell(q, pc[q], held[q])
    BY DEF NotificationsInv
  <2>2. pc'[q] = pc[q] /\ held'[q] = held[q] /\ asked'[q] = asked[q]
    BY <1>1, <1>2
  <2> QED
    BY <1>3, <2>1, <2>2 DEF TellsWell
<1>5. TellsWell(r, pc[r], held[r])'
  <2>1. PICK t, w : t = to /\ w = what
    OBVIOUS
  <2> QED
    BY <1>1 DEF TellsWell
<1> QED
  BY <1>1, <1>2, <1>4, <1>5 DEF NotificationsInv

\* An account is stored: whoever waits on a page to come still does.
LEMMA StoreAccountStep ==
  ASSUME NotificationsInv, NEW u \in Users, StoreAccount(u)
  PROVE  NotificationsInv'
<1>1. PICK k \in 0..Len(directory) :
         directory' = SubSeq(directory, 1, k) \o <<u>> \o SubSeq(directory, k + 1, Len(directory))
  BY DEF StoreAccount
<1>2. /\ UNCHANGED pc /\ UNCHANGED held /\ UNCHANGED overlapped
      /\ UNCHANGED notifications /\ UNCHANGED asked
      /\ shifted' = shifted \cup {r \in Requests : pc[r] = "counted"}
  BY DEF StoreAccount, deskVars
<1>3. directory \in Seq(Users) /\ Len(directory) \in Nat
  BY DEF NotificationsInv
<1>4. directory' \in Seq(Users) /\ Longer(directory', directory, k)
  <2>1. directory' = Inserted(directory, u, k)
    BY <1>1 DEF Inserted
  <2>2. /\ Inserted(directory, u, k) \in Seq(Users)
        /\ Longer(Inserted(directory, u, k), directory, k)
    BY <1>3, InsertionLengthens
  <2> QED
    BY <2>1, <2>2
<1>5. ASSUME NEW v, NEW page \in Nat, OnPageFrom(v, page)
      PROVE  OnPageFrom(v, page)'
  <2>1. PICK i \in Stays(directory, Others) :
           directory[i] = v /\ Place(Stays(directory, Others), i) > (page - 1) * PageSize
    BY <1>5 DEF OnPageFrom
  <2>2. PICK longer : longer = directory'
    OBVIOUS
  <2>3. PICK j \in Stays(longer, Others) :
           longer[j] = directory[i] /\ Place(Stays(directory, Others), i) <= Place(Stays(longer, Others), j)
    BY <1>3, <1>4, <2>2, PlacesRecede
  <2>4. /\ Place(Stays(directory, Others), i) \in Nat /\ Place(Stays(longer, Others), j) \in Nat
        /\ (page - 1) * PageSize \in Int
    <3>1. longer \in Seq(Users)
      BY <1>4, <2>2
    <3>2. /\ Len(directory) \in Nat /\ Stays(directory, Others) \in SUBSET (1..Len(directory))
          /\ Len(longer) \in Nat /\ Stays(longer, Others) \in SUBSET (1..Len(longer))
      BY <1>3, <3>1 DEF Stays
    <3>3. Place(Stays(directory, Others), i) \in Nat /\ Place(Stays(longer, Others), j) \in Nat
      BY <3>2, PlacesFinite
    <3> QED
      BY <3>3
  <2>5. Place(Stays(longer, Others), j) > (page - 1) * PageSize
    BY <2>1, <2>3, <2>4
  <2> QED
    BY <2>1, <2>2, <2>3, <2>5 DEF OnPageFrom, Stays, Place
<1>6. ASSUME NEW r \in Requests
      PROVE  TellsWell(r, pc[r], held[r])'
  <2>1. TellsWell(r, pc[r], held[r])
    BY DEF NotificationsInv
  <2>2. pc[r] = "counted" => r \in shifted'
    BY <1>2
  <2>3. \A q, v : Told(q, v) => Told(q, v)'
    BY <1>2 DEF Told
  <2> QED
    BY <1>2, <1>5, <2>1, <2>2, <2>3 DEF TellsWell
<1> QED
  BY <1>2, <1>4, <1>6 DEF NotificationsInv, DeskTyped

\* The next page, and what is left for the pages after it.
LEMMA PageTurns ==
  ASSUME directory \in Seq(Users), NEW page \in Nat \ {0}, NEW u, OnPageFrom(u, page)
  PROVE  \/ u \in OnPage(page)
         \/ OnPageFrom(u, page + 1) /\ HasNext(page, Len(Support))
<1>1. PICK i \in Stays(directory, Others) :
         directory[i] = u /\ Place(Stays(directory, Others), i) > (page - 1) * PageSize
  BY DEF OnPageFrom
<1>2. PICK n : n = Place(Stays(directory, Others), i)
  OBVIOUS
<1>3. n \in 1..Len(Support) /\ n \in DOMAIN Support /\ Support[n] = u /\ Len(Support) \in Nat
  BY <1>1, <1>2, SupportPlaces
<1>4. PICK low \in Int, high \in Int :
         low = (page - 1) * PageSize /\ high = page * PageSize
  OBVIOUS
<1>5. CASE n <= high
  <2>1. n \in (low + 1)..high
    BY <1>1, <1>2, <1>3, <1>4, <1>5
  <2> QED
    BY <1>3, <1>4, <2>1 DEF OnPage
<1>6. CASE n > high
  <2>1. (page + 1) - 1 = page
    OBVIOUS
  <2>2. OnPageFrom(u, page + 1)
    BY <1>1, <1>2, <1>4, <1>6, <2>1 DEF OnPageFrom
  <2>3. high < Len(Support)
    BY <1>3, <1>6
  <2> QED
    BY <1>4, <2>2, <2>3 DEF HasNext
<1> QED
  BY <1>3, <1>4, <1>5, <1>6

LEMMA NotificationsStepInv ==
  NotificationsInv /\ [NotificationsNext]_<<deskVars, notificationVars>> => NotificationsInv'
<1> SUFFICES ASSUME NotificationsInv, [NotificationsNext]_<<deskVars, notificationVars>>
             PROVE  NotificationsInv'
  OBVIOUS
<1> USE DEF notificationVars
<1>0. /\ directory \in Seq(Users)
      /\ notifications \subseteq [by : Requests, user : Users, read : BOOLEAN]
      /\ asked = [r \in Requests |-> asked[r]]
      /\ \A r \in Requests : TellsWell(r, pc[r], held[r])
  BY DEF NotificationsInv
<1>1. ASSUME NEW u \in Users, StoreAccount(u) PROVE NotificationsInv'
  BY <1>1, StoreAccountStep
<1>2. ASSUME NEW r \in Requests, NEW known \in BOOLEAN, TargetProject(r, known)
      PROVE  NotificationsInv'
  <2>1. PICK what : what = [targets |-> First(known) \cup ProjectStaff]
    OBVIOUS
  <2>2. Moves(r, "notifying", what)
    BY <1>2, <2>1 DEF TargetProject, Moves
  <2>3. /\ UNCHANGED directory /\ UNCHANGED notifications /\ UNCHANGED shifted
        /\ asked' = [asked EXCEPT ![r] = what.targets]
    BY <1>2, <2>1 DEF TargetProject
  <2>4. asked'[r] = what.targets /\ asked' = [asked EXCEPT ![r] = asked'[r]]
    BY <1>0, <2>3
  <2>5. TellsWell(r, "notifying", what)'
    BY <2>3, <2>4 DEF TellsWell
  <2> QED
    BY <1>0, <2>2, <2>3, <2>4, <2>5, HandlerMoves DEF Told
<1>3. ASSUME NEW r \in Requests, NEW known \in BOOLEAN, TargetSupport(r, known)
      PROVE  NotificationsInv'
  <2>1. PICK what : what = [targets |-> First(known), page |-> 1]
    OBVIOUS
  <2>2. Moves(r, "counting", what)
    BY <1>3, <2>1 DEF TargetSupport, Moves
  <2>3. /\ UNCHANGED directory /\ UNCHANGED notifications /\ UNCHANGED shifted
        /\ asked' = [asked EXCEPT ![r] = what.targets \cup SupportNow]
    BY <1>3, <2>1 DEF TargetSupport
  <2>4. /\ asked'[r] = what.targets \cup SupportNow
        /\ asked' = [asked EXCEPT ![r] = asked'[r]]
    BY <1>0, <2>3
  <2>5. TellsWell(r, "counting", what)'
    <3>1. \A u \in SupportNow : OnPageFrom(u, 1)'
      BY <1>0, <2>3, SupportPlaces DEF OnPageFrom
    <3> QED
      BY <2>1, <2>4, <3>1 DEF TellsWell
  <2> QED
    BY <1>0, <2>2, <2>3, <2>4, <2>5, HandlerMoves DEF Told
<1>4. ASSUME NEW r \in Requests, CountSupport(r) PROVE NotificationsInv'
  <2>1. /\ UNCHANGED directory /\ UNCHANGED notifications /\ UNCHANGED shifted /\ UNCHANGED asked
    BY <1>4 DEF CountSupport
  <2>2. asked' = [asked EXCEPT ![r] = asked'[r]]
    BY <1>0, <2>1
  <2>3. pc[r] = "counting"
    BY <1>4 DEF CountSupport, Step
  <2>4. TellsWell(r, "counting", held[r])
    BY <1>0, <2>3
  <2>5. CASE Support = <<>>
    <3>1. PICK what : what = [targets |-> held[r].targets]
      OBVIOUS
    <3>2. Moves(r, "notifying", what)
      BY <1>4, <2>5, <3>1, StepMoves DEF CountSupport, Ended
    <3>3. \A u, page : ~OnPageFrom(u, page)
      BY <1>0, <2>5, SupportPlaces DEF OnPageFrom
    <3>4. TellsWell(r, "notifying", what)'
      BY <2>1, <2>4, <3>1, <3>3 DEF TellsWell
    <3> QED
      BY <1>0, <2>1, <2>2, <3>2, <3>4, HandlerMoves DEF Told
  <2>6. CASE Support # <<>>
    <3>1. PICK what :
             what = [targets |-> held[r].targets, page |-> held[r].page, total |-> Len(Support)]
      OBVIOUS
    <3>2. Moves(r, "counted", what)
      BY <1>4, <2>6, <3>1, StepMoves DEF CountSupport, Ended
    <3>3. UNCHANGED Support /\ \A u, page : OnPageFrom(u, page) => OnPageFrom(u, page)'
      BY <2>1 DEF Support, OnPageFrom
    <3>4. TellsWell(r, "counted", what)'
      BY <2>1, <2>4, <3>1, <3>3 DEF TellsWell
    <3> QED
      BY <1>0, <2>1, <2>2, <3>2, <3>4, HandlerMoves DEF Told
  <2> QED
    BY <2>5, <2>6
<1>5. ASSUME NEW r \in Requests, FetchSupport(r) PROVE NotificationsInv'
  <2>1. /\ UNCHANGED directory /\ UNCHANGED notifications /\ UNCHANGED shifted /\ UNCHANGED asked
    BY <1>5 DEF FetchSupport
  <2>2. asked' = [asked EXCEPT ![r] = asked'[r]]
    BY <1>0, <2>1
  <2>3. pc[r] = "counted"
    BY <1>5 DEF FetchSupport
  <2>4. TellsWell(r, "counted", held[r])
    BY <1>0, <2>3
  <2>5. PICK page, targets :
           page = held[r].page /\ targets = held[r].targets \cup OnPage(held[r].page)
    OBVIOUS
  <2>6. page \in Nat \ {0}
    BY <2>4, <2>5 DEF TellsWell
  <2>7. r \notin shifted =>
           \A u \in asked[r] : \/ u \in targets
                               \/ OnPageFrom(u, page + 1) /\ HasNext(page, held[r].total)
    BY <1>0, <2>4, <2>5, <2>6, PageTurns DEF TellsWell
  <2>8. CASE HasNext(page, held[r].total)
    <3>1. PICK what : what = [targets |-> targets, page |-> page + 1]
      OBVIOUS
    <3>2. Moves(r, "counting", what)
      BY <1>5, <2>5, <2>8, <3>1, StepMoves DEF FetchSupport, Ended
    <3>3. \A u : OnPageFrom(u, page + 1) => OnPageFrom(u, page + 1)'
      BY <2>1 DEF OnPageFrom
    <3>4. TellsWell(r, "counting", what)'
      BY <2>1, <2>6, <2>7, <3>1, <3>3 DEF TellsWell
    <3> QED
      BY <1>0, <2>1, <2>2, <3>2, <3>4, HandlerMoves DEF Told
  <2>9. CASE ~HasNext(page, held[r].total)
    <3>1. PICK what : what = [targets |-> targets]
      OBVIOUS
    <3>2. Moves(r, "notifying", what)
      BY <1>5, <2>5, <2>9, <3>1, StepMoves DEF FetchSupport, Ended
    <3>3. TellsWell(r, "notifying", what)'
      BY <2>1, <2>7, <2>9, <3>1 DEF TellsWell
    <3> QED
      BY <1>0, <2>1, <2>2, <3>2, <3>3, HandlerMoves DEF Told
  <2> QED
    BY <2>8, <2>9
<1>6. ASSUME NEW r \in Requests, NEW u \in Users, StoreNotification(r, u)
      PROVE  NotificationsInv'
  <2>1. /\ UNCHANGED directory /\ UNCHANGED shifted /\ UNCHANGED asked
        /\ notifications' = notifications \cup {[by |-> r, user |-> u, read |-> FALSE]}
        /\ pc[r] = "notifying"
    BY <1>6 DEF StoreNotification
  <2>2. asked' = [asked EXCEPT ![r] = asked'[r]]
    BY <1>0, <2>1
  <2>3. TellsWell(r, "notifying", held[r])
    BY <1>0, <2>1
  <2>4. PICK what :
           what = [targets |-> held[r].targets \ {u}, user |-> u, left |-> Resolved(u)]
    OBVIOUS
  <2>5. Moves(r, "sending", what)
    BY <1>6, <2>4, StepMoves DEF StoreNotification, Ended
  <2>6. Told(r, u)' /\ \A q, v : Told(q, v) => Told(q, v)'
    <3>1. PICK row : row = [by |-> r, user |-> u, read |-> FALSE]
      OBVIOUS
    <3>2. row.by = r /\ row.user = u /\ notifications' = notifications \cup {row}
      BY <2>1, <3>1
    <3> QED
      BY <3>2 DEF Told
  <2>7. notifications' \subseteq [by : Requests, user : Users, read : BOOLEAN]
    <3>1. [by |-> r, user |-> u, read |-> FALSE] \in [by : Requests, user : Users, read : BOOLEAN]
      OBVIOUS
    <3> QED
      BY <1>0, <2>1, <3>1
  <2>8. TellsWell(r, "sending", what)'
    BY <2>1, <2>3, <2>4, <2>6 DEF TellsWell
  <2> QED
    BY <2>1, <2>2, <2>5, <2>6, <2>7, <2>8, HandlerMoves
<1>7. ASSUME NEW r \in Requests, NEW channel \in Media, SendBy(r, channel)
      PROVE  NotificationsInv'
  <2>1. /\ UNCHANGED directory /\ UNCHANGED notifications /\ UNCHANGED shifted /\ UNCHANGED asked
        /\ pc[r] = "sending"
    BY <1>7 DEF SendBy
  <2>2. asked' = [asked EXCEPT ![r] = asked'[r]]
    BY <1>0, <2>1
  <2>3. TellsWell(r, "sending", held[r])
    BY <1>0, <2>1
  <2>4. PICK what : what = [held[r] EXCEPT !.left = @ \ {channel}]
    OBVIOUS
  <2>5. what.targets = held[r].targets
        /\ what = [targets |-> what.targets, user |-> what.user, left |-> what.left]
    BY <2>3, <2>4 DEF TellsWell
  <2>6. Moves(r, "sending", what)
    BY <1>7, <2>4, StepMoves DEF SendBy, Ended
  <2>7. TellsWell(r, "sending", what)'
    BY <2>1, <2>3, <2>5 DEF TellsWell, Told
  <2> QED
    BY <1>0, <2>1, <2>2, <2>6, <2>7, HandlerMoves DEF Told
<1>8. ASSUME NEW r \in Requests, NextTarget(r) PROVE NotificationsInv'
  <2>1. /\ UNCHANGED directory /\ UNCHANGED notifications /\ UNCHANGED shifted /\ UNCHANGED asked
        /\ pc[r] = "sending"
    BY <1>8 DEF NextTarget
  <2>2. asked' = [asked EXCEPT ![r] = asked'[r]]
    BY <1>0, <2>1
  <2>3. TellsWell(r, "sending", held[r])
    BY <1>0, <2>1
  <2>4. PICK what : what = [targets |-> held[r].targets]
    OBVIOUS
  <2>5. Moves(r, "notifying", what)
    BY <1>8, <2>4, StepMoves DEF NextTarget, Ended
  <2>6. TellsWell(r, "notifying", what)'
    BY <2>1, <2>3, <2>4 DEF TellsWell, Told
  <2> QED
    BY <1>0, <2>1, <2>2, <2>5, <2>6, HandlerMoves DEF Told
<1>9. ASSUME NEW r \in Requests, HandlerEnds(r) PROVE NotificationsInv'
  <2>1. /\ UNCHANGED directory /\ UNCHANGED notifications /\ UNCHANGED shifted /\ UNCHANGED asked
        /\ pc[r] = "notifying" /\ held[r].targets = {}
    BY <1>9 DEF HandlerEnds
  <2>2. asked' = [asked EXCEPT ![r] = asked'[r]]
    BY <1>0, <2>1
  <2>3. TellsWell(r, "notifying", held[r])
    BY <1>0, <2>1
  <2>4. Moves(r, "done", None)
    BY <1>9, EndMoves DEF HandlerEnds, Ended
  <2>5. TellsWell(r, "done", None)'
    BY <2>1, <2>3 DEF TellsWell, Told
  <2> QED
    BY <1>0, <2>1, <2>2, <2>4, <2>5, HandlerMoves DEF Told
<1>10. ASSUME NEW r \in Requests, NEW n \in notifications, ReadNotification(r, n)
       PROVE  NotificationsInv'
  <2>1. /\ UNCHANGED directory /\ UNCHANGED notifications /\ UNCHANGED shifted /\ UNCHANGED asked
        /\ pc[r] = "idle"
    BY <1>10 DEF ReadNotification, Start
  <2>2. asked' = [asked EXCEPT ![r] = asked'[r]]
    BY <1>0, <2>1
  <2>3. asked[r] = {}
    BY <1>0, <2>1 DEF TellsWell
  <2>4. PICK what : what = n
    OBVIOUS
  <2>5. Moves(r, "marking", what)
    BY <1>10, <2>4 DEF ReadNotification, Moves
  <2>6. TellsWell(r, "marking", what)'
    BY <1>0, <2>1, <2>3, <2>4 DEF TellsWell
  <2> QED
    BY <1>0, <2>1, <2>2, <2>5, <2>6, HandlerMoves DEF Told
<1>11. ASSUME NEW r \in Requests, NEW by \in Users, MarkAsRead(r, by)
       PROVE  NotificationsInv'
  <2>1. /\ UNCHANGED directory /\ UNCHANGED shifted /\ UNCHANGED asked
        /\ pc[r] = "marking"
        /\ notifications' = IF held[r].read THEN notifications
                            ELSE (notifications \ {held[r]}) \cup {[held[r] EXCEPT !.read = TRUE]}
    BY <1>11 DEF MarkAsRead
  <2>2. asked' = [asked EXCEPT ![r] = asked'[r]]
    BY <1>0, <2>1
  <2>3. TellsWell(r, "marking", held[r])
    BY <1>0, <2>1
  <2>4. PICK row : row = [held[r] EXCEPT !.read = TRUE]
    OBVIOUS
  <2>5. /\ held[r] \in [by : Requests, user : Users, read : BOOLEAN]
        /\ row \in [by : Requests, user : Users, read : BOOLEAN]
        /\ row.by = held[r].by /\ row.user = held[r].user
    BY <2>3, <2>4 DEF TellsWell
  <2>6. notifications' = notifications
        \/ notifications' = (notifications \ {held[r]}) \cup {row}
    BY <2>1, <2>4
  <2>7. ASSUME NEW q, NEW v, Told(q, v)
        PROVE  Told(q, v)'
    <3>1. PICK n \in notifications : n.by = q /\ n.user = v
      BY <2>7 DEF Told
    <3>2. \E m \in notifications' : m.by = q /\ m.user = v
      BY <2>5, <2>6, <3>1
    <3> QED
      BY <3>2 DEF Told
  <2>8. notifications' \subseteq [by : Requests, user : Users, read : BOOLEAN]
    BY <1>0, <2>5, <2>6
  <2>9. Moves(r, "done", None)
    BY <1>11, EndMoves DEF MarkAsRead, Ended
  <2>10. TellsWell(r, "done", None)'
    BY <2>1, <2>3 DEF TellsWell
  <2> QED
    BY <2>1, <2>2, <2>7, <2>8, <2>9, <2>10, HandlerMoves
<1>12. ASSUME NEW r \in Requests, Abandon(r), UNCHANGED notificationVars
       PROVE  NotificationsInv'
  <2>1. /\ UNCHANGED directory /\ UNCHANGED notifications /\ UNCHANGED shifted /\ UNCHANGED asked
    BY <1>12
  <2>2. asked' = [asked EXCEPT ![r] = asked'[r]]
    BY <1>0, <2>1
  <2>3. Moves(r, "failed", None)
    BY <1>12, AbandonMoves
  <2>4. TellsWell(r, "failed", None)'
    BY DEF TellsWell
  <2> QED
    BY <1>0, <2>1, <2>2, <2>3, <2>4, HandlerMoves DEF Told
<1>13. CASE UNCHANGED <<deskVars, notificationVars>>
  <2>1. /\ UNCHANGED directory /\ UNCHANGED notifications /\ UNCHANGED shifted /\ UNCHANGED asked
        /\ UNCHANGED pc /\ UNCHANGED held
    BY <1>13 DEF deskVars
  <2>2. UNCHANGED Support
    BY <2>1 DEF Support
  <2>3. ASSUME NEW r \in Requests PROVE TellsWell(r, pc[r], held[r])'
    BY <1>0, <2>1, <2>2 DEF TellsWell, Told, OnPageFrom
  <2> QED
    BY <1>0, <2>1, <2>3 DEF NotificationsInv, DeskTyped
<1> QED
  BY <1>1, <1>2, <1>3, <1>4, <1>5, <1>6, <1>7, <1>8, <1>9, <1>10, <1>11, <1>12, <1>13
     DEF NotificationsNext

\* A handler that ended has stored a notification for everybody it was to tell,
\* unless an account was stored between a count and its page: for any accounts,
\* page size, channels and preferences.
THEOREM StaffHearsOfTickets == NotificationsSpec => []StaffIsTold
<1>1. NotificationsInv => StaffIsTold
  BY DEF NotificationsInv, StaffIsTold, TellsWell, Told
<1> QED
  BY <1>1, NotificationsInitInv, NotificationsStepInv, PTL DEF NotificationsSpec

HIDE NotificationsAssumption

-----------------------------------------------------------------------------
(* Projects: the keys that are refused, the members that are read.         *)
(*                                                                         *)
(* A refusal is the end of a chain of attempts, so the request that makes  *)
(* them carries what it has found: every candidate before the current one  *)
(* is the key of a project, and projects stay.                             *)

USE ProjectsAssumption

TryingRecords == [asked : KeysAsked, attempt : 1..MaxAttempts, owner : Users,
                  counterparty : BOOLEAN]

\* A request on its n-th candidate has found the ones before in use.
AttemptsFailed ==
    \A r \in Requests : pc[r] = "trying" =>
        /\ held[r] \in TryingRecords
        /\ held[r].counterparty =>
              \A n \in 1..(held[r].attempt - 1) : Candidate(held[r].asked, n) \in KeysInUse

\* A project and its members are named by the request that has stored it.
ProjectsNamed ==
    /\ \A p \in projects : p.id \in Requests /\ pc[p.id] = "done"
    /\ \A p, q \in projects : p.id = q.id => p = q
    /\ \A m \in members : m.project \in Requests /\ pc[m.project] = "done"
    /\ \A r \in Requests : pc[r] \in {"members", "merged"} => held[r].project \in projects

OwnersBelong ==
    \A p \in projects :
        \E m \in MembersOf(p) : \A n \in MembersOf(p) : n.user = p.owner <=> n = m

\* The owner is among the members that are read, and so among none that are added.
OwnersRead ==
    \A r \in Requests :
        /\ pc[r] = "members" => \E m \in held[r].members : m.user = held[r].project.owner
        /\ pc[r] = "merged" => held[r].project.owner \notin held[r].added

\* One row for each member of a project, counting the rows that are about to be.
MembersUnique ==
    ~overlapped =>
        /\ \A m, n \in members : m.project = n.project /\ m.user = n.user => m = n
        /\ \A r \in Requests :
              /\ pc[r] = "members" => held[r].members = MembersOf(held[r].project)
              /\ pc[r] = "merged" =>
                    \A m \in members : m.project = held[r].project.id => m.user \notin held[r].added

ProjectsInv ==
    /\ DeskTyped /\ OneAtATime
    /\ AttemptsFailed /\ RefusedKeysAreTaken
    /\ ProjectsNamed /\ OwnersBelong /\ OwnersRead /\ MembersUnique

LEMMA ProjectsInitInv == DeskInit /\ ProjectsInit => ProjectsInv
BY DeskInitTyped DEF DeskInit, ProjectsInit, ProjectsInv, AttemptsFailed, RefusedKeysAreTaken,
   ProjectsNamed, OwnersBelong, OwnersRead, MembersUnique

\* A request that moves while the rows stay: what it holds then is as sound as before.
LEMMA ProjectsQuiet ==
  ASSUME ProjectsInv, NEW r \in Requests, NEW to, NEW what, Moves(r, to, what),
         pc[r] # "done", UNCHANGED projectVars,
         to = "trying" =>
            /\ what \in TryingRecords
            /\ what.counterparty =>
                  \A n \in 1..(what.attempt - 1) : Candidate(what.asked, n) \in KeysInUse,
         to \in {"members", "merged"} => what.project \in projects,
         to = "members" => \E m \in what.members : m.user = what.project.owner,
         to = "merged" => what.project.owner \notin what.added,
         ~overlapped /\ to = "members" => what.members = MembersOf(what.project),
         ~overlapped /\ to = "merged" =>
            \A m \in members : m.project = what.project.id => m.user \notin what.added
  PROVE  ProjectsInv'
<1>1. /\ DeskTyped' /\ OneAtATime'
      /\ pc'[r] = to /\ held'[r] = what
      /\ \A q \in Requests \ {r} : pc'[q] = pc[q] /\ held'[q] = held[q]
      /\ ~overlapped' => ~overlapped
  BY MoveTouches DEF ProjectsInv
<1>2. /\ UNCHANGED projects /\ UNCHANGED members /\ UNCHANGED refusals /\ UNCHANGED KeysInUse
      /\ \A p : UNCHANGED MembersOf(p)
  BY DEF projectVars, KeysInUse, MembersOf
<1>3. AttemptsFailed'
  <2> SUFFICES ASSUME NEW q \in Requests, pc'[q] = "trying"
               PROVE  /\ held'[q] \in TryingRecords
                      /\ held'[q].counterparty =>
                           \A n \in 1..(held'[q].attempt - 1) :
                               Candidate(held'[q].asked, n) \in KeysInUse
    BY <1>2 DEF AttemptsFailed, Candidate
  <2>1. CASE q = r
    BY <1>1, <2>1
  <2>2. CASE q # r
    BY <1>1, <2>2 DEF ProjectsInv, AttemptsFailed
  <2> QED
    BY <2>1, <2>2
<1>4. RefusedKeysAreTaken'
  BY <1>2 DEF ProjectsInv, RefusedKeysAreTaken
<1>5. ProjectsNamed'
  BY <1>1, <1>2 DEF ProjectsInv, ProjectsNamed
<1>6. OwnersBelong'
  BY <1>2 DEF ProjectsInv, OwnersBelong
<1>7. MembersUnique'
  <2> SUFFICES ASSUME ~overlapped'
               PROVE  /\ \A m, n \in members : m.project = n.project /\ m.user = n.user => m = n
                      /\ \A q \in Requests :
                            /\ pc'[q] = "members" => held'[q].members = MembersOf(held'[q].project)
                            /\ pc'[q] = "merged" =>
                                  \A m \in members : m.project = held'[q].project.id
                                                        => m.user \notin held'[q].added
    BY <1>2 DEF MembersUnique, MembersOf
  <2>1. MembersUnique /\ ~overlapped
    BY <1>1 DEF ProjectsInv
  <2> QED
    BY <1>1, <2>1 DEF MembersUnique
<1>8. OwnersRead'
  BY <1>1 DEF ProjectsInv, OwnersRead
<1> QED
  BY <1>1, <1>3, <1>4, <1>5, <1>6, <1>7, <1>8 DEF ProjectsInv

\* The next candidate, or the refusal: the one just tried is in use.
LEMMA TryNextKeyStep ==
  ASSUME ProjectsInv, NEW r \in Requests, TryNextKey(r)
  PROVE  ProjectsInv'
<1>1. /\ pc[r] = "trying" /\ held[r] \in TryingRecords
      /\ held[r].counterparty =>
            \A n \in 1..(held[r].attempt - 1) : Candidate(held[r].asked, n) \in KeysInUse
  BY DEF TryNextKey, ProjectsInv, AttemptsFailed
<1>2. held[r].counterparty => Candidate(held[r].asked, held[r].attempt) \in KeysInUse
  BY DEF TryNextKey, KeyRefused, Trying
<1>3. held[r].attempt \in 1..MaxAttempts
  BY <1>1 DEF TryingRecords
<1>4. held[r].counterparty =>
         \A n \in 1..held[r].attempt : Candidate(held[r].asked, n) \in KeysInUse
  <2> SUFFICES ASSUME held[r].counterparty, NEW n \in 1..held[r].attempt
               PROVE  Candidate(held[r].asked, n) \in KeysInUse
    OBVIOUS
  <2>1. CASE n = held[r].attempt
    BY <1>2, <2>1
  <2>2. CASE n # held[r].attempt
    <3>1. n \in 1..(held[r].attempt - 1)
      BY <1>3, <2>2
    <3> QED
      BY <1>1, <3>1
  <2> QED
    BY <2>1, <2>2
<1>5. CASE held[r].attempt < MaxAttempts
  <2> DEFINE what == [held[r] EXCEPT !.attempt = @ + 1]
  <2>1. Step(r, "trying", "trying", what) /\ UNCHANGED projectVars
    BY <1>5 DEF TryNextKey
  <2>2. /\ what \in TryingRecords /\ what.attempt - 1 = held[r].attempt
        /\ what.asked = held[r].asked /\ what.counterparty = held[r].counterparty
    BY <1>1, <1>3, <1>5 DEF TryingRecords
  <2> HIDE DEF what
  <2>3. Moves(r, "trying", what)
    BY <2>1, StepMoves DEF Ended
  <2>4. what.counterparty =>
           \A n \in 1..(what.attempt - 1) : Candidate(what.asked, n) \in KeysInUse
    BY <1>4, <2>2
  <2> QED
    BY <1>1, <2>1, <2>2, <2>3, <2>4, ProjectsQuiet
<1>6. CASE ~(held[r].attempt < MaxAttempts)
  <2>1. /\ End(r, "trying", "exists") /\ UNCHANGED projects /\ UNCHANGED members
        /\ refusals' = refusals \cup IF held[r].counterparty THEN {held[r].asked} ELSE {}
    BY <1>6 DEF TryNextKey
  <2>2. Moves(r, "exists", None)
    BY <2>1, EndMoves DEF Ended
  <2>3. /\ DeskTyped' /\ OneAtATime'
        /\ pc'[r] = "exists"
        /\ \A q \in Requests \ {r} : pc'[q] = pc[q] /\ held'[q] = held[q]
        /\ ~overlapped' => ~overlapped
    BY <2>2, MoveTouches DEF ProjectsInv
  <2>4. UNCHANGED KeysInUse /\ \A p : UNCHANGED MembersOf(p)
    BY <2>1 DEF KeysInUse, MembersOf
  <2>5. held[r].attempt = MaxAttempts
    BY <1>3, <1>6
  <2>6. RefusedKeysAreTaken'
    <3> SUFFICES ASSUME NEW key \in refusals', NEW n \in 1..MaxAttempts
                 PROVE  Candidate(key, n) \in KeysInUse
      BY <2>4 DEF RefusedKeysAreTaken
    <3>1. CASE key \in refusals
      BY <3>1 DEF ProjectsInv, RefusedKeysAreTaken
    <3>2. CASE key \notin refusals
      BY <1>4, <2>1, <2>5, <3>2
    <3> QED
      BY <3>1, <3>2
  <2>7. AttemptsFailed'
    BY <2>3, <2>4 DEF ProjectsInv, AttemptsFailed
  <2>8. ProjectsNamed'
    BY <1>1, <2>1, <2>3 DEF ProjectsInv, ProjectsNamed
  <2>9. OwnersBelong'
    BY <2>1 DEF ProjectsInv, OwnersBelong, MembersOf
  <2>10. MembersUnique'
    BY <2>1, <2>3 DEF ProjectsInv, MembersUnique, MembersOf
  <2>11. OwnersRead'
    BY <2>3 DEF ProjectsInv, OwnersRead
  <2> QED
    BY <2>3, <2>6, <2>7, <2>8, <2>9, <2>10, <2>11 DEF ProjectsInv
<1> QED
  BY <1>5, <1>6

\* A project and its owner's membership appear together, under an id nobody knows.
LEMMA CommitProjectStep ==
  ASSUME ProjectsInv, NEW r \in Requests, CommitProject(r)
  PROVE  ProjectsInv'
<1> DEFINE p == [id |-> r, key |-> held[r].key, owner |-> held[r].owner]
           m == [by |-> r, project |-> r, user |-> held[r].owner]
<1>1. /\ End(r, "inserted", "done") /\ UNCHANGED refusals
      /\ projects' = projects \cup {p} /\ members' = members \cup {m}
  BY DEF CommitProject
<1>2. Moves(r, "done", None) /\ pc[r] = "inserted"
  BY <1>1, EndMoves DEF Ended
<1>3. /\ DeskTyped' /\ OneAtATime'
      /\ pc'[r] = "done"
      /\ \A q \in Requests \ {r} : pc'[q] = pc[q] /\ held'[q] = held[q]
      /\ ~overlapped' =>
            /\ ~overlapped
            /\ \A q \in Requests \ {r} : ~InProgress(q) /\ ~InProgress(q)'
  BY <1>2, MoveTouches DEF ProjectsInv
<1>4. /\ p.id = r /\ p.owner = held[r].owner
      /\ m.project = r /\ m.user = held[r].owner
  OBVIOUS
<1> HIDE DEF p, m
<1>5. KeysInUse \subseteq KeysInUse'
  BY <1>1 DEF KeysInUse
<1>6. AttemptsFailed'
  BY <1>3, <1>5 DEF ProjectsInv, AttemptsFailed
<1>7. RefusedKeysAreTaken'
  BY <1>1, <1>5 DEF ProjectsInv, RefusedKeysAreTaken
<1>8. ProjectsNamed'
  BY <1>1, <1>2, <1>3, <1>4 DEF ProjectsInv, ProjectsNamed
<1>9. OwnersBelong'
  <2> SUFFICES ASSUME NEW q \in projects'
               PROVE  \E x \in MembersOf(q)' : \A n \in MembersOf(q)' : n.user = q.owner <=> n = x
    BY DEF OwnersBelong, MembersOf
  <2>1. \A n \in members : n.project # r
    BY <1>2 DEF ProjectsInv, ProjectsNamed
  <2>2. CASE q \in projects
    <3>1. q.id # r
      BY <1>2, <2>2 DEF ProjectsInv, ProjectsNamed
    <3>2. MembersOf(q)' = MembersOf(q)
      BY <1>1, <1>4, <3>1 DEF MembersOf
    <3> QED
      BY <2>2, <3>2 DEF ProjectsInv, OwnersBelong
  <2>3. CASE q = p
    <3>1. MembersOf(q)' = {m}
      BY <1>1, <1>4, <2>1, <2>3 DEF MembersOf
    <3> QED
      BY <1>4, <2>3, <3>1
  <2> QED
    BY <1>1, <2>2, <2>3
<1>10. OwnersRead'
  BY <1>3 DEF ProjectsInv, OwnersRead
<1>11. MembersUnique'
  <2> SUFFICES ASSUME ~overlapped' PROVE MembersUnique'
    BY DEF MembersUnique
  <2>1. \A n \in members : n.project # r
    BY <1>2 DEF ProjectsInv, ProjectsNamed
  <2>2. \A x, n \in members' : x.project = n.project /\ x.user = n.user => x = n
    BY <1>1, <1>3, <1>4, <2>1 DEF ProjectsInv, MembersUnique
  <2>3. \A q \in Requests : pc'[q] \notin {"members", "merged"}
    BY <1>3 DEF InProgress, Ended
  <2> QED
    BY <2>2, <2>3 DEF MembersUnique
<1> QED
  BY <1>3, <1>6, <1>7, <1>8, <1>9, <1>10, <1>11 DEF ProjectsInv

\* Members appear who were in nobody's list.
LEMMA CommitMembersStep ==
  ASSUME ProjectsInv, NEW r \in Requests, CommitMembers(r)
  PROVE  ProjectsInv'
<1> DEFINE p == held[r].project
           added == held[r].added
           new == {[by |-> r, project |-> p.id, user |-> u] : u \in added}
<1>1. /\ pc[r] = "merged" /\ End(r, "merged", "done")
      /\ UNCHANGED refusals /\ UNCHANGED projects
      /\ members' = members \cup new
  BY DEF CommitMembers
<1>2. Moves(r, "done", None)
  BY <1>1, EndMoves DEF Ended
<1>3. /\ DeskTyped' /\ OneAtATime'
      /\ pc'[r] = "done"
      /\ \A q \in Requests \ {r} : pc'[q] = pc[q] /\ held'[q] = held[q]
      /\ ~overlapped' =>
            /\ ~overlapped
            /\ \A q \in Requests \ {r} : ~InProgress(q) /\ ~InProgress(q)'
  BY <1>2, MoveTouches DEF ProjectsInv
<1>4. /\ \A n \in new : n.project = p.id /\ n.user \in added
      /\ \A x, n \in new : x.user = n.user => x = n
  OBVIOUS
<1>5. p \in projects
  BY <1>1 DEF ProjectsInv, ProjectsNamed
<1>6. ~overlapped => \A n \in members : n.project = p.id => n.user \notin added
  BY <1>1 DEF ProjectsInv, MembersUnique
<1>7. p.owner \notin added
  BY <1>1 DEF ProjectsInv, OwnersRead
<1> HIDE DEF p, added, new
<1>8. UNCHANGED KeysInUse
  BY <1>1 DEF KeysInUse
<1>9. AttemptsFailed'
  BY <1>3, <1>8 DEF ProjectsInv, AttemptsFailed
<1>10. RefusedKeysAreTaken'
  BY <1>1, <1>8 DEF ProjectsInv, RefusedKeysAreTaken
<1>11. ProjectsNamed'
  BY <1>1, <1>3, <1>4, <1>5 DEF ProjectsInv, ProjectsNamed
<1>12. OwnersBelong'
  <2> SUFFICES ASSUME NEW q \in projects
               PROVE  \E x \in MembersOf(q)' : \A n \in MembersOf(q)' : n.user = q.owner <=> n = x
    BY <1>1 DEF OwnersBelong, MembersOf
  <2>1. PICK x \in MembersOf(q) : \A n \in MembersOf(q) : n.user = q.owner <=> n = x
    BY DEF ProjectsInv, OwnersBelong
  <2>2. q.id = p.id => q.owner \notin added
    BY <1>5, <1>7 DEF ProjectsInv, ProjectsNamed
  <2>3. \A n \in new : n.project = q.id => n.user # q.owner
    BY <1>4, <2>2
  <2>4. x \in MembersOf(q)' /\ x.user = q.owner
    BY <1>1, <2>1 DEF MembersOf
  <2>5. \A n \in MembersOf(q)' : n.user = q.owner => n \in MembersOf(q)
    BY <1>1, <2>3 DEF MembersOf
  <2> QED
    BY <2>1, <2>4, <2>5
<1>13. OwnersRead'
  BY <1>3 DEF ProjectsInv, OwnersRead
<1>14. MembersUnique'
  <2> SUFFICES ASSUME ~overlapped' PROVE MembersUnique'
    BY DEF MembersUnique
  <2>1. \A x, n \in members : x.project = n.project /\ x.user = n.user => x = n
    BY <1>3 DEF ProjectsInv, MembersUnique
  <2>2. \A x, n \in members' : x.project = n.project /\ x.user = n.user => x = n
    BY <1>1, <1>3, <1>4, <1>6, <2>1
  <2>3. \A q \in Requests : pc'[q] \notin {"members", "merged"}
    BY <1>3 DEF InProgress, Ended
  <2> QED
    BY <2>2, <2>3 DEF MembersUnique
<1> QED
  BY <1>3, <1>9, <1>10, <1>11, <1>12, <1>14, <1>13 DEF ProjectsInv

LEMMA ProjectsStepInv ==
  ProjectsInv /\ [ProjectsNext]_<<deskVars, projectVars>> => ProjectsInv'
<1> SUFFICES ASSUME ProjectsInv, [ProjectsNext]_<<deskVars, projectVars>> PROVE ProjectsInv'
  OBVIOUS
<1>1. CASE UNCHANGED <<deskVars, projectVars>>
  BY <1>1 DEF deskVars, projectVars, ProjectsInv, DeskTyped, OneAtATime, InProgress,
     AttemptsFailed, RefusedKeysAreTaken, ProjectsNamed, OwnersBelong, OwnersRead, MembersUnique,
     MembersOf, KeysInUse
<1>2. ASSUME NEW r \in Requests, NEW key \in KeysAsked, NEW owner \in Users,
             NEW known \in BOOLEAN, CreateProject(r, key, owner, known)
      PROVE  ProjectsInv'
  <2> DEFINE what == [asked |-> key, attempt |-> 1, owner |-> owner, counterparty |-> known]
  <2>1. Start(r, "trying", what) /\ UNCHANGED projectVars
    BY <1>2 DEF CreateProject
  <2>2. what \in TryingRecords /\ 1..(what.attempt - 1) = {}
    BY DEF TryingRecords
  <2> HIDE DEF what
  <2>3. Moves(r, "trying", what) /\ pc[r] # "done"
    BY <2>1 DEF Moves, Start
  <2> QED
    BY <2>1, <2>2, <2>3, ProjectsQuiet
<1>3. ASSUME NEW r \in Requests, NEW to \in {"failed"}, NEW from,
             from \notin Ended \cup {"idle"}, End(r, from, to), UNCHANGED projectVars
      PROVE  ProjectsInv'
  <2>1. Moves(r, to, None) /\ pc[r] = from
    BY <1>3, EndMoves
  <2>2. pc[r] # "done"
    BY <1>3, <2>1 DEF Ended
  <2> QED
    BY <1>3, <2>1, <2>2, ProjectsQuiet
<1>4. ASSUME NEW r \in Requests, KeyInvalid(r) \/ MembersConflict(r) PROVE ProjectsInv'
  BY <1>3, <1>4 DEF KeyInvalid, MembersConflict, Ended
<1>5. ASSUME NEW r \in Requests, Abandon(r), UNCHANGED projectVars PROVE ProjectsInv'
  BY <1>3, <1>5 DEF Abandon, InProgress
<1>6. ASSUME NEW r \in Requests, InsertProject(r) PROVE ProjectsInv'
  <2>1. PICK what : Step(r, "trying", "inserted", what) /\ UNCHANGED projectVars
    BY <1>6 DEF InsertProject
  <2>2. Moves(r, "inserted", what) /\ pc[r] = "trying"
    BY <2>1, StepMoves DEF Ended
  <2> QED
    BY <2>1, <2>2, ProjectsQuiet
<1>7. ASSUME NEW r \in Requests, NEW p \in projects, ReadProject(r, p) PROVE ProjectsInv'
  <2> DEFINE what == [project |-> p, members |-> MembersOf(p)]
  <2>1. Start(r, "members", what) /\ UNCHANGED projectVars
    BY <1>7 DEF ReadProject
  <2>2. what.project = p /\ what.members = MembersOf(p)
    OBVIOUS
  <2> HIDE DEF what
  <2>3. Moves(r, "members", what) /\ pc[r] # "done"
    BY <2>1 DEF Moves, Start
  <2>4. \E m \in what.members : m.user = what.project.owner
    BY <2>2 DEF ProjectsInv, OwnersBelong
  <2> QED
    BY <2>1, <2>2, <2>3, <2>4, ProjectsQuiet
<1>8. ASSUME NEW r \in Requests, NEW by \in Users, NEW users \in SUBSET Users,
             AddMembers(r, by, users)
      PROVE  ProjectsInv'
  <2>1. PICK base : Step(r, "members", "merged",
                        [project |-> held[r].project, added |-> users,
                         detached |-> base \ held[r].members])
    BY <1>8 DEF AddMembers
  <2> DEFINE what == [project |-> held[r].project, added |-> users,
                      detached |-> base \ held[r].members]
  <2>2. what.project = held[r].project /\ what.added = users
    OBVIOUS
  <2> HIDE DEF what
  <2>3. Moves(r, "merged", what) /\ pc[r] = "members" /\ UNCHANGED projectVars
    BY <1>8, <2>1, StepMoves DEF Ended, AddMembers, what
  <2>4. held[r].project \in projects
    BY <2>3 DEF ProjectsInv, ProjectsNamed
  <2>5. ~overlapped => \A m \in members : m.project = held[r].project.id => m.user \notin users
    <3>1. ~overlapped => held[r].members = MembersOf(held[r].project)
      BY <2>3 DEF ProjectsInv, MembersUnique
    <3>2. users \cap {m.user : m \in held[r].members} = {}
      BY <1>8 DEF AddMembers
    <3> QED
      BY <3>1, <3>2 DEF MembersOf
  <2>6. held[r].project.owner \notin users
    BY <1>8, <2>3 DEF AddMembers, ProjectsInv, OwnersRead
  <2> QED
    BY <2>2, <2>3, <2>4, <2>5, <2>6, ProjectsQuiet
<1> QED
  BY <1>1, <1>2, <1>4, <1>5, <1>6, <1>7, <1>8, TryNextKeyStep, CommitProjectStep,
     CommitMembersStep
     DEF ProjectsNext

LEMMA ProjectsInvariant == ProjectsSpec => []ProjectsInv
BY ProjectsInitInv, ProjectsStepInv, PTL DEF ProjectsSpec

\* A set whose elements are equal has at most one.
LEMMA AtMostOne ==
  ASSUME NEW S, \A m, n \in S : m = n
  PROVE  Cardinality(S) <= 1
<1>1. CASE S = {}
  <2>1. Cardinality(S) = 0
    BY <1>1, FS_EmptySet
  <2> QED
    BY <2>1
<1>2. ASSUME NEW m \in S
      PROVE  Cardinality(S) <= 1
  <2>1. S = {m}
    BY <1>2
  <2>2. Cardinality(S) = 1
    BY <2>1, FS_Singleton
  <2> QED
    BY <2>2
<1> QED
  BY <1>1, <1>2

\* For any number of creations that race: whoever is told that the key cannot be made
\* unique, and named a counterparty that exists, finds a project under every candidate
\* (ProjectService.create).
THEOREM RefusalsAreTrue == ProjectsSpec => []RefusedKeysAreTaken
<1>1. ProjectsInv => RefusedKeysAreTaken
  BY DEF ProjectsInv
<1> QED
  BY ProjectsInvariant, <1>1, PTL

\* For any number of requests: however they overlap a project has one membership of its
\* owner, and until they do nobody is a member twice, so that get_membership finds one row.
THEOREM MembershipsStayReadable == ProjectsSpec => []MembershipsReadable
<1>1. ProjectsInv => MembershipsReadable
  <2> SUFFICES ASSUME ProjectsInv, NEW p \in projects
               PROVE  /\ Cardinality(Memberships(p, p.owner)) = 1
                      /\ ~overlapped => \A u \in Users : Cardinality(Memberships(p, u)) <= 1
    BY DEF MembershipsReadable
  <2>1. Cardinality(Memberships(p, p.owner)) = 1
    <3>1. PICK m \in MembersOf(p) : \A n \in MembersOf(p) : n.user = p.owner <=> n = m
      BY DEF ProjectsInv, OwnersBelong
    <3>2. Memberships(p, p.owner) = {m}
      BY <3>1 DEF Memberships
    <3> QED
      BY <3>2, FS_Singleton
  <2>2. ASSUME ~overlapped, NEW u \in Users
        PROVE  Cardinality(Memberships(p, u)) <= 1
    <3>1. \A m, n \in Memberships(p, u) : m = n
      BY <2>2 DEF ProjectsInv, MembersUnique, MembersOf, Memberships
    <3> QED
      BY <3>1, AtMostOne
  <2> QED
    BY <2>1, <2>2
<1> QED
  BY ProjectsInvariant, <1>1, PTL

HIDE ProjectsAssumption

-----------------------------------------------------------------------------
(* The rate limiter: how many a window lets through.                       *)
(*                                                                         *)
(* The sorted set is compared with the answers: no entry without a request *)
(* that was allowed, and an entry for each that was allowed within the     *)
(* window less the slack.  A stamp is off by the delay of its script and   *)
(* the skew of its clock, so two of them differ by no more than the slack  *)
(* from the times they stand for.                                          *)

USE RateLimiterAssumption

Allowed(q) == answers[q] # None /\ answers[q].allowed

Answered == {q \in Requests : answers[q] # None}

AnswersTyped ==
    /\ tick \in Nat /\ keyEnds \in Nat
    /\ answers \in [Requests -> [at : Nat, allowed : BOOLEAN] \cup {None}]
    /\ IsFiniteSet(Answered)
    /\ \A r \in Answered : answers[r].at <= tick /\ answers[r].at + Window + KeyPad <= keyEnds
    /\ \A r \in Requests : pc[r] \in {"idle", "checking"} => answers[r] = None

\* A stamp that a request carries is that of a clock, and not too old.
StampsFresh ==
    \A r \in Requests : pc[r] = "checking" =>
        /\ held[r].sent \in Nat /\ held[r].sent <= tick /\ tick <= held[r].sent + MaxDelay
        /\ \E s \in Servers : held[r].now = held[r].sent + Skew[s]

\* No entry without a request that was allowed about when it says, one for each.
EntriesEarned ==
    /\ IsFiniteSet(entries)
    /\ \A e \in entries :
          /\ e.request \in Requests /\ Allowed(e.request) /\ e.score \in Int
          /\ \E s \in Servers : /\ answers[e.request].at - MaxDelay + Skew[s] <= e.score
                                /\ e.score <= answers[e.request].at + Skew[s]
    /\ \A e, f \in entries : e.request = f.request => e = f

\* An entry for each request allowed within the window less the slack.
EntriesLast ==
    \A q \in Requests : Allowed(q) /\ answers[q].at > tick - Window + Slack =>
        \E e \in entries : e.request = q

RateInv ==
    /\ DeskTyped /\ AnswersTyped /\ StampsFresh /\ EntriesEarned /\ EntriesLast
    /\ WindowHolds

LEMMA SlackBounds ==
    /\ Slack \in Nat
    /\ \A s, t \in Servers : Skew[s] - Skew[t] <= Slack - MaxDelay
<1> DEFINE Widest(d) == \A s, t \in Servers : Skew[s] - Skew[t] <= d
           Apart == {Skew[s] - Skew[t] : s, t \in Servers}
           D == CHOOSE d \in Apart : Widest(d)
<1>1. \E d \in Apart : Widest(d)
  BY SkewAssumption
<1>2. D \in Apart /\ Widest(D)
  <2> HIDE DEF Widest, Apart
  <2> QED
    BY <1>1
<1>3. Slack = MaxDelay + D
  BY DEF Slack
<1> HIDE DEF D
<1>4. PICK s \in Servers, t \in Servers : D = Skew[s] - Skew[t]
  BY <1>2
<1>5. D \in Int /\ D >= 0
  <2>1. Skew[s] \in Nat /\ Skew[t] \in Nat
    OBVIOUS
  <2>2. Skew[s] - Skew[s] <= D
    BY <1>2
  <2> QED
    BY <1>4, <2>1, <2>2
<1> QED
  BY <1>2, <1>3, <1>5

LEMMA RateInitInv == DeskInit /\ RateLimiterInit => RateInv
<1> SUFFICES ASSUME DeskInit, RateLimiterInit PROVE RateInv
  OBVIOUS
<1>1. Answered = {}
  BY DEF RateLimiterInit, Answered
<1>2. IsFiniteSet({})
  BY FS_EmptySet
<1> QED
  BY <1>1, <1>2, DeskInitTyped DEF DeskInit, RateLimiterInit, RateInv, AnswersTyped,
     StampsFresh, EntriesEarned, EntriesLast, WindowHolds, Allowed, Answered

\* What the stamp of a script says about the entries it finds.
LEMMA StampTells ==
  ASSUME RateInv, NEW r \in Requests, pc[r] = "checking", NEW e \in entries
  PROVE  /\ held[r].now \in Int
         /\ answers[e.request].at > tick - Window + Slack => e \in Kept(held[r].now)
         /\ e \in Kept(held[r].now) => answers[e.request].at > tick - Window - Slack
<1>1. PICK s \in Servers : held[r].now = held[r].sent + Skew[s]
  BY DEF RateInv, StampsFresh
<1>2. held[r].sent \in Nat /\ held[r].sent <= tick /\ tick <= held[r].sent + MaxDelay
  BY DEF RateInv, StampsFresh
<1>3. PICK t \in Servers : /\ answers[e.request].at - MaxDelay + Skew[t] <= e.score
                           /\ e.score <= answers[e.request].at + Skew[t]
  BY DEF RateInv, EntriesEarned
<1>4. e.score \in Int /\ answers[e.request].at \in Nat /\ tick \in Nat
  BY DEF RateInv, EntriesEarned, AnswersTyped, Allowed
<1>5. /\ Skew[s] \in Nat /\ Skew[t] \in Nat /\ Slack \in Nat
      /\ Skew[s] - Skew[t] <= Slack - MaxDelay /\ Skew[t] - Skew[s] <= Slack - MaxDelay
  BY SlackBounds
<1>6. e \in Kept(held[r].now) <=> e.score > held[r].now - Window
  BY DEF Kept
<1> QED
  BY <1>1, <1>2, <1>3, <1>4, <1>5, <1>6

\* The entries that a script keeps are as sound as those it finds.
LEMMA KeptSound ==
  ASSUME RateInv, NEW r \in Requests, pc[r] = "checking"
  PROVE  /\ Kept(held[r].now) \subseteq entries
         /\ IsFiniteSet(Kept(held[r].now))
         /\ Cardinality(Kept(held[r].now)) \in Nat
         /\ \A q \in Requests : Allowed(q) /\ answers[q].at > tick - Window + Slack =>
               \E e \in Kept(held[r].now) : e.request = q
<1>1. Kept(held[r].now) \subseteq entries
  BY DEF Kept
<1>2. IsFiniteSet(Kept(held[r].now)) /\ Cardinality(Kept(held[r].now)) \in Nat
  BY <1>1, FS_Subset, FS_CardinalityType DEF RateInv, EntriesEarned
<1>3. ASSUME NEW q \in Requests, Allowed(q), answers[q].at > tick - Window + Slack
      PROVE  \E e \in Kept(held[r].now) : e.request = q
  <2>1. PICK e \in entries : e.request = q
    BY <1>3 DEF RateInv, EntriesLast
  <2> QED
    BY <1>3, <2>1, StampTells
<1> QED
  BY <1>1, <1>2, <1>3

\* What an answer does to the requests: it is the request's first, and its last.
LEMMA AnswerTouches ==
  ASSUME RateInv, NEW r \in Requests, NEW allowed \in BOOLEAN, pc[r] = "checking",
         Answer(r, allowed)
  PROVE  /\ DeskTyped' /\ AnswersTyped' /\ StampsFresh'
         /\ UNCHANGED tick
         /\ answers[r] = None /\ answers'[r] = [at |-> tick, allowed |-> allowed]
         /\ answers'[r] # None
         /\ \A q \in Requests \ {r} : answers'[q] = answers[q]
         /\ IsFiniteSet(Answered')
<1> DEFINE label == IF allowed THEN "done" ELSE "failed"
<1>1. /\ Step(r, "checking", label, None)
      /\ answers' = [answers EXCEPT ![r] = [at |-> tick, allowed |-> allowed]]
      /\ keyEnds' = tick + Window + KeyPad
      /\ UNCHANGED tick
  BY DEF Answer, End
<1>2. label \notin {"idle", "checking"}
  OBVIOUS
<1> HIDE DEF label
<1>3. /\ DeskTyped' /\ pc'[r] = label
      /\ \A q \in Requests \ {r} : pc'[q] = pc[q] /\ held'[q] = held[q]
  BY <1>1, StepTouches DEF RateInv
<1>4. /\ answers[r] = None /\ answers'[r] = [at |-> tick, allowed |-> allowed]
      /\ \A q \in Requests \ {r} : answers'[q] = answers[q]
      /\ answers' \in [Requests -> [at : Nat, allowed : BOOLEAN] \cup {None}]
      /\ tick \in Nat
  BY <1>1 DEF RateInv, AnswersTyped
<1>5. answers'[r] # None
  BY <1>4
<1>6. IsFiniteSet(Answered')
  <2>1. Answered' = Answered \cup {r}
    BY <1>4, <1>5 DEF Answered
  <2> QED
    BY <2>1, FS_AddElement DEF RateInv, AnswersTyped
<1>7. AnswersTyped'
  <2>1. tick' \in Nat /\ keyEnds' \in Nat
    BY <1>1, <1>4
  <2>2. ASSUME NEW q \in Requests, answers'[q] # None
        PROVE  answers'[q].at <= tick' /\ answers'[q].at + Window + KeyPad <= keyEnds'
    <3>1. CASE q = r
      BY <1>1, <1>4, <3>1
    <3>2. CASE q # r
      <4>1. answers[q].at \in Nat /\ answers[q].at <= tick
        BY <1>4, <2>2, <3>2 DEF RateInv, AnswersTyped, Answered
      <4> QED
        BY <1>1, <1>4, <3>2, <4>1
    <3> QED
      BY <3>1, <3>2
  <2>3. \A q \in Requests : pc'[q] \in {"idle", "checking"} => answers'[q] = None
    BY <1>2, <1>3, <1>4 DEF RateInv, AnswersTyped
  <2> QED
    BY <1>4, <1>6, <2>1, <2>2, <2>3 DEF AnswersTyped, Answered
<1>8. StampsFresh'
  BY <1>1, <1>2, <1>3 DEF RateInv, StampsFresh
<1> QED
  BY <1>1, <1>3, <1>4, <1>5, <1>6, <1>7, <1>8

\* The entries kept are still earned, and so is the new one.
LEMMA KeptEarned ==
  ASSUME RateInv, NEW r \in Requests, NEW allowed \in BOOLEAN, pc[r] = "checking",
         Answer(r, allowed), NEW e \in Kept(held[r].now)
  PROVE  /\ e.request \in Requests \ {r} /\ Allowed(e.request)' /\ e.score \in Int
         /\ \E s \in Servers : /\ answers'[e.request].at - MaxDelay + Skew[s] <= e.score
                               /\ e.score <= answers'[e.request].at + Skew[s]
         /\ answers'[e.request] = answers[e.request]
<1>1. e \in entries
  BY DEF Kept
<1>2. /\ e.request \in Requests /\ Allowed(e.request) /\ e.score \in Int
      /\ \E s \in Servers : /\ answers[e.request].at - MaxDelay + Skew[s] <= e.score
                            /\ e.score <= answers[e.request].at + Skew[s]
  BY <1>1 DEF RateInv, EntriesEarned
<1>3. e.request # r /\ answers'[e.request] = answers[e.request]
  BY <1>2, AnswerTouches DEF Allowed
<1> QED
  BY <1>2, <1>3 DEF Allowed

\* The requests that kept entries stand for are as many as the entries.
LEMMA KeptCount ==
  ASSUME RateInv, NEW r \in Requests, pc[r] = "checking"
  PROVE  LET owners == {e.request : e \in Kept(held[r].now)}
         IN  IsFiniteSet(owners) /\ Cardinality(owners) = Cardinality(Kept(held[r].now))
<1> DEFINE K == Kept(held[r].now)
           owners == {e.request : e \in K}
           f == [e \in K |-> e.request]
<1>1. IsFiniteSet(K) /\ \A e, g \in K : e.request = g.request => e = g
  BY KeptSound DEF RateInv, EntriesEarned
<1> HIDE DEF K
<1>2. f \in Bijection(K, owners)
  BY <1>1 DEF Bijection, Injection, Surjection, IsInjective
<1>3. IsFiniteSet(owners) /\ Cardinality(owners) = Cardinality(K)
  <2>1. ExistsBijection(K, owners)
    BY <1>2 DEF ExistsBijection
  <2> HIDE DEF owners
  <2> QED
    BY <1>1, <2>1, FS_Bijection
<1> QED
  BY <1>3 DEF K

\* What was said of an earlier answer stays true: a new one is in its stretch of time
\* only if it was given at the same tick.
LEMMA EarlierAnswers ==
  ASSUME RateInv, NEW r \in Requests, NEW allowed \in BOOLEAN, pc[r] = "checking",
         Answer(r, allowed), NEW q \in Requests \ {r}, answers[q] # None
  PROVE  LET at == answers[q].at
         IN  /\ answers[q].allowed /\ at < tick =>
                   Cardinality(AllowedIn(at - (Window - Slack) + 1, at)') <= Limit
             /\ ~answers[q].allowed =>
                   Cardinality(AllowedIn(at - (Window + Slack) + 1, at)') >= Limit
<1> DEFINE at == answers[q].at
<1>1. at \in Nat /\ tick \in Nat /\ answers[q].allowed \in BOOLEAN /\ Slack \in Nat
  BY SlackBounds DEF RateInv, AnswersTyped
<1>2. /\ answers[r] = None /\ answers'[r].at = tick
      /\ \A p \in Requests \ {r} : answers'[p] = answers[p]
      /\ IsFiniteSet(Answered')
  <2>1. answers'[r] = [at |-> tick, allowed |-> allowed]
    BY AnswerTouches
  <2> QED
    BY <2>1, AnswerTouches
<1>3. ASSUME answers[q].allowed, at < tick
      PROVE  Cardinality(AllowedIn(at - (Window - Slack) + 1, at)') <= Limit
  <2>1. tick \notin (at - (Window - Slack) + 1)..at
    BY <1>1, <1>3
  <2>2. AllowedIn(at - (Window - Slack) + 1, at)' = AllowedIn(at - (Window - Slack) + 1, at)
    BY <1>2, <2>1 DEF AllowedIn
  <2> QED
    BY <1>3, <2>2 DEF RateInv, WindowHolds
<1>4. ASSUME ~answers[q].allowed
      PROVE  Cardinality(AllowedIn(at - (Window + Slack) + 1, at)') >= Limit
  <2> DEFINE S == AllowedIn(at - (Window + Slack) + 1, at)
             T == {p \in Requests : answers'[p] # None /\ answers'[p].allowed
                                    /\ answers'[p].at \in (at - (Window + Slack) + 1)..at}
  <2>1. S \subseteq T /\ T \subseteq Answered'
    BY <1>2 DEF AllowedIn, Answered
  <2>2. Cardinality(S) >= Limit
    BY <1>4 DEF RateInv, WindowHolds
  <2>3. T = AllowedIn(at - (Window + Slack) + 1, at)'
    BY <1>2 DEF AllowedIn
  <2> HIDE DEF S, T, at
  <2>4. IsFiniteSet(T)
    BY <1>2, <2>1, FS_Subset
  <2>5. /\ Cardinality(S) \in Nat /\ Cardinality(T) \in Nat
        /\ Cardinality(S) <= Cardinality(T)
    BY <2>1, <2>4, FS_Subset, FS_CardinalityType
  <2> QED
    BY <2>2, <2>3, <2>5
<1> QED
  BY <1>3, <1>4

\* An answer leaves the requests of earlier ticks within their bounds; those allowed
\* in its own tick stand or fall with the number allowed in the window it looks back on.
LEMMA AnswerHolds ==
  ASSUME RateInv, NEW r \in Requests, NEW allowed \in BOOLEAN, pc[r] = "checking",
         Answer(r, allowed),
         (\E q \in Requests : Allowed(q) /\ answers[q].at = tick) \/ allowed =>
            Cardinality(AllowedIn(tick - (Window - Slack) + 1, tick)') <= Limit,
         ~allowed => Cardinality(AllowedIn(tick - (Window + Slack) + 1, tick)') >= Limit
  PROVE  WindowHolds'
<1> SUFFICES ASSUME NEW q \in Requests, answers'[q] # None
             PROVE  /\ answers'[q].allowed =>
                          Cardinality(AllowedIn(answers[q].at - (Window - Slack) + 1, answers[q].at)') <= Limit
                    /\ ~answers'[q].allowed =>
                          Cardinality(AllowedIn(answers[q].at - (Window + Slack) + 1, answers[q].at)') >= Limit
  BY DEF WindowHolds
<1>1. /\ answers'[r] = [at |-> tick, allowed |-> allowed] /\ UNCHANGED tick
      /\ \A p \in Requests \ {r} : answers'[p] = answers[p]
  BY AnswerTouches
<1>2. CASE q = r
  <2>1. answers'[q].at = tick' /\ answers'[q].allowed = allowed
    BY <1>1, <1>2
  <2> QED
    BY <2>1
<1>3. CASE q # r
  <2>1. answers'[q] = answers[q] /\ answers[q] # None
    BY <1>1, <1>3
  <2>2. answers[q].at \in Nat /\ answers[q].at <= tick /\ tick \in Nat
    BY <2>1 DEF RateInv, AnswersTyped, Answered
  <2>3. CASE answers[q].at = tick
    <3>1. answers'[q].at = tick'
      BY <1>1, <2>1, <2>3
    <3>2. ~answers[q].allowed =>
             Cardinality(AllowedIn(answers[q].at - (Window + Slack) + 1, answers[q].at)') >= Limit
      BY <1>3, <2>1, EarlierAnswers
    <3>3. answers[q].allowed => Allowed(q)
      BY <2>1 DEF Allowed
    <3> QED
      BY <2>1, <2>3, <3>1, <3>2, <3>3
  <2>4. CASE answers[q].at < tick
    BY <1>3, <2>1, <2>4, EarlierAnswers
  <2> QED
    BY <2>2, <2>3, <2>4
<1> QED
  BY <1>2, <1>3

LEMMA AllowStep ==
  ASSUME RateInv, NEW r \in Requests, Allow(r)
  PROVE  RateInv'
<1> DEFINE K == Kept(held[r].now)
           owners == {e.request : e \in K}
           new == [request |-> r, score |-> held[r].now]
<1>1. /\ pc[r] = "checking" /\ Answer(r, TRUE)
      /\ Cardinality(K) < Limit /\ entries' = K \cup {new}
  BY DEF Allow
<1>2. /\ DeskTyped' /\ AnswersTyped' /\ StampsFresh' /\ UNCHANGED tick
      /\ answers'[r] = [at |-> tick, allowed |-> TRUE] /\ answers'[r] # None
      /\ \A q \in Requests \ {r} : answers'[q] = answers[q]
  BY <1>1, AnswerTouches
<1>3. /\ K \subseteq entries /\ IsFiniteSet(K) /\ Cardinality(K) \in Nat
      /\ \A q \in Requests : Allowed(q) /\ answers[q].at > tick - Window + Slack =>
            \E e \in K : e.request = q
  BY <1>1, KeptSound
<1>4. \A e \in K :
         /\ e.request \in Requests \ {r} /\ Allowed(e.request)' /\ e.score \in Int
         /\ \E s \in Servers : /\ answers'[e.request].at - MaxDelay + Skew[s] <= e.score
                               /\ e.score <= answers'[e.request].at + Skew[s]
  BY <1>1, KeptEarned
<1>5. IsFiniteSet(owners) /\ Cardinality(owners) = Cardinality(K)
  BY <1>1, KeptCount
<1> HIDE DEF K
<1>6. EntriesEarned'
  <2>1. PICK s \in Servers : held[r].now = held[r].sent + Skew[s]
    BY <1>1 DEF RateInv, StampsFresh
  <2>2. /\ held[r].sent \in Nat /\ held[r].sent <= tick /\ tick <= held[r].sent + MaxDelay
        /\ tick \in Nat /\ Skew[s] \in Nat
    BY <1>1 DEF RateInv, StampsFresh, AnswersTyped
  <2>3. /\ new.request = r /\ new.score \in Int /\ Allowed(r)'
        /\ answers'[r].at - MaxDelay + Skew[s] <= new.score
        /\ new.score <= answers'[r].at + Skew[s]
    BY <1>2, <2>1, <2>2 DEF Allowed
  <2> HIDE DEF new
  <2>4. \A e \in entries' :
           /\ e.request \in Requests /\ Allowed(e.request)' /\ e.score \in Int
           /\ \E t \in Servers : /\ answers'[e.request].at - MaxDelay + Skew[t] <= e.score
                                 /\ e.score <= answers'[e.request].at + Skew[t]
    BY <1>1, <1>4, <2>3
  <2>5. \A e, f \in entries' : e.request = f.request => e = f
    BY <1>1, <1>3, <1>4, <2>3 DEF RateInv, EntriesEarned
  <2>6. IsFiniteSet(entries')
    BY <1>1, <1>3, FS_AddElement
  <2> QED
    BY <2>4, <2>5, <2>6 DEF EntriesEarned
<1>7. EntriesLast'
  <2> SUFFICES ASSUME NEW q \in Requests, Allowed(q)', answers'[q].at > tick - Window + Slack
               PROVE  \E e \in entries' : e.request = q
    BY <1>2 DEF EntriesLast
  <2>1. CASE q = r
    <3>1. new \in entries' /\ new.request = r
      BY <1>1
    <3> QED
      BY <2>1, <3>1
  <2>2. CASE q # r
    <3>1. Allowed(q) /\ answers[q].at > tick - Window + Slack
      BY <1>2, <2>2 DEF Allowed
    <3> QED
      BY <1>1, <1>3, <3>1
  <2> QED
    BY <2>1, <2>2
<1>8. Cardinality(AllowedIn(tick - (Window - Slack) + 1, tick)') <= Limit
  <2> DEFINE S == {q \in Requests : answers'[q] # None /\ answers'[q].allowed
                                    /\ answers'[q].at \in (tick - (Window - Slack) + 1)..tick}
  <2>1. S = AllowedIn(tick - (Window - Slack) + 1, tick)'
    BY <1>2 DEF AllowedIn
  <2>2. S \subseteq owners \cup {r}
    <3> SUFFICES ASSUME NEW q \in S, q # r
                 PROVE  \E e \in K : e.request = q
      OBVIOUS
    <3>1. /\ Allowed(q) /\ q \in Requests /\ answers[q].at \in Nat
          /\ answers[q].at \in (tick - (Window - Slack) + 1)..tick
      BY <1>2 DEF Allowed, RateInv, AnswersTyped
    <3>2. answers[q].at > tick - Window + Slack
      BY <3>1, SlackBounds DEF RateInv, AnswersTyped
    <3> QED
      BY <1>3, <3>1, <3>2
  <2> HIDE DEF S, owners
  <2>3. /\ IsFiniteSet(owners \cup {r})
        /\ Cardinality(owners \cup {r}) <= Cardinality(owners) + 1
        /\ Cardinality(owners \cup {r}) \in Nat
    <3>1. Cardinality(owners) \in Nat
      BY <1>3, <1>5
    <3>2. /\ IsFiniteSet(owners \cup {r})
          /\ Cardinality(owners \cup {r}) =
                IF r \in owners THEN Cardinality(owners) ELSE Cardinality(owners) + 1
      BY <1>5, FS_AddElement
    <3> QED
      BY <3>1, <3>2
  <2>4. Cardinality(S) <= Cardinality(owners \cup {r}) /\ Cardinality(S) \in Nat
    BY <2>2, <2>3, FS_Subset, FS_CardinalityType
  <2>5. Cardinality(S) <= Limit
    BY <1>1, <1>3, <1>5, <2>3, <2>4
  <2> QED
    BY <2>1, <2>5
<1>9. WindowHolds'
  BY <1>1, <1>8, AnswerHolds
<1> QED
  BY <1>2, <1>6, <1>7, <1>9 DEF RateInv

LEMMA DenyStep ==
  ASSUME RateInv, NEW r \in Requests, Deny(r)
  PROVE  RateInv'
<1> DEFINE K == Kept(held[r].now)
           owners == {e.request : e \in K}
<1>1. /\ pc[r] = "checking" /\ Answer(r, FALSE)
      /\ Cardinality(K) >= Limit /\ entries' = K
  BY DEF Deny
<1>2. /\ DeskTyped' /\ AnswersTyped' /\ StampsFresh' /\ UNCHANGED tick
      /\ answers[r] = None /\ answers'[r] = [at |-> tick, allowed |-> FALSE]
      /\ \A q \in Requests \ {r} : answers'[q] = answers[q]
      /\ IsFiniteSet(Answered')
  BY <1>1, AnswerTouches
<1>3. /\ K \subseteq entries /\ IsFiniteSet(K) /\ Cardinality(K) \in Nat
      /\ \A q \in Requests : Allowed(q) /\ answers[q].at > tick - Window + Slack =>
            \E e \in K : e.request = q
  BY <1>1, KeptSound
<1>4. \A e \in K :
         /\ e.request \in Requests \ {r} /\ Allowed(e.request)' /\ e.score \in Int
         /\ \E s \in Servers : /\ answers'[e.request].at - MaxDelay + Skew[s] <= e.score
                               /\ e.score <= answers'[e.request].at + Skew[s]
         /\ answers'[e.request] = answers[e.request]
  BY <1>1, KeptEarned
<1>5. IsFiniteSet(owners) /\ Cardinality(owners) = Cardinality(K)
  BY <1>1, KeptCount
<1>6. \A e \in K : answers[e.request].at > tick - Window - Slack
  BY <1>1, <1>3, StampTells
<1> HIDE DEF K
<1>7. EntriesEarned'
  BY <1>1, <1>3, <1>4 DEF EntriesEarned, RateInv
<1>8. EntriesLast'
  BY <1>1, <1>2, <1>3 DEF EntriesLast, Allowed
<1>9. Cardinality(AllowedIn(tick - (Window + Slack) + 1, tick)') >= Limit
  <2> DEFINE S == {q \in Requests : answers'[q] # None /\ answers'[q].allowed
                                    /\ answers'[q].at \in (tick - (Window + Slack) + 1)..tick}
  <2>1. S = AllowedIn(tick - (Window + Slack) + 1, tick)'
    BY <1>2 DEF AllowedIn
  <2>2. owners \subseteq S
    <3> SUFFICES ASSUME NEW e \in K PROVE e.request \in S
      OBVIOUS
    <3>1. /\ Allowed(e.request)' /\ e.request \in Requests
          /\ answers'[e.request] = answers[e.request]
          /\ answers[e.request].at > tick - Window - Slack
      BY <1>4, <1>6
    <3>2. answers[e.request].at \in Nat /\ answers[e.request].at <= tick /\ tick \in Nat
      BY <3>1 DEF Allowed, RateInv, AnswersTyped, Answered
    <3> QED
      BY <3>1, <3>2, SlackBounds DEF Allowed
  <2>3. S \subseteq Answered'
    BY DEF Answered
  <2> HIDE DEF S, owners
  <2>4. IsFiniteSet(S)
    BY <1>2, <2>3, FS_Subset
  <2>5. Cardinality(owners) <= Cardinality(S) /\ Cardinality(S) \in Nat
    BY <2>2, <2>4, FS_Subset, FS_CardinalityType
  <2>6. Cardinality(S) >= Limit
    BY <1>1, <1>3, <1>5, <2>5
  <2> QED
    BY <2>1, <2>6
<1>10. ASSUME NEW q \in Requests, Allowed(q), answers[q].at = tick
       PROVE  Cardinality(AllowedIn(tick - (Window - Slack) + 1, tick)') <= Limit
  <2>1. AllowedIn(tick - (Window - Slack) + 1, tick)' = AllowedIn(tick - (Window - Slack) + 1, tick)
    <3>1. ~Allowed(r) /\ ~Allowed(r)'
      <4>1. answers[r] = None /\ answers'[r].allowed = FALSE
        BY <1>2
      <4> QED
        BY <4>1 DEF Allowed
    <3> QED
      BY <1>2, <3>1 DEF AllowedIn, Allowed
  <2> QED
    BY <1>10, <2>1 DEF RateInv, WindowHolds, Allowed
<1>11. WindowHolds'
  BY <1>1, <1>9, <1>10, AnswerHolds
<1> QED
  BY <1>2, <1>7, <1>8, <1>11 DEF RateInv

\* Time passes: what it takes out of the window was allowed longer ago, and a key that
\* expires has had no answer for its window and more.
LEMMA PassStep ==
  ASSUME RateInv, Pass
  PROVE  RateInv'
<1>1. /\ tick' = tick + 1 /\ tick \in Nat
      /\ \A r \in Requests : pc[r] = "checking" => tick < held[r].sent + MaxDelay
      /\ entries' = IF keyEnds <= tick' THEN {} ELSE entries
      /\ UNCHANGED keyEnds /\ UNCHANGED answers /\ UNCHANGED pc /\ UNCHANGED held
  BY DEF Pass, deskVars, RateInv, AnswersTyped
<1>2. DeskTyped'
  BY <1>1 DEF RateInv, DeskTyped
<1>3. AnswersTyped'
  BY <1>1 DEF RateInv, AnswersTyped, Answered
<1>4. StampsFresh'
  BY <1>1 DEF RateInv, StampsFresh
<1>5. EntriesEarned'
  <2>1. EntriesEarned /\ IsFiniteSet({})
    BY FS_EmptySet DEF RateInv
  <2> QED
    BY <1>1, <2>1 DEF EntriesEarned, Allowed
<1>6. EntriesLast'
  <2> SUFFICES ASSUME NEW q \in Requests, Allowed(q), answers[q].at > tick' - Window + Slack
               PROVE  \E e \in entries' : e.request = q
    BY <1>1 DEF EntriesLast, Allowed
  <2>1. /\ answers[q].at \in Nat /\ keyEnds \in Nat
        /\ answers[q].at + Window + KeyPad <= keyEnds
    BY DEF RateInv, AnswersTyped, Answered, Allowed
  <2>2. ~(keyEnds <= tick')
    BY <1>1, <2>1, SlackBounds
  <2>3. answers[q].at > tick - Window + Slack
    BY <1>1, <2>1, SlackBounds
  <2> QED
    BY <1>1, <2>2, <2>3 DEF RateInv, EntriesLast
<1>7. WindowHolds'
  BY <1>1 DEF RateInv, WindowHolds, AllowedIn
<1> QED
  BY <1>2, <1>3, <1>4, <1>5, <1>6, <1>7 DEF RateInv

\* A request that moves without an answer.
LEMMA LimiterQuiet ==
  ASSUME RateInv, NEW r \in Requests, NEW to, NEW what,
         Start(r, to, what) \/ Step(r, "checking", to, what), UNCHANGED limiterVars,
         to \in {"idle", "checking"} => answers[r] = None,
         to = "checking" =>
            /\ what.sent \in Nat /\ what.sent <= tick /\ tick <= what.sent + MaxDelay
            /\ \E s \in Servers : what.now = what.sent + Skew[s]
  PROVE  RateInv'
<1>1. /\ DeskTyped' /\ pc'[r] = to /\ held'[r] = what
      /\ \A q \in Requests \ {r} : pc'[q] = pc[q] /\ held'[q] = held[q]
  <2>1. DeskTyped
    BY DEF RateInv
  <2>2. Start(r, to, what) \/ Step(r, "checking", to, what)
    OBVIOUS
  <2> QED
    BY <2>1, <2>2 DEF DeskTyped, Start, Step
<1>2. UNCHANGED tick /\ UNCHANGED entries /\ UNCHANGED keyEnds /\ UNCHANGED answers
  BY DEF limiterVars
<1>3. AnswersTyped'
  BY <1>1, <1>2 DEF RateInv, AnswersTyped, Answered
<1>4. StampsFresh'
  BY <1>1, <1>2 DEF RateInv, StampsFresh
<1>5. EntriesEarned' /\ EntriesLast' /\ WindowHolds'
  BY <1>2 DEF RateInv, EntriesEarned, EntriesLast, WindowHolds, AllowedIn, Allowed
<1> QED
  BY <1>1, <1>3, <1>4, <1>5 DEF RateInv

LEMMA RateStepInv == RateInv /\ [RateLimiterNext]_<<deskVars, limiterVars>> => RateInv'
<1> SUFFICES ASSUME RateInv, [RateLimiterNext]_<<deskVars, limiterVars>> PROVE RateInv'
  OBVIOUS
<1>1. CASE UNCHANGED <<deskVars, limiterVars>>
  <2>1. /\ UNCHANGED pc /\ UNCHANGED held /\ UNCHANGED tick /\ UNCHANGED entries
        /\ UNCHANGED keyEnds /\ UNCHANGED answers
    BY <1>1 DEF deskVars, limiterVars
  <2> QED
    <3>1. DeskTyped' /\ AnswersTyped' /\ StampsFresh'
      BY <2>1 DEF RateInv, DeskTyped, AnswersTyped, Answered, StampsFresh
    <3>2. EntriesEarned' /\ EntriesLast' /\ WindowHolds'
      BY <2>1 DEF RateInv, EntriesEarned, EntriesLast, WindowHolds, AllowedIn, Allowed
    <3> QED
      BY <3>1, <3>2 DEF RateInv
<1>2. ASSUME NEW r \in Requests, NEW server \in Servers, SendCheck(r, server)
      PROVE  RateInv'
  <2> DEFINE what == [now |-> tick + Skew[server], sent |-> tick]
  <2>1. Start(r, "checking", what) /\ UNCHANGED limiterVars /\ pc[r] = "idle"
    BY <1>2 DEF SendCheck, Start
  <2>2. answers[r] = None /\ tick \in Nat
    BY <2>1 DEF RateInv, AnswersTyped
  <2>3. what.sent = tick /\ what.now = what.sent + Skew[server]
    OBVIOUS
  <2> HIDE DEF what
  <2> QED
    BY <2>1, <2>2, <2>3, LimiterQuiet
<1>3. ASSUME NEW r \in Requests, LetThrough(r)
      PROVE  RateInv'
  <2>1. Step(r, "checking", "done", None) /\ UNCHANGED limiterVars
    BY <1>3 DEF LetThrough, End
  <2> QED
    BY <2>1, LimiterQuiet
<1> QED
  BY <1>1, <1>2, <1>3, AllowStep, DenyStep, PassStep DEF RateLimiterNext

\* For any number of servers, requests and ticks, any limit, window, delay and skew of
\* the clocks: Redis allows no more than Limit requests in the window less the slack,
\* and denies one only after as many in the window and the slack (RateLimiter.check_limit
\* and its script).
THEOREM TheWindowHolds == RateLimiterSpec => []WindowHolds
<1>1. RateInv => WindowHolds
  BY DEF RateInv
<1>2. RateLimiterSpec => []RateInv
  BY RateInitInv, RateStepInv, PTL DEF RateLimiterSpec
<1> QED
  BY <1>1, <1>2, PTL
=============================================================================
