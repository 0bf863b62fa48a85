--------------------------- MODULE EventBusProofs ---------------------------
(***************************************************************************)
(* Proofs about EventBus: its types; what start and stop promise however   *)
(* their calls interleave with the consumers they create; and, from that   *)
(* there is one consumer at a time, the order of events and that no        *)
(* handler is passed over.                                                 *)
(***************************************************************************)
EXTENDS EventBus, SequenceTheorems, TLAPS

\* A task with nothing in hand is well typed wherever it rests.
LEMMA IdleType ==
    ASSUME NEW a \in {"none", "getting", "handling", "ended"}
    PROVE  Idle(a) \in Tasks
BY DEF Idle, Tasks

\* The calls of one stretch of a dispatch are a sequence of pairs of event and handler.
LEMMA CallsType ==
    ASSUME handlers \in Seq(Handlers), NEW e \in Events,
           NEW i \in Nat \ {0}, NEW j \in Nat, j <= Len(handlers), i <= j + 1
    PROVE  Calls(e, i, j) \in Seq(Events \X Handlers)
<1>1. \A k \in 1..(j - i + 1) : handlers[i + k - 1] \in Handlers
  <2> TAKE k \in 1..(j - i + 1)
  <2>1. i + k - 1 \in 1..Len(handlers)
    OBVIOUS
  <2> QED
    BY <2>1, ElementOfSeq
<1>2. j - i + 1 \in Nat
  OBVIOUS
<1>3. Calls(e, i, j) \in [1..(j - i + 1) -> Events \X Handlers]
  BY <1>1 DEF Calls
<1> QED
  BY <1>2, <1>3

\* A dispatch moves one task, which stays a task with its event in hand or with none,
\* and appends well-typed calls.
LEMMA DispatchType ==
    ASSUME TypeOK, NEW g \in 1..current, NEW e \in Events, NEW i \in Nat \ {0},
           i <= Len(handlers) + 1, ~task[g].cancelled, Dispatch(g, e, i)
    PROVE  /\ calls' \in Seq(Events \X Handlers)
           /\ task' \in [1..MaxStarts -> Tasks]
           /\ \A h \in 1..MaxStarts : h # g => task'[h] = task[h]
           /\ task'[g].at # "none" /\ ~task'[g].cancelled
           /\ task'[g].at = "handling" =>
                 task'[g].event \in Events /\ task'[g].next <= Len(handlers) + 1
<1>0. /\ g \in 1..MaxStarts /\ task[g] \in Tasks
      /\ handlers \in Seq(Handlers) /\ Len(handlers) \in Nat
      /\ calls \in Seq(Events \X Handlers)
  BY BusAssumption DEF TypeOK
<1>1. CASE \E j \in i..Len(handlers) :
          /\ calls' = calls \o Calls(e, i, j)
          /\ task' = [task EXCEPT ![g] = Awaiting(e, j + 1)]
  <2> PICK j \in i..Len(handlers) :
          /\ calls' = calls \o Calls(e, i, j)
          /\ task' = [task EXCEPT ![g] = Awaiting(e, j + 1)]
    BY <1>1
  <2>1. Calls(e, i, j) \in Seq(Events \X Handlers)
    BY <1>0, CallsType
  <2>2. calls' \in Seq(Events \X Handlers)
    BY <1>0, <2>1, ConcatProperties
  <2>3. j + 1 \in Nat \ {0} /\ j + 1 <= Len(handlers) + 1
    BY <1>0
  <2>4. Awaiting(e, j + 1) \in Tasks
    BY <2>3 DEF Awaiting, Tasks
  <2>5. /\ task'[g] = Awaiting(e, j + 1)
        /\ task' \in [1..MaxStarts -> Tasks]
        /\ \A h \in 1..MaxStarts : h # g => task'[h] = task[h]
    BY <1>0, <2>4 DEF TypeOK
  <2>6. /\ task'[g].at = "handling" /\ ~task'[g].cancelled
        /\ task'[g].event = e /\ task'[g].next = j + 1
    BY <2>5 DEF Awaiting
  <2> QED
    BY <2>2, <2>3, <2>5, <2>6
<1>2. CASE /\ calls' = calls \o Calls(e, i, Len(handlers))
           /\ task' = [task EXCEPT ![g] = Idle(IF isRunning THEN "getting" ELSE "ended")]
  <2>1. PICK a \in {"getting", "ended"} : task' = [task EXCEPT ![g] = Idle(a)]
    BY <1>2
  <2>2. Calls(e, i, Len(handlers)) \in Seq(Events \X Handlers)
    <3>1. Len(handlers) <= Len(handlers)
      BY <1>0
    <3> QED
      BY <1>0, <3>1, CallsType
  <2>3. calls' \in Seq(Events \X Handlers)
    BY <1>0, <1>2, <2>2, ConcatProperties
  <2>4. Idle(a) \in Tasks
    BY IdleType
  <2>5. /\ task'[g] = Idle(a)
        /\ task' \in [1..MaxStarts -> Tasks]
        /\ \A h \in 1..MaxStarts : h # g => task'[h] = task[h]
    BY <1>0, <2>1, <2>4 DEF TypeOK
  <2>6. task'[g].at = a /\ ~task'[g].cancelled
    BY <2>5 DEF Idle
  <2> QED
    BY <2>3, <2>5, <2>6
<1> QED
  BY <1>1, <1>2 DEF Dispatch

-----------------------------------------------------------------------------
\* A consumer that has not ended is either cancelled and awaited by some stop(), or it
\* is the newest one of a running bus.
HeldOrNewest(g) ==
    task[g].at # "ended" =>
        IF task[g].cancelled THEN g \in stopping ELSE g = current /\ isRunning

\* A consumer in a handler has an event, and handlers left to call or none.
InHand(g) ==
    task[g].at = "handling" =>
        task[g].event \in Events /\ task[g].next <= Len(handlers) + 1

BusInv ==
    /\ TypeOK
    /\ \A g \in 1..current : HeldOrNewest(g) /\ InHand(g)
    /\ \A p \in waiting : sent[p] > 0

\* The invariant holds before anybody has subscribed, published or started.
LEMMA BusInvInit == Init => BusInv
<1> SUFFICES ASSUME Init PROVE BusInv
  OBVIOUS
<1>1. task \in [1..MaxStarts -> Tasks] /\ \A g \in 1..MaxStarts : task[g].at = "none"
  <2>1. Idle("none") \in Tasks
    BY IdleType
  <2> QED
    BY <2>1 DEF Init, Idle
<1>2. 1..current = {}
  BY DEF Init
<1>3. /\ queue \in Seq(Events) /\ Len(queue) <= MaxQueueSize
      /\ handlers \in Seq(Handlers) /\ accepted \in Seq(Events)
      /\ calls \in Seq(Events \X Handlers)
  BY BusAssumption DEF Init
<1>4. /\ isRunning \in BOOLEAN /\ current \in 0..MaxStarts
      /\ sent \in [Publishers -> 0..MaxEvents]
      /\ stopping \subseteq 1..current /\ waiting = {}
      /\ \A g \in 1..MaxStarts : g > current
  <2>1. isRunning \in BOOLEAN /\ stopping \subseteq 1..current /\ waiting = {}
    BY DEF Init
  <2>2. current \in 0..MaxStarts /\ \A g \in 1..MaxStarts : g > current
    BY BusAssumption DEF Init
  <2>3. sent \in [Publishers -> 0..MaxEvents]
    BY BusAssumption DEF Init
  <2> QED
    BY <2>1, <2>2, <2>3
<1>5. TypeOK
  <2>1. waiting \subseteq Publishers
    BY <1>4
  <2>2. \A g \in 1..MaxStarts : task[g].at = "none" <=> g > current
    BY <1>1, <1>4
  <2> QED
    BY <1>1, <1>3, <1>4, <2>1, <2>2 DEF TypeOK
<1> QED
  BY <1>2, <1>4, <1>5 DEF BusInv

\* Putting an event keeps the queue within its bound.
LEMMA PutType ==
    ASSUME TypeOK, NEW e \in Events, ~Full, Put(e)
    PROVE  queue' \in Seq(Events) /\ Len(queue') <= MaxQueueSize /\ accepted' \in Seq(Events)
BY BusAssumption DEF TypeOK, Full, Put

\* Publishing touches neither the consumers nor the handlers.
LEMMA BusInvPublish ==
    ASSUME BusInv, NEW p \in Publishers, Publish(p) \/ ResumePut(p)
    PROVE  BusInv'
<1>1. UNCHANGED <<handlers, isRunning, current, task, stopping, calls>>
  BY DEF Publish, ResumePut
<1>2. /\ queue' \in Seq(Events) /\ Len(queue') <= MaxQueueSize
      /\ accepted' \in Seq(Events) /\ waiting' \subseteq Publishers
      /\ sent' \in [Publishers -> 0..MaxEvents]
      /\ \A q \in waiting' : sent'[q] > 0
  <2>1. CASE Publish(p)
    <3>1. <<p, sent[p] + 1>> \in Events /\ sent' \in [Publishers -> 0..MaxEvents]
      BY <2>1, BusAssumption DEF Publish, BusInv, TypeOK, Events
    <3>2. \A q \in waiting \cup {p} : sent'[q] > 0
      BY <2>1, BusAssumption DEF Publish, BusInv, TypeOK
    <3>3. CASE ~Full /\ Put(<<p, sent[p] + 1>>) /\ UNCHANGED waiting
      BY <3>1, <3>2, <3>3, PutType DEF BusInv, TypeOK
    <3>4. CASE Full /\ waiting' = waiting \cup {p} /\ UNCHANGED <<queue, accepted>>
      BY <3>1, <3>2, <3>4 DEF BusInv, TypeOK
    <3> QED
      BY <2>1, <3>3, <3>4 DEF Publish
  <2>2. CASE ResumePut(p)
    <3>1. <<p, sent[p]>> \in Events
      BY <2>2, BusAssumption DEF ResumePut, BusInv, TypeOK, Events
    <3> QED
      BY <2>2, <3>1, PutType DEF ResumePut, BusInv, TypeOK
  <2> QED
    BY <2>1, <2>2
<1>3. TypeOK'
  BY <1>1, <1>2 DEF BusInv, TypeOK
<1>4. (\A g \in 1..current : HeldOrNewest(g) /\ InHand(g))'
  BY <1>1 DEF BusInv, HeldOrNewest, InHand
<1> QED
  BY <1>2, <1>3, <1>4 DEF BusInv

\* A consumer that goes on keeps its place in hand; one that was cancelled ends.
LEMMA BusInvConsume ==
    ASSUME BusInv, NEW g \in 1..MaxStarts, Consume(g)
    PROVE  BusInv'
<1>1. /\ g \in 1..current /\ g \in 1..MaxStarts /\ task[g] \in Tasks
      /\ HeldOrNewest(g) /\ InHand(g)
  BY BusAssumption DEF Consume, Take, HandlerEnds, Cancelled, BusInv, TypeOK
<1>2. UNCHANGED <<handlers, isRunning, current, stopping, sent, waiting, accepted>>
  BY DEF Consume, Take, HandlerEnds, Cancelled
<1>3. /\ queue' \in Seq(Events) /\ Len(queue') <= MaxQueueSize
  <2>1. queue # <<>> => Tail(queue) \in Seq(Events) /\ Len(Tail(queue)) <= MaxQueueSize
    BY BusAssumption DEF BusInv, TypeOK
  <2> QED
    BY <2>1 DEF Consume, Take, HandlerEnds, Cancelled, BusInv, TypeOK
<1>4. /\ calls' \in Seq(Events \X Handlers)
      /\ task' \in [1..MaxStarts -> Tasks]
      /\ \A h \in 1..MaxStarts : h # g => task'[h] = task[h]
      /\ task'[g].at # "none"
      /\ \/ task'[g].at = "ended"
         \/ ~task'[g].cancelled /\ ~task[g].cancelled /\ task[g].at # "ended"
      /\ task'[g].at = "handling" =>
            task'[g].event \in Events /\ task'[g].next <= Len(handlers) + 1
  <2>1. CASE Take(g)
    <3>1. Head(queue) \in Events
      BY <2>1 DEF Take, BusInv, TypeOK
    <3>2. 1 \in Nat \ {0} /\ 1 <= Len(handlers) + 1
      BY DEF BusInv, TypeOK
    <3> QED
      BY <1>1, <2>1, <3>1, <3>2, DispatchType DEF Take, BusInv
  <2>2. CASE HandlerEnds(g)
    <3>1. task[g].event \in Events /\ task[g].next \in Nat \ {0} /\ task[g].next <= Len(handlers) + 1
      BY <1>1, <2>2 DEF HandlerEnds, InHand, Tasks
    <3> QED
      BY <1>1, <2>2, <3>1, DispatchType DEF HandlerEnds, BusInv
  <2>3. CASE Cancelled(g)
    <3>1. task'[g] = [task[g] EXCEPT !.at = "ended"] /\ task'[g] \in Tasks
      BY <1>1, <2>3 DEF Cancelled, BusInv, TypeOK, Tasks
    <3>2. task'[g].at = "ended"
      BY <1>1, <3>1 DEF Tasks
    <3>3. /\ task' \in [1..MaxStarts -> Tasks]
          /\ \A h \in 1..MaxStarts : h # g => task'[h] = task[h]
      BY <1>1, <2>3, <3>1 DEF Cancelled, BusInv, TypeOK
    <3> QED
      BY <2>3, <3>2, <3>3 DEF Cancelled, BusInv, TypeOK
  <2> QED
    BY <2>1, <2>2, <2>3 DEF Consume
<1>5. TypeOK'
  <2>1. \A h \in 1..MaxStarts : task'[h].at = "none" <=> h > current
    BY <1>1, <1>4 DEF BusInv, TypeOK
  <2> QED
    BY <1>2, <1>3, <1>4, <2>1 DEF BusInv, TypeOK
<1>6. ASSUME NEW h \in 1..current PROVE (HeldOrNewest(h) /\ InHand(h))'
  <2>1. h \in 1..MaxStarts
    BY BusAssumption DEF BusInv, TypeOK
  <2>2. CASE h = g
    BY <1>1, <1>2, <1>4, <2>2 DEF HeldOrNewest, InHand
  <2>3. CASE h # g
    BY <1>2, <1>4, <2>1, <2>3 DEF BusInv, HeldOrNewest, InHand
  <2> QED
    BY <2>2, <2>3
<1> QED
  BY <1>2, <1>5, <1>6 DEF BusInv

\* Starting creates a task; all older ones have been cancelled.
LEMMA BusInvStart ==
    ASSUME BusInv, Start
    PROVE  BusInv'
<1>1. current + 1 \in 1..MaxStarts /\ current' \in 0..MaxStarts /\ current' = current + 1
  BY BusAssumption DEF Start, BusInv, TypeOK
<1>2. Idle("getting") \in Tasks
  BY IdleType
<1>3. /\ task' \in [1..MaxStarts -> Tasks]
      /\ task'[current + 1] = Idle("getting")
      /\ \A h \in 1..MaxStarts : h # current + 1 => task'[h] = task[h]
  BY <1>1, <1>2 DEF Start, BusInv, TypeOK
<1>4. task'[current + 1].at = "getting" /\ ~task'[current + 1].cancelled
  BY <1>3 DEF Idle
<1>5. TypeOK'
  <2>1. \A h \in 1..MaxStarts : task'[h].at = "none" <=> h > current'
    BY <1>1, <1>3, <1>4 DEF BusInv, TypeOK
  <2>2. stopping' \subseteq 1..current'
    BY <1>1 DEF Start, BusInv, TypeOK
  <2> QED
    BY <1>1, <1>3, <2>1, <2>2 DEF Start, BusInv, TypeOK
<1>6. ASSUME NEW h \in 1..current' PROVE (HeldOrNewest(h) /\ InHand(h))'
  <2>1. CASE h = current + 1
    BY <1>1, <1>4, <2>1 DEF Start, HeldOrNewest, InHand
  <2>2. CASE h # current + 1
    <3>1. h \in 1..current /\ h \in 1..MaxStarts
      BY <1>1, <2>2, BusAssumption DEF BusInv, TypeOK
    <3> QED
      BY <1>3, <2>2, <3>1 DEF Start, BusInv, HeldOrNewest, InHand
  <2> QED
    BY <2>1, <2>2
<1> QED
  BY <1>5, <1>6 DEF Start, BusInv

\* Stopping cancels the newest task and awaits it; the older ones were cancelled before.
LEMMA BusInvStop ==
    ASSUME BusInv, Stop
    PROVE  BusInv'
<1>1. current \in 1..current /\ current \in 1..MaxStarts /\ task[current] \in Tasks
  BY BusAssumption DEF Stop, BusInv, TypeOK
<1>2. task'[current] =
         [task[current] EXCEPT !.cancelled = @ \/ task[current].at # "ended"]
  BY <1>1 DEF Stop, BusInv, TypeOK
<1>3. /\ task'[current] \in Tasks
      /\ task'[current].at = task[current].at
      /\ task'[current].event = task[current].event
      /\ task'[current].next = task[current].next
      /\ task[current].at # "ended" => task'[current].cancelled
  BY <1>1, <1>2 DEF Tasks
<1>4. /\ task' \in [1..MaxStarts -> Tasks]
      /\ \A h \in 1..MaxStarts : h # current => task'[h] = task[h]
  BY <1>1, <1>3 DEF Stop, BusInv, TypeOK
<1>5. TypeOK'
  <2>1. \A h \in 1..MaxStarts : task'[h].at = "none" <=> h > current
    BY <1>1, <1>3, <1>4 DEF BusInv, TypeOK
  <2> QED
    BY <1>1, <1>4, <2>1 DEF Stop, BusInv, TypeOK
<1>6. ASSUME NEW h \in 1..current PROVE (HeldOrNewest(h) /\ InHand(h))'
  <2>1. h \in 1..MaxStarts
    BY BusAssumption DEF BusInv, TypeOK
  <2>2. CASE h = current
    BY <1>1, <1>3, <2>2 DEF Stop, BusInv, HeldOrNewest, InHand
  <2>3. CASE h # current
    BY <1>4, <2>1, <2>3 DEF Stop, BusInv, HeldOrNewest, InHand
  <2> QED
    BY <2>2, <2>3
<1> QED
  BY <1>5, <1>6 DEF Stop, BusInv

-----------------------------------------------------------------------------
\* Every step of the bus keeps the invariant.
THEOREM BusInvariant == Spec => []BusInv
<1>1. BusInv /\ [Next]_vars => BusInv'
  <2> SUFFICES ASSUME BusInv, [Next]_vars PROVE BusInv'
    OBVIOUS
  <2>1. ASSUME NEW h \in Handlers, Subscribe(h) PROVE BusInv'
    <3>1. /\ handlers' \in Seq(Handlers) /\ Len(handlers') = Len(handlers) + 1
      BY <2>1 DEF Subscribe, BusInv, TypeOK
    <3>2. TypeOK'
      BY <2>1, <3>1 DEF Subscribe, BusInv, TypeOK
    <3>3. ASSUME NEW g \in 1..current PROVE (HeldOrNewest(g) /\ InHand(g))'
      <4>1. task[g] \in Tasks /\ Len(handlers) \in Nat
        BY BusAssumption DEF BusInv, TypeOK
      <4>2. task[g].next \in Nat
        BY <4>1 DEF Tasks
      <4>3. HeldOrNewest(g)' /\ task' = task
        BY <2>1 DEF Subscribe, BusInv, HeldOrNewest
      <4> QED
        BY <3>1, <4>1, <4>2, <4>3 DEF BusInv, InHand
    <3> QED
      BY <2>1, <3>2, <3>3 DEF Subscribe, BusInv
  <2>2. ASSUME NEW p \in Publishers, Publish(p) \/ ResumePut(p) PROVE BusInv'
    BY <2>2, BusInvPublish
  <2>3. ASSUME NEW g \in 1..MaxStarts, Consume(g) PROVE BusInv'
    BY <2>3, BusInvConsume
  <2>4. ASSUME NEW g \in 1..MaxStarts, StopReturns(g) PROVE BusInv'
    <3>1. TypeOK'
      BY <2>4 DEF StopReturns, BusInv, TypeOK
    <3>2. (\A h \in 1..current : HeldOrNewest(h) /\ InHand(h))'
      BY <2>4 DEF StopReturns, BusInv, HeldOrNewest, InHand
    <3> QED
      BY <2>4, <3>1, <3>2 DEF StopReturns, BusInv
  <2>5. CASE Start
    BY <2>5, BusInvStart
  <2>6. CASE Stop
    BY <2>6, BusInvStop
  <2>7. CASE UNCHANGED vars
    BY <2>7 DEF vars, BusInv, TypeOK, HeldOrNewest, InHand
  <2> QED
    BY <2>1, <2>2, <2>3, <2>4, <2>5, <2>6, <2>7 DEF Next
<1> QED
  BY <1>1, BusInvInit, PTL DEF Spec

\* Queue, handlers, tasks and the record of the calls keep their types.
THEOREM BusTypeCorrect == Spec => []TypeOK
<1>1. BusInv => TypeOK
  BY DEF BusInv
<1> QED
  BY <1>1, BusInvariant, PTL

\* After the last stop has returned no handler runs.
THEOREM StopIsQuiet == Spec => []QuietAfterStop
<1>1. BusInv => QuietAfterStop
  BY DEF BusInv, QuietAfterStop, HeldOrNewest
<1> QED
  BY <1>1, BusInvariant, PTL

\* A bus that says it runs has a newest consumer that goes on.
RunningIsServed ==
    isRunning => /\ current > 0
                 /\ task[current].at \in {"getting", "handling"}
                 /\ ~task[current].cancelled

\* No consumer ends under a flag that is set: a loop that ends by itself has seen the
\* flag cleared, and the one that stop cancelled is not the newest by the time that
\* start has set the flag again.
LEMMA ServedConsume ==
    ASSUME BusInv, RunningIsServed, NEW g \in 1..MaxStarts, Consume(g)
    PROVE  RunningIsServed'
<1>1. /\ UNCHANGED isRunning /\ UNCHANGED current
      /\ current \in 0..MaxStarts /\ task \in [1..MaxStarts -> Tasks]
  BY DEF Consume, Take, HandlerEnds, Cancelled, BusInv, TypeOK
<1>2. CASE ~isRunning
  BY <1>1, <1>2 DEF RunningIsServed
<1>3. CASE isRunning /\ g = current
  <2>1. ~task[g].cancelled
    BY <1>3 DEF RunningIsServed
  <2>2. PICK e, i : Dispatch(g, e, i)
    BY <2>1 DEF Consume, Take, HandlerEnds, Cancelled
  <2>3. PICK t : /\ task' = [task EXCEPT ![g] = t]
                 /\ t.at \in {"getting", "handling"} /\ ~t.cancelled
    <3>1. CASE \E j \in i..Len(handlers) : task' = [task EXCEPT ![g] = Awaiting(e, j + 1)]
      <4> PICK j \in i..Len(handlers) : task' = [task EXCEPT ![g] = Awaiting(e, j + 1)]
        BY <3>1
      <4>1. Awaiting(e, j + 1).at = "handling" /\ ~Awaiting(e, j + 1).cancelled
        BY DEF Awaiting
      <4> QED
        BY <4>1
    <3>2. CASE task' = [task EXCEPT ![g] = Idle("getting")]
      <4>1. Idle("getting").at = "getting" /\ ~Idle("getting").cancelled
        BY DEF Idle
      <4> QED
        BY <3>2, <4>1
    <3> QED
      BY <1>3, <2>2, <3>1, <3>2 DEF Dispatch
  <2>4. task'[g].at \in {"getting", "handling"} /\ ~task'[g].cancelled
    BY <1>1, <2>3
  <2> QED
    BY <1>1, <1>3, <2>4 DEF RunningIsServed
<1>4. CASE isRunning /\ g # current
  <2>1. current \in 1..MaxStarts
    BY <1>1, <1>4, BusAssumption DEF RunningIsServed
  <2>2. ASSUME Cancelled(g) PROVE task'[current] = task[current]
    BY <1>1, <1>4, <2>1, <2>2 DEF Cancelled
  <2>3. ASSUME Take(g) \/ HandlerEnds(g) PROVE task'[current] = task[current]
    <3>1. PICK e, i : Dispatch(g, e, i)
      BY <2>3 DEF Take, HandlerEnds
    <3>2. PICK t : task' = [task EXCEPT ![g] = t]
      BY <3>1 DEF Dispatch
    <3> QED
      BY <1>1, <1>4, <2>1, <3>2
  <2>4. task'[current] = task[current]
    BY <1>4, <2>2, <2>3 DEF Consume
  <2> QED
    BY <1>1, <1>4, <2>4 DEF RunningIsServed
<1> QED
  BY <1>2, <1>3, <1>4

LEMMA RunningMeansServed == Spec => []RunningIsServed
<1>1. Init => RunningIsServed
  BY DEF Init, RunningIsServed
<1>2. BusInv /\ RunningIsServed /\ [Next]_vars => RunningIsServed'
  <2> SUFFICES ASSUME BusInv, RunningIsServed, [Next]_vars PROVE RunningIsServed'
    OBVIOUS
  <2>1. CASE Start
    <3>1. current + 1 \in 1..MaxStarts /\ task \in [1..MaxStarts -> Tasks]
      BY <2>1, BusAssumption DEF Start, BusInv, TypeOK
    <3>2. task'[current + 1].at = "getting" /\ ~task'[current + 1].cancelled
      BY <2>1, <3>1 DEF Start, Idle
    <3> QED
      BY <2>1, <3>1, <3>2 DEF Start, RunningIsServed
  <2>2. CASE Stop
    BY <2>2 DEF Stop, RunningIsServed
  <2>3. ASSUME NEW g \in 1..MaxStarts, Consume(g) PROVE RunningIsServed'
    BY <2>3, ServedConsume
  <2>4. CASE \/ \E h \in Handlers : Subscribe(h)
             \/ \E p \in Publishers : Publish(p) \/ ResumePut(p)
             \/ \E g \in 1..MaxStarts : StopReturns(g)
             \/ UNCHANGED vars
    <3>1. UNCHANGED isRunning /\ UNCHANGED current /\ UNCHANGED task
      BY <2>4 DEF Subscribe, Publish, ResumePut, StopReturns, vars
    <3> QED
      BY <3>1 DEF RunningIsServed
  <2> QED
    BY <2>1, <2>2, <2>3, <2>4 DEF Next
<1> QED
  BY <1>1, <1>2, BusInvariant, PTL DEF Spec

\* For any queue, any handlers and however the calls of start and stop interleave: a bus
\* that runs has one consumer that goes on, the newest, and a bus that does not has none.
THEOREM OneConsumer == Spec => []OneLiveConsumer
<1> DEFINE going == {g \in 1..current : task[g].at # "ended" /\ ~task[g].cancelled}
<1>1. ASSUME BusInv, RunningIsServed PROVE OneLiveConsumer
  <2>1. current \in 0..MaxStarts
    BY <1>1 DEF BusInv, TypeOK
  <2>2. \A g \in going : g = current /\ isRunning
    BY <1>1 DEF BusInv, HeldOrNewest
  <2>3. isRunning => current \in going
    BY <1>1, <2>1 DEF RunningIsServed
  <2>4. going = IF isRunning THEN {current} ELSE {}
    BY <2>2, <2>3
  <2> QED
    BY <2>4 DEF OneLiveConsumer
<1> QED
  BY <1>1, BusInvariant, RunningMeansServed, PTL

-----------------------------------------------------------------------------
(* The order of events.                                                    *)
(*                                                                         *)
(* InOrder speaks of places in accepted.  The invariant says why they are  *)
(* respected: what was taken is the beginning of accepted and the queue is  *)
(* the rest; a consumer at work holds the event taken last; and what it has *)
(* called with that event are the handlers before the next one.            *)

\* How many events have been taken from the queue.
Taken == Len(accepted) - Len(queue)

QueueIsRest ==
    /\ Len(queue) <= Len(accepted)
    /\ \A k \in 1..Len(queue) : queue[k] = accepted[Taken + k]

\* No publisher is ahead of what it has begun to publish.
Numbered ==
    \A k \in DOMAIN accepted :
        /\ accepted[k][2] <= sent[accepted[k][1]]
        /\ accepted[k][1] \in waiting => accepted[k][2] < sent[accepted[k][1]]

HandlersDiffer == \A m, n \in DOMAIN handlers : handlers[m] = handlers[n] => m = n

\* A record of calls on the first t events, in their order, no call twice.
Ordered(cs, t) ==
    /\ \A x \in DOMAIN cs : \E k \in 1..t : accepted[k] = cs[x][1]
    /\ \A x, y \in DOMAIN cs : x < y =>
          /\ \A k, l \in DOMAIN accepted :
                accepted[k] = cs[x][1] /\ accepted[l] = cs[y][1] => k <= l
          /\ cs[x] # cs[y]

\* The calls with e so far are those of the handlers before the n-th.
CalledBefore(cs, e, n) ==
    /\ \A x \in DOMAIN cs : cs[x][1] = e => \E m \in 1..(n - 1) : cs[x][2] = handlers[m]
    /\ \A m \in 1..(n - 1) : \E x \in DOMAIN cs : cs[x] = <<e, handlers[m]>>

AtWork(g) == task[g].at = "handling" /\ ~task[g].cancelled

HandInOrder(g) ==
    /\ task[g].at = "getting" => task[g].event = NoEvent
    /\ AtWork(g) =>
          /\ Taken \in DOMAIN accepted /\ task[g].event = accepted[Taken]
          /\ CalledBefore(calls, task[g].event, task[g].next)

OrderInv ==
    /\ BusInv
    /\ PublisherOrder /\ Numbered
    /\ QueueIsRest
    /\ HandlersDiffer
    /\ Ordered(calls, Taken)
    /\ \A g \in 1..current : HandInOrder(g)

\* An event is accepted once.
LEMMA AcceptedOnce ==
    ASSUME TypeOK, PublisherOrder, NEW k \in DOMAIN accepted, NEW l \in DOMAIN accepted,
           accepted[k] = accepted[l]
    PROVE  k = l
<1>1. /\ accepted \in Seq(Events) /\ k \in Nat /\ l \in Nat
      /\ accepted[k] \in Events /\ accepted[k][2] \in Nat
  BY DEF TypeOK, Events
<1> QED
  BY <1>1 DEF PublisherOrder

\* A stretch of a dispatch keeps the record in order: its event is the last one taken,
\* and its handlers come after those that were called before.
LEMMA StretchInOrder ==
    ASSUME TypeOK, PublisherOrder, HandlersDiffer,
           NEW t \in Nat, NEW u \in DOMAIN accepted, t <= u, Ordered(calls, t),
           NEW i \in Nat \ {0}, NEW j \in Nat, j <= Len(handlers), i <= j + 1,
           CalledBefore(calls, accepted[u], i)
    PROVE  LET cs == calls \o Calls(accepted[u], i, j)
           IN  /\ cs \in Seq(Events \X Handlers)
               /\ Ordered(cs, u)
               /\ CalledBefore(cs, accepted[u], j + 1)
               /\ \A x \in DOMAIN calls : x \in DOMAIN cs /\ cs[x] = calls[x]
<1> DEFINE e == accepted[u]
           new == Calls(e, i, j)
           cs == calls \o new
           old == 1..Len(calls)
           added == (Len(calls) + 1)..(Len(calls) + (j - i + 1))
<1>1. /\ calls \in Seq(Events \X Handlers) /\ handlers \in Seq(Handlers)
      /\ accepted \in Seq(Events) /\ e \in Events
      /\ Len(calls) \in Nat /\ Len(handlers) \in Nat /\ Len(accepted) \in Nat
      /\ DOMAIN calls = old /\ DOMAIN handlers = 1..Len(handlers)
      /\ DOMAIN accepted = 1..Len(accepted)
  BY DEF TypeOK
<1>2. new \in Seq(Events \X Handlers) /\ Len(new) = j - i + 1
  <2>1. j - i + 1 \in Nat
    OBVIOUS
  <2> QED
    BY <1>1, <2>1, CallsType DEF Calls
<1> HIDE DEF new
<1>3. /\ cs \in Seq(Events \X Handlers)
      /\ DOMAIN cs = old \cup added
      /\ \A x \in old : cs[x] = calls[x]
      /\ \A x \in added : cs[x] = new[x - Len(calls)]
  <2>1. Len(cs) = Len(calls) + (j - i + 1) /\ cs \in Seq(Events \X Handlers)
    <3>1. PICK S : S = Events \X Handlers
      OBVIOUS
    <3>2. calls \in Seq(S) /\ new \in Seq(S)
      BY <1>1, <1>2, <3>1
    <3>3. Len(calls \o new) = Len(calls) + Len(new) /\ calls \o new \in Seq(S)
      BY ONLY <3>2, ConcatProperties
    <3> QED
      BY <1>2, <3>1, <3>3
  <2>2. \A x \in 1..(Len(calls) + (j - i + 1)) :
            cs[x] = IF x <= Len(calls) THEN calls[x] ELSE new[x - Len(calls)]
    <3>1. PICK S : S = Events \X Handlers
      OBVIOUS
    <3>2. calls \in Seq(S) /\ new \in Seq(S)
      BY <1>1, <1>2, <3>1
    <3>3. \A x \in 1..(Len(calls) + Len(new)) :
             (calls \o new)[x] = IF x <= Len(calls) THEN calls[x] ELSE new[x - Len(calls)]
      BY ONLY <3>2, ConcatProperties
    <3> QED
      BY <1>2, <3>3
  <2>3. DOMAIN cs = 1..(Len(calls) + (j - i + 1))
    BY <2>1, LenProperties
  <2>4. DOMAIN cs = old \cup added /\ \A x \in added : ~(x <= Len(calls))
    BY <1>1, <2>3
  <2> HIDE DEF cs
  <2>5. \A x \in old : x <= Len(calls) /\ x \in 1..(Len(calls) + (j - i + 1))
    BY <1>1, <2>3, <2>4
  <2>6. \A x \in old : cs[x] = calls[x]
    BY <2>2, <2>5
  <2>7. \A x \in added : x \in 1..(Len(calls) + (j - i + 1))
    BY <2>3, <2>4
  <2>8. \A x \in added : cs[x] = new[x - Len(calls)]
    BY <2>2, <2>4, <2>7
  <2> QED
    BY <2>1, <2>4, <2>6, <2>8
<1>4. \A x \in added : /\ cs[x] = <<e, handlers[i + (x - Len(calls)) - 1]>>
                       /\ i + (x - Len(calls)) - 1 \in i..j
  <2> TAKE x \in added
  <2>1. x - Len(calls) \in 1..(j - i + 1)
    BY <1>1
  <2>2. i + (x - Len(calls)) - 1 \in i..j
    BY <1>1
  <2> QED
    BY <1>3, <2>1, <2>2 DEF Calls, new
<1> HIDE DEF e, cs
<1>5. \A x \in old : \E k \in 1..t : accepted[k] = calls[x][1]
  BY <1>1 DEF Ordered
<1>6. \A k \in DOMAIN accepted : accepted[k] = e => k = u
  BY AcceptedOnce DEF e
<1>7. \A x \in old, k \in DOMAIN accepted : accepted[k] = calls[x][1] => k <= t
  <2> TAKE x \in old, k \in DOMAIN accepted
  <2>1. PICK l \in 1..t : accepted[l] = calls[x][1]
    BY <1>5
  <2>2. l \in DOMAIN accepted
    BY <1>1
  <2> QED
    BY <2>1, <2>2, AcceptedOnce
<1>8. \A x \in added : cs[x][1] = e /\ \E m \in i..j : cs[x][2] = handlers[m]
  BY <1>4
<1>9. \A x \in old, y \in added : cs[x] # cs[y]
  <2> SUFFICES ASSUME NEW x \in old, NEW y \in added, cs[x] = cs[y] PROVE FALSE
    OBVIOUS
  <2>1. calls[x][1] = e /\ calls[x][2] = handlers[i + (y - Len(calls)) - 1]
    BY <1>3, <1>4
  <2>2. PICK m \in 1..(i - 1) : calls[x][2] = handlers[m]
    BY <1>1, <2>1 DEF CalledBefore, e
  <2>3. /\ m \in DOMAIN handlers /\ i + (y - Len(calls)) - 1 \in DOMAIN handlers
        /\ m # i + (y - Len(calls)) - 1
    BY <1>1, <1>4
  <2> QED
    BY <2>1, <2>2, <2>3 DEF HandlersDiffer
<1>10. \A x, y \in added : x < y => cs[x] # cs[y]
  <2> SUFFICES ASSUME NEW x \in added, NEW y \in added, x < y, cs[x] = cs[y] PROVE FALSE
    OBVIOUS
  <2>1. handlers[i + (x - Len(calls)) - 1] = handlers[i + (y - Len(calls)) - 1]
    BY <1>4
  <2>2. /\ i + (x - Len(calls)) - 1 \in DOMAIN handlers
        /\ i + (y - Len(calls)) - 1 \in DOMAIN handlers
        /\ i + (x - Len(calls)) - 1 # i + (y - Len(calls)) - 1
    BY <1>1, <1>4
  <2> QED
    BY <2>1, <2>2 DEF HandlersDiffer
<1>11. Ordered(cs, u)
  <2>1. \A x \in DOMAIN cs : \E k \in 1..u : accepted[k] = cs[x][1]
    <3> TAKE x \in DOMAIN cs
    <3>1. CASE x \in old
      <4>1. PICK k \in 1..t : accepted[k] = calls[x][1]
        BY <1>5, <3>1
      <4>2. k \in 1..u
        BY <1>1
      <4> QED
        BY <1>3, <3>1, <4>1, <4>2
    <3>2. CASE x \in added
      BY <1>1, <1>8, <3>2 DEF e
    <3> QED
      BY <1>3, <3>1, <3>2
  <2>2. ASSUME NEW x \in DOMAIN cs, NEW y \in DOMAIN cs, x < y
        PROVE  /\ \A k, l \in DOMAIN accepted :
                     accepted[k] = cs[x][1] /\ accepted[l] = cs[y][1] => k <= l
               /\ cs[x] # cs[y]
    <3>1. CASE x \in old /\ y \in old
      BY <1>1, <1>3, <2>2, <3>1 DEF Ordered
    <3>2. CASE x \in old /\ y \in added
      <4>1. \A k, l \in DOMAIN accepted :
                accepted[k] = cs[x][1] /\ accepted[l] = cs[y][1] => k <= t /\ l = u
        BY <1>3, <1>6, <1>7, <1>8, <3>2
      <4>2. \A k \in DOMAIN accepted : k <= t => k <= u
        BY <1>1
      <4>3. cs[x] # cs[y]
        BY <1>9, <3>2
      <4> QED
        BY <4>1, <4>2, <4>3
    <3>3. CASE x \in added /\ y \in added
      <4>1. \A k, l \in DOMAIN accepted :
                accepted[k] = cs[x][1] /\ accepted[l] = cs[y][1] => k = u /\ l = u
        BY <1>6, <1>8, <3>3
      <4>2. cs[x] # cs[y]
        BY <1>10, <2>2, <3>3
      <4>3. u <= u
        BY <1>1
      <4> QED
        BY <4>1, <4>2, <4>3
    <3>4. ~ (x \in added /\ y \in old)
      BY <1>1, <2>2
    <3> QED
      BY <1>3, <3>1, <3>2, <3>3, <3>4
  <2> QED
    BY <2>1, <2>2 DEF Ordered
<1>12. CalledBefore(cs, e, j + 1)
  <2>1. ASSUME NEW x \in DOMAIN cs, cs[x][1] = e
        PROVE  \E m \in 1..j : cs[x][2] = handlers[m]
    <3>1. CASE x \in old
      <4>1. PICK m \in 1..(i - 1) : calls[x][2] = handlers[m]
        BY <1>1, <1>3, <2>1, <3>1 DEF CalledBefore, e
      <4>2. m \in 1..j
        OBVIOUS
      <4> QED
        BY <1>3, <3>1, <4>1, <4>2
    <3>2. CASE x \in added
      <4>1. PICK m \in i..j : cs[x][2] = handlers[m]
        BY <1>8, <3>2
      <4>2. m \in 1..j
        OBVIOUS
      <4> QED
        BY <4>1, <4>2
    <3> QED
      BY <1>3, <3>1, <3>2
  <2>2. ASSUME NEW m \in 1..j
        PROVE  \E x \in DOMAIN cs : cs[x] = <<e, handlers[m]>>
    <3>1. CASE m < i
      <4>1. m \in 1..(i - 1)
        BY <3>1
      <4>2. PICK x \in old : calls[x] = <<e, handlers[m]>>
        BY <1>1, <4>1 DEF CalledBefore, e
      <4> QED
        BY <1>3, <4>2
    <3>2. CASE m >= i
      <4>1. PICK x : x = Len(calls) + m - i + 1
        OBVIOUS
      <4>2. x \in added /\ i + (x - Len(calls)) - 1 = m
        BY <1>1, <3>2, <4>1
      <4> QED
        BY <1>3, <1>4, <4>2
    <3> QED
      BY <3>1, <3>2
  <2>3. (j + 1) - 1 = j
    OBVIOUS
  <2> QED
    BY <2>1, <2>2, <2>3 DEF CalledBefore
<1> QED
  BY <1>1, <1>3, <1>11, <1>12 DEF e, cs, new

\* An event that is put has the highest number of its publisher so far.
LEMMA PutInOrder ==
    ASSUME OrderInv, BusInv', NEW p \in Publishers, Put(<<p, sent'[p]>>),
           \A k \in DOMAIN accepted : accepted[k][1] = p => accepted[k][2] < sent'[p],
           \A q \in Publishers : q # p => sent'[q] = sent[q],
           p \notin waiting', waiting' \subseteq waiting,
           UNCHANGED <<handlers, current, task, calls>>
    PROVE  OrderInv'
<1> DEFINE e == <<p, sent'[p]>>
           n == Len(accepted)
<1>1. /\ TypeOK /\ TypeOK'
      /\ accepted \in Seq(Events) /\ queue \in Seq(Events) /\ e \in Events
      /\ n \in Nat /\ Len(queue) \in Nat /\ DOMAIN accepted = 1..n
      /\ calls \in Seq(Events \X Handlers)
  <2>1. sent'[p] # 0
    <3>1. accepted' \in Seq(Events) /\ accepted' = Append(accepted, e) /\ accepted \in Seq(Events)
      BY DEF OrderInv, BusInv, TypeOK, Put
    <3>2. Len(accepted') = n + 1 /\ accepted'[n + 1] = e /\ n \in Nat
      BY <3>1
    <3>3. n + 1 \in 1..Len(accepted')
      BY <3>2
    <3>4. e \in Events
      BY <3>1, <3>2, <3>3, ElementOfSeq
    <3> QED
      BY <3>4 DEF Events
  <2>2. e \in Events
    BY <2>1, BusAssumption DEF BusInv, TypeOK, Events
  <2> QED
    BY <2>2 DEF OrderInv, BusInv, TypeOK
<1>2. /\ DOMAIN accepted' = 1..(n + 1) /\ Len(accepted') = n + 1
      /\ accepted'[n + 1] = e
      /\ \A k \in 1..n : accepted'[k] = accepted[k]
  BY <1>1 DEF Put
<1>3. /\ Len(queue') = Len(queue) + 1 /\ queue'[Len(queue) + 1] = e
      /\ \A k \in 1..Len(queue) : queue'[k] = queue[k]
  BY <1>1 DEF Put
<1> HIDE DEF e
<1>4. e[1] = p /\ e[2] = sent'[p]
  BY DEF e
<1>5. \A k \in 1..n : accepted[k] \in Events /\ accepted[k][1] \in Publishers /\ accepted[k][2] \in Nat
  BY <1>1 DEF Events
<1>6. PublisherOrder'
  <2> SUFFICES ASSUME NEW k \in 1..(n + 1), NEW l \in 1..(n + 1), k < l,
                      accepted'[k][1] = accepted'[l][1]
               PROVE  accepted'[k][2] < accepted'[l][2]
    BY <1>2 DEF PublisherOrder
  <2>1. CASE l = n + 1
    <3>1. k \in 1..n
      BY <1>1, <2>1
    <3> QED
      BY <1>1, <1>2, <1>4, <2>1, <3>1
  <2>2. CASE l # n + 1
    <3>1. k \in 1..n /\ l \in 1..n
      BY <1>1, <2>2
    <3> QED
      BY <1>1, <1>2, <3>1 DEF OrderInv, PublisherOrder
  <2> QED
    BY <2>1, <2>2
<1>7. Numbered'
  <2> SUFFICES ASSUME NEW k \in 1..(n + 1)
               PROVE  /\ accepted'[k][2] <= sent'[accepted'[k][1]]
                      /\ accepted'[k][1] \in waiting' => accepted'[k][2] < sent'[accepted'[k][1]]
    BY <1>2 DEF Numbered
  <2>1. CASE k = n + 1
    <3>1. sent'[p] \in Nat
      BY BusAssumption DEF BusInv, TypeOK
    <3> QED
      BY <1>2, <1>4, <2>1, <3>1
  <2>2. CASE k # n + 1
    <3>1. k \in 1..n /\ accepted'[k] = accepted[k]
      BY <1>1, <1>2, <2>2
    <3>2. CASE accepted[k][1] = p
      <4>1. accepted[k][2] < sent'[p] /\ accepted[k][2] \in Nat
        BY <1>1, <1>5, <3>1, <3>2
      <4>2. sent'[p] \in Nat
        BY BusAssumption DEF BusInv, TypeOK
      <4> QED
        BY <3>1, <3>2, <4>1, <4>2
    <3>3. CASE accepted[k][1] # p
      BY <1>1, <1>5, <3>1, <3>3 DEF OrderInv, Numbered
    <3> QED
      BY <3>2, <3>3
  <2> QED
    BY <2>1, <2>2
<1>8. Taken' = Taken /\ Taken \in Nat /\ Taken <= n
  BY <1>1, <1>2, <1>3 DEF Taken, OrderInv, QueueIsRest
<1>9. QueueIsRest'
  <2>1. \A k \in 1..(Len(queue) + 1) : queue'[k] = accepted'[Taken + k]
    <3> TAKE k \in 1..(Len(queue) + 1)
    <3>1. CASE k = Len(queue) + 1
      BY <1>1, <1>2, <1>3, <3>1 DEF Taken
    <3>2. CASE k # Len(queue) + 1
      <4>1. k \in 1..Len(queue) /\ Taken + k \in 1..n
        BY <1>1, <1>8, <3>2 DEF Taken
      <4> QED
        BY <1>2, <1>3, <4>1 DEF OrderInv, QueueIsRest
    <3> QED
      BY <3>1, <3>2
  <2> QED
    BY <1>1, <1>2, <1>3, <1>8, <2>1 DEF OrderInv, QueueIsRest
<1>10. \A x \in DOMAIN calls, k \in DOMAIN accepted' :
          accepted'[k] = calls[x][1] => k \in 1..n /\ accepted[k] = calls[x][1]
  <2> SUFFICES ASSUME NEW x \in DOMAIN calls, NEW k \in 1..(n + 1), accepted'[k] = calls[x][1]
               PROVE  k \in 1..n /\ accepted[k] = calls[x][1]
    BY <1>2
  <2>1. PICK l \in 1..Taken : accepted[l] = calls[x][1]
    BY DEF OrderInv, Ordered
  <2>2. l \in 1..n /\ accepted'[l] = accepted'[k]
    BY <1>2, <1>8, <2>1
  <2>3. l \in DOMAIN accepted' /\ k \in DOMAIN accepted'
    BY <1>1, <1>2, <2>2
  <2>4. k = l
    <3>1. TypeOK' /\ PublisherOrder'
      BY <1>1, <1>6
    <3>2. accepted' \in Seq(Events)
      BY <3>1 DEF TypeOK
    <3>3. k \in Nat /\ l \in Nat /\ accepted'[k] \in Events
      BY <2>3, <3>2
    <3>4. accepted'[k][2] \in Nat
      BY <3>3 DEF Events
    <3> QED
      BY <2>2, <2>3, <3>1, <3>3, <3>4 DEF PublisherOrder
  <2> QED
    BY <1>2, <2>2, <2>4
<1>11. Ordered(calls, Taken)'
  <2>1. \A x \in DOMAIN calls : \E k \in 1..Taken : accepted'[k] = calls[x][1]
    BY <1>1, <1>2, <1>8 DEF OrderInv, Ordered
  <2>2. \A x, y \in DOMAIN calls : x < y =>
          /\ \A k, l \in DOMAIN accepted' :
                accepted'[k] = calls[x][1] /\ accepted'[l] = calls[y][1] => k <= l
          /\ calls[x] # calls[y]
    BY <1>1, <1>10 DEF OrderInv, Ordered
  <2> QED
    BY <1>8, <2>1, <2>2 DEF Ordered
<1>12. ASSUME NEW g \in 1..current PROVE HandInOrder(g)'
  <2>1. HandInOrder(g)
    BY DEF OrderInv
  <2>2. AtWork(g) => Taken \in 1..n /\ accepted'[Taken] = accepted[Taken]
    BY <1>1, <1>2, <2>1 DEF HandInOrder
  <2> QED
    BY <1>1, <1>2, <1>8, <2>1, <2>2 DEF HandInOrder, AtWork, CalledBefore
<1> QED
  BY <1>6, <1>7, <1>9, <1>11, <1>12 DEF OrderInv, HandlersDiffer

\* Publishing, with or without a wait.
LEMMA PublishInOrder ==
    ASSUME OrderInv, BusInv', NEW p \in Publishers, Publish(p) \/ ResumePut(p)
    PROVE  OrderInv'
<1>1. /\ UNCHANGED <<handlers, isRunning, current, task, stopping, calls>>
      /\ TypeOK /\ sent \in [Publishers -> 0..MaxEvents] /\ accepted \in Seq(Events)
  BY DEF Publish, ResumePut, OrderInv, BusInv, TypeOK
<1>2. \A k \in DOMAIN accepted : /\ accepted[k][1] \in Publishers /\ accepted[k][2] \in Nat
                                 /\ sent[accepted[k][1]] \in Nat
  BY <1>1, BusAssumption DEF Events
<1>3. CASE Publish(p)
  <2>1. sent'[p] = sent[p] + 1 /\ \A q \in Publishers : q # p => sent'[q] = sent[q]
    BY <1>1, <1>3 DEF Publish
  <2>2. \A k \in DOMAIN accepted : accepted[k][1] = p => accepted[k][2] < sent'[p]
    BY <1>2, <2>1 DEF OrderInv, Numbered
  <2>3. CASE ~Full /\ Put(<<p, sent[p] + 1>>) /\ UNCHANGED waiting
    BY <1>1, <1>3, <2>1, <2>2, <2>3, PutInOrder DEF Publish
  <2>4. CASE Full /\ waiting' = waiting \cup {p} /\ UNCHANGED <<queue, accepted>>
    <3>1. Numbered'
      BY <1>2, <2>1, <2>2, <2>4 DEF OrderInv, Numbered
    <3> QED
      BY <1>1, <2>4, <3>1 DEF OrderInv, PublisherOrder, QueueIsRest, HandlersDiffer, Ordered,
                              HandInOrder, AtWork, CalledBefore, Taken
  <2> QED
    BY <1>3, <2>3, <2>4 DEF Publish
<1>4. CASE ResumePut(p)
  <2>1. p \in waiting /\ waiting' = waiting \ {p} /\ sent' = sent /\ Put(<<p, sent[p]>>)
    BY <1>4 DEF ResumePut
  <2>2. \A k \in DOMAIN accepted : accepted[k][1] = p => accepted[k][2] < sent'[p]
    BY <2>1 DEF OrderInv, Numbered
  <2> QED
    BY <1>1, <2>1, <2>2, PutInOrder
<1> QED
  BY <1>3, <1>4

\* The consumer g goes on with the event taken last, from handler i on.
LEMMA DispatchInOrder ==
    ASSUME OrderInv, BusInv', NEW g \in 1..current, ~task[g].cancelled, task[g].at # "ended",
           UNCHANGED <<handlers, current, sent, waiting, accepted>>,
           QueueIsRest', Taken' \in DOMAIN accepted, Taken <= Taken',
           NEW i \in Nat \ {0}, i <= Len(handlers) + 1,
           CalledBefore(calls, accepted[Taken'], i),
           Dispatch(g, accepted[Taken'], i)
    PROVE  OrderInv'
<1>1. /\ TypeOK /\ g \in 1..MaxStarts /\ task \in [1..MaxStarts -> Tasks]
      /\ Len(handlers) \in Nat /\ Taken \in Nat
      /\ PublisherOrder /\ HandlersDiffer /\ Ordered(calls, Taken)
  <2>1. TypeOK /\ PublisherOrder /\ HandlersDiffer /\ Ordered(calls, Taken) /\ QueueIsRest
    BY DEF OrderInv, BusInv
  <2>2. /\ current \in 0..MaxStarts /\ task \in [1..MaxStarts -> Tasks]
        /\ handlers \in Seq(Handlers) /\ queue \in Seq(Events) /\ accepted \in Seq(Events)
    BY <2>1 DEF TypeOK
  <2>3. g \in 1..MaxStarts
    BY <2>2, BusAssumption
  <2>4. Taken \in Nat
    BY <2>1, <2>2 DEF Taken, QueueIsRest
  <2>5. Len(handlers) \in Nat
    BY <2>2
  <2> QED
    BY <2>1, <2>2, <2>3, <2>4, <2>5
<1>2. PICK e : e = accepted[Taken']
  OBVIOUS
<1>8. handlers' = handlers /\ current' = current /\ accepted' = accepted /\ sent' = sent /\ waiting' = waiting
  OBVIOUS
<1>3. ASSUME NEW h \in 1..current, h # g, task'[h] = task[h]
      PROVE  HandInOrder(h)'
  <2>1. ~AtWork(h)
    <3>1. HeldOrNewest(h) /\ HeldOrNewest(g)
      BY DEF OrderInv, BusInv
    <3> QED
      BY <1>3, <3>1 DEF HeldOrNewest, AtWork
  <2> QED
    BY <1>3, <2>1 DEF OrderInv, HandInOrder, AtWork
<1>4. \A j \in Nat : j <= Len(handlers) /\ i <= j + 1 =>
          LET cs == calls \o Calls(e, i, j)
          IN  Ordered(cs, Taken') /\ CalledBefore(cs, e, j + 1)
  <2> TAKE j \in Nat
  <2> HAVE j <= Len(handlers) /\ i <= j + 1
  <2> QED
    BY <1>1, <1>2, StretchInOrder
<1>5. \A h \in 1..current : h \in 1..MaxStarts
  BY <1>1, BusAssumption DEF TypeOK
<1>6. CASE \E j \in i..Len(handlers) :
          /\ calls' = calls \o Calls(e, i, j)
          /\ task' = [task EXCEPT ![g] = Awaiting(e, j + 1)]
  <2>0. PICK j \in i..Len(handlers) :
          /\ calls' = calls \o Calls(e, i, j)
          /\ task' = [task EXCEPT ![g] = Awaiting(e, j + 1)]
    BY <1>6
  <2>1. /\ task'[g] = Awaiting(e, j + 1)
        /\ \A h \in 1..current : h # g => task'[h] = task[h]
    BY <1>1, <1>5, <2>0
  <2>2. Ordered(calls', Taken') /\ CalledBefore(calls', e, j + 1)
    BY <1>1, <1>4, <2>0
  <2>3. HandInOrder(g)'
    <3>1. task'[g].at = "handling" /\ task'[g].event = e /\ task'[g].next = j + 1
      BY <2>1 DEF Awaiting
    <3>2. CalledBefore(calls, task[g].event, task[g].next)'
      BY <1>8, <2>2, <3>1 DEF CalledBefore
    <3>3. (Taken \in DOMAIN accepted)' /\ task'[g].event = accepted'[Taken']
      BY <1>2, <1>8, <3>1
    <3> QED
      BY <3>1, <3>2, <3>3 DEF HandInOrder
  <2>4. \A h \in 1..current : HandInOrder(h)'
    BY <1>3, <2>1, <2>3
  <2> QED
    <3>1. Ordered(calls, Taken)'
      BY <1>8, <2>2 DEF Ordered
    <3>2. (PublisherOrder /\ Numbered /\ HandlersDiffer)'
      BY <1>8 DEF OrderInv, PublisherOrder, Numbered, HandlersDiffer
    <3>3. \A h \in 1..current' : HandInOrder(h)'
      BY <1>8, <2>4
    <3> QED
      BY <3>1, <3>2, <3>3 DEF OrderInv
<1>7. CASE /\ calls' = calls \o Calls(e, i, Len(handlers))
           /\ task' = [task EXCEPT ![g] = Idle(IF isRunning THEN "getting" ELSE "ended")]
  <2>1. /\ task'[g] = Idle(IF isRunning THEN "getting" ELSE "ended")
        /\ \A h \in 1..current : h # g => task'[h] = task[h]
    BY <1>1, <1>5, <1>7
  <2>2. Ordered(calls', Taken')
    BY <1>1, <1>4, <1>7
  <2>3. HandInOrder(g)'
    <3>1. task'[g].at # "handling" /\ task'[g].event = NoEvent
      BY <2>1 DEF Idle
    <3> QED
      BY <3>1 DEF HandInOrder, AtWork
  <2>4. \A h \in 1..current : HandInOrder(h)'
    BY <1>3, <2>1, <2>3
  <2> QED
    <3>1. Ordered(calls, Taken)'
      BY <1>8, <2>2 DEF Ordered
    <3>2. (PublisherOrder /\ Numbered /\ HandlersDiffer)'
      BY <1>8 DEF OrderInv, PublisherOrder, Numbered, HandlersDiffer
    <3>3. \A h \in 1..current' : HandInOrder(h)'
      BY <1>8, <2>4
    <3> QED
      BY <3>1, <3>2, <3>3 DEF OrderInv
<1> QED
  BY <1>2, <1>6, <1>7 DEF Dispatch

LEMMA TakeInOrder ==
    ASSUME OrderInv, BusInv', NEW g \in 1..MaxStarts, Take(g)
    PROVE  /\ OrderInv'
           /\ Taken' \in DOMAIN accepted /\ accepted[Taken'] = Head(queue)
           /\ CalledBefore(calls, Head(queue), 1)
           /\ \A k \in 1..Taken : accepted[k] # Head(queue)
<1>1. /\ queue \in Seq(Events) /\ queue # <<>> /\ queue' = Tail(queue)
      /\ accepted \in Seq(Events) /\ accepted' = accepted
      /\ calls \in Seq(Events \X Handlers)
  BY DEF Take, OrderInv, BusInv, TypeOK
<1>2. /\ Len(queue) \in Nat /\ Len(accepted) \in Nat /\ Len(queue) >= 1
      /\ Len(queue) <= Len(accepted) /\ Head(queue) = queue[1]
      /\ Len(queue') = Len(queue) - 1
      /\ \A k \in 1..Len(queue') : queue'[k] = queue[k + 1]
  BY <1>1 DEF OrderInv, QueueIsRest
<1>3. /\ Taken' = Taken + 1 /\ Taken \in Nat /\ Taken' \in DOMAIN accepted
      /\ accepted[Taken'] = Head(queue)
  BY <1>1, <1>2 DEF Taken, OrderInv, QueueIsRest
<1>4. QueueIsRest'
  <2>1. \A k \in 1..Len(queue') : queue'[k] = accepted[Taken' + k]
    <3> TAKE k \in 1..Len(queue')
    <3>1. k + 1 \in 1..Len(queue) /\ Taken + (k + 1) = Taken' + k
      BY <1>2, <1>3
    <3> QED
      BY <1>2, <3>1 DEF OrderInv, QueueIsRest
  <2> QED
    BY <1>1, <1>2, <2>1 DEF QueueIsRest
<1>5. \A k \in 1..Taken : k \in DOMAIN accepted /\ accepted[k] # Head(queue)
  <2> TAKE k \in 1..Taken
  <2>1. k \in DOMAIN accepted /\ k # Taken'
    BY <1>1, <1>2, <1>3 DEF Taken
  <2> QED
    BY <1>3, <2>1, AcceptedOnce DEF OrderInv, BusInv
<1>6. CalledBefore(calls, Head(queue), 1)
  <2>1. \A x \in DOMAIN calls : calls[x][1] # Head(queue)
    BY <1>5 DEF OrderInv, Ordered
  <2>2. 1..(1 - 1) = {}
    OBVIOUS
  <2> QED
    BY <2>1, <2>2 DEF CalledBefore
<1>7. g \in 1..current /\ ~task[g].cancelled /\ task[g].at = "getting"
  BY BusAssumption DEF Take, OrderInv, BusInv, TypeOK
<1>8. OrderInv'
  <2>1. UNCHANGED <<handlers, current, sent, waiting, accepted>> /\ Dispatch(g, Head(queue), 1)
    BY DEF Take
  <2>2. 1 \in Nat \ {0} /\ 1 <= Len(handlers) + 1 /\ Taken <= Taken'
    BY <1>3 DEF OrderInv, BusInv, TypeOK
  <2> QED
    BY <1>3, <1>4, <1>6, <1>7, <2>1, <2>2, DispatchInOrder
<1> QED
  BY <1>3, <1>5, <1>6, <1>8

LEMMA HandlerEndsInOrder ==
    ASSUME OrderInv, BusInv', NEW g \in 1..MaxStarts, HandlerEnds(g)
    PROVE  OrderInv'
<1>1. /\ g \in 1..current /\ AtWork(g) /\ HandInOrder(g) /\ InHand(g) /\ task[g] \in Tasks
      /\ Dispatch(g, task[g].event, task[g].next)
      /\ UNCHANGED <<queue, handlers, current, sent, waiting, accepted>>
  BY BusAssumption DEF HandlerEnds, AtWork, OrderInv, BusInv, TypeOK
<1>2. /\ Taken' = Taken /\ Taken \in DOMAIN accepted /\ task[g].event = accepted[Taken']
      /\ QueueIsRest'
  BY <1>1 DEF HandInOrder, Taken, OrderInv, QueueIsRest
<1>3. task[g].next \in Nat \ {0} /\ task[g].next <= Len(handlers) + 1
  BY <1>1 DEF InHand, AtWork, Tasks
<1>4. CalledBefore(calls, task[g].event, task[g].next) /\ ~task[g].cancelled /\ task[g].at # "ended"
  BY <1>1 DEF HandInOrder, AtWork
<1>5. Taken <= Taken'
  BY <1>2 DEF OrderInv, BusInv, TypeOK
<1> QED
  BY <1>1, <1>2, <1>3, <1>4, <1>5, DispatchInOrder

\* A new handler comes after those that a consumer at work has called.
LEMMA SubscribeInOrder ==
    ASSUME OrderInv, NEW h \in Handlers, Subscribe(h)
    PROVE  HandlersDiffer' /\ \A g \in 1..current : HandInOrder(g)'
<1>1. /\ handlers \in Seq(Handlers) /\ Len(handlers) \in Nat
      /\ DOMAIN handlers = 1..Len(handlers)
      /\ DOMAIN handlers' = 1..(Len(handlers) + 1)
      /\ handlers'[Len(handlers) + 1] = h
      /\ \A m \in 1..Len(handlers) : handlers'[m] = handlers[m] /\ handlers[m] # h
      /\ UNCHANGED <<queue, accepted, task, calls, current>>
  BY DEF Subscribe, OrderInv, BusInv, TypeOK
<1>2. HandlersDiffer'
  <2> SUFFICES ASSUME NEW m \in 1..(Len(handlers) + 1), NEW n \in 1..(Len(handlers) + 1),
                      handlers'[m] = handlers'[n]
               PROVE  m = n
    BY <1>1 DEF HandlersDiffer
  <2>1. m \in 1..Len(handlers) \/ m = Len(handlers) + 1
    BY <1>1
  <2>2. n \in 1..Len(handlers) \/ n = Len(handlers) + 1
    BY <1>1
  <2> QED
    BY <1>1, <2>1, <2>2 DEF OrderInv, HandlersDiffer
<1>3. ASSUME NEW g \in 1..current PROVE HandInOrder(g)'
  <2>1. HandInOrder(g) /\ InHand(g) /\ task[g] \in Tasks
    BY BusAssumption DEF OrderInv, BusInv, TypeOK
  <2>2. AtWork(g) => CalledBefore(calls, task[g].event, task[g].next)'
    <3> SUFFICES ASSUME AtWork(g)
                 PROVE  CalledBefore(calls, task[g].event, task[g].next)'
      OBVIOUS
    <3>1. \A m \in 1..(task[g].next - 1) : handlers'[m] = handlers[m]
      <4>1. task[g].next \in Nat /\ task[g].next <= Len(handlers) + 1
        BY <2>1 DEF AtWork, InHand, Tasks
      <4> QED
        BY <1>1, <4>1
    <3> QED
      BY <1>1, <2>1, <3>1 DEF HandInOrder, CalledBefore
  <2> QED
    BY <1>1, <2>1, <2>2 DEF HandInOrder, AtWork, Taken
<1> QED
  BY <1>2, <1>3

\* Cancelling, starting and stopping put no event into a hand.
LEMMA ControlInOrder ==
    ASSUME OrderInv,
           \/ Start \/ Stop
           \/ \E g \in 1..MaxStarts : Cancelled(g) \/ StopReturns(g)
    PROVE  \A h \in 1..current' : HandInOrder(h)'
<1>1. /\ TypeOK /\ task \in [1..MaxStarts -> Tasks]
      /\ UNCHANGED <<queue, handlers, accepted, calls>>
  BY DEF Start, Stop, Cancelled, StopReturns, OrderInv, BusInv, TypeOK
<1>2. \A h \in 1..current : h \in 1..MaxStarts /\ HandInOrder(h)
  BY <1>1, BusAssumption DEF OrderInv, TypeOK
<1>3. ASSUME NEW h \in 1..current', h \in 1..current, task'[h].event = task[h].event,
             task'[h].next = task[h].next,
             task'[h].at = "getting" => task[h].at = "getting", AtWork(h)' => AtWork(h)
      PROVE  HandInOrder(h)'
  BY <1>1, <1>2, <1>3 DEF HandInOrder, CalledBefore, Taken
<1>4. ASSUME NEW h \in 1..current', h \in 1..current, task'[h] = task[h] PROVE HandInOrder(h)'
  BY <1>3, <1>4 DEF AtWork
<1>5. CASE Start
  <2> TAKE h \in 1..current'
  <2>1. current' = current + 1 /\ current + 1 \in 1..MaxStarts /\ current \in Nat
    BY <1>1, <1>5, BusAssumption DEF Start, TypeOK
  <2>2. task' = [task EXCEPT ![current + 1] = Idle("getting")]
    BY <1>5 DEF Start
  <2>3. CASE h = current + 1
    BY <1>1, <2>1, <2>2, <2>3 DEF HandInOrder, AtWork, Idle
  <2>4. CASE h # current + 1
    BY <1>1, <1>2, <1>4, <2>1, <2>2, <2>4
  <2> QED
    BY <2>3, <2>4
<1>6. CASE Stop
  <2> TAKE h \in 1..current'
  <2>1. current' = current /\ current \in 1..MaxStarts
    BY <1>1, <1>6, BusAssumption DEF Stop, TypeOK
  <2>2. task' = [task EXCEPT ![current] = [task[current] EXCEPT
                                !.cancelled = @ \/ task[current].at # "ended"]]
    BY <1>1, <1>6, <2>1 DEF Stop
  <2>3. CASE h = current
    <3>1. task[current] \in Tasks /\ task'[h] = [task[h] EXCEPT !.cancelled = @ \/ task[h].at # "ended"]
      BY <1>1, <2>1, <2>2, <2>3
    <3>2. /\ task'[h].at = task[h].at /\ task'[h].event = task[h].event
          /\ task'[h].next = task[h].next
          /\ task[h].cancelled => task'[h].cancelled
      BY <2>3, <3>1 DEF Tasks
    <3> QED
      BY <1>3, <2>1, <3>2 DEF AtWork
  <2>4. CASE h # current
    BY <1>1, <1>2, <1>4, <2>1, <2>2, <2>4
  <2> QED
    BY <2>3, <2>4
<1>7. ASSUME NEW g \in 1..MaxStarts, Cancelled(g) PROVE \A h \in 1..current' : HandInOrder(h)'
  <2> TAKE h \in 1..current'
  <2>1. current' = current /\ h \in 1..MaxStarts
    BY <1>2, <1>7 DEF Cancelled
  <2>2. CASE h = g
    <3>1. task'[h] = [task[h] EXCEPT !.at = "ended"] /\ task[h] \in Tasks
      BY <1>1, <1>7, <2>1, <2>2 DEF Cancelled
    <3>2. task'[h].at = "ended" /\ task'[h].event = task[h].event /\ task'[h].next = task[h].next
      BY <3>1 DEF Tasks
    <3> QED
      BY <1>3, <2>1, <3>2 DEF AtWork
  <2>3. CASE h # g
    BY <1>1, <1>4, <1>7, <2>1, <2>3 DEF Cancelled
  <2> QED
    BY <2>2, <2>3
<1>8. ASSUME NEW g \in 1..MaxStarts, StopReturns(g) PROVE \A h \in 1..current' : HandInOrder(h)'
  BY <1>4, <1>8 DEF StopReturns
<1> QED
  BY <1>5, <1>6, <1>7, <1>8

LEMMA OrderStep == OrderInv /\ BusInv' /\ [Next]_vars => OrderInv'
<1> SUFFICES ASSUME OrderInv, BusInv', [Next]_vars PROVE OrderInv'
  OBVIOUS
<1>1. ASSUME UNCHANGED <<accepted, sent, waiting, queue, handlers, calls>>,
             \A g \in 1..current' : HandInOrder(g)'
      PROVE  OrderInv'
  BY <1>1 DEF OrderInv, PublisherOrder, Numbered, QueueIsRest, HandlersDiffer, Ordered, Taken
<1>2. ASSUME NEW h \in Handlers, Subscribe(h) PROVE OrderInv'
  <2>1. UNCHANGED <<accepted, sent, waiting, queue, calls, current>>
    BY <1>2 DEF Subscribe
  <2> QED
    BY <1>2, <2>1, SubscribeInOrder
       DEF OrderInv, PublisherOrder, Numbered, QueueIsRest, Ordered, Taken
<1>3. ASSUME NEW p \in Publishers, Publish(p) \/ ResumePut(p) PROVE OrderInv'
  BY <1>3, PublishInOrder
<1>4. ASSUME NEW g \in 1..MaxStarts, Take(g) \/ HandlerEnds(g) PROVE OrderInv'
  BY <1>4, TakeInOrder, HandlerEndsInOrder
<1>5. ASSUME NEW g \in 1..MaxStarts, Cancelled(g) \/ StopReturns(g) PROVE OrderInv'
  <2>1. UNCHANGED <<accepted, sent, waiting, queue, handlers, calls>>
    BY <1>5 DEF Cancelled, StopReturns
  <2> QED
    BY <1>1, <1>5, <2>1, ControlInOrder
<1>6. CASE Start \/ Stop
  <2>1. UNCHANGED <<accepted, sent, waiting, queue, handlers, calls>>
    BY <1>6 DEF Start, Stop
  <2> QED
    BY <1>1, <1>6, <2>1, ControlInOrder
<1>7. CASE UNCHANGED vars
  <2>1. \A g \in 1..current' : HandInOrder(g)'
    BY <1>7 DEF vars, OrderInv, HandInOrder, AtWork, CalledBefore, Taken
  <2> QED
    BY <1>1, <1>7, <2>1 DEF vars
<1> QED
  BY <1>2, <1>3, <1>4, <1>5, <1>6, <1>7 DEF Next, Consume

LEMMA OrderInvariant == Spec => []OrderInv
<1>1. Init => OrderInv
  <2> SUFFICES ASSUME Init PROVE OrderInv
    OBVIOUS
  <2>1. BusInv
    BY BusInvInit
  <2>2. Len(accepted) = 0 /\ Len(queue) = 0 /\ DOMAIN accepted = {} /\ DOMAIN calls = {}
        /\ DOMAIN handlers = {}
    BY DEF Init
  <2>3. 1..current = {}
    BY DEF Init
  <2> QED
    BY <2>1, <2>2, <2>3
       DEF OrderInv, PublisherOrder, Numbered, QueueIsRest, HandlersDiffer, Ordered
<1> QED
  BY <1>1, OrderStep, BusInvariant, PTL DEF Spec

\* A publisher's events are accepted in the order in which it published them, through
\* waits on a full queue (EventBus.publish, publish_all).
THEOREM PublishersKeepTheirOrder == Spec => []PublisherOrder
<1>1. OrderInv => PublisherOrder
  BY DEF OrderInv
<1> QED
  BY <1>1, OrderInvariant, PTL

\* Over any number of starts and stops: handlers are called with the events in the order
\* in which the queue took them, and with no event twice (EventBus._consume, _dispatch).
THEOREM HandlersSeeTheOrder == Spec => []InOrder
<1>1. OrderInv => InOrder
  <2> SUFFICES ASSUME OrderInv, NEW x \in DOMAIN calls, NEW y \in DOMAIN calls, x < y
               PROVE  Place(calls[x][1]) <= Place(calls[y][1]) /\ calls[x] # calls[y]
    BY DEF InOrder
  <2>1. \A z \in DOMAIN calls :
           Place(calls[z][1]) \in DOMAIN accepted /\ accepted[Place(calls[z][1])] = calls[z][1]
    <3> TAKE z \in DOMAIN calls
    <3>1. PICK k \in 1..Taken : accepted[k] = calls[z][1]
      BY DEF OrderInv, Ordered
    <3>2. k \in DOMAIN accepted
      BY DEF Taken, OrderInv, BusInv, TypeOK, QueueIsRest
    <3> QED
      BY <3>1, <3>2 DEF Place
  <2> QED
    BY <2>1 DEF OrderInv, Ordered
<1> QED
  BY <1>1, OrderInvariant, PTL

LEMMA SeqSetAppend ==
    ASSUME NEW S, NEW s \in Seq(S), NEW x \in S
    PROVE  SeqSet(Append(s, x)) = SeqSet(s) \cup {x}
<1>1. /\ DOMAIN s = 1..Len(s) /\ Len(s) \in Nat
      /\ DOMAIN Append(s, x) = 1..(Len(s) + 1) /\ Append(s, x)[Len(s) + 1] = x
      /\ \A k \in 1..Len(s) : Append(s, x)[k] = s[k]
  OBVIOUS
<1>2. \A k \in 1..(Len(s) + 1) : k \in 1..Len(s) \/ k = Len(s) + 1
  BY <1>1
<1> QED
  BY <1>1, <1>2 DEF SeqSet

\* A dispatch that does not keep its event in hand has called the last handler.
LEMMA ThroughDispatch ==
    ASSUME OrderInv, NEW g \in 1..current, NEW u \in DOMAIN accepted, Taken <= u,
           NEW i \in Nat \ {0}, i <= Len(handlers) + 1,
           CalledBefore(calls, accepted[u], i), Dispatch(g, accepted[u], i),
           task'[g].event # accepted[u]
    PROVE  \A h \in SeqSet(handlers) : <<accepted[u], h>> \in SeqSet(calls')
<1> DEFINE e == accepted[u]
<1>1. /\ TypeOK /\ g \in 1..MaxStarts /\ task \in [1..MaxStarts -> Tasks]
      /\ Len(handlers) \in Nat /\ DOMAIN handlers = 1..Len(handlers) /\ Taken \in Nat
      /\ PublisherOrder /\ HandlersDiffer /\ Ordered(calls, Taken)
  BY BusAssumption DEF OrderInv, BusInv, TypeOK, Taken, QueueIsRest
<1>2. \A n \in Nat : task' # [task EXCEPT ![g] = Awaiting(e, n)]
  <2> SUFFICES ASSUME NEW n \in Nat, task' = [task EXCEPT ![g] = Awaiting(e, n)] PROVE FALSE
    OBVIOUS
  <2>1. task'[g] = Awaiting(e, n)
    BY <1>1
  <2>2. task'[g].event = e
    BY <2>1 DEF Awaiting
  <2> QED
    BY <2>2
<1>3. calls' = calls \o Calls(e, i, Len(handlers))
  <2>1. \A j \in i..Len(handlers) : j + 1 \in Nat
    BY <1>1
  <2> QED
    BY <1>2, <2>1 DEF Dispatch
<1>4. CalledBefore(calls', e, Len(handlers) + 1)
  <2>1. Len(handlers) <= Len(handlers)
    BY <1>1
  <2> QED
    BY <1>1, <1>3, <2>1, StretchInOrder
<1>5. (Len(handlers) + 1) - 1 = Len(handlers)
  BY <1>1
<1> HIDE DEF e
<1>6. \A h \in SeqSet(handlers) : <<e, h>> \in SeqSet(calls')
  BY <1>1, <1>4, <1>5 DEF SeqSet, CalledBefore
<1> QED
  BY <1>6 DEF e

\* An event leaves all hands only at the end of its dispatch, or when it never was in one.
LEMMA GoneStep ==
    ASSUME OrderInv, OrderInv', [Next]_vars, NEW e \in Events, ~Gone(e), Gone(e)'
    PROVE  \A h \in SeqSet(handlers) : <<e, h>> \in SeqSet(calls')
<1>1. /\ TypeOK /\ task \in [1..MaxStarts -> Tasks] /\ current \in 0..MaxStarts
      /\ queue \in Seq(Events) /\ accepted \in Seq(Events) /\ e # NoEvent
      /\ \A g \in 1..current : g \in 1..MaxStarts /\ HandInOrder(g) /\ InHand(g)
  <2>1. TypeOK /\ \A g \in 1..current : HandInOrder(g) /\ InHand(g)
    BY DEF OrderInv, BusInv
  <2>2. /\ task \in [1..MaxStarts -> Tasks] /\ current \in 0..MaxStarts
        /\ queue \in Seq(Events) /\ accepted \in Seq(Events)
    BY <2>1 DEF TypeOK
  <2>3. \A g \in 1..current : g \in 1..MaxStarts
    BY <2>2, BusAssumption
  <2>4. e # NoEvent
    <3>1. PICK p \in Publishers, n \in 1..MaxEvents : e = <<p, n>>
      BY DEF Events
    <3> QED
      BY <3>1 DEF NoEvent
  <2> QED
    BY <2>1, <2>2, <2>3, <2>4
<1>2. /\ e \in SeqSet(accepted') /\ e \notin SeqSet(queue')
      /\ \A g \in 1..current' : task'[g].event # e
  BY DEF Gone
<1>3. ASSUME NEW g \in 1..MaxStarts, Take(g)
      PROVE  \A h \in SeqSet(handlers) : <<e, h>> \in SeqSet(calls')
  <2>1. /\ g \in 1..current /\ task[g].event = NoEvent /\ queue # <<>>
        /\ queue' = Tail(queue) /\ accepted' = accepted /\ current' = current
        /\ Dispatch(g, Head(queue), 1)
    BY <1>1, <1>3, BusAssumption DEF Take, HandInOrder, TypeOK
  <2>2. \A h \in 1..current : h # g => task'[h] = task[h]
    <3>1. 1 <= Len(handlers) + 1 /\ 1 \in Nat \ {0} /\ Head(queue) \in Events
      BY <1>1, <2>1 DEF TypeOK
    <3>2. \A h \in 1..MaxStarts : h # g => task'[h] = task[h]
      BY <1>1, <1>3, <2>1, <3>1, DispatchType DEF Take
    <3> QED
      BY <1>1, <3>2
  <2>3. e \in SeqSet(queue)
    BY <1>1, <1>2, <2>1, <2>2 DEF Gone
  <2>4. e = Head(queue)
    <3>1. PICK k \in 1..Len(queue) : queue[k] = e
      BY <1>1, <2>3 DEF SeqSet
    <3>2. k # 1 => k - 1 \in DOMAIN queue' /\ queue'[k - 1] = e
      BY <1>1, <2>1, <3>1
    <3>3. k = 1
      BY <1>2, <3>2 DEF SeqSet
    <3> QED
      BY <1>1, <2>1, <3>1, <3>3
  <2>5. /\ Taken' \in DOMAIN accepted /\ accepted[Taken'] = e
        /\ CalledBefore(calls, e, 1)
    BY <1>3, <2>4, TakeInOrder DEF OrderInv
  <2>6. Taken <= Taken' /\ 1 <= Len(handlers) + 1 /\ 1 \in Nat \ {0}
    BY <1>1, <2>1 DEF Taken, TypeOK
  <2> QED
    BY <1>2, <2>1, <2>4, <2>5, <2>6, ThroughDispatch
<1>4. ASSUME NEW g \in 1..MaxStarts, HandlerEnds(g)
      PROVE  \A h \in SeqSet(handlers) : <<e, h>> \in SeqSet(calls')
  <2>1. /\ g \in 1..current /\ AtWork(g) /\ task[g] \in Tasks
        /\ UNCHANGED <<queue, accepted, current>>
        /\ Dispatch(g, task[g].event, task[g].next)
    BY <1>1, <1>4, BusAssumption DEF HandlerEnds, AtWork, TypeOK
  <2>2. /\ Taken \in DOMAIN accepted /\ task[g].event = accepted[Taken]
        /\ CalledBefore(calls, task[g].event, task[g].next)
        /\ task[g].event \in Events
        /\ task[g].next \in Nat \ {0} /\ task[g].next <= Len(handlers) + 1
        /\ Taken <= Taken
    BY <1>1, <2>1 DEF HandInOrder, InHand, AtWork, Tasks
  <2>3. \A h \in 1..current : h # g => task'[h] = task[h]
    <3>1. \A h \in 1..MaxStarts : h # g => task'[h] = task[h]
      BY <1>1, <2>1, <2>2, DispatchType DEF AtWork
    <3> QED
      BY <1>1, <3>1
  <2>4. e = task[g].event
    BY <1>2, <2>1, <2>3 DEF Gone
  <2> QED
    BY <1>2, <2>1, <2>2, <2>4, ThroughDispatch
<1>5. ASSUME UNCHANGED queue, accepted' = accepted, current <= current',
             \A g \in 1..current : task'[g].event = task[g].event
      PROVE  FALSE
  <2>1. \A g \in 1..current : g \in 1..current'
    <3>1. current' \in Nat
      BY BusAssumption DEF OrderInv, BusInv, TypeOK
    <3> QED
      BY <1>1, <1>5, <3>1
  <2> QED
    BY <1>2, <1>5, <2>1 DEF Gone, SeqSet
<1>6. ASSUME NEW p \in Publishers, Publish(p) \/ ResumePut(p) PROVE FALSE
  <2>1. UNCHANGED <<task, current>>
    BY <1>6 DEF Publish, ResumePut
  <2>2. ASSUME NEW n, Put(<<p, n>>) PROVE FALSE
    <3>1. accepted' = Append(accepted, <<p, n>>) /\ queue' = Append(queue, <<p, n>>)
      BY <2>2 DEF Put
    <3>2. PICK x : x = <<p, n>>
      OBVIOUS
    <3>3. SeqSet(queue') = SeqSet(queue) \cup {x} /\ SeqSet(accepted') = SeqSet(accepted) \cup {x}
      <4>1. x \in Events
        <5>1. accepted' \in Seq(Events) /\ Len(accepted') = Len(accepted) + 1
              /\ accepted'[Len(accepted) + 1] = x
          BY <1>1, <3>1, <3>2 DEF OrderInv, BusInv, TypeOK
        <5>2. Len(accepted) + 1 \in 1..Len(accepted')
          BY <1>1, <5>1
        <5> QED
          BY <5>1, <5>2, ElementOfSeq
      <4>2. queue' = Append(queue, x) /\ accepted' = Append(accepted, x)
        BY <3>1, <3>2
      <4>3. SeqSet(Append(queue, x)) = SeqSet(queue) \cup {x}
        BY <1>1, <4>1, SeqSetAppend
      <4>4. SeqSet(Append(accepted, x)) = SeqSet(accepted) \cup {x}
        BY <1>1, <4>1, SeqSetAppend
      <4> QED
        BY <4>2, <4>3, <4>4
    <3>4. e \in SeqSet(accepted) /\ e \notin SeqSet(queue)
      BY <1>2, <3>3
    <3>5. \A g \in 1..current : task[g].event # e
      BY <1>2, <2>1
    <3> QED
      BY <3>4, <3>5 DEF Gone
  <2>3. UNCHANGED <<queue, accepted>> \/ \E n : Put(<<p, n>>)
    BY <1>6 DEF Publish, ResumePut
  <2>4. current <= current' /\ \A g \in 1..current : task'[g].event = task[g].event
    BY <1>1, <2>1
  <2>5. CASE UNCHANGED <<queue, accepted>>
    BY <1>5, <2>4, <2>5
  <2> QED
    BY <2>2, <2>3, <2>5
<1>7. CASE \/ Start \/ Stop \/ UNCHANGED vars
           \/ \E h \in Handlers : Subscribe(h)
           \/ \E g \in 1..MaxStarts : Cancelled(g) \/ StopReturns(g)
  <2>1. UNCHANGED <<queue, accepted>>
    BY <1>7 DEF Start, Stop, Subscribe, Cancelled, StopReturns, vars
  <2>2. current <= current'
    <3>1. current' = current \/ current' = current + 1
      BY <1>7 DEF Start, Stop, Subscribe, Cancelled, StopReturns, vars
    <3> QED
      BY <1>1, <3>1
  <2>3. ASSUME NEW g \in 1..current PROVE task'[g].event = task[g].event
    <3>1. task[g] \in Tasks /\ g # current + 1 /\ current \in Nat /\ g \in 1..MaxStarts
      BY <1>1
    <3>2. CASE Start
      BY <1>1, <3>1, <3>2 DEF Start
    <3>3. CASE Stop
      BY <1>1, <3>1, <3>3 DEF Stop, Tasks
    <3>4. CASE \E h \in 1..MaxStarts : Cancelled(h)
      BY <1>1, <3>1, <3>4 DEF Cancelled, Tasks
    <3> QED
      BY <1>7, <3>2, <3>3, <3>4 DEF Subscribe, StopReturns, vars
  <2> QED
    BY <1>5, <2>1, <2>2, <2>3
<1> QED
  BY <1>3, <1>4, <1>6, <1>7 DEF Next, Consume

\* An event goes out of the bus' hands only when every handler then subscribed has been
\* called with it, however the handlers before it ended (EventBus._dispatch, the try
\* around each call); what a cancellation drops stays in the hand of its task.
THEOREM NothingIsSkipped == Spec => ThroughMeansHandled
<1>1. OrderInv /\ OrderInv' /\ [Next]_vars =>
          [\A e \in Events : ~Gone(e) /\ Gone(e)' =>
              \A h \in SeqSet(handlers) : <<e, h>> \in SeqSet(calls')]_vars
  BY GoneStep
<1> QED
  BY <1>1, OrderInvariant, PTL DEF Spec, ThroughMeansHandled

=============================================================================
