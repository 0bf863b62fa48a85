------------------------------ MODULE EventBus ------------------------------
(***************************************************************************)
(* The in-process event bus of shared/infra/events.py: a bounded queue,    *)
(* publishers that wait when it is full, and one consumer task that hands  *)
(* each event to the subscribed handlers, one after the other.  start()    *)
(* creates the consumer, stop() cancels it and waits for its end.          *)
(*                                                                         *)
(* All of it runs on one event loop: what a coroutine does between two     *)
(* awaits is one step.  The consumer rests in two places: in queue.get()   *)
(* ("getting") and in an asynchronous handler ("handling").  A handler     *)
(* that raises is logged and the next one is called, so how a handler ends *)
(* makes no difference.  cancel() raises in the place where the consumer   *)
(* rests, some time later: nothing is taken from the queue any more, and   *)
(* an event in a handler's hands is dropped.  Handlers end, and do not     *)
(* swallow the cancellation.                                               *)
(*                                                                         *)
(* Events are named by their publisher and a number: publish_all awaits    *)
(* one publish after the other.  One type of event is modelled; a type has *)
(* its own list of handlers.                                               *)
(***************************************************************************)
EXTENDS Naturals, Sequences

CONSTANTS
    Publishers,      \* requests that publish after their commit
    MaxEvents,       \* how many events each of them publishes
    MaxQueueSize,
    Handlers,
    AsyncHandlers,   \* those of them that await
    MaxStarts        \* bound on the number of consumer tasks

ASSUME BusAssumption ==
    /\ MaxEvents \in Nat
    /\ MaxQueueSize \in Nat \ {0}
    /\ AsyncHandlers \subseteq Handlers
    /\ MaxStarts \in Nat

VARIABLES
    queue,       \* _queue
    handlers,    \* _handlers of the type, in the order of subscription
    isRunning,   \* _is_running
    current,     \* _task: the newest task, 0 before the first start
    task,        \* the consumer tasks
    stopping,    \* the tasks that a call of stop() awaits
    sent,        \* how many events each publisher has begun to publish
    waiting,     \* the publishers in queue.put() on a full queue
    accepted,    \* the events put into the queue so far, in order
    calls        \* the calls of handlers so far, in order: <<event, handler>>

vars == <<queue, handlers, isRunning, current, task, stopping, sent, waiting,
          accepted, calls>>

Events == Publishers \X (1..MaxEvents)
NoEvent == <<>>

Tasks == [at : {"none", "getting", "handling", "ended"},
          event : Events \cup {NoEvent},   \* the event in hand, or dropped
          next : Nat \ {0},                \* the handler to call next
          cancelled : BOOLEAN]

\* A task with nothing in hand, and one that awaits a handler of e; next is to come.
Idle(a) == [at |-> a, event |-> NoEvent, next |-> 1, cancelled |-> FALSE]
Awaiting(e, n) == [at |-> "handling", event |-> e, next |-> n, cancelled |-> FALSE]

Init ==
    /\ queue = <<>>
    /\ handlers = <<>>
    /\ isRunning = FALSE
    /\ current = 0
    /\ task = [g \in 1..MaxStarts |-> Idle("none")]
    /\ stopping = {}
    /\ sent = [p \in Publishers |-> 0]
    /\ waiting = {}
    /\ accepted = <<>>
    /\ calls = <<>>

\* Bound: a handler subscribes once.
Subscribe(h) ==
    /\ \A i \in DOMAIN handlers : handlers[i] # h
    /\ handlers' = Append(handlers, h)
    /\ UNCHANGED <<queue, isRunning, current, task, stopping, sent, waiting, accepted, calls>>

-----------------------------------------------------------------------------
(* Publishing.                                                             *)

Full == Len(queue) >= MaxQueueSize

Put(e) ==
    /\ queue' = Append(queue, e)
    /\ accepted' = Append(accepted, e)

\* Mutant: publish_all does not await the publish before the next.
PublishWithoutAwait(p) ==
    /\ sent[p] < MaxEvents
    /\ sent' = [sent EXCEPT ![p] = @ + 1]
    /\ \/ ~Full /\ Put(<<p, sent[p] + 1>>) /\ UNCHANGED waiting
       \/ Full /\ waiting' = waiting \cup {p} /\ UNCHANGED <<queue, accepted>>
    /\ UNCHANGED <<handlers, isRunning, current, task, stopping, calls>>

\* Mutant: the queue has no bound.
PublishUnbounded(p) ==
    /\ p \notin waiting
    /\ sent[p] < MaxEvents
    /\ sent' = [sent EXCEPT ![p] = @ + 1]
    /\ Put(<<p, sent[p] + 1>>)
    /\ UNCHANGED <<handlers, isRunning, current, task, stopping, waiting, calls>>

\* publish, or the next round of publish_all, as far as it gets at once.
Publish(p) ==
    /\ p \notin waiting
    /\ sent[p] < MaxEvents
    /\ sent' = [sent EXCEPT ![p] = @ + 1]
    /\ \/ ~Full /\ Put(<<p, sent[p] + 1>>) /\ UNCHANGED waiting
       \/ Full /\ waiting' = waiting \cup {p} /\ UNCHANGED <<queue, accepted>>
    /\ UNCHANGED <<handlers, isRunning, current, task, stopping, calls>>

\* A waiting put finds room.  asyncio wakes waiters in turn, but a publisher that
\* comes along may be faster, so any of them can be next.
ResumePut(p) ==
    /\ p \in waiting
    /\ ~Full
    /\ waiting' = waiting \ {p}
    /\ Put(<<p, sent[p]>>)
    /\ UNCHANGED <<handlers, isRunning, current, task, stopping, sent, calls>>

-----------------------------------------------------------------------------
(* The consumer.                                                           *)

\* Called from handler i on, the consumer comes to rest in handler j, or is through
\* with the event when j is one past the last.
RestsIn(i, j) ==
    /\ j <= Len(handlers) => handlers[j] \in AsyncHandlers
    /\ \A k \in i..(j - 1) : handlers[k] \notin AsyncHandlers

Calls(e, i, j) ==
    [k \in 1..(j - i + 1) |-> <<e, handlers[i + k - 1]>>]

\* Mutant: a handler that fails ends the dispatch, for want of a try around the call.
DispatchUnguarded(g, e, i) ==
    \/ \E j \in i..Len(handlers) :
          /\ RestsIn(i, j)
          /\ calls' = calls \o Calls(e, i, j)
          /\ task' = [task EXCEPT ![g] = Awaiting(e, j + 1)]
    \/ /\ calls' = calls
       /\ task' = [task EXCEPT ![g] = Idle(IF isRunning THEN "getting" ELSE "ended")]

\* _dispatch of event e from handler i on, up to the next await; the handlers that do
\* not await are called on the way.  After the last one the loop looks at _is_running.
Dispatch(g, e, i) ==
    \/ \E j \in i..Len(handlers) :
          /\ RestsIn(i, j)
          /\ calls' = calls \o Calls(e, i, j)
          /\ task' = [task EXCEPT ![g] = Awaiting(e, j + 1)]
    \/ /\ RestsIn(i, Len(handlers) + 1)
       /\ calls' = calls \o Calls(e, i, Len(handlers))
       /\ task' = [task EXCEPT ![g] = Idle(IF isRunning THEN "getting" ELSE "ended")]

\* queue.get() returns.
Take(g) ==
    /\ task[g].at = "getting" /\ ~task[g].cancelled
    /\ queue # <<>>
    /\ queue' = Tail(queue)
    /\ Dispatch(g, Head(queue), 1)
    /\ UNCHANGED <<handlers, isRunning, current, stopping, sent, waiting, accepted>>

\* The handler returns or raises an Exception.
HandlerEnds(g) ==
    /\ task[g].at = "handling" /\ ~task[g].cancelled
    /\ Dispatch(g, task[g].event, task[g].next)
    /\ UNCHANGED <<queue, handlers, isRunning, current, stopping, sent, waiting, accepted>>

\* CancelledError comes out of get() or out of the handler: break.
Cancelled(g) ==
    /\ task[g].at \in {"getting", "handling"} /\ task[g].cancelled
    /\ task' = [task EXCEPT ![g].at = "ended"]
    /\ UNCHANGED <<queue, handlers, isRunning, current, stopping, sent, waiting, accepted, calls>>

-----------------------------------------------------------------------------
(* start and stop.                                                         *)

\* Mutant: start does not look whether the bus is running.
StartAgain ==
    /\ current < MaxStarts
    /\ isRunning' = TRUE
    /\ current' = current + 1
    /\ task' = [task EXCEPT ![current + 1] = Idle("getting")]
    /\ UNCHANGED <<queue, handlers, stopping, sent, waiting, accepted, calls>>

\* Mutant: start does not create a task when there has been one.
StartOnce ==
    /\ ~isRunning
    /\ isRunning' = TRUE
    /\ IF current = 0
       THEN current' = 1 /\ task' = [task EXCEPT ![1] = Idle("getting")]
       ELSE UNCHANGED <<current, task>>
    /\ UNCHANGED <<queue, handlers, stopping, sent, waiting, accepted, calls>>

\* On a running bus start() does nothing.
Start ==
    /\ ~isRunning
    /\ current < MaxStarts
    /\ isRunning' = TRUE
    /\ current' = current + 1
    /\ task' = [task EXCEPT ![current + 1] = Idle("getting")]
    /\ UNCHANGED <<queue, handlers, stopping, sent, waiting, accepted, calls>>

\* Mutant: stop clears the flag and leaves the end to the loop.
StopWithoutCancel ==
    /\ current > 0
    /\ isRunning' = FALSE
    /\ stopping' = stopping \cup {current}
    /\ UNCHANGED <<queue, handlers, current, task, sent, waiting, accepted, calls>>

\* stop(), up to its await; before the first start it does nothing.
Stop ==
    /\ current > 0
    /\ isRunning' = FALSE
    /\ task' = [task EXCEPT ![current].cancelled = @ \/ task[current].at # "ended"]
    /\ stopping' = stopping \cup {current}
    /\ UNCHANGED <<queue, handlers, current, sent, waiting, accepted, calls>>

\* Mutant: stop does not await the task it cancelled.
StopReturnsEarly(g) ==
    /\ g \in stopping
    /\ stopping' = stopping \ {g}
    /\ UNCHANGED <<queue, handlers, isRunning, current, task, sent, waiting, accepted, calls>>

\* await self._task is over.
StopReturns(g) ==
    /\ g \in stopping
    /\ task[g].at = "ended"
    /\ stopping' = stopping \ {g}
    /\ UNCHANGED <<queue, handlers, isRunning, current, task, sent, waiting, accepted, calls>>

-----------------------------------------------------------------------------
Consume(g) == Take(g) \/ HandlerEnds(g) \/ Cancelled(g)

Next ==
    \/ \E h \in Handlers : Subscribe(h)
    \/ \E p \in Publishers : Publish(p) \/ ResumePut(p)
    \/ \E g \in 1..MaxStarts : Consume(g) \/ StopReturns(g)
    \/ Start
    \/ Stop

\* The event loop runs every coroutine that can go on.  Nobody has to publish,
\* subscribe, start or stop.
Fairness ==
    /\ \A p \in Publishers : WF_vars(ResumePut(p))
    /\ \A g \in 1..MaxStarts : WF_vars(Consume(g))

Spec == Init /\ [][Next]_vars /\ Fairness

-----------------------------------------------------------------------------
SeqSet(s) == {s[i] : i \in DOMAIN s}

\* Every variable has its type; the tasks are those that start created.
TypeOK ==
    /\ queue \in Seq(Events) /\ Len(queue) <= MaxQueueSize
    /\ handlers \in Seq(Handlers)
    /\ isRunning \in BOOLEAN
    /\ current \in 0..MaxStarts
    /\ task \in [1..MaxStarts -> Tasks]
    /\ stopping \subseteq 1..current
    /\ sent \in [Publishers -> 0..MaxEvents]
    /\ waiting \subseteq Publishers
    /\ accepted \in Seq(Events)
    /\ calls \in Seq(Events \X Handlers)
    /\ \A g \in 1..MaxStarts : task[g].at = "none" <=> g > current

\* However starts and stops interleave, one consumer goes on while the bus runs, the
\* newest, and none while it does not.  With two, events would be handled out of order;
\* with none, start(), which trusts the flag, would never replace the one that died, and
\* the publishers that wait for room would wait for ever.  (EventBus.start, stop,
\* _process_events.)
OneLiveConsumer ==
    {g \in 1..current : task[g].at # "ended" /\ ~task[g].cancelled} =
        IF isRunning THEN {current} ELSE {}

\* When every stop() has returned and nobody has started the bus since, no handler
\* is running and none will be called.
QuietAfterStop ==
    ~isRunning /\ stopping = {} => \A g \in 1..current : task[g].at = "ended"

Place(e) == CHOOSE i \in DOMAIN accepted : accepted[i] = e

\* Handlers see the events in the order in which the queue took them, each event
\* at most once per handler: over any number of restarts.
InOrder ==
    \A i, j \in DOMAIN calls : i < j =>
        /\ Place(calls[i][1]) <= Place(calls[j][1])
        /\ calls[i] # calls[j]

\* A publisher's own events keep their order through the waits on a full queue.
PublisherOrder ==
    \A i, j \in DOMAIN accepted :
        i < j /\ accepted[i][1] = accepted[j][1] => accepted[i][2] < accepted[j][2]

\* In nobody's hands any more; a cancelled task keeps the event it dropped.
Gone(e) ==
    /\ e \in SeqSet(accepted) \ SeqSet(queue)
    /\ \A g \in 1..current : task[g].event # e

\* An event is through only when every handler has been called with it, whether or
\* not the ones before it failed; only a stop() drops an event, one at most.
ThroughMeansHandled ==
    [][\A e \in Events : ~Gone(e) /\ Gone(e)' =>
          \A h \in SeqSet(handlers) : <<e, h>> \in SeqSet(calls')]_vars

\* In the hands of a task that was cancelled.
Dropped(e) == \E g \in 1..current : task[g].at = "ended" /\ task[g].event = e

\* While the bus stays up, each event that the queue took is dispatched, but for those
\* that an earlier stop() dropped, and no publisher waits for ever.
EventuallyHandled ==
    <>[]isRunning =>
        /\ \A e \in Events : e \in SeqSet(accepted) ~> Gone(e) \/ Dropped(e)
        /\ \A p \in Publishers : p \in waiting ~> p \notin waiting

\* shared/infra/events.py:33: a full queue drops the event.  So whatever the state of
\* the bus, publish() returns.
PublishReturns == \A p \in Publishers : p \in waiting ~> p \notin waiting
=============================================================================
