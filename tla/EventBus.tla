------------------------------ MODULE EventBus ------------------------------
(***************************************************************************)
(* The in-memory event queue of one session and the SSE streams that read  *)
(* it (interview/service.py, EventBus and stream_events).  EventBus keeps  *)
(* its queues and its consumer counts by session id, so the sessions do    *)
(* not meet and one of them stands for all.                                *)
(*                                                                         *)
(* Every open stream of the session reads the same asyncio.Queue: an event *)
(* goes to one of them.  A stream is an async generator: it stops at every *)
(* yield until the HTTP response has taken the chunk, and a client that    *)
(* leaves closes it at the yield or at the get() where it stands.          *)
(***************************************************************************)
EXTENDS Integers, Sequences, FiniteSets

CONSTANTS
  Stream,      \* the SSE connections of the session's browsers
  MaxQueue,    \* _MAX_QUEUE
  MaxEvents,   \* bound: published events
  MaxQueues,   \* bound: asyncio.Queue objects made for the session
  MaxConsumers \* bound: its consumer count (which can leak)

ASSUME StreamAssumption == IsFiniteSet(Stream)
ASSUME QueueAssumption == MaxQueue \in Nat \ {0}
ASSUME EventAssumption == MaxEvents \in Nat /\ MaxQueues \in Nat /\ MaxConsumers \in Nat

VARIABLES
  queue,       \* each Queue object's events, oldest first
  current,     \* the object in _queues[session_id], 0 when there is none
  made,        \* Queue objects made so far
  consumers,   \* _consumers[session_id], 0 when there is none
  published,   \* publish calls so far; the n-th publishes event n
  ended,       \* the events that report a completed or cancelled session
  stream       \* each stream: where it stands, the object it reads, the last
               \* event its browser was given

vars == <<queue, current, made, consumers, published, ended, stream>>

\* "hello": at the yield of the connected event, before the try block.
PC == {"closed", "hello", "waiting", "sending"}

\* The streams whose finally block will run.
Guarded == {s \in Stream : stream[s].pc \in {"waiting", "sending"}}

Init ==
  /\ queue = [k \in 1 .. MaxQueues |-> << >>]
  /\ current = 0
  /\ made = 0
  /\ consumers = 0
  /\ published = 0
  /\ ended = {}
  /\ stream = [s \in Stream |-> [pc |-> "closed", queue |-> 0, last |-> 0]]

-----------------------------------------------------------------------------
\* Mutant: a full queue refuses the newest event.
Put_DropsNewest(events, e) == IF Len(events) = MaxQueue THEN events ELSE Append(events, e)

\* put_nowait; a full queue first loses its oldest event.
Put(events, e) == Append(IF Len(events) = MaxQueue THEN Tail(events) ELSE events, e)

\* The service publishes an event, session_status completed or cancelled when
\* it is a last one (others may still follow from requests in flight).
Publish(last) ==
  /\ published < MaxEvents
  /\ published' = published + 1
  /\ ended' = IF last THEN ended \cup {published + 1} ELSE ended
  /\ queue' = IF current = 0 THEN queue
                             ELSE [queue EXCEPT ![current] = Put(@, published + 1)]
  /\ UNCHANGED <<current, made, consumers, stream>>

\* stream_events up to its first yield: subscribe.
Connect(s) ==
  /\ stream[s].pc = "closed"
  /\ consumers < MaxConsumers
  /\ IF current # 0
       THEN /\ UNCHANGED <<current, made>>
            /\ consumers' = consumers + 1
       ELSE /\ made < MaxQueues
            /\ made' = made + 1
            /\ current' = made + 1
            /\ consumers' = 1
  /\ stream' = [stream EXCEPT ![s] = [pc |-> "hello", queue |-> current',
                                         last |-> stream[s].last]]
  /\ UNCHANGED <<queue, published, ended>>

\* The connected event is sent; the stream enters its loop.
Greet(s) ==
  /\ stream[s].pc = "hello"
  /\ stream' = [stream EXCEPT ![s].pc = "waiting"]
  /\ UNCHANGED <<queue, current, made, consumers, published, ended>>

\* Mutant: a peek that leaves the event in the queue.
Take_Peeks(s) ==
  /\ stream[s].pc = "waiting"
  /\ queue[stream[s].queue] # << >>
  /\ stream' = [stream EXCEPT ![s].pc = "sending", ![s].last = Head(queue[stream[s].queue])]
  /\ UNCHANGED <<queue, current, made, consumers, published, ended>>

\* get() returns the oldest event and the stream yields it.
Take(s) ==
  LET events == queue[stream[s].queue] IN
  /\ stream[s].pc = "waiting"
  /\ events # << >>
  /\ queue' = [queue EXCEPT ![stream[s].queue] = Tail(events)]
  /\ stream' = [stream EXCEPT ![s].pc = "sending", ![s].last = Head(events)]
  /\ UNCHANGED <<current, made, consumers, published, ended>>

\* Mutant: the first stream that leaves takes the queue away.
Unsubscribe_Always ==
  /\ consumers' = 0
  /\ current' = 0

\* The last consumer removes the queue.
Unsubscribe ==
  IF consumers <= 1 THEN consumers' = 0 /\ current' = 0
                    ELSE consumers' = consumers - 1 /\ UNCHANGED current

\* task_done() follows: it counts for join(), which nobody calls.
Close(s) == stream' = [stream EXCEPT ![s].pc = "closed"]

\* Mutant: the return after a completed or cancelled status is dropped.
Sent_KeepsOpen(s) ==
  /\ stream[s].pc = "sending"
  /\ stream' = [stream EXCEPT ![s].pc = "waiting"]
  /\ UNCHANGED <<queue, current, made, consumers, published, ended>>

\* The event is sent: the last one ends the stream, after another, and after
\* the keepalive comment of a get() that timed out, it waits again.
Sent(s) ==
  /\ stream[s].pc = "sending"
  /\ IF stream[s].last \in ended
       THEN Close(s) /\ Unsubscribe
       ELSE /\ stream' = [stream EXCEPT ![s].pc = "waiting"]
            /\ UNCHANGED <<consumers, current>>
  /\ UNCHANGED <<queue, made, published, ended>>

\* The client leaves a stream that is in its try block.
Leave(s) ==
  /\ s \in Guarded
  /\ Close(s) /\ Unsubscribe
  /\ UNCHANGED <<queue, made, published, ended>>

\* The client leaves before the connected event is taken: the generator is
\* closed outside its try block and does not unsubscribe.
LeaveEarly(s) ==
  /\ stream[s].pc = "hello"
  /\ Close(s)
  /\ UNCHANGED <<queue, current, made, consumers, published, ended>>

Next ==
  \/ \E last \in BOOLEAN : Publish(last)
  \/ \E s \in Stream : \/ Connect(s) \/ Greet(s) \/ Take(s) \/ Sent(s)
                       \/ Leave(s) \/ LeaveEarly(s)

Spec == Init /\ [][Next]_vars

\* The event loop runs the streams: get() on a queue with events returns at
\* the next turn of the loop, so some waiting stream takes one however
\* clients come and go; a chunk that was yielded is sent or the client left.
FairSpec ==
  /\ Spec
  /\ WF_vars(\E s \in Stream : Take(s))
  /\ \A s \in Stream : WF_vars(Greet(s)) /\ WF_vars(Sent(s))

-----------------------------------------------------------------------------
(* Properties.                                                             *)

Open == {s \in Stream : stream[s].pc # "closed"}

TypeOK ==
  /\ queue \in [1 .. MaxQueues -> Seq(1 .. MaxEvents)]
  /\ made \in 0 .. MaxQueues
  /\ current \in 0 .. made
  /\ consumers \in Nat
  /\ published \in 0 .. MaxEvents
  /\ ended \subseteq 1 .. published
  /\ stream \in [Stream -> [pc : PC, queue : 0 .. MaxQueues, last : 0 .. published]]

\* No stream is orphaned: every open stream reads the queue publish() writes
\* to, whoever connected and left before (the consumer count never falls
\* below the number of open streams).
StreamsShareQueue ==
  /\ Cardinality(Open) <= consumers
  /\ \A s \in Open : current # 0 /\ stream[s].queue = current

\* Overflow costs the oldest events only: the queue is bounded and always
\* holds the newest ones without a gap, so a final status is not lost to a
\* slow reader unless _MAX_QUEUE events follow it.
QueueHoldsTheNewest ==
  \A k \in 1 .. made :
    /\ Len(queue[k]) <= MaxQueue
    /\ \A i, j \in DOMAIN queue[k] : queue[k][j] - queue[k][i] = j - i
    /\ k = current /\ queue[k] # << >> => queue[k][Len(queue[k])] = published

\* No event is delivered twice, or after a newer one: streams compete for
\* the events of one queue, and what is still queued is newer than all that
\* any browser was given.
DeliveredOnce ==
  /\ \A s \in Stream : current # 0 =>
       \A i \in DOMAIN queue[current] : stream[s].last < queue[current][i]
  /\ \A s, t \in Stream : stream[s].last = stream[t].last /\ s # t => stream[s].last = 0

ConsumersHaveQueue == consumers = 0 <=> current = 0

\* A queue object is empty until it is made.
NewQueuesAreEmpty == \A k \in 1 .. MaxQueues : k > made => queue[k] = << >>

\* The conjunction is inductive.
IInv ==
  /\ TypeOK /\ StreamsShareQueue /\ QueueHoldsTheNewest /\ DeliveredOnce
  /\ ConsumersHaveQueue /\ NewQueuesAreEmpty

\* The browsers learn that the session ended: while its final status is the
\* newest event, one of them is given it and its stream ends (or all leave),
\* with connections lost, leaked counts and overflow.
FinalStatusEndsStream ==
  Guarded # {} /\ published \in ended /\ queue[current] # << >>
    ~> \/ published \notin ended
       \/ Guarded = {}
       \/ \E s \in Stream : stream[s].last = published /\ stream[s].pc = "closed"
=============================================================================
