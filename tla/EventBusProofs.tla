--------------------------- MODULE EventBusProofs ---------------------------
(***************************************************************************)
(* The invariants of EventBus for any number of streams and any _MAX_QUEUE.*)
(***************************************************************************)
EXTENDS EventBus, FiniteSetTheorems, TLAPS

USE StreamAssumption, QueueAssumption, EventAssumption

\* The positions and the elements of a sequence of naturals are naturals.
LEMMA SeqMembers ==
  ASSUME NEW s \in Seq(Nat)
  PROVE  \A i \in DOMAIN s : i \in Nat /\ s[i] \in Nat
OBVIOUS

\* What remains of a sequence without its first element.
LEMMA TailMembers ==
  ASSUME NEW S, NEW s \in Seq(S), s # << >>
  PROVE  /\ s[1] = Head(s) /\ 1 \in DOMAIN s
         /\ Tail(s) \in Seq(S) /\ Len(Tail(s)) = Len(s) - 1
         /\ \A i \in DOMAIN Tail(s) :
              Tail(s)[i] = s[i + 1] /\ i + 1 \in DOMAIN s /\ i \in Nat \ {0}
<1>1. s[1] = Head(s) /\ 1 \in DOMAIN s
  OBVIOUS
<1>2. Tail(s) \in Seq(S) /\ Len(Tail(s)) = Len(s) - 1
  OBVIOUS
<1>3. ASSUME NEW i \in DOMAIN Tail(s)
      PROVE  Tail(s)[i] = s[i + 1] /\ i + 1 \in DOMAIN s /\ i \in Nat \ {0}
  BY <1>3
<1>. QED BY <1>1, <1>2, <1>3

\* Putting an event one newer than the newest keeps a queue bounded and
\* without a gap.
LEMMA PutKeepsOrder ==
  ASSUME NEW n \in Nat, NEW events \in Seq(Nat), Len(events) <= MaxQueue,
         \A i, j \in DOMAIN events : events[j] - events[i] = j - i,
         events # << >> => events[Len(events)] = n
  PROVE  LET put == Put(events, n + 1) IN
         /\ put \in Seq(Nat)
         /\ put # << >>
         /\ Len(put) <= MaxQueue
         /\ put[Len(put)] = n + 1
         /\ \A i, j \in DOMAIN put : put[j] - put[i] = j - i
<1> DEFINE kept == IF Len(events) = MaxQueue THEN Tail(events) ELSE events
           put == Append(kept, n + 1)
<1>1. kept \in Seq(Nat) /\ Len(kept) < MaxQueue
  <2>1. CASE Len(events) = MaxQueue
    <3>1. events # << >>
      BY <2>1
    <3>. QED BY <2>1, <3>1
  <2>. QED BY <2>1
<1>2. /\ \A i, j \in DOMAIN kept : kept[j] - kept[i] = j - i
      /\ kept # << >> => kept[Len(kept)] = n
  <2>1. CASE Len(events) = MaxQueue
    <3>1. events # << >>
      BY <2>1
    <3>2. /\ Len(kept) = Len(events) - 1
          /\ \A i \in DOMAIN kept : kept[i] = events[i + 1] /\ i + 1 \in DOMAIN events
      BY <2>1, <3>1
    <3>3. ASSUME NEW i \in DOMAIN kept, NEW j \in DOMAIN kept
          PROVE  kept[j] - kept[i] = j - i
      <4>1. events[j + 1] - events[i + 1] = (j + 1) - (i + 1)
        BY <3>2
      <4>2. i \in Nat /\ j \in Nat
        BY <1>1
      <4>. QED BY <3>2, <4>1, <4>2
    <3>. HIDE DEF kept
    <3>4. kept # << >> => kept[Len(kept)] = n
      BY <1>1, <3>1, <3>2
    <3>. QED BY <3>3, <3>4
  <2>2. CASE Len(events) # MaxQueue
    BY <2>2
  <2>. QED BY <2>1, <2>2
<1>. HIDE DEF kept
<1>3. /\ put \in Seq(Nat) /\ Len(put) = Len(kept) + 1
      /\ put[Len(put)] = n + 1
      /\ \A i \in DOMAIN kept : put[i] = kept[i]
      /\ DOMAIN put = DOMAIN kept \cup {Len(kept) + 1}
  BY <1>1
<1>6. Put(events, n + 1) = put
  BY DEF Put, kept
<1>. HIDE DEF put
<1>4. ASSUME NEW i \in DOMAIN kept
      PROVE  (n + 1) - put[i] = (Len(kept) + 1) - i
  <2>1. kept # << >> /\ Len(kept) \in DOMAIN kept /\ i \in Nat /\ kept[i] \in Nat
    BY <1>1
  <2>2. kept[Len(kept)] - kept[i] = Len(kept) - i
    BY <1>2, <2>1
  <2>3. put[i] = kept[i]
    BY <1>3
  <2>4. kept[Len(kept)] = n
    BY <1>2, <2>1
  <2>5. Len(kept) \in Nat
    BY <1>1
  <2>. HIDE <1>1, <1>2, <1>3
  <2>. QED BY <2>1, <2>2, <2>3, <2>4, <2>5
<1>8. Len(kept) \in Nat /\ \A i \in DOMAIN put : i \in Nat /\ put[i] \in Nat
  <2>1. Len(kept) \in Nat
    BY <1>1
  <2>2. put \in Seq(Nat)
    BY <1>3
  <2>3. \A i \in DOMAIN put : i \in Nat /\ put[i] \in Nat
    BY <2>2, SeqMembers
  <2>. QED BY <2>1, <2>3
<1>5. ASSUME NEW i \in DOMAIN put, NEW j \in DOMAIN put
      PROVE  put[j] - put[i] = j - i
  <2>1. CASE i \in DOMAIN kept /\ j \in DOMAIN kept
    BY <1>2, <1>3, <2>1
  <2>2. CASE i \in DOMAIN kept /\ j = Len(kept) + 1
    BY <1>3, <1>4, <1>8, <2>2
  <2>3. CASE i = Len(kept) + 1 /\ j \in DOMAIN kept
    <3>1. (n + 1) - put[j] = (Len(kept) + 1) - j
      BY <1>4, <2>3
    <3>2. put[i] = n + 1
      BY <1>3, <2>3
    <3>3. Len(kept) \in Nat /\ i \in Nat /\ j \in Nat /\ put[j] \in Nat
      BY <1>8
    <3>. QED BY <2>3, <3>1, <3>2, <3>3
  <2>4. CASE i = Len(kept) + 1 /\ j = Len(kept) + 1
    BY <1>8, <2>4
  <2>. QED BY <1>3, <2>1, <2>2, <2>3, <2>4
<1>7. put # << >> /\ Len(put) <= MaxQueue
  BY <1>1, <1>3
<1>. QED BY <1>3, <1>5, <1>6, <1>7

\* The events of a queue keep their type, dropped oldest or not.
LEMMA PutTyped ==
  ASSUME NEW S, NEW events \in Seq(S), NEW e \in S
  PROVE  Put(events, e) \in Seq(S)
<1>1. CASE Len(events) = MaxQueue
  <2>1. events # << >>
    BY <1>1
  <2>2. Tail(events) \in Seq(S)
    BY <2>1
  <2>. QED BY <1>1, <2>2 DEF Put
<1>2. CASE Len(events) # MaxQueue
  BY <1>2 DEF Put
<1>. QED BY <1>1, <1>2

\* No stream is open and no queue is made at the start.
LEMMA InitInv == Init => IInv
<1>. SUFFICES ASSUME Init PROVE IInv
  OBVIOUS
<1>1. Open = {}
  BY DEF Init, Open
<1>2. Cardinality(Open) = 0
  BY <1>1, FS_EmptySet
<1>3. TypeOK
  BY DEF Init, TypeOK, PC
<1>. QED
  BY <1>1, <1>2, <1>3 DEF Init, IInv, StreamsShareQueue, QueueHoldsTheNewest, DeliveredOnce,
     ConsumersHaveQueue, NewQueuesAreEmpty

\* A stream that unsubscribes and closes leaves the others on their queue, or
\* it was the last one.
LEMMA CloseStep ==
  ASSUME IInv, NEW s \in Open, Close(s), Unsubscribe, UNCHANGED <<queue, made, published, ended>>
  PROVE  IInv'
<1>. USE DEF IInv
<1>1. /\ Open' = Open \ {s}
      /\ \A t \in Stream : stream'[t].queue = stream[t].queue /\ stream'[t].last = stream[t].last
  BY DEF Close, Open, TypeOK
<1>2. /\ IsFiniteSet(Open) /\ Cardinality(Open) \in Nat
      /\ Cardinality(Open') = Cardinality(Open) - 1
      /\ IsFiniteSet(Open') /\ Cardinality(Open') \in Nat
  <2>1. IsFiniteSet(Open)
    BY FS_Subset DEF Open
  <2>. QED BY <1>1, <2>1, FS_RemoveElement, FS_CardinalityType
<1>3. TypeOK'
  <2>1. stream' \in [Stream -> [pc : PC, queue : 0 .. MaxQueues, last : 0 .. published]]
    BY DEF TypeOK, Close, PC
  <2>2. consumers' \in Nat /\ current' \in 0 .. made
    BY DEF TypeOK, Unsubscribe
  <2>. QED BY <2>1, <2>2 DEF TypeOK
<1>4. StreamsShareQueue'
  <2>1. CASE consumers <= 1
    <3>1. Cardinality(Open') = 0
      BY <1>2, <2>1 DEF StreamsShareQueue, TypeOK
    <3>2. Open' = {}
      BY <1>2, <3>1, FS_EmptySet
    <3>. QED BY <2>1, <3>1, <3>2 DEF StreamsShareQueue, Unsubscribe
  <2>2. CASE consumers > 1
    BY <1>1, <1>2, <2>2 DEF StreamsShareQueue, Unsubscribe, TypeOK, Open
  <2>. QED BY <2>1, <2>2 DEF TypeOK
<1>5. current' = 0 \/ current' = current
  BY DEF Unsubscribe
<1>6. QueueHoldsTheNewest'
  BY <1>5 DEF QueueHoldsTheNewest, TypeOK
<1>7. DeliveredOnce'
  BY <1>1, <1>5 DEF DeliveredOnce
<1>8. ConsumersHaveQueue' /\ NewQueuesAreEmpty'
  BY DEF ConsumersHaveQueue, NewQueuesAreEmpty, Unsubscribe, TypeOK
<1>. QED BY <1>3, <1>4, <1>6, <1>7, <1>8

\* publish() appends one event past the newest, or finds no queue.
LEMMA PublishStep ==
  ASSUME IInv, NEW last \in BOOLEAN, Publish(last)
  PROVE  IInv'
<1>. USE DEF IInv
<1>1. Open' = Open
  BY DEF Publish, Open
<1>2. CASE current = 0
  <2>1. queue' = queue /\ published' = published + 1
    BY <1>2 DEF Publish
  <2>2. TypeOK'
    BY <2>1 DEF TypeOK, Publish, PC
  <2>3. QueueHoldsTheNewest' /\ NewQueuesAreEmpty'
    BY <1>2, <2>1 DEF QueueHoldsTheNewest, NewQueuesAreEmpty, Publish, TypeOK
  <2>4. StreamsShareQueue' /\ DeliveredOnce' /\ ConsumersHaveQueue'
    BY <1>1, <1>2, <2>1 DEF StreamsShareQueue, DeliveredOnce, ConsumersHaveQueue, Publish
  <2>. QED BY <2>2, <2>3, <2>4
<1>3. CASE current # 0
  <2>. DEFINE old == queue[current]
              new == Put(old, published + 1)
  <2>1. current \in 1 .. made /\ current \in 1 .. MaxQueues /\ made \in Nat
    BY <1>3 DEF TypeOK
  <2>2. /\ published' = published + 1 /\ published \in Nat /\ current' = current /\ made' = made
        /\ queue' = [queue EXCEPT ![current] = new]
        /\ stream' = stream /\ consumers' = consumers
    BY <1>3 DEF Publish, TypeOK
  <2>3. /\ queue'[current] = new
        /\ \A k \in 1 .. MaxQueues : k # current => queue'[k] = queue[k]
    BY <2>1, <2>2 DEF TypeOK
  <2>4. /\ old \in Seq(Nat) /\ old \in Seq(1 .. MaxEvents)
        /\ Len(old) <= MaxQueue
        /\ \A i, j \in DOMAIN old : old[j] - old[i] = j - i
        /\ old # << >> => old[Len(old)] = published
    <3>1. old \in Seq(1 .. MaxEvents)
      BY <2>1 DEF TypeOK
    <3>2. old \in Seq(Nat)
      BY <3>1
    <3>. QED BY <2>1, <3>1, <3>2 DEF QueueHoldsTheNewest
  <2>5. /\ new \in Seq(Nat) /\ new # << >>
        /\ Len(new) <= MaxQueue
        /\ new[Len(new)] = published + 1
        /\ \A i, j \in DOMAIN new : new[j] - new[i] = j - i
    <3>. HIDE DEF old
    <3>. QED BY <2>2, <2>4, PutKeepsOrder
  <2>6. new \in Seq(1 .. MaxEvents)
    <3>1. published + 1 \in 1 .. MaxEvents
      BY <2>2 DEF Publish, TypeOK
    <3>. HIDE DEF old
    <3>. QED BY <2>4, <3>1, PutTyped
  <2>7. \A i \in DOMAIN new : new[i] = published + 1 \/ (\E j \in DOMAIN old : new[i] = old[j])
    <3>. HIDE DEF old
    <3>1. old # << >> => \A i \in DOMAIN Tail(old) : Tail(old)[i] = old[i + 1] /\ i + 1 \in DOMAIN old
      BY <2>4
    <3>2. CASE Len(old) = MaxQueue
      <4>1. old # << >> /\ Tail(old) \in Seq(Nat)
        BY <2>4, <3>2
      <4>. QED BY <2>2, <3>1, <3>2, <4>1 DEF Put
    <3>3. CASE Len(old) # MaxQueue
      BY <2>2, <2>4, <3>3 DEF Put
    <3>. QED BY <3>2, <3>3
  <2>. HIDE DEF new
  <2>8. TypeOK'
    <3>1. queue' \in [1 .. MaxQueues -> Seq(1 .. MaxEvents)]
      BY <2>2, <2>6 DEF TypeOK
    <3>2. published' \in 0 .. MaxEvents /\ ended' \subseteq 1 .. published'
      BY <2>2 DEF TypeOK, Publish
    <3>3. stream' \in [Stream -> [pc : PC, queue : 0 .. MaxQueues, last : 0 .. published']]
      BY <2>2 DEF TypeOK
    <3>. QED BY <2>2, <3>1, <3>2, <3>3 DEF TypeOK
  <2>9. QueueHoldsTheNewest'
    <3>. SUFFICES ASSUME NEW k \in 1 .. made
                  PROVE /\ Len(queue'[k]) <= MaxQueue
                        /\ \A i, j \in DOMAIN queue'[k] : queue'[k][j] - queue'[k][i] = j - i
                        /\ k = current /\ queue'[k] # << >>
                             => queue'[k][Len(queue'[k])] = published + 1
      BY <2>2 DEF QueueHoldsTheNewest
    <3>1. CASE k = current
      BY <2>3, <2>5, <3>1
    <3>2. CASE k # current
      <4>1. k \in 1 .. MaxQueues
        BY DEF TypeOK
      <4>2. queue'[k] = queue[k]
        BY <2>3, <3>2, <4>1
      <4>. QED BY <3>2, <4>2 DEF QueueHoldsTheNewest
    <3>. QED BY <3>1, <3>2
  <2>10. DeliveredOnce'
    <3>1. ASSUME NEW s \in Stream, NEW i \in DOMAIN new PROVE stream[s].last < new[i]
      <4>1. stream[s].last \in 0 .. published
        BY DEF TypeOK
      <4>2. \A j \in DOMAIN old : stream[s].last < old[j]
        BY <1>3 DEF DeliveredOnce
      <4>. HIDE DEF old
      <4>. QED BY <2>2, <2>7, <4>1, <4>2
    <3>. QED BY <2>2, <2>3, <3>1 DEF DeliveredOnce
  <2>11. StreamsShareQueue' /\ ConsumersHaveQueue'
    BY <1>1, <2>2 DEF StreamsShareQueue, ConsumersHaveQueue
  <2>12. NewQueuesAreEmpty'
    BY <2>1, <2>2, <2>3 DEF NewQueuesAreEmpty
  <2>. QED BY <2>8, <2>9, <2>10, <2>11, <2>12
<1>. QED BY <1>2, <1>3

\* A new stream joins the queue, or makes it.
LEMMA ConnectStep ==
  ASSUME IInv, NEW s \in Stream, Connect(s)
  PROVE  IInv'
<1>. USE DEF IInv
<1>1. /\ Open' = Open \cup {s} /\ s \notin Open
      /\ stream'[s].queue = current' /\ stream'[s].last = stream[s].last
      /\ \A t \in Stream \ {s} : stream'[t] = stream[t]
      /\ UNCHANGED <<queue, published, ended>>
  BY DEF Connect, Open, TypeOK
<1>2. /\ IsFiniteSet(Open) /\ Cardinality(Open) \in Nat
      /\ Cardinality(Open') = Cardinality(Open) + 1
  <2>1. IsFiniteSet(Open)
    BY FS_Subset DEF Open
  <2>. QED BY <1>1, <2>1, FS_AddElement, FS_CardinalityType
<1>3. /\ made' \in 0 .. MaxQueues /\ current' \in 1 .. made' /\ consumers' = consumers + 1
      /\ consumers \in Nat
  BY DEF Connect, TypeOK, ConsumersHaveQueue
<1>4. TypeOK'
  <2>1. stream' \in [Stream -> [pc : PC, queue : 0 .. MaxQueues, last : 0 .. published]]
    <3>1. current' \in 0 .. MaxQueues
      BY <1>3
    <3>. QED BY <3>1 DEF TypeOK, Connect, PC
  <2>. QED BY <1>1, <1>3, <2>1 DEF TypeOK
<1>5. CASE current # 0
  <2>1. current' = current /\ made' = made
    BY <1>5 DEF Connect
  <2>2. StreamsShareQueue'
    BY <1>1, <1>2, <1>3, <1>5, <2>1 DEF StreamsShareQueue, Open
  <2>3. QueueHoldsTheNewest' /\ NewQueuesAreEmpty'
    BY <1>1, <2>1 DEF QueueHoldsTheNewest, NewQueuesAreEmpty
  <2>4. DeliveredOnce'
    BY <1>1, <2>1 DEF DeliveredOnce
  <2>5. ConsumersHaveQueue'
    BY <1>3, <1>5, <2>1 DEF ConsumersHaveQueue
  <2>. QED BY <1>4, <2>2, <2>3, <2>4, <2>5
<1>6. CASE current = 0
  <2>1. current' = made + 1 /\ made' = made + 1 /\ made < MaxQueues /\ made \in Nat
    BY <1>6 DEF Connect, TypeOK
  <2>2. queue'[current'] = << >> /\ current' \in 1 .. MaxQueues
    BY <1>1, <2>1 DEF NewQueuesAreEmpty
  <2>3. Open = {}
    BY <1>6 DEF StreamsShareQueue
  <2>4. StreamsShareQueue'
    BY <1>1, <1>2, <1>3, <2>1, <2>3, FS_EmptySet DEF StreamsShareQueue, Open
  <2>5. QueueHoldsTheNewest'
    <3>1. \A k \in 1 .. made' : k = current' \/ k \in 1 .. made
      BY <2>1
    <3>. QED BY <1>1, <1>6, <2>1, <2>2, <3>1 DEF QueueHoldsTheNewest
  <2>6. DeliveredOnce'
    BY <1>1, <2>2 DEF DeliveredOnce
  <2>7. ConsumersHaveQueue' /\ NewQueuesAreEmpty'
    BY <1>1, <1>3, <2>1 DEF ConsumersHaveQueue, NewQueuesAreEmpty
  <2>. QED BY <1>4, <2>4, <2>5, <2>6, <2>7
<1>. QED BY <1>5, <1>6

\* The oldest event leaves the queue for one browser.
LEMMA TakeStep ==
  ASSUME IInv, NEW s \in Stream, Take(s)
  PROVE  IInv'
<1>. USE DEF IInv
<1>. DEFINE events == queue[current]
<1>1. stream[s].queue = current /\ current \in 1 .. made /\ current \in 1 .. MaxQueues
  BY DEF Take, StreamsShareQueue, Open, TypeOK
<1>2. /\ events # << >> /\ stream[s].pc = "waiting"
      /\ queue' = [queue EXCEPT ![current] = Tail(events)]
      /\ stream' = [stream EXCEPT ![s].pc = "sending", ![s].last = Head(events)]
      /\ UNCHANGED <<current, made, consumers, published, ended>>
  BY <1>1 DEF Take
<1>3. /\ events \in Seq(1 .. MaxEvents) /\ events[1] = Head(events) /\ 1 \in DOMAIN events
      /\ Tail(events) \in Seq(1 .. MaxEvents) /\ Len(Tail(events)) = Len(events) - 1
      /\ \A i \in DOMAIN Tail(events) :
           Tail(events)[i] = events[i + 1] /\ i + 1 \in DOMAIN events /\ i \in Nat \ {0}
  <2>1. events \in Seq(1 .. MaxEvents)
    BY <1>1 DEF TypeOK
  <2>2. events # << >>
    BY <1>2
  <2>. HIDE DEF events, IInv
  <2>. QED BY <2>1, <2>2, TailMembers
<1>4. /\ queue'[current] = Tail(events)
      /\ \A k \in 1 .. MaxQueues : k # current => queue'[k] = queue[k]
  BY <1>1, <1>2 DEF TypeOK
<1>5. /\ Len(events) <= MaxQueue
      /\ \A i, j \in DOMAIN events : events[j] - events[i] = j - i
      /\ events[Len(events)] = published
  BY <1>1, <1>2 DEF QueueHoldsTheNewest
<1>6. /\ stream'[s].last = events[1]
      /\ \A t \in Stream \ {s} : stream'[t].last = stream[t].last
      /\ \A t \in Stream : stream'[t].queue = stream[t].queue
      /\ Open' = Open
  BY <1>2, <1>3 DEF TypeOK, Open
<1>7. /\ \A i \in DOMAIN events : events[i] \in Nat /\ events[i] >= events[1]
      /\ \A i \in DOMAIN Tail(events) : Tail(events)[i] > events[1]
      /\ events[1] \in 1 .. published
  <2>1. ASSUME NEW i \in DOMAIN events PROVE events[i] \in Nat /\ i \in Nat /\ events[i] - events[1] = i - 1 /\ i >= 1
    <3>1. events[i] - events[1] = i - 1
      BY <1>3, <1>5
    <3>2. events[i] \in Nat /\ i \in Nat /\ i >= 1
      BY <1>3
    <3>. QED BY <3>1, <3>2
  <2>2. events[1] \in Nat \ {0}
    BY <1>3
  <2>3. \A i \in DOMAIN events : events[i] \in Nat /\ events[i] >= events[1]
    BY <2>1, <2>2
  <2>4. ASSUME NEW i \in DOMAIN Tail(events) PROVE Tail(events)[i] > events[1]
    <3>1. i + 1 \in DOMAIN events /\ Tail(events)[i] = events[i + 1] /\ i >= 1 /\ i \in Nat
      BY <1>3
    <3>2. events[i + 1] \in Nat /\ events[i + 1] - events[1] = (i + 1) - 1
      BY <2>1, <3>1
    <3>. HIDE DEF events
    <3>. QED BY <2>2, <3>1, <3>2
  <2>5. Len(events) \in DOMAIN events
    BY <1>3
  <2>. HIDE DEF events
  <2>6. events[1] <= published
    BY <1>5, <2>3, <2>5
  <2>. QED BY <1>5, <2>2, <2>3, <2>4, <2>5, <2>6
<1>8. TypeOK'
  <2>1. queue' \in [1 .. MaxQueues -> Seq(1 .. MaxEvents)]
    BY <1>2, <1>3 DEF TypeOK
  <2>2. stream' \in [Stream -> [pc : PC, queue : 0 .. MaxQueues, last : 0 .. published]]
    <3>1. Head(events) \in 0 .. published
      <4>1. published \in Nat
        BY DEF TypeOK
      <4>. HIDE DEF events
      <4>. QED BY <1>3, <1>7, <4>1
    <3>. HIDE DEF events
    <3>. QED BY <1>2, <3>1 DEF TypeOK, PC
  <2>. QED BY <1>2, <2>1, <2>2 DEF TypeOK
<1>9. StreamsShareQueue' /\ ConsumersHaveQueue' /\ NewQueuesAreEmpty'
  <2>1. NewQueuesAreEmpty'
    BY <1>1, <1>2, <1>4 DEF NewQueuesAreEmpty, TypeOK
  <2>. QED BY <1>2, <1>6, <2>1 DEF StreamsShareQueue, ConsumersHaveQueue, Open
<1>10. QueueHoldsTheNewest'
  <2>. SUFFICES ASSUME NEW k \in 1 .. made
                PROVE /\ Len(queue'[k]) <= MaxQueue
                      /\ \A i, j \in DOMAIN queue'[k] : queue'[k][j] - queue'[k][i] = j - i
                      /\ k = current /\ queue'[k] # << >>
                           => queue'[k][Len(queue'[k])] = published
    BY <1>2 DEF QueueHoldsTheNewest
  <2>1. CASE k = current
    <3>1. ASSUME NEW i \in DOMAIN Tail(events), NEW j \in DOMAIN Tail(events)
          PROVE  Tail(events)[j] - Tail(events)[i] = j - i
      <4>1. events[j + 1] - events[i + 1] = (j + 1) - (i + 1)
        BY <1>3, <1>5
      <4>2. i \in Nat /\ j \in Nat /\ Tail(events)[i] = events[i + 1] /\ Tail(events)[j] = events[j + 1]
        BY <1>3
      <4>. HIDE DEF events
      <4>. QED BY <4>1, <4>2
    <3>2. Tail(events) # << >> => Tail(events)[Len(Tail(events))] = events[Len(events)]
      BY <1>3
    <3>3. Len(Tail(events)) <= MaxQueue
      BY <1>3, <1>5
    <3>4. queue'[k] = Tail(events)
      BY <1>4, <2>1
    <3>5. events[Len(events)] = published
      BY <1>5
    <3>. QED BY <3>1, <3>2, <3>3, <3>4, <3>5
  <2>2. CASE k # current
    <3>1. queue'[k] = queue[k]
      BY <1>4, <2>2 DEF TypeOK
    <3>. QED BY <2>2, <3>1 DEF QueueHoldsTheNewest
  <2>. QED BY <2>1, <2>2
<1>11. DeliveredOnce'
  <2>1. \A t \in Stream : \A i \in DOMAIN events : stream[t].last < events[i]
    BY <1>1 DEF DeliveredOnce
  <2>2. \A t \in Stream : \A i \in DOMAIN Tail(events) : stream'[t].last < Tail(events)[i]
    <3>. HIDE DEF events
    <3>. QED BY <1>3, <1>6, <1>7, <2>1
  <2>3. \A t \in Stream : stream[t].last # events[1] /\ stream[t].last \in Nat
    BY <1>3, <2>1 DEF TypeOK
  <2>4. \A t, u \in Stream : stream'[t].last = stream'[u].last /\ t # u => stream'[t].last = 0
    <3>. HIDE DEF events
    <3>. QED BY <1>6, <2>3 DEF DeliveredOnce
  <2>. QED BY <1>2, <1>4, <2>2, <2>4 DEF DeliveredOnce
<1>. QED BY <1>8, <1>9, <1>10, <1>11

\* A stream whose chunk was sent waits for the next event.
LEMMA WaitStep ==
  ASSUME IInv, NEW s \in Open, stream' = [stream EXCEPT ![s].pc = "waiting"],
         UNCHANGED <<queue, current, made, consumers, published, ended>>
  PROVE  IInv'
<1>. USE DEF IInv
<1>1. /\ Open' = Open
      /\ \A t \in Stream : stream'[t].queue = stream[t].queue /\ stream'[t].last = stream[t].last
  BY DEF Open, TypeOK
<1>2. TypeOK'
  <2>1. stream' \in [Stream -> [pc : PC, queue : 0 .. MaxQueues, last : 0 .. published]]
    BY DEF TypeOK, PC
  <2>. QED BY <2>1 DEF TypeOK
<1>3. StreamsShareQueue' /\ DeliveredOnce'
  BY ONLY <1>1, IInv, UNCHANGED <<queue, current, consumers>>
     DEF StreamsShareQueue, DeliveredOnce, Open
<1>4. QueueHoldsTheNewest' /\ ConsumersHaveQueue' /\ NewQueuesAreEmpty'
  BY DEF QueueHoldsTheNewest, ConsumersHaveQueue, NewQueuesAreEmpty
<1>. QED BY <1>2, <1>3, <1>4

\* A generator closed at its first yield keeps its place in the count.
LEMMA LeaveEarlyStep ==
  ASSUME IInv, NEW s \in Stream, LeaveEarly(s)
  PROVE  IInv'
<1>. USE DEF IInv
<1>1. /\ Open' = Open \ {s}
      /\ \A t \in Stream : stream'[t].queue = stream[t].queue /\ stream'[t].last = stream[t].last
      /\ UNCHANGED <<queue, current, made, consumers, published, ended>>
  BY DEF LeaveEarly, Close, Open, TypeOK
<1>2. Cardinality(Open') <= Cardinality(Open) /\ Cardinality(Open') \in Nat /\ Cardinality(Open) \in Nat
  <2>1. IsFiniteSet(Open)
    BY FS_Subset DEF Open
  <2>. QED BY <1>1, <2>1, FS_Subset, FS_CardinalityType
<1>3. TypeOK'
  BY <1>1 DEF TypeOK, LeaveEarly, Close, PC
<1>4. StreamsShareQueue' /\ DeliveredOnce'
  <2>1. consumers \in Nat
    BY DEF TypeOK
  <2>. QED BY <1>1, <1>2, <2>1 DEF StreamsShareQueue, DeliveredOnce, Open
<1>5. QueueHoldsTheNewest' /\ ConsumersHaveQueue' /\ NewQueuesAreEmpty'
  BY <1>1 DEF QueueHoldsTheNewest, ConsumersHaveQueue, NewQueuesAreEmpty
<1>. QED BY <1>3, <1>4, <1>5

\* Every step keeps the invariant.
LEMMA NextInv == IInv /\ [Next]_vars => IInv'
<1>. SUFFICES ASSUME IInv, [Next]_vars PROVE IInv'
  OBVIOUS
<1>1. ASSUME NEW last \in BOOLEAN, Publish(last) PROVE IInv'
  BY <1>1, PublishStep
<1>2. ASSUME NEW s \in Stream, Connect(s) PROVE IInv'
  BY <1>2, ConnectStep
<1>3. ASSUME NEW s \in Stream, Greet(s) PROVE IInv'
  BY <1>3, WaitStep DEF Greet, Open
<1>4. ASSUME NEW s \in Stream, Take(s) PROVE IInv'
  BY <1>4, TakeStep
<1>5. ASSUME NEW s \in Stream, Sent(s) PROVE IInv'
  <2>1. CASE stream[s].last \in ended
    BY <1>5, <2>1, CloseStep DEF Sent, Open
  <2>2. CASE stream[s].last \notin ended
    BY <1>5, <2>2, WaitStep DEF Sent, Open
  <2>. QED BY <2>1, <2>2
<1>6. ASSUME NEW s \in Stream, Leave(s) PROVE IInv'
  BY <1>6, CloseStep DEF Leave, Guarded, Open
<1>7. ASSUME NEW s \in Stream, LeaveEarly(s) PROVE IInv'
  BY <1>7, LeaveEarlyStep
<1>8. CASE UNCHANGED vars
  <2>1. Open' = Open
    BY <1>8 DEF vars, Open
  <2>. QED BY <1>8, <2>1 DEF vars, IInv, TypeOK, StreamsShareQueue, QueueHoldsTheNewest,
          DeliveredOnce, ConsumersHaveQueue, NewQueuesAreEmpty
<1>. QED BY <1>1, <1>2, <1>3, <1>4, <1>5, <1>6, <1>7, <1>8 DEF Next

\* The conjunction of EventBus's invariants is inductive, so it holds always.
THEOREM Invariance == Spec => []IInv
  BY InitInv, NextInv, PTL DEF Spec

\* subscribe and unsubscribe keep their count: a stream that is open reads
\* the queue publish() writes, whatever streams came and left before.
THEOREM SharingTheorem == Spec => []StreamsShareQueue
<1>1. IInv => StreamsShareQueue
  BY DEF IInv
<1>. QED BY <1>1, Invariance, PTL

\* publish() on a full queue drops the oldest event and no other.
THEOREM OverflowTheorem == Spec => []QueueHoldsTheNewest
<1>1. IInv => QueueHoldsTheNewest
  BY DEF IInv
<1>. QED BY <1>1, Invariance, PTL

\* Streams of one session share its events without repeating one.
THEOREM DeliveryTheorem == Spec => []DeliveredOnce
<1>1. IInv => DeliveredOnce
  BY DEF IInv
<1>. QED BY <1>1, Invariance, PTL
=============================================================================
