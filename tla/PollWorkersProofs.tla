------------------------- MODULE PollWorkersProofs -------------------------
(***************************************************************************)
(* Conservation of messages on the shared worker pool, for every pool,     *)
(* batch size and bound: what the consumer group has delivered is queued,  *)
(* in a worker's hands or handled, once, and what it has not is nowhere.   *)
(***************************************************************************)
EXTENDS PollWorkers, FiniteSetTheorems, SequenceTheorems, TLAPS

Positions == 1..Len(queue)
Tasks     == {Poll} \cup Messages

PoolTypes ==
    /\ queue \in Seq(Tasks)
    /\ work \in [Workers -> {Idle} \cup Tasks]
    /\ published \in 0..MaxPublished
    /\ delivered \in 0..published
    /\ handled \in SUBSET Messages

\* Nothing is held before the group has delivered it ...
OnlyDelivered ==
    /\ \A i \in Positions : queue[i] <= delivered
    /\ \A w \in Workers : work[w] <= delivered
    /\ \A m \in handled : m <= delivered

\* ... what it has delivered is held somewhere ...
Queued(m) == \E i \in Positions : queue[i] = m
Held(m)   == \E w \in Workers : work[w] = m
Somewhere == \A m \in Messages : m <= delivered => Queued(m) \/ Held(m) \/ m \in handled

\* ... in one place only ...
Apart == \A m \in Messages : /\ ~ (Queued(m) /\ Held(m))
                             /\ ~ (Queued(m) /\ m \in handled)
                             /\ ~ (Held(m) /\ m \in handled)

\* ... and once in that place.
QueuedOnce == \A i, j \in Positions : queue[i] = queue[j] /\ queue[i] # Poll => i = j
HeldOnce   == \A v, w \in Workers : work[v] = work[w] /\ work[v] \in Messages => v = w

PoolInv == PoolTypes /\ OnlyDelivered /\ Somewhere /\ Apart /\ QueuedOnce /\ HeldOnce

\* The pool begins with an empty queue and idle workers.
LEMMA PoolInitially == ASSUME Init PROVE PoolInv
BY PoolAssumption DEF PoolAssumption, Init, PoolInv, PoolTypes, OnlyDelivered, Somewhere, Apart, QueuedOnce, HeldOnce,
       Positions, Tasks, Messages, Poll, Idle, Queued, Held

\* Beat puts one more poll behind the queue: the messages stay where they are.
LEMMA BeatKeeps == ASSUME PoolInv, Beat PROVE PoolInv'
<1>. USE DEF PoolInv, Positions, Messages, Tasks, Poll, Idle
<1>1. /\ queue' \in Seq(Tasks) /\ Len(queue') = Len(queue) + 1
      /\ \A i \in 1..Len(queue) : queue'[i] = queue[i]
      /\ queue'[Len(queue) + 1] = Poll
  BY DEF Beat, PoolTypes
<1>2. Len(queue) \in Nat
  BY DEF PoolTypes
<1>3. \A m \in Messages : (Queued(m)' <=> Queued(m)) /\ (Held(m)' <=> Held(m))
  BY <1>1, <1>2 DEF Beat, Queued, Held
<1>4. PoolTypes'
  BY <1>1 DEF Beat, PoolTypes
<1>5. OnlyDelivered'
  BY <1>1, <1>2 DEF Beat, PoolTypes, OnlyDelivered
<1>6. Somewhere' /\ Apart'
  BY <1>3 DEF Beat, Somewhere, Apart
<1>7. QueuedOnce'
  BY <1>1, <1>2 DEF QueuedOnce
<1>8. HeldOnce'
  BY DEF Beat, HeldOnce
<1>. QED
  BY <1>4, <1>5, <1>6, <1>7, <1>8

\* The head of the queue moves into a worker's hands, everything else one place forward.
LEMMA TakeKeeps == ASSUME PoolInv, NEW w \in Workers, Take(w) PROVE PoolInv'
<1>. USE DEF PoolInv, Positions, Messages, Tasks, Poll, Idle
<1>1. /\ Len(queue) \in Nat /\ Len(queue) > 0
      /\ queue' \in Seq(Tasks) /\ Len(queue') = Len(queue) - 1
      /\ \A i \in 1..Len(queue') : queue'[i] = queue[i + 1]
      /\ Head(queue) = queue[1] /\ queue[1] \in Tasks
  BY DEF Take, PoolTypes
<1>2. work' = [work EXCEPT ![w] = queue[1]] /\ UNCHANGED <<published, delivered, handled>>
  BY <1>1 DEF Take
<1>w. /\ work[w] = Idle /\ work'[w] = queue[1]
      /\ \A v \in Workers : v # w => work'[v] = work[v]
  BY <1>2 DEF Take, PoolTypes
<1>3. \A m \in Messages : Queued(m) <=> (queue[1] = m \/ Queued(m)')
  <2>. SUFFICES ASSUME NEW m \in Messages PROVE Queued(m) <=> (queue[1] = m \/ Queued(m)')
    OBVIOUS
  <2>1. ASSUME NEW i \in Positions, queue[i] = m, i # 1 PROVE Queued(m)'
    <3>1. (i - 1) \in 1..Len(queue') /\ queue'[i - 1] = m
      BY <2>1, <1>1
    <3>. QED
      BY <3>1 DEF Queued
  <2>2. ASSUME NEW i \in 1..Len(queue'), queue'[i] = m PROVE Queued(m)
    <3>1. (i + 1) \in Positions /\ queue[i + 1] = m
      BY <2>2, <1>1
    <3>. QED
      BY <3>1 DEF Queued
  <2>. QED
    BY <2>1, <2>2, <1>1 DEF Queued
<1>4. \A m \in Messages : Queued(m)' => queue[1] # m
  <2>. SUFFICES ASSUME NEW i \in 1..Len(queue'), queue'[i] \in Messages PROVE queue[1] # queue'[i]
    BY DEF Queued
  <2>1. (i + 1) \in Positions /\ 1 \in Positions /\ queue[i + 1] = queue'[i] /\ i + 1 # 1
    BY <1>1
  <2>. QED
    BY <2>1 DEF QueuedOnce
<1>5. \A m \in Messages : Held(m)' <=> (queue[1] = m \/ Held(m))
  BY <1>w DEF Held
<1>6. PoolTypes'
  BY <1>1, <1>2 DEF PoolTypes
<1>7. OnlyDelivered'
  BY <1>1, <1>2, <1>w DEF OnlyDelivered
<1>8. Somewhere' /\ Apart'
  BY <1>2, <1>3, <1>4, <1>5 DEF Somewhere, Apart
<1>9. QueuedOnce'
  <2>. SUFFICES ASSUME NEW i \in 1..Len(queue'), NEW j \in 1..Len(queue'),
                       queue'[i] = queue'[j], queue'[i] # Poll
                PROVE  i = j
    BY DEF QueuedOnce
  <2>1. (i + 1) \in Positions /\ (j + 1) \in Positions /\ queue[i + 1] = queue[j + 1] /\ queue[i + 1] # Poll
    BY <1>1
  <2>2. i + 1 = j + 1
    BY <2>1 DEF QueuedOnce
  <2>. QED
    BY <2>2
<1>10. HeldOnce'
  <2>1. \A v \in Workers : work[v] \in Messages => work[v] # queue[1]
    BY <1>1 DEF Apart, Queued, Held
  <2>. QED
    BY <2>1, <1>w DEF HeldOnce
<1>. QED
  BY <1>6, <1>7, <1>8, <1>9, <1>10

\* XREADGROUP hands a batch to the poll, which queues one task for each entry of it: the
\* messages delivered + 1 .. BatchEnd were nowhere and are now queued, once each.
LEMMA PollReturnsKeeps == ASSUME PoolInv, NEW w \in Workers, PollReturns(w) PROVE PoolInv'
<1>. USE DEF PoolInv, Positions, Messages, Tasks, Poll, Idle
<1>. DEFINE n == BatchEnd - delivered
            new == [i \in 1..n |-> delivered + i]
<1>1. /\ delivered \in Nat /\ published \in Nat /\ delivered < published /\ published <= MaxPublished
      /\ BatchEnd \in (delivered + 1)..published /\ n \in Nat
      /\ MaxPublished \in Nat
  BY PoolAssumption DEF PollReturns, PoolTypes, PoolAssumption, BatchEnd
<1>2. new \in Seq(Tasks) /\ Len(new) = n /\ \A i \in 1..n : new[i] = delivered + i
  <2>1. \A i \in 1..n : delivered + i \in Tasks
    BY <1>1
  <2>2. new \in [1..n -> Tasks]
    BY <2>1
  <2>. QED
    BY <1>1, <2>2
<1>3. queue' = queue \o new /\ queue \in Seq(Tasks) /\ Len(queue) \in Nat
  BY DEF PollReturns, Enqueue, PoolTypes
<1>. HIDE DEF n, new
<1>4. /\ queue' \in Seq(Tasks) /\ Len(queue') = Len(queue) + n
      /\ \A i \in 1..Len(queue) : queue'[i] = queue[i]
      /\ \A i \in (Len(queue) + 1)..(Len(queue) + n) : queue'[i] = new[i - Len(queue)]
  <2>. DEFINE both == queue \o new
  <2>1. /\ both \in Seq(Tasks) /\ Len(both) = Len(queue) + n
        /\ \A i \in 1..Len(queue) + n : both[i] = IF i <= Len(queue) THEN queue[i] ELSE new[i - Len(queue)]
    BY <1>2, <1>3, ConcatProperties
  <2>2. queue' = both
    BY <1>3
  <2>. HIDE DEF both
  <2>. QED
    BY <1>1, <1>3, <2>1, <2>2
<1>5. \A i \in (Len(queue) + 1)..Len(queue') : queue'[i] = delivered + (i - Len(queue))
  <2>. SUFFICES ASSUME NEW i \in (Len(queue) + 1)..Len(queue')
                PROVE  queue'[i] = delivered + (i - Len(queue))
    OBVIOUS
  <2>1. i - Len(queue) \in 1..n
    BY <1>1, <1>3, <1>4
  <2>. QED
    BY <2>1, <1>1, <1>2, <1>3, <1>4
<1>w. /\ work[w] = Poll /\ work'[w] = Idle /\ work' \in [Workers -> {Idle} \cup Tasks]
      /\ \A v \in Workers : v # w => work'[v] = work[v]
  BY DEF PollReturns, Released, PoolTypes
<1>6. delivered' = BatchEnd /\ UNCHANGED <<published, handled>>
  BY DEF PollReturns
<1>e. BatchEnd = delivered + n
  BY <1>1 DEF n
<1>7. \A m \in Messages : Held(m)' <=> Held(m)
  BY <1>w DEF Held
<1>8. \A m \in Messages : Queued(m)' <=> (Queued(m) \/ m \in (delivered + 1)..BatchEnd)
  <2>. SUFFICES ASSUME NEW m \in Messages
                PROVE  Queued(m)' <=> (Queued(m) \/ m \in (delivered + 1)..BatchEnd)
    OBVIOUS
  <2>1. ASSUME Queued(m) PROVE Queued(m)'
    BY <2>1, <1>1, <1>3, <1>4 DEF Queued
  <2>2. ASSUME m \in (delivered + 1)..BatchEnd PROVE Queued(m)'
    <3>. DEFINE k == Len(queue) + (m - delivered)
    <3>1. k \in (Len(queue) + 1)..Len(queue') /\ delivered + (k - Len(queue)) = m
      BY <2>2, <1>1, <1>3, <1>4, <1>e
    <3>. HIDE DEF k
    <3>2. queue'[k] = m
      BY <3>1, <1>5
    <3>3. k \in 1..Len(queue')
      BY <3>1, <1>3
    <3>. QED
      BY <3>2, <3>3 DEF Queued
  <2>3. ASSUME Queued(m)' PROVE Queued(m) \/ m \in (delivered + 1)..BatchEnd
    <3>1. PICK i \in 1..Len(queue') : queue'[i] = m
      BY <2>3 DEF Queued
    <3>2. CASE i \in 1..Len(queue)
      BY <3>1, <3>2, <1>4 DEF Queued
    <3>3. CASE i \in (Len(queue) + 1)..Len(queue')
      BY <3>1, <3>3, <1>1, <1>3, <1>4, <1>5, <1>e
    <3>. QED
      BY <3>2, <3>3, <1>3, <1>4, <1>1
  <2>. QED
    BY <2>1, <2>2, <2>3
<1>9. \A m \in Messages : Queued(m) \/ Held(m) \/ m \in handled => m <= delivered
  BY DEF OnlyDelivered, Queued, Held
<1>10. PoolTypes'
  BY <1>1, <1>4, <1>6, <1>w DEF PoolTypes
<1>11. OnlyDelivered'
  <2>1. \A i \in 1..Len(queue') : queue'[i] <= BatchEnd
    <3>. SUFFICES ASSUME NEW i \in 1..Len(queue') PROVE queue'[i] <= BatchEnd
      OBVIOUS
    <3>1. CASE i \in 1..Len(queue)
      <4>1. queue[i] <= delivered /\ queue[i] \in Int
        BY <3>1, <1>1, <1>3 DEF OnlyDelivered
      <4>. QED
        BY <4>1, <3>1, <1>1, <1>4
    <3>2. CASE i \in (Len(queue) + 1)..Len(queue')
      BY <3>2, <1>1, <1>3, <1>4, <1>5, <1>e
    <3>. QED
      BY <3>1, <3>2, <1>3, <1>4, <1>1
  <2>2. \A v \in Workers : work'[v] <= BatchEnd
    <3>1. \A v \in Workers : work[v] <= delivered /\ work[v] \in Int
      BY <1>1 DEF OnlyDelivered, PoolTypes
    <3>. QED
      BY <3>1, <1>1, <1>w
  <2>3. \A m \in handled : m <= BatchEnd
    BY <1>1 DEF OnlyDelivered, PoolTypes
  <2>. QED
    BY <2>1, <2>2, <2>3, <1>6 DEF OnlyDelivered
<1>12. Somewhere' /\ Apart'
  <2>1. Somewhere'
    <3>. SUFFICES ASSUME NEW m \in Messages, m <= BatchEnd
                  PROVE  Queued(m)' \/ Held(m)' \/ m \in handled
      BY <1>6 DEF Somewhere
    <3>1. CASE m <= delivered
      BY <3>1, <1>7, <1>8 DEF Somewhere
    <3>2. CASE ~ (m <= delivered)
      BY <3>2, <1>1, <1>8
    <3>. QED
      BY <3>1, <3>2
  <2>2. \A m \in Messages : m \in (delivered + 1)..BatchEnd => ~ Held(m) /\ m \notin handled
    BY <1>1, <1>9
  <2>. QED
    BY <2>1, <2>2, <1>6, <1>7, <1>8 DEF Apart
<1>13. QueuedOnce'
  <2>. SUFFICES ASSUME NEW i \in 1..Len(queue'), NEW j \in 1..Len(queue'), i < j,
                       queue'[i] = queue'[j], queue'[i] # Poll
                PROVE  FALSE
    BY <1>3, <1>4, <1>1 DEF QueuedOnce
  <2>1. CASE j \in 1..Len(queue)
    BY <2>1, <1>3, <1>4 DEF QueuedOnce
  <2>2. CASE i \in 1..Len(queue) /\ j \in (Len(queue) + 1)..Len(queue')
    <3>1. queue[i] <= delivered /\ queue[i] \in Int
      BY <2>2, <1>1, <1>3 DEF OnlyDelivered
    <3>. QED
      BY <3>1, <2>2, <1>1, <1>3, <1>4, <1>5
  <2>3. CASE i \in (Len(queue) + 1)..Len(queue')
    BY <2>3, <1>1, <1>3, <1>4, <1>5
  <2>. QED
    BY <2>1, <2>2, <2>3, <1>1, <1>3, <1>4
<1>14. HeldOnce'
  BY <1>w DEF HeldOnce
<1>. QED
  BY <1>10, <1>11, <1>12, <1>13, <1>14

\* A handler that ends moves its message from the worker's hands to the handled ones.
LEMMA HandleKeeps == ASSUME PoolInv, NEW w \in Workers, Handle(w) PROVE PoolInv'
<1>. USE DEF PoolInv, Positions, Messages, Tasks, Poll, Idle
<1>w. /\ work[w] \in Messages /\ work'[w] = Idle /\ work' \in [Workers -> {Idle} \cup Tasks]
      /\ \A v \in Workers : v # w => work'[v] = work[v]
  BY DEF Handle, Released, PoolTypes
<1>1. handled' = handled \cup {work[w]} /\ UNCHANGED <<queue, published, delivered>>
  BY DEF Handle
<1>2. \A m \in Messages : Queued(m)' <=> Queued(m)
  BY <1>1 DEF Queued
<1>3. \A m \in Messages : Held(m) <=> (work[w] = m \/ Held(m)')
  BY <1>w DEF Held
<1>4. \A m \in Messages : Held(m)' => work[w] # m
  BY <1>w DEF Held, HeldOnce
<1>5. PoolTypes'
  BY <1>1, <1>w DEF PoolTypes
<1>6. OnlyDelivered'
  <2>1. delivered \in Nat
    BY DEF PoolTypes
  <2>. QED
    BY <2>1, <1>1, <1>w DEF OnlyDelivered
<1>7. Somewhere' /\ Apart'
  BY <1>1, <1>2, <1>3, <1>4 DEF Somewhere, Apart
<1>8. QueuedOnce'
  BY <1>1 DEF QueuedOnce
<1>9. HeldOnce'
  BY <1>w DEF HeldOnce
<1>. QED
  BY <1>5, <1>6, <1>7, <1>8, <1>9

\* A new entry is behind the cursor: no worker has it yet.
LEMMA PublishKeeps == ASSUME PoolInv, Publish PROVE PoolInv'
BY PoolAssumption DEF PoolAssumption, Publish, PoolInv, PoolTypes, OnlyDelivered, Somewhere, Apart, QueuedOnce, HeldOnce,
       Positions, Queued, Held

\* The pool keeps every delivered message in one place, whatever it does.
THEOREM PoolInvariance == Spec => []PoolInv
<1>1. Init => PoolInv
  BY PoolInitially
<1>2. PoolInv /\ [Next]_vars => PoolInv'
  <2>. SUFFICES ASSUME PoolInv, [Next]_vars PROVE PoolInv'
    OBVIOUS
  <2>1. CASE UNCHANGED vars
    BY <2>1 DEF vars, PoolInv, PoolTypes, OnlyDelivered, Somewhere, Apart, QueuedOnce, HeldOnce,
                Positions, Queued, Held
  <2>. QED
    BY <2>1, BeatKeeps, PublishKeeps, TakeKeeps, PollReturnsKeeps, HandleKeeps
    DEF Next, WorkerStep
<1>. QED
  BY <1>1, <1>2, PTL DEF Spec

\* A set with at most one element has its cardinality.
LEMMA AtMostOne ==
    ASSUME NEW S, \A x, y \in S : x = y
    PROVE  Cardinality(S) = IF S = {} THEN 0 ELSE 1
<1>1. CASE S = {}
  BY <1>1, FS_EmptySet
<1>2. CASE S # {}
  <2>1. PICK x \in S : S = {x}
    BY <1>2
  <2>. QED
    BY <1>2, <2>1, FS_Singleton
<1>. QED
  BY <1>1, <1>2

\* Conservation: a delivered message is in exactly one place - queued, in a worker's hands or
\* handled - and one not yet delivered is in none (consumer.py hands a batch over whole).
THEOREM DeliveredOnceCorrect == Spec => []DeliveredOnce
<1>1. PoolInv => DeliveredOnce
  <2>. SUFFICES ASSUME PoolInv, NEW m \in Messages
                PROVE  Copies(m) = IF m <= delivered THEN 1 ELSE 0
    BY DEF DeliveredOnce
  <2>. DEFINE Q == {i \in DOMAIN queue : queue[i] = m}
              W == {w \in Workers : work[w] = m}
  <2>1. DOMAIN queue = Positions
    BY DEF PoolInv, PoolTypes, Positions
  <2>2. Cardinality(Q) = IF Queued(m) THEN 1 ELSE 0
    <3>1. \A i, j \in Q : i = j
      BY <2>1 DEF PoolInv, QueuedOnce, Messages, Poll
    <3>2. Q = {} <=> ~ Queued(m)
      BY <2>1 DEF Queued
    <3>. QED
      BY <3>1, <3>2, AtMostOne
  <2>3. Cardinality(W) = IF Held(m) THEN 1 ELSE 0
    <3>1. \A v, w \in W : v = w
      BY DEF PoolInv, HeldOnce
    <3>2. W = {} <=> ~ Held(m)
      BY DEF Held
    <3>. QED
      BY <3>1, <3>2, AtMostOne
  <2>4. (Queued(m) \/ Held(m) \/ m \in handled) <=> m <= delivered
    BY DEF PoolInv, OnlyDelivered, Somewhere, Queued, Held
  <2>5. Copies(m) = Cardinality(Q) + Cardinality(W) + IF m \in handled THEN 1 ELSE 0
    BY DEF Copies
  <2>6. ~ (Queued(m) /\ Held(m)) /\ ~ (Queued(m) /\ m \in handled) /\ ~ (Held(m) /\ m \in handled)
    BY DEF PoolInv, Apart
  <2>. QED
    BY <2>2, <2>3, <2>4, <2>5, <2>6
<1>. QED
  BY <1>1, PoolInvariance, PTL

=============================================================================
