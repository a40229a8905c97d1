---------------------------- MODULE PollWorkers ----------------------------
(***************************************************************************)
(* The event bus on a finite pool of Celery workers.  poll_eventbus and    *)
(* dispatch_handler tasks share one FIFO broker queue and one pool; beat   *)
(* enqueues a poll per interval whatever is queued already, and a poll     *)
(* keeps its worker while XREADGROUP waits for an entry.  EventBus lets    *)
(* every task run at once; this module asks whether it gets a worker.      *)
(* Nothing fails here: polls that break off, handlers that raise and       *)
(* retries are in EventBus.                                                *)
(***************************************************************************)
EXTENDS Integers, Sequences, FiniteSets

CONSTANTS
    Workers,       \* slots of the Celery worker pool
    BatchSize,     \* APP_SYS_EVENTBUS["BATCH_SIZE"]
    MaxPublished,  \* bound: messages published
    MaxQueued      \* bound: beat adds no poll to a queue this long

ASSUME PoolAssumption ==
    /\ BatchSize \in Nat \ {0}
    /\ MaxPublished \in Nat /\ MaxQueued \in Nat

VARIABLES
    queue,      \* the broker queue: Poll, or the message whose handler is to run
    work,       \* what each worker is doing
    published,  \* messages in the stream
    delivered,  \* messages the consumer group has delivered
    handled     \* messages whose handler has run

vars == <<queue, work, published, delivered, handled>>

Messages == 1..MaxPublished
Poll     == 0
Idle     == -1

Init ==
    /\ queue = <<>>
    /\ work = [w \in Workers |-> Idle]
    /\ published = 0 /\ delivered = 0 /\ handled = {}

\* CELERY_BEAT_SCHEDULE: poll_eventbus once per POLL_INTERVAL_SECONDS.
Beat ==
    /\ Len(queue) < MaxQueued
    /\ queue' = Append(queue, Poll)
    /\ UNCHANGED <<work, published, delivered, handled>>

Publish ==
    /\ published < MaxPublished
    /\ published' = published + 1
    /\ UNCHANGED <<queue, work, delivered, handled>>

\* An idle worker takes the oldest task of the queue.
Take(w) ==
    /\ work[w] = Idle
    /\ queue # <<>>
    /\ work' = [work EXCEPT ![w] = Head(queue)]
    /\ queue' = Tail(queue)
    /\ UNCHANGED <<published, delivered, handled>>

Released(w) == work' = [work EXCEPT ![w] = Idle]

BatchEnd == IF published - delivered <= BatchSize THEN published ELSE delivered + BatchSize

\* dispatch_handler.delay for each message of the batch, behind what is queued.
EnqueueAllButLast == queue' = queue \o [i \in 1..(BatchEnd - delivered - 1) |-> delivered + i]
Enqueue           == queue' = queue \o [i \in 1..(BatchEnd - delivered) |-> delivered + i]

\* XREADGROUP with block=0 on a client without a timeout (core/utils/redis.py:21-23)
\* waits for an undelivered entry; the poll enqueues the handlers and ends.
PollReturns(w) ==
    /\ work[w] = Poll
    /\ delivered < published
    /\ Enqueue
    /\ delivered' = BatchEnd
    /\ Released(w)
    /\ UNCHANGED <<published, handled>>

\* A handler runs to its end.
Handle(w) ==
    /\ work[w] \in Messages
    /\ handled' = handled \cup {work[w]}
    /\ Released(w)
    /\ UNCHANGED <<queue, published, delivered>>

WorkerStep(w) == Take(w) \/ PollReturns(w) \/ Handle(w)

Next == Beat \/ Publish \/ \E w \in Workers : WorkerStep(w)

Spec == Init /\ [][Next]_vars

\* Beat runs on its schedule and every worker goes on with what it can do.
FairSpec == Spec /\ WF_vars(Beat) /\ \A w \in Workers : WF_vars(WorkerStep(w))

-----------------------------------------------------------------------------
(* Properties *)

\* How many places hold message m: positions of the queue, workers, the handled set.
Copies(m) == Cardinality({i \in DOMAIN queue : queue[i] = m})
             + Cardinality({w \in Workers : work[w] = m})
             + IF m \in handled THEN 1 ELSE 0

\* Conservation: a delivered message is in exactly one place - queued, in a
\* worker's hands, or handled - and one not yet delivered is in none (a batch is
\* handed from the group to the queue without loss or duplicate, consumer.py:72-96).
DeliveredOnce == \A m \in Messages : Copies(m) = IF m <= delivered THEN 1 ELSE 0

Waiting(w) == work[w] = Poll /\ delivered = published
PollsUpTo(i) == {j \in 1..i : queue[j] = Poll}

\* The handler of message m is queued while every worker waits in a read: nothing but a
\* new message frees one.
Starved(m) == (\E i \in DOMAIN queue : queue[i] = m) /\ \A w \in Workers : Waiting(w)

\* Fewer polls are under way or queued before the handler of m than there are workers.
HasWorker(m) == \E i \in DOMAIN queue :
    queue[i] = m /\ Cardinality(PollsUpTo(i)) + Cardinality({w \in Workers : work[w] = Poll})
                        < Cardinality(Workers)

\* A published message is eventually handled, or its handler is queued for ever behind
\* polls that keep every worker; and it is handled whenever fewer polls stand before it
\* than there are workers (consumer.py:62-102, config/settings/base.py:275-280).
HandledUnlessStarved ==
    \A m \in Messages :
        /\ m <= published ~> m \in handled \/ []Starved(m)
        /\ HasWorker(m) ~> m \in handled

-----------------------------------------------------------------------------
(* A statement of the documentation that the code does not keep *)

\* docs/architecture.md:138-139: the polling task "polls the stream on a configurable
\* interval", "each handler is executed as an independent Celery task": every published
\* message is eventually handled.
EventuallyHandled == \A m \in Messages : m <= published ~> m \in handled

=============================================================================
