------------------------------ MODULE EventBus ------------------------------
(***************************************************************************)
(* The platform event bus (apps/sys_eventbus).  Publishers append to one   *)
(* Redis Stream; poll_eventbus runs read it through one consumer group and *)
(* enqueue one dispatch_handler Celery task per registered handler; each   *)
(* task runs its handler, records a ProcessedEvent or retries, and ends in *)
(* the DeadLetterEvent table when its attempts are used up.                *)
(*                                                                         *)
(* A message id is its position in the stream.  A dispatch_handler task is *)
(* identified by the message, the registration it was enqueued for and the *)
(* epoch (incarnation of the consumer group) it was read in.               *)
(***************************************************************************)
EXTENDS Integers, Sequences, FiniteSets

CONSTANTS
    Types,             \* event type strings
    Registry,          \* registrations <<[type, name], ...>>, in the order _registry is iterated
    WorkerLoaded,      \* the registrations whose module the task worker managed to import
    MaxRetries,        \* APP_SYS_EVENTBUS["MAX_RETRIES"]
    CeleryMaxRetries,  \* celery's Task.max_retries, which dispatch_handler leaves alone
    BatchSize,         \* APP_SYS_EVENTBUS["BATCH_SIZE"]
    Pollers,           \* worker slots that may be inside poll_eventbus at once
    Faults,            \* the kinds of failure the environment may produce
    MaxPublished,      \* bound: messages published in a behaviour
    MaxGroupLoss       \* bound: times the consumer group disappears from Redis

FaultKinds == {"poll", "crash", "db", "broker"}

Regs == DOMAIN Registry

ASSUME ConfigAssumption ==
    /\ Registry \in Seq([type : Types, name : STRING])
    /\ WorkerLoaded \subseteq Regs
    /\ MaxRetries \in Nat \ {0}
    /\ CeleryMaxRetries \in Nat
    /\ BatchSize \in Nat \ {0}
    /\ Faults \subseteq FaultKinds
    /\ MaxPublished \in Nat
    /\ MaxGroupLoss \in Nat

VARIABLES
    stream,       \* the Redis Stream: the event type of each entry
    groupExists,  \* whether the consumer group exists in Redis
    cursor,       \* the group's last-delivered entry
    pel,          \* the group's pending entries: delivered, not acknowledged
    epoch,        \* how often the group has been lost
    pollPc,       \* where each poll_eventbus run is
    pollEpoch,    \* the epoch its batch was read in
    next, last,   \* its batch still to handle is next..last
    todo,         \* registrations still to enqueue for message next
    status,       \* state of every dispatch_handler task
    retries,      \* self.request.retries of the task
    succ,         \* history: times its handler returned normally
    fault,        \* history: times recording a success failed for a database reason
    processed,    \* the ProcessedEvent table
    dlq           \* the DeadLetterEvent table

groupVars == <<groupExists, cursor, pel, epoch>>
pollVars  == <<pollPc, pollEpoch, next, last, todo>>
taskVars  == <<status, retries, succ, fault>>
tables    == <<processed, dlq>>
vars      == <<stream, groupVars, pollVars, taskVars, tables>>

Messages == 1..MaxPublished
Epochs   == 0..MaxGroupLoss
Slots    == Messages \X Regs \X Epochs
MsgOf(s)   == s[1]
RegOf(s)   == s[2]
EpochOf(s) == s[3]

\* get_handlers: the registrations of an event type.
HandlersOf(t) == {r \in Regs : Registry[r].type = t}

\* _resolve_handler: the first loaded registration with the same __qualname__.
SameName(r)  == {q \in WorkerLoaded : Registry[q].name = Registry[r].name}
IsLoaded(r)  == SameName(r) # {}
Resolve(r)   == CHOOSE q \in SameName(r) : \A o \in SameName(r) : q <= o

Terminal == {"done", "skipped", "dropped", "dead", "failed", "lost"}
Status   == {"none", "queued", "running", "recording"} \cup Terminal

GroupTypes ==
    /\ stream \in Seq(Types) /\ Len(stream) <= MaxPublished
    /\ groupExists \in BOOLEAN
    /\ cursor \in 0..Len(stream)
    /\ pel \subseteq 1..Len(stream)
    /\ epoch \in Epochs

PollTypes ==
    /\ pollPc \in [Pollers -> {"idle", "reading", "check", "dispatch"}]
    /\ pollEpoch \in [Pollers -> Epochs]
    /\ next \in [Pollers -> Int]
    /\ last \in [Pollers -> Int]
    /\ todo \in [Pollers -> SUBSET Regs]

TaskTypes ==
    /\ status \in [Slots -> Status]
    /\ retries \in [Slots -> Nat]
    /\ succ \in [Slots -> Nat]
    /\ fault \in [Slots -> Nat]

TableTypes ==
    /\ processed \subseteq Messages
    /\ dlq \subseteq [slot : Slots, retries : Nat]

\* The type invariant: every variable keeps to its domain (all of sys_eventbus).
TypeOK == GroupTypes /\ PollTypes /\ TaskTypes /\ TableTypes

Init ==
    /\ stream = <<>>
    /\ groupExists = FALSE /\ cursor = 0 /\ pel = {} /\ epoch = 0
    /\ pollPc = [p \in Pollers |-> "idle"]
    /\ pollEpoch = [p \in Pollers |-> 0]
    /\ next = [p \in Pollers |-> 1]
    /\ last = [p \in Pollers |-> 0]
    /\ todo = [p \in Pollers |-> {}]
    /\ status = [s \in Slots |-> "none"]
    /\ retries = [s \in Slots |-> 0]
    /\ succ = [s \in Slots |-> 0]
    /\ fault = [s \in Slots |-> 0]
    /\ processed = {}
    /\ dlq = {}

-----------------------------------------------------------------------------
(* Publisher *)

\* publish: XADD of the envelope.  A RedisError leaves the stream as it was.
Publish(t) ==
    /\ Len(stream) < MaxPublished
    /\ stream' = Append(stream, t)
    /\ UNCHANGED <<groupVars, pollVars, taskVars, tables>>

-----------------------------------------------------------------------------
(* Consumer: poll_eventbus / poll_stream *)

\* _ensure_group: XGROUP CREATE id=0 MKSTREAM, BUSYGROUP swallowed.
PollStart(p) ==
    /\ pollPc[p] = "idle"
    /\ pollPc' = [pollPc EXCEPT ![p] = "reading"]
    /\ groupExists' = TRUE
    /\ IF groupExists THEN UNCHANGED <<cursor, pel>>
                      ELSE cursor' = 0 /\ pel' = {}
    /\ UNCHANGED <<stream, epoch, pollEpoch, next, last, todo, taskVars, tables>>

\* The last entry an XREADGROUP with count=BATCH_SIZE returns.
BatchEndUnclamped == cursor + BatchSize
BatchEnd == IF Len(stream) - cursor <= BatchSize THEN Len(stream) ELSE cursor + BatchSize

\* What the read changes in the group: ">" moves its cursor and makes the batch pending.
DeliverReread(end) == pel' = pel \cup (cursor + 1)..end /\ UNCHANGED cursor
Deliver(end)       == pel' = pel \cup (cursor + 1)..end /\ cursor' = end

\* XREADGROUP ">" block=0: waits for an undelivered entry.
PollRead(p) ==
    /\ pollPc[p] = "reading"
    /\ cursor < Len(stream)
    /\ Deliver(BatchEnd)
    /\ next' = [next EXCEPT ![p] = cursor + 1]
    /\ last' = [last EXCEPT ![p] = BatchEnd]
    /\ pollPc' = [pollPc EXCEPT ![p] = "check"]
    /\ pollEpoch' = [pollEpoch EXCEPT ![p] = epoch]
    /\ UNCHANGED <<stream, groupExists, epoch, todo, taskVars, tables>>

\* XACK of the message in hand, then on to the next one of the batch.
AckAndAdvance(p) ==
    /\ pel' = pel \ {next[p]}
    /\ next' = [next EXCEPT ![p] = @ + 1]
    /\ pollPc' = [pollPc EXCEPT ![p] = IF next[p] = last[p] THEN "idle" ELSE "check"]
    /\ UNCHANGED <<stream, groupExists, cursor, epoch, pollEpoch, last, todo, taskVars, tables>>

PollSkipWithoutAck(p) ==
    /\ pollPc[p] = "check"
    /\ next[p] \in processed \/ HandlersOf(stream[next[p]]) = {}
    /\ next' = [next EXCEPT ![p] = @ + 1]
    /\ pollPc' = [pollPc EXCEPT ![p] = IF next[p] = last[p] THEN "idle" ELSE "check"]
    /\ UNCHANGED <<stream, groupVars, pollEpoch, last, todo, taskVars, tables>>

\* Already in ProcessedEvent, or no handler registered: acknowledge and continue.
PollSkip(p) ==
    /\ pollPc[p] = "check"
    /\ next[p] \in processed \/ HandlersOf(stream[next[p]]) = {}
    /\ AckAndAdvance(p)

\* ProcessedEvent does not hold the message: start the loop over its handlers.
PollBegin(p) ==
    /\ pollPc[p] = "check"
    /\ next[p] \notin processed
    /\ HandlersOf(stream[next[p]]) # {}
    /\ pollPc' = [pollPc EXCEPT ![p] = "dispatch"]
    /\ todo' = [todo EXCEPT ![p] = HandlersOf(stream[next[p]])]
    /\ UNCHANGED <<stream, groupVars, pollEpoch, next, last, taskVars, tables>>

\* dispatch_handler.delay for the next registration, in registration order.
PollDispatch(p, r) ==
    /\ pollPc[p] = "dispatch"
    /\ r \in todo[p] /\ \A q \in todo[p] : r <= q
    /\ todo' = [todo EXCEPT ![p] = @ \ {r}]
    /\ status' = [status EXCEPT ![<<next[p], r, pollEpoch[p]>>] = "queued"]
    /\ UNCHANGED <<stream, groupVars, pollPc, pollEpoch, next, last, retries, succ, fault, tables>>

PollAckEarly(p) ==
    /\ pollPc[p] = "dispatch"
    /\ AckAndAdvance(p)

\* Every handler enqueued: acknowledge and continue.
PollAck(p) ==
    /\ pollPc[p] = "dispatch"
    /\ todo[p] = {}
    /\ AckAndAdvance(p)

\* The run ends early: worker crash, or Redis, broker or database raises.
\* Nothing re-reads pending entries, so the rest of the batch stays in pel.
PollAbort(p) ==
    /\ "poll" \in Faults
    /\ pollPc[p] # "idle"
    /\ pollPc' = [pollPc EXCEPT ![p] = "idle"]
    /\ todo' = [todo EXCEPT ![p] = {}]
    /\ UNCHANGED <<stream, groupVars, pollEpoch, next, last, taskVars, tables>>

\* The group alone is destroyed (XGROUP DESTROY), the stream stays; reads blocked on the
\* group fail with NOGROUP.
GroupLost ==
    /\ groupExists
    /\ epoch < MaxGroupLoss
    /\ groupExists' = FALSE /\ cursor' = 0 /\ pel' = {} /\ epoch' = epoch + 1
    /\ pollPc' = [p \in Pollers |-> IF pollPc[p] = "reading" THEN "idle" ELSE pollPc[p]]
    /\ UNCHANGED <<stream, pollEpoch, next, last, todo, taskVars, tables>>

-----------------------------------------------------------------------------
(* dispatch_handler *)

Finish(s, st) == status' = [status EXCEPT ![s] = st]

\* Every action of a task leaves the stream, the group and the pollers alone.
TaskFrame == UNCHANGED <<stream, groupVars, pollVars>>

\* The message is in ProcessedEvent: return at once.
TaskSkip(s) ==
    /\ status[s] = "queued"
    /\ MsgOf(s) \in processed
    /\ Finish(s, "skipped")
    /\ TaskFrame /\ UNCHANGED <<retries, succ, fault, tables>>

\* No loaded registration has the qualname: return without a record.
TaskDrop(s) ==
    /\ status[s] = "queued"
    /\ MsgOf(s) \notin processed
    /\ ~IsLoaded(RegOf(s))
    /\ Finish(s, "dropped")
    /\ TaskFrame /\ UNCHANGED <<retries, succ, fault, tables>>

\* The check itself fails; it stands outside the try block.
TaskCheckFault(s) ==
    /\ "db" \in Faults
    /\ status[s] = "queued"
    /\ Finish(s, "failed")
    /\ TaskFrame /\ UNCHANGED <<retries, succ, fault, tables>>

TaskRunUnchecked(s) ==
    /\ status[s] = "queued"
    /\ IsLoaded(RegOf(s))
    /\ Finish(s, "running")
    /\ TaskFrame /\ UNCHANGED <<retries, succ, fault, tables>>

\* The check passed; the handler is called.
TaskRun(s) ==
    /\ status[s] = "queued"
    /\ MsgOf(s) \notin processed
    /\ IsLoaded(RegOf(s))
    /\ Finish(s, "running")
    /\ TaskFrame /\ UNCHANGED <<retries, succ, fault, tables>>

Attempt(s) == retries[s] + 1

MayRetryOneMore(s) == Attempt(s) <= MaxRetries
MayRetry(s)        == Attempt(s) < MaxRetries

\* self.retry within the limits of both settings: the task is enqueued again.
\* With a broker fault apply_async raises and celery rejects the task.
Retry(s) ==
    /\ MayRetry(s)
    /\ Attempt(s) <= CeleryMaxRetries
    /\ \/ Finish(s, "queued") /\ retries' = [retries EXCEPT ![s] = Attempt(s)]
       \/ "broker" \in Faults /\ Finish(s, "failed") /\ UNCHANGED retries
    /\ UNCHANGED dlq

\* self.retry beyond celery's own max_retries re-raises the handler's exception.
RetryRefused(s) ==
    /\ MayRetry(s)
    /\ Attempt(s) > CeleryMaxRetries
    /\ Finish(s, "failed")
    /\ UNCHANGED <<retries, dlq>>

\* The attempts are used up: DeadLetterEvent.objects.create (which may fail too).
DeadLetter(s) ==
    /\ ~MayRetry(s)
    /\ \/ Finish(s, "dead") /\ dlq' = dlq \cup {[slot |-> s, retries |-> Attempt(s)]}
       \/ "db" \in Faults /\ Finish(s, "failed") /\ UNCHANGED dlq
    /\ UNCHANGED retries

\* The except branch of dispatch_handler.
OnException(s) == Retry(s) \/ RetryRefused(s) \/ DeadLetter(s)

HandlerRaisesSwallowed(s) ==
    /\ status[s] = "running"
    /\ Finish(s, "recording")
    /\ TaskFrame /\ UNCHANGED <<retries, succ, fault, tables>>

HandlerRaises(s) ==
    /\ status[s] = "running"
    /\ OnException(s)
    /\ TaskFrame /\ UNCHANGED <<succ, fault, processed>>

HandlerReturns(s) ==
    /\ status[s] = "running"
    /\ Finish(s, "recording")
    /\ succ' = [succ EXCEPT ![s] = @ + 1]
    /\ TaskFrame /\ UNCHANGED <<retries, fault, tables>>

RecordProcessedTwice(s) ==
    /\ status[s] = "recording"
    /\ processed' = processed \cup {MsgOf(s)}
    /\ Finish(s, "done")
    /\ TaskFrame /\ UNCHANGED <<retries, succ, fault, dlq>>

\* ProcessedEvent.objects.create succeeds.
RecordProcessed(s) ==
    /\ status[s] = "recording"
    /\ MsgOf(s) \notin processed
    /\ processed' = processed \cup {MsgOf(s)}
    /\ Finish(s, "done")
    /\ TaskFrame /\ UNCHANGED <<retries, succ, fault, dlq>>

\* message_id is unique: a second record of the message raises IntegrityError,
\* inside the same try block as the handler.
RecordDuplicate(s) ==
    /\ status[s] = "recording"
    /\ MsgOf(s) \in processed
    /\ OnException(s)
    /\ TaskFrame /\ UNCHANGED <<succ, fault, processed>>

\* The insert fails for a database reason, after the handler took effect.
RecordFault(s) ==
    /\ "db" \in Faults
    /\ status[s] = "recording"
    /\ OnException(s)
    /\ fault' = [fault EXCEPT ![s] = @ + 1]
    /\ TaskFrame /\ UNCHANGED <<succ, processed>>

\* The worker dies; the task was acknowledged to the broker when it was taken.
WorkerCrash(s) ==
    /\ "crash" \in Faults
    /\ status[s] \in {"running", "recording"}
    /\ Finish(s, "lost")
    /\ TaskFrame /\ UNCHANGED <<retries, succ, fault, tables>>

-----------------------------------------------------------------------------

PollStep(p) ==
    \/ PollStart(p) \/ PollRead(p) \/ PollSkip(p) \/ PollBegin(p) \/ PollAck(p)
    \/ \E r \in Regs : PollDispatch(p, r)

TaskStep(s) ==
    \/ TaskSkip(s) \/ TaskDrop(s) \/ TaskRun(s)
    \/ HandlerReturns(s) \/ HandlerRaises(s)
    \/ RecordProcessed(s) \/ RecordDuplicate(s)

TaskFault(s) == TaskCheckFault(s) \/ RecordFault(s) \/ WorkerCrash(s)

Next ==
    \/ \E t \in Types : Publish(t)
    \/ \E p \in Pollers : PollStep(p) \/ PollAbort(p)
    \/ GroupLost
    \/ \E s \in Slots : TaskStep(s) \/ TaskFault(s)

Spec == Init /\ [][Next]_vars

-----------------------------------------------------------------------------
(* Properties *)

Busy(p)  == pollPc[p] \in {"check", "dispatch"}
Batch(p) == IF Busy(p) THEN next[p]..last[p] ELSE {}

\* The slots a poll run has yet to fill: the message in hand and the rest of its batch.
Unfilled(p) ==
    {s \in Slots : /\ EpochOf(s) = pollEpoch[p]
                   /\ MsgOf(s) \in Batch(p)
                   /\ (MsgOf(s) = next[p] /\ pollPc[p] = "dispatch") => RegOf(s) \in todo[p]}

\* At-most-once dispatch (consumer.py:45): a run never enqueues a task that was
\* enqueued before in the life of this group, and two runs never hold one message.
AtMostOnceDispatch ==
    /\ \A p \in Pollers : \A s \in Unfilled(p) : status[s] = "none"
    /\ \A p, q \in Pollers :
         p # q /\ pollEpoch[p] = pollEpoch[q] => Batch(p) \cap Batch(q) = {}

\* A delivered message that is no longer pending has been processed, or a task
\* exists for every one of its handlers, whichever run acknowledged it and
\* wherever runs broke off (consumer.py:93-96: XACK comes after the last delay).
AckedMeansDispatched ==
    \A m \in 1..cursor :
        m \notin pel =>
           \/ m \in processed
           \/ \E e \in Epochs : \A r \in HandlersOf(stream[m]) : status[<<m, r, e>>] # "none"

\* ProcessedEvent is written only after some handler of the message returned
\* normally (tasks.py:74-78).
ProcessedHasWitness ==
    \A m \in processed : \E s \in Slots : MsgOf(s) = m /\ succ[s] >= 1

\* Of all the tasks of a recorded message exactly one ended by recording it, in
\* whatever order siblings and redeliveries finish (models.py:19, the unique
\* message_id); a message no task recorded has no finished task.
UniqueRecorder ==
    \A m \in Messages :
        Cardinality({s \in Slots : MsgOf(s) = m /\ status[s] = "done"})
            = IF m \in processed THEN 1 ELSE 0

\* A task runs its handler to success again only when recording the earlier
\* success failed in the database: retries caused by a sibling's record
\* (IntegrityError) never re-execute (tasks.py:54-60).
SuccessBound == \A s \in Slots : succ[s] <= 1 + fault[s]

\* No task is attempted more than MAX_RETRIES times, and a dead letter is written
\* exactly at the last attempt and says so (tasks.py:86-113).
BoundedAttempts ==
    /\ \A s \in Slots : retries[s] < MaxRetries
    /\ \A d \in dlq : d.retries = MaxRetries /\ status[d.slot] = "dead"

\* What a task leaves that is over: a record of its message or a dead letter of its own -
\* or neither, when the worker has not imported the handler (tasks.py:62-69, a warning);
\* when it dies in the handler or before the record; when the check, the retry or the
\* dead letter fails with the database or the broker; when celery's own limit is below
\* MAX_RETRIES (tasks.py:97).
Traced(s) ==
    \/ MsgOf(s) \in processed
    \/ \E d \in dlq : d.slot = s
    \/ ~IsLoaded(RegOf(s))
    \/ status[s] = "lost" /\ "crash" \in Faults
    \/ status[s] = "failed" /\ (Faults \cap {"db", "broker"} # {} \/ MaxRetries > CeleryMaxRetries + 1)

\* Every end of a task is traced in one of the tables or is one of the ways out that
\* Traced names: siblings' records, retries and redeliveries open no other
\* (docs/architecture.md:141-142, tasks.py:54-113).
EndsAreTraced == \A s \in Slots : status[s] \in Terminal => Traced(s)

\* A message is settled: acknowledged, in no run's hands, all its tasks over.
Settled(m) ==
    /\ m <= cursor /\ m \notin pel
    /\ \A p \in Pollers : m \notin Batch(p)
    /\ \A s \in Slots : MsgOf(s) = m => status[s] \in Terminal \cup {"none"}

\* With no faults every published message is eventually settled, however its
\* handlers behave: the retry loop ends and no poll run keeps a message.
EventuallySettled == \A m \in Messages : m <= Len(stream) ~> Settled(m)

-----------------------------------------------------------------------------
(* A statement of the documentation that the code does not keep *)

\* models.py:39 "Records messages that exhausted all retry attempts": a task is
\* dead-lettered only when its handler never succeeded.
DeadLetterMeansFailed == \A d \in dlq : succ[d.slot] = 0

=============================================================================
