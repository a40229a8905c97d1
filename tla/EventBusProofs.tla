--------------------------- MODULE EventBusProofs ---------------------------
(***************************************************************************)
(* Safety of the event bus for every registry, batch size, number of poll  *)
(* runs, retry limit, kind of fault and bound.  The invariants are layered *)
(* and each is inductive relative to the ones before it:                   *)
(*   TypeOK; PollerInv (what a poll run holds lies within what the group   *)
(*   delivered); DispatchedInv (a task exists only for a delivered entry); *)
(*   AtMostOnceDispatch; AttemptInv (what a task's status says of its      *)
(*   counters and of the tables); ProgressInv (a run in the middle of a    *)
(*   message has enqueued what it no longer has to do).                    *)
(***************************************************************************)
EXTENDS EventBus, TLAPS, FiniteSetTheorems

TaskAction(s) == TaskStep(s) \/ TaskFault(s)

-----------------------------------------------------------------------------
(* Type correctness *)

\* The last entry of a batch lies after the cursor and within the stream
\* (consumer.py:64-67: XREADGROUP count=BATCH_SIZE).
LEMMA BatchEndRange ==
    ASSUME GroupTypes, cursor < Len(stream)
    PROVE  BatchEnd \in (cursor + 1)..Len(stream)
<1>1. cursor \in Nat /\ Len(stream) \in Nat
  BY DEF GroupTypes
<1>. QED
  BY <1>1, ConfigAssumption DEF BatchEnd

\* The except branch of dispatch_handler keeps the counters and tables typed.
LEMMA OnExceptionEffect ==
    ASSUME TaskTypes, TableTypes, NEW s \in Slots, OnException(s)
    PROVE  /\ retries' \in [Slots -> Nat]
           /\ dlq' \subseteq [slot : Slots, retries : Nat]
           /\ \E st \in Status \ {"none"} : status' = [status EXCEPT ![s] = st]
<1>. USE DEF TaskTypes, TableTypes, Finish, Status, Terminal
<1>1. Attempt(s) \in Nat
  BY DEF Attempt
<1>2. CASE Retry(s)
  BY <1>1, <1>2 DEF Retry
<1>3. CASE RetryRefused(s)
  BY <1>3 DEF RetryRefused
<1>4. CASE DeadLetter(s)
  <2>1. [slot |-> s, retries |-> Attempt(s)] \in [slot : Slots, retries : Nat]
    BY <1>1
  <2>. QED
    BY <1>4, <2>1 DEF DeadLetter
<1>. QED
  BY <1>2, <1>3, <1>4 DEF OnException

\* What every action of a dispatch_handler task does to the stream, the group
\* and the poll runs: nothing; it neither creates nor erases a task, and keeps
\* the counters and the tables in their types.
LEMMA TaskEffect ==
    ASSUME TaskTypes, TableTypes, NEW s \in Slots, TaskAction(s)
    PROVE  /\ UNCHANGED <<stream, groupVars, pollVars>>
           /\ status[s] # "none"
           /\ \E st \in Status \ {"none"} : status' = [status EXCEPT ![s] = st]
           /\ TaskTypes' /\ TableTypes'
<1>. USE DEF TaskTypes, TableTypes, TaskFrame, Finish, Status, Terminal, tables
<1>1. MsgOf(s) \in Messages
  BY DEF Slots, MsgOf
<1>2. CASE TaskSkip(s) \/ TaskDrop(s) \/ TaskRun(s) \/ TaskCheckFault(s) \/ WorkerCrash(s)
  BY <1>2 DEF TaskSkip, TaskDrop, TaskRun, TaskCheckFault, WorkerCrash
<1>3. CASE HandlerReturns(s)
  <2>1. succ[s] + 1 \in Nat
    OBVIOUS
  <2>. QED
    BY <1>3, <2>1 DEF HandlerReturns
<1>4. CASE HandlerRaises(s)
  BY <1>4, OnExceptionEffect DEF HandlerRaises
<1>5. CASE RecordProcessed(s)
  BY <1>1, <1>5 DEF RecordProcessed
<1>6. CASE RecordDuplicate(s)
  BY <1>6, OnExceptionEffect DEF RecordDuplicate
<1>7. CASE RecordFault(s)
  BY <1>7, OnExceptionEffect DEF RecordFault
<1>. QED
  BY <1>2, <1>3, <1>4, <1>5, <1>6, <1>7 DEF TaskAction, TaskStep, TaskFault

\* The type invariant holds in every reachable state: no operation of the
\* publisher, the consumer or a task leaves its domain.
THEOREM TypeCorrect == Spec => []TypeOK
<1>1. Init => TypeOK
  <2> SUFFICES ASSUME Init PROVE TypeOK
    OBVIOUS
  <2>1. GroupTypes
    <3>1. stream \in Seq(Types) /\ Len(stream) = 0
      BY DEF Init
    <3>2. 0 \in Epochs /\ 0 <= MaxPublished /\ 0 \in 0..Len(stream)
      BY <3>1, ConfigAssumption DEF Epochs
    <3>. QED
      BY <3>1, <3>2 DEF Init, GroupTypes
  <2>2. PollTypes
    BY ConfigAssumption DEF Init, PollTypes, Epochs
  <2>3. TaskTypes /\ TableTypes
    BY DEF Init, TaskTypes, TableTypes, Status
  <2>. QED
    BY <2>1, <2>2, <2>3 DEF TypeOK
<1>2. TypeOK /\ [Next]_vars => TypeOK'
  <2> SUFFICES ASSUME TypeOK, [Next]_vars PROVE TypeOK'
    OBVIOUS
  <2>. USE DEF TypeOK
  <2>1. ASSUME NEW t \in Types, Publish(t) PROVE TypeOK'
    <3>1. stream' \in Seq(Types) /\ Len(stream') = Len(stream) + 1
      BY <2>1 DEF Publish, GroupTypes
    <3>2. GroupTypes'
      BY <2>1, <3>1, ConfigAssumption DEF Publish, GroupTypes, groupVars
    <3>. QED
      BY <2>1, <3>2 DEF Publish, PollTypes, TaskTypes, TableTypes, pollVars, taskVars, tables
  <2>2. ASSUME NEW p \in Pollers, PollStart(p) PROVE TypeOK'
    <3>1. GroupTypes'
      <4>1. 0 \in 0..Len(stream)
        BY DEF GroupTypes
      <4>. QED
        BY <2>2, <4>1 DEF PollStart, GroupTypes
    <3>2. PollTypes'
      BY <2>2 DEF PollStart, PollTypes
    <3>. QED
      BY <2>2, <3>1, <3>2 DEF PollStart, TaskTypes, TableTypes, taskVars, tables
  <2>3. ASSUME NEW p \in Pollers, PollRead(p) PROVE TypeOK'
    <3>1. BatchEnd \in (cursor + 1)..Len(stream)
      BY <2>3, BatchEndRange DEF PollRead
    <3>2. GroupTypes'
      BY <2>3, <3>1 DEF PollRead, Deliver, GroupTypes
    <3>3. cursor + 1 \in Int /\ BatchEnd \in Int
      BY <3>1 DEF GroupTypes
    <3>4. PollTypes'
      BY <2>3, <3>3 DEF PollRead, PollTypes, GroupTypes
    <3>. QED
      BY <2>3, <3>2, <3>4 DEF PollRead, TaskTypes, TableTypes, taskVars, tables
  <2>4. ASSUME NEW p \in Pollers, AckAndAdvance(p) PROVE TypeOK'
    <3>1. GroupTypes'
      BY <2>4 DEF AckAndAdvance, GroupTypes
    <3>2. next[p] + 1 \in Int
      BY DEF PollTypes
    <3>3. PollTypes'
      BY <2>4, <3>2 DEF AckAndAdvance, PollTypes
    <3>. QED
      BY <2>4, <3>1, <3>3 DEF AckAndAdvance, TaskTypes, TableTypes, taskVars, tables
  <2>5. ASSUME NEW p \in Pollers, PollSkip(p) \/ PollAck(p) PROVE TypeOK'
    BY <2>4, <2>5 DEF PollSkip, PollAck
  <2>6. ASSUME NEW p \in Pollers, PollBegin(p) PROVE TypeOK'
    BY <2>6 DEF PollBegin, HandlersOf, GroupTypes, PollTypes, TaskTypes, TableTypes,
                groupVars, taskVars, tables
  <2>7. ASSUME NEW p \in Pollers, NEW r \in Regs, PollDispatch(p, r) PROVE TypeOK'
    BY <2>7 DEF PollDispatch, GroupTypes, PollTypes, TaskTypes, TableTypes, Status, groupVars, tables
  <2>8. ASSUME NEW p \in Pollers, PollAbort(p) PROVE TypeOK'
    BY <2>8 DEF PollAbort, GroupTypes, PollTypes, TaskTypes, TableTypes,
                groupVars, taskVars, tables
  <2>9. ASSUME GroupLost PROVE TypeOK'
    <3>1. GroupTypes'
      <4>1. 0 \in 0..Len(stream) /\ epoch + 1 \in Epochs
        BY <2>9, ConfigAssumption DEF GroupLost, GroupTypes, Epochs
      <4>. QED
        BY <2>9, <4>1 DEF GroupLost, GroupTypes
    <3>. QED
      BY <2>9, <3>1 DEF GroupLost, PollTypes, TaskTypes, TableTypes, taskVars, tables
  <2>10. ASSUME NEW s \in Slots, TaskAction(s) PROVE TypeOK'
    BY <2>10, TaskEffect DEF GroupTypes, PollTypes, groupVars, pollVars
  <2>11. ASSUME UNCHANGED vars PROVE TypeOK'
    BY <2>11 DEF GroupTypes, PollTypes, TaskTypes, TableTypes,
                 vars, groupVars, pollVars, taskVars, tables
  <2>. QED
    BY <2>1, <2>2, <2>3, <2>5, <2>6, <2>7, <2>8, <2>9, <2>10, <2>11
    DEF Next, PollStep, TaskAction
<1>. QED
  BY <1>1, <1>2, PTL DEF Spec

-----------------------------------------------------------------------------
(* Poll runs stay within what the group delivered *)

\* A group that does not exist has delivered nothing and nobody waits on it; the batch in a run's hands
\* lies in the stream and, if the group it was read from still lives, behind the
\* group's cursor.
PollerInv ==
    /\ ~groupExists => cursor = 0
    /\ \A p \in Pollers : pollPc[p] = "reading" => groupExists
    /\ \A p \in Pollers : Busy(p) =>
          /\ 1 <= next[p] /\ next[p] <= last[p] /\ last[p] <= Len(stream)
          /\ pollEpoch[p] <= epoch
          /\ pollEpoch[p] = epoch => last[p] <= cursor

\* A task exists only for an entry the group delivered in that epoch.
DispatchedInv ==
    \A s \in Slots : status[s] # "none" =>
        /\ EpochOf(s) <= epoch
        /\ EpochOf(s) = epoch => MsgOf(s) <= cursor

\* A read moves the cursor past the batch it hands to a run (consumer.py:42-102).
LEMMA PollerStep ==
    ASSUME TypeOK, TypeOK', PollerInv, [Next]_vars
    PROVE  PollerInv'
<1>. USE DEF TypeOK, GroupTypes, PollTypes, Busy
<1>0. epoch \in Nat /\ cursor \in Nat /\ Len(stream) \in Nat /\ \A p \in Pollers : pollEpoch[p] \in Nat
  BY ConfigAssumption DEF Epochs
<1>1. ASSUME NEW t \in Types, Publish(t) PROVE PollerInv'
  <2>1. Len(stream') = Len(stream) + 1
    BY <1>1 DEF Publish
  <2>. QED
    BY <1>0, <1>1, <2>1 DEF Publish, PollerInv, groupVars, pollVars
<1>2. ASSUME NEW p \in Pollers, PollStart(p) PROVE PollerInv'
  BY <1>0, <1>2 DEF PollStart, PollerInv
<1>3. ASSUME NEW p \in Pollers, PollRead(p) PROVE PollerInv'
  <2>1. BatchEnd \in (cursor + 1)..Len(stream)
    BY <1>3, BatchEndRange DEF PollRead
  <2>. QED
    <3>1. /\ pollPc' = [pollPc EXCEPT ![p] = "check"] /\ pollEpoch' = [pollEpoch EXCEPT ![p] = epoch]
          /\ next' = [next EXCEPT ![p] = cursor + 1] /\ last' = [last EXCEPT ![p] = BatchEnd]
          /\ cursor' = BatchEnd /\ cursor < BatchEnd /\ UNCHANGED <<stream, groupExists, epoch>>
      BY <1>0, <1>3, <2>1 DEF PollRead, Deliver
    <3>2. groupExists
      BY <1>3 DEF PollRead, PollerInv
    <3>. QED
      BY <1>0, <2>1, <3>1, <3>2 DEF PollerInv
<1>4. ASSUME NEW p \in Pollers, AckAndAdvance(p), Busy(p) PROVE PollerInv'
  BY <1>0, <1>4 DEF AckAndAdvance, PollerInv
<1>5. ASSUME NEW p \in Pollers, PollSkip(p) \/ PollAck(p) PROVE PollerInv'
  BY <1>4, <1>5 DEF PollSkip, PollAck
<1>6. ASSUME NEW p \in Pollers, PollBegin(p) PROVE PollerInv'
  BY <1>0, <1>6 DEF PollBegin, PollerInv, groupVars
<1>7. ASSUME NEW p \in Pollers, NEW r \in Regs, PollDispatch(p, r) PROVE PollerInv'
  BY <1>0, <1>7 DEF PollDispatch, PollerInv, groupVars
<1>8. ASSUME NEW p \in Pollers, PollAbort(p) PROVE PollerInv'
  BY <1>0, <1>8 DEF PollAbort, PollerInv, groupVars
<1>9. ASSUME GroupLost PROVE PollerInv'
  BY <1>0, <1>9 DEF GroupLost, PollerInv
<1>10. ASSUME NEW s \in Slots, TaskAction(s) PROVE PollerInv'
  BY <1>10, TaskEffect DEF PollerInv, groupVars, pollVars
<1>11. ASSUME UNCHANGED vars PROVE PollerInv'
  BY <1>11 DEF PollerInv, vars, groupVars, pollVars
<1>. QED
  BY <1>1, <1>2, <1>3, <1>5, <1>6, <1>7, <1>8, <1>9, <1>10, <1>11
  DEF Next, PollStep, TaskAction

\* A run enqueues only for entries of its batch, which the group has delivered.
LEMMA DispatchedStep ==
    ASSUME TypeOK, TypeOK', PollerInv, DispatchedInv, [Next]_vars
    PROVE  DispatchedInv'
<1>. USE DEF TypeOK, GroupTypes, PollTypes, TaskTypes
<1>0. /\ epoch \in Nat /\ cursor \in Nat /\ Len(stream) \in Nat
      /\ \A p \in Pollers : pollEpoch[p] \in Nat
      /\ \A s \in Slots : EpochOf(s) \in Nat /\ MsgOf(s) \in Nat
  BY ConfigAssumption DEF Epochs, Slots, EpochOf, MsgOf, Messages
<1>1. ASSUME NEW t \in Types, Publish(t) PROVE DispatchedInv'
  BY <1>1 DEF Publish, DispatchedInv, groupVars, taskVars
<1>2. ASSUME NEW p \in Pollers, PollStart(p) PROVE DispatchedInv'
  BY <1>2 DEF PollStart, PollerInv, DispatchedInv, taskVars
<1>3. ASSUME NEW p \in Pollers, PollRead(p) PROVE DispatchedInv'
  <2>1. BatchEnd \in (cursor + 1)..Len(stream)
    BY <1>3, BatchEndRange DEF PollRead
  <2>. QED
    BY <1>0, <1>3, <2>1 DEF PollRead, Deliver, DispatchedInv, taskVars
<1>4. ASSUME NEW p \in Pollers, PollSkip(p) \/ PollAck(p) \/ PollBegin(p) \/ PollAbort(p)
      PROVE  DispatchedInv'
  BY <1>4 DEF PollSkip, PollAck, PollBegin, PollAbort, AckAndAdvance, DispatchedInv, groupVars, taskVars
<1>5. ASSUME NEW p \in Pollers, NEW r \in Regs, PollDispatch(p, r) PROVE DispatchedInv'
  <2>1. next[p] <= last[p] /\ pollEpoch[p] <= epoch /\ (pollEpoch[p] = epoch => last[p] <= cursor)
    BY <1>5 DEF PollDispatch, PollerInv, Busy
  <2>2. UNCHANGED <<cursor, epoch>>
    BY <1>5 DEF PollDispatch, groupVars
  <2> SUFFICES ASSUME NEW s \in Slots, status'[s] # "none"
               PROVE  EpochOf(s) <= epoch /\ (EpochOf(s) = epoch => MsgOf(s) <= cursor)
    BY <2>2 DEF DispatchedInv
  <2>3. CASE s = <<next[p], r, pollEpoch[p]>>
    BY <1>0, <2>1, <2>3 DEF EpochOf, MsgOf
  <2>4. CASE s # <<next[p], r, pollEpoch[p]>>
    BY <1>5, <2>4 DEF PollDispatch, DispatchedInv
  <2>. QED
    BY <2>3, <2>4
<1>6. ASSUME GroupLost PROVE DispatchedInv'
  BY <1>0, <1>6 DEF GroupLost, DispatchedInv, taskVars
<1>7. ASSUME NEW s \in Slots, TaskAction(s) PROVE DispatchedInv'
  BY <1>7, TaskEffect DEF DispatchedInv, groupVars
<1>8. ASSUME UNCHANGED vars PROVE DispatchedInv'
  BY <1>8 DEF DispatchedInv, vars, groupVars, taskVars
<1>. QED
  BY <1>1, <1>2, <1>3, <1>4, <1>5, <1>6, <1>7, <1>8 DEF Next, PollStep, TaskAction

-----------------------------------------------------------------------------
(* At-most-once dispatch *)

\* A run enqueues a registration of an entry that no other run of the epoch has read.
LEMMA AtMostOnceStep ==
    ASSUME TypeOK, TypeOK', PollerInv, PollerInv', DispatchedInv, AtMostOnceDispatch, [Next]_vars
    PROVE  AtMostOnceDispatch'
<1>. USE DEF TypeOK, GroupTypes, PollTypes, TaskTypes
<1>0. /\ epoch \in Nat /\ cursor \in Nat /\ Len(stream) \in Nat
      /\ \A p \in Pollers : pollEpoch[p] \in Nat
      /\ \A s \in Slots : EpochOf(s) \in Nat /\ MsgOf(s) \in Nat
  BY ConfigAssumption DEF Epochs, Slots, EpochOf, MsgOf, Messages
\* A step that gives no run a larger batch, no run more to enqueue and creates
\* no task preserves the property.
<1>1. ASSUME UNCHANGED <<pollEpoch, status>>,
             \A p \in Pollers : Unfilled(p)' \subseteq Unfilled(p) /\ Batch(p)' \subseteq Batch(p)
      PROVE  AtMostOnceDispatch'
  BY <1>1 DEF AtMostOnceDispatch
<1>2. ASSUME NEW t \in Types, Publish(t) PROVE AtMostOnceDispatch'
  BY <1>2, <1>1 DEF Publish, Unfilled, Batch, Busy, pollVars, taskVars
<1>3. ASSUME NEW p \in Pollers, PollStart(p) PROVE AtMostOnceDispatch'
  <2>1. \A q \in Pollers : Unfilled(q)' \subseteq Unfilled(q) /\ Batch(q)' \subseteq Batch(q)
    BY <1>3 DEF PollStart, Unfilled, Batch, Busy
  <2>. QED
    BY <1>1, <1>3, <2>1 DEF PollStart, taskVars
<1>4. ASSUME NEW p \in Pollers, PollRead(p) PROVE AtMostOnceDispatch'
  <2>1. BatchEnd \in (cursor + 1)..Len(stream)
    BY <1>4, BatchEndRange DEF PollRead
  <2>2. /\ Batch(p)' = (cursor + 1)..BatchEnd
        /\ pollEpoch' = [pollEpoch EXCEPT ![p] = epoch]
        /\ UNCHANGED status
    BY <1>4 DEF PollRead, Batch, Busy, taskVars
  <2>3. \A q \in Pollers \ {p} :
          Batch(q)' = Batch(q) /\ Unfilled(q)' = Unfilled(q) /\ pollEpoch'[q] = pollEpoch[q]
    BY <1>4 DEF PollRead, Batch, Unfilled, Busy
  <2>4. \A s \in Unfilled(p)' : status'[s] = "none"
    <3> SUFFICES ASSUME NEW s \in Slots, EpochOf(s) = epoch, MsgOf(s) \in (cursor + 1)..BatchEnd
                 PROVE  status[s] = "none"
      BY <2>2 DEF Unfilled
    <3>. QED
      BY <1>0, <2>1 DEF DispatchedInv
  <2>5. \A q \in Pollers \ {p} : pollEpoch[q] = epoch => Batch(q) \cap Batch(p)' = {}
    BY <1>0, <2>1, <2>2 DEF PollerInv, Batch
  <2>. QED
    <3>1. \A q \in Pollers : \A s \in Unfilled(q)' : status'[s] = "none"
      BY <2>2, <2>3, <2>4 DEF AtMostOnceDispatch
    <3>2. ASSUME NEW q \in Pollers, NEW o \in Pollers, q # o, pollEpoch'[q] = pollEpoch'[o]
          PROVE  Batch(q)' \cap Batch(o)' = {}
      <4>1. CASE q # p /\ o # p
        BY <2>3, <3>2, <4>1 DEF AtMostOnceDispatch
      <4>2. CASE q = p \/ o = p
        <5>1. pollEpoch'[p] = epoch /\ \A x \in Pollers \ {p} : pollEpoch'[x] = pollEpoch[x]
          BY <2>2
        <5>. QED
          BY <2>3, <2>5, <3>2, <4>2, <5>1
      <4>. QED
        BY <4>1, <4>2
    <3>. QED
      BY <3>1, <3>2 DEF AtMostOnceDispatch
<1>5. ASSUME NEW p \in Pollers, AckAndAdvance(p), Busy(p) PROVE AtMostOnceDispatch'
  <2>1. \A q \in Pollers : Batch(q)' \subseteq Batch(q)
    BY <1>5 DEF AckAndAdvance, Batch, Busy
  <2>2. next[p] \in Int /\ next'[p] = next[p] + 1 /\ pollPc'[p] # "dispatch"
    BY <1>5 DEF AckAndAdvance
  <2>3. Unfilled(p)' \subseteq Unfilled(p)
    <3> SUFFICES ASSUME NEW s \in Slots, EpochOf(s) = pollEpoch[p], MsgOf(s) \in Batch(p)'
                 PROVE  MsgOf(s) \in Batch(p) /\ MsgOf(s) # next[p]
      BY <1>5 DEF Unfilled, AckAndAdvance
    <3>1. MsgOf(s) \in next'[p]..last'[p]
      BY DEF Batch
    <3>2. MsgOf(s) # next[p]
      BY <1>0, <2>2, <3>1
    <3>. QED
      BY <2>1, <3>2
  <2>4. \A q \in Pollers \ {p} : Unfilled(q)' = Unfilled(q)
    BY <1>5 DEF AckAndAdvance, Unfilled, Batch, Busy
  <2>. QED
    BY <1>1, <1>5, <2>1, <2>3, <2>4 DEF AckAndAdvance, taskVars
<1>6. ASSUME NEW p \in Pollers, PollSkip(p) \/ PollAck(p) PROVE AtMostOnceDispatch'
  BY <1>5, <1>6 DEF PollSkip, PollAck, Busy
<1>7. ASSUME NEW p \in Pollers, PollBegin(p) PROVE AtMostOnceDispatch'
  <2>1. \A q \in Pollers : Unfilled(q)' \subseteq Unfilled(q) /\ Batch(q)' = Batch(q)
    BY <1>7 DEF PollBegin, Unfilled, Batch, Busy
  <2>. QED
    BY <1>1, <1>7, <2>1 DEF PollBegin, taskVars
<1>8. ASSUME NEW p \in Pollers, NEW r \in Regs, PollDispatch(p, r) PROVE AtMostOnceDispatch'
  <2> DEFINE slot == <<next[p], r, pollEpoch[p]>>
  <2>1. /\ \A q \in Pollers : Batch(q)' = Batch(q) /\ pollEpoch'[q] = pollEpoch[q]
        /\ \A s \in Slots \ {slot} : status'[s] = status[s]
    BY <1>8 DEF PollDispatch, Batch, Busy
  <2>2. next[p] \in Batch(p)
    BY <1>0, <1>8 DEF PollDispatch, PollerInv, Batch, Busy
  <2>3. Unfilled(p)' \subseteq Unfilled(p) \ {slot}
    <3> SUFFICES ASSUME NEW s \in Unfilled(p)' PROVE s \in Unfilled(p) /\ s # slot
      OBVIOUS
    <3>1. todo'[p] = todo[p] \ {r} /\ pollPc'[p] = "dispatch" /\ pollPc[p] = "dispatch"
      BY <1>8 DEF PollDispatch
    <3>2. s \in Slots /\ EpochOf(s) = pollEpoch[p] /\ MsgOf(s) \in Batch(p)
          /\ (MsgOf(s) = next[p] => RegOf(s) \in todo[p] \ {r})
      BY <1>8, <2>1, <3>1 DEF PollDispatch, Unfilled
    <3>. QED
      BY <3>2 DEF Unfilled, MsgOf, RegOf
  <2>4. ASSUME NEW q \in Pollers \ {p} PROVE Unfilled(q)' \subseteq Unfilled(q) \ {slot}
    <3>1. Unfilled(q)' = Unfilled(q)
      BY <1>8, <2>1 DEF PollDispatch, Unfilled
    <3>2. slot \in Unfilled(q) => pollEpoch[q] = pollEpoch[p] /\ next[p] \in Batch(q)
      BY DEF Unfilled, EpochOf, MsgOf
    <3>. QED
      BY <2>2, <3>1, <3>2 DEF AtMostOnceDispatch
  <2>5. \A q \in Pollers : Unfilled(q)' \subseteq Unfilled(q) \ {slot}
    BY <2>3, <2>4
  <2>. QED
    BY <2>1, <2>5 DEF AtMostOnceDispatch, Unfilled
<1>9. ASSUME NEW p \in Pollers, PollAbort(p) PROVE AtMostOnceDispatch'
  <2>1. \A q \in Pollers : Unfilled(q)' \subseteq Unfilled(q) /\ Batch(q)' \subseteq Batch(q)
    BY <1>9 DEF PollAbort, Unfilled, Batch, Busy
  <2>. QED
    BY <1>1, <1>9, <2>1 DEF PollAbort, taskVars
<1>10. ASSUME GroupLost PROVE AtMostOnceDispatch'
  <2>1. \A q \in Pollers : Unfilled(q)' \subseteq Unfilled(q) /\ Batch(q)' \subseteq Batch(q)
    BY <1>10 DEF GroupLost, Unfilled, Batch, Busy
  <2>. QED
    BY <1>1, <1>10, <2>1 DEF GroupLost, taskVars
<1>11. ASSUME NEW s \in Slots, TaskAction(s) PROVE AtMostOnceDispatch'
  <2>1. \A q \in Pollers : Unfilled(q)' = Unfilled(q) /\ Batch(q)' = Batch(q) /\ pollEpoch'[q] = pollEpoch[q]
    BY <1>11, TaskEffect DEF Unfilled, Batch, Busy, pollVars
  <2>2. \A x \in Slots : status[x] = "none" => status'[x] = "none"
    BY <1>11, TaskEffect
  <2>3. \A q \in Pollers : Unfilled(q) \subseteq Slots
    BY DEF Unfilled
  <2>. QED
    BY <2>1, <2>2, <2>3 DEF AtMostOnceDispatch
<1>12. ASSUME UNCHANGED vars PROVE AtMostOnceDispatch'
  BY <1>12, <1>1 DEF Unfilled, Batch, Busy, vars, pollVars, taskVars
<1>. QED
  BY <1>2, <1>3, <1>4, <1>6, <1>7, <1>8, <1>9, <1>10, <1>11, <1>12
  DEF Next, PollStep, TaskAction

\* Within one life of the consumer group no task is enqueued twice and no two
\* runs hold the same message, whatever the number of runs, the batch size and
\* the faults (consumer.py:42-96).
THEOREM AtMostOnceDispatchCorrect == Spec => []AtMostOnceDispatch
<1> DEFINE Inv == TypeOK /\ PollerInv /\ DispatchedInv /\ AtMostOnceDispatch
<1>1. Init => PollerInv /\ DispatchedInv /\ AtMostOnceDispatch
  BY DEF Init, PollerInv, DispatchedInv, AtMostOnceDispatch, Unfilled, Batch, Busy
<1>2. TypeOK /\ TypeOK' /\ Inv /\ [Next]_vars => Inv'
  BY PollerStep, DispatchedStep, AtMostOnceStep
<1>. QED
  BY <1>1, <1>2, TypeCorrect, PTL DEF Spec

-----------------------------------------------------------------------------
(* Attempts, records and dead letters *)

\* What a task's status says of its counters: a handler that is about to run has
\* succeeded at most as often as recording failed; one that waits for a retry
\* may be one ahead only if its message is recorded already.
AttemptInv ==
    \A s \in Slots :
        /\ status[s] \in {"none", "running"} => succ[s] <= fault[s]
        /\ status[s] = "queued" => succ[s] <= fault[s] \/ MsgOf(s) \in processed
        /\ status[s] = "recording" => 1 <= succ[s]
        /\ succ[s] <= 1 + fault[s]

\* Tasks and the ProcessedEvent table: a finished task is the recorder of its
\* message, every record has one, and two finished tasks of a message are one.
RecorderInv ==
    /\ \A s \in Slots : status[s] = "done" => MsgOf(s) \in processed
    /\ \A m \in processed : \E s \in Slots : MsgOf(s) = m /\ status[s] = "done"
    /\ \A s, t \in Slots :
         status[s] = "done" /\ status[t] = "done" /\ MsgOf(s) = MsgOf(t) => s = t

Inv == /\ TypeOK /\ PollerInv /\ DispatchedInv /\ AtMostOnceDispatch
       /\ AttemptInv /\ BoundedAttempts /\ ProcessedHasWitness /\ RecorderInv

\* An action of the publisher, the consumer or the group leaves the tables and
\* the counters alone and creates at most one task, out of nothing.
LEMMA PollEffect ==
    ASSUME TypeOK, PollerInv, AtMostOnceDispatch, [Next]_vars,
           ~ \E s \in Slots : TaskAction(s)
    PROVE  /\ UNCHANGED <<retries, succ, fault, processed, dlq>>
           /\ \/ UNCHANGED status
              \/ \E s \in Slots : status[s] = "none" /\ status' = [status EXCEPT ![s] = "queued"]
<1>1. ASSUME NEW p \in Pollers, NEW r \in Regs, PollDispatch(p, r)
      PROVE  /\ UNCHANGED <<retries, succ, fault, processed, dlq>>
             /\ \E s \in Slots : status[s] = "none" /\ status' = [status EXCEPT ![s] = "queued"]
  <2> DEFINE slot == <<next[p], r, pollEpoch[p]>>
  <2>1. /\ 1 <= next[p] /\ next[p] <= last[p] /\ last[p] <= Len(stream)
        /\ next[p] \in Int /\ last[p] \in Int /\ pollEpoch[p] \in Epochs
    BY <1>1 DEF PollDispatch, PollerInv, Busy, TypeOK, PollTypes
  <2>2. slot \in Slots
    BY <2>1, ConfigAssumption DEF Slots, Messages, TypeOK, GroupTypes
  <2>3. slot \in Unfilled(p)
    BY <1>1, <2>1, <2>2 DEF PollDispatch, Unfilled, Batch, Busy, EpochOf, MsgOf, RegOf
  <2>. QED
    BY <1>1, <2>2, <2>3 DEF PollDispatch, AtMostOnceDispatch, tables
<1>2. ASSUME NEW p \in Pollers,
             PollStart(p) \/ PollRead(p) \/ PollSkip(p) \/ PollBegin(p) \/ PollAck(p) \/ PollAbort(p)
      PROVE  UNCHANGED <<status, retries, succ, fault, processed, dlq>>
  BY <1>2 DEF PollStart, PollRead, PollSkip, PollBegin, PollAck, PollAbort, AckAndAdvance,
              taskVars, tables
<1>3. ASSUME (\E t \in Types : Publish(t)) \/ GroupLost \/ UNCHANGED vars
      PROVE  UNCHANGED <<status, retries, succ, fault, processed, dlq>>
  BY <1>3 DEF Publish, GroupLost, vars, taskVars, tables
<1>. QED
  BY <1>1, <1>2, <1>3 DEF Next, PollStep, TaskAction

\* The except branch from status "running" or "recording": the task is queued
\* again with one more retry, or dead with a dead letter, or failed.
LEMMA OnExceptionCases ==
    ASSUME TypeOK, NEW s \in Slots, OnException(s), retries[s] < MaxRetries
    PROVE  \/ /\ status' = [status EXCEPT ![s] = "queued"]
              /\ retries' = [retries EXCEPT ![s] = retries[s] + 1]
              /\ retries[s] + 1 < MaxRetries /\ dlq' = dlq
           \/ /\ status' = [status EXCEPT ![s] = "dead"] /\ retries' = retries
              /\ dlq' = dlq \cup {[slot |-> s, retries |-> MaxRetries]}
           \/ /\ status' = [status EXCEPT ![s] = "failed"] /\ retries' = retries /\ dlq' = dlq
<1>1. retries[s] \in Nat /\ MaxRetries \in Nat
  BY ConfigAssumption DEF TypeOK, TaskTypes
<1>2. CASE Retry(s)
  BY <1>1, <1>2 DEF Retry, MayRetry, Attempt, Finish
<1>3. CASE RetryRefused(s)
  BY <1>3 DEF RetryRefused, Finish
<1>4. CASE DeadLetter(s)
  BY <1>1, <1>4 DEF DeadLetter, MayRetry, Attempt, Finish
<1>. QED
  BY <1>2, <1>3, <1>4 DEF OnException

\* Each attempt, retry and fault of a task keeps its status and its counters together
\* (tasks.py:54-113).
LEMMA AttemptTaskStep ==
    ASSUME TypeOK, AttemptInv, BoundedAttempts, NEW s \in Slots, TaskAction(s)
    PROVE  AttemptInv'
<1>. USE DEF AttemptInv
<1>0. /\ \A t \in Slots : succ[t] \in Nat /\ fault[t] \in Nat
      /\ DOMAIN status = Slots /\ DOMAIN succ = Slots /\ DOMAIN fault = Slots
  BY DEF TypeOK, TaskTypes
<1>1. CASE TaskSkip(s) \/ TaskDrop(s) \/ TaskRun(s) \/ TaskCheckFault(s) \/ WorkerCrash(s)
  BY <1>0, <1>1 DEF TaskSkip, TaskDrop, TaskRun, TaskCheckFault, WorkerCrash, Finish, TaskFrame, tables,
                    TypeOK, TaskTypes
<1>2. CASE HandlerReturns(s)
  BY <1>0, <1>2 DEF HandlerReturns, Finish, tables, TypeOK, TaskTypes
<1>3. CASE HandlerRaises(s)
  BY <1>0, <1>3, OnExceptionCases DEF HandlerRaises, BoundedAttempts, TypeOK, TaskTypes
<1>4. CASE RecordProcessed(s)
  BY <1>0, <1>4 DEF RecordProcessed, Finish, TypeOK, TaskTypes
<1>5. CASE RecordDuplicate(s)
  BY <1>0, <1>5, OnExceptionCases DEF RecordDuplicate, BoundedAttempts, TypeOK, TaskTypes
<1>6. CASE RecordFault(s)
  BY <1>0, <1>6, OnExceptionCases DEF RecordFault, BoundedAttempts, TypeOK, TaskTypes
<1>. QED
  BY <1>1, <1>2, <1>3, <1>4, <1>5, <1>6 DEF TaskAction, TaskStep, TaskFault

\* A retry is asked for below the limit only.
LEMMA BoundedTaskStep ==
    ASSUME TypeOK, BoundedAttempts, NEW s \in Slots, TaskAction(s)
    PROVE  BoundedAttempts'
<1>. USE DEF BoundedAttempts, TypeOK, TaskTypes, TableTypes
<1>0. \A d \in dlq : d.slot \in Slots /\ d.retries \in Nat
  OBVIOUS
<1>1. ASSUME status[s] \in {"queued", "running", "recording"},
             \E st \in Status : status' = [status EXCEPT ![s] = st], UNCHANGED <<retries, dlq>>
      PROVE  BoundedAttempts'
  BY <1>0, <1>1
<1>2. ASSUME status[s] \in {"queued", "running", "recording"}, OnException(s) PROVE BoundedAttempts'
  <2>1. \A d \in dlq : d.slot # s
    BY <1>2
  <2>2. \A t \in Slots : retries'[t] < MaxRetries
    BY <1>2, OnExceptionCases
  <2>3. \A d \in dlq : d.retries = MaxRetries /\ status'[d.slot] = "dead"
    BY <1>0, <1>2, <2>1, OnExceptionCases
  <2>4. \A d \in dlq' \ dlq : d.retries = MaxRetries /\ status'[d.slot] = "dead"
    BY <1>2, OnExceptionCases
  <2>. QED
    BY <2>2, <2>3, <2>4
<1>3. CASE TaskSkip(s) \/ TaskDrop(s) \/ TaskRun(s) \/ TaskCheckFault(s) \/ WorkerCrash(s)
  BY <1>1, <1>3 DEF TaskSkip, TaskDrop, TaskRun, TaskCheckFault, WorkerCrash, Finish, Status, Terminal, tables
<1>4. CASE HandlerReturns(s) \/ RecordProcessed(s)
  BY <1>1, <1>4 DEF HandlerReturns, RecordProcessed, Finish, Status, Terminal, tables
<1>5. CASE HandlerRaises(s) \/ RecordDuplicate(s) \/ RecordFault(s)
  BY <1>2, <1>5 DEF HandlerRaises, RecordDuplicate, RecordFault
<1>. QED
  BY <1>3, <1>4, <1>5 DEF TaskAction, TaskStep, TaskFault

\* The insert of ProcessedEvent leaves one recorder, the unique key refuses the second
\* (tasks.py:74-78).
LEMMA RecorderTaskStep ==
    ASSUME TypeOK, BoundedAttempts, AttemptInv, RecorderInv, ProcessedHasWitness,
           NEW s \in Slots, TaskAction(s)
    PROVE  RecorderInv' /\ ProcessedHasWitness'
<1>. USE DEF TypeOK, TaskTypes
<1>0. TaskTypes'
  BY TaskEffect
<1>1. ASSUME status[s] \in {"queued", "running", "recording"},
             \E st \in Status \ {"done"} : status' = [status EXCEPT ![s] = st],
             UNCHANGED processed
      PROVE  RecorderInv'
  BY <1>1 DEF RecorderInv
<1>2. ASSUME UNCHANGED processed, \A t \in Slots : succ'[t] >= succ[t]
      PROVE  ProcessedHasWitness'
  <2>1. \A t \in Slots : succ[t] \in Nat /\ succ'[t] \in Nat
    BY <1>0
  <2>. QED
    BY <1>2, <2>1 DEF ProcessedHasWitness
<1>3. ASSUME OnException(s) PROVE \E st \in Status \ {"done"} : status' = [status EXCEPT ![s] = st]
  BY <1>3, OnExceptionCases DEF BoundedAttempts, Status, Terminal
<1>4. CASE TaskSkip(s) \/ TaskDrop(s) \/ TaskRun(s) \/ TaskCheckFault(s) \/ WorkerCrash(s)
  BY <1>1, <1>2, <1>4 DEF TaskSkip, TaskDrop, TaskRun, TaskCheckFault, WorkerCrash, Finish,
                          Status, Terminal, tables
<1>5. CASE HandlerReturns(s)
  <2>1. \A t \in Slots : succ'[t] >= succ[t]
    BY <1>5 DEF HandlerReturns
  <2>. QED
    BY <1>1, <1>2, <1>5, <2>1 DEF HandlerReturns, Finish, Status, Terminal, tables
<1>6. CASE HandlerRaises(s) \/ RecordDuplicate(s) \/ RecordFault(s)
  BY <1>1, <1>2, <1>3, <1>6 DEF HandlerRaises, RecordDuplicate, RecordFault
<1>7. CASE RecordProcessed(s)
  <2>1. /\ processed' = processed \cup {MsgOf(s)} /\ MsgOf(s) \notin processed
        /\ status' = [status EXCEPT ![s] = "done"] /\ succ' = succ /\ status[s] = "recording"
    BY <1>7 DEF RecordProcessed, Finish
  <2>2. succ[s] >= 1
    BY <2>1 DEF AttemptInv
  <2>3. ProcessedHasWitness'
    BY <2>1, <2>2 DEF ProcessedHasWitness
  <2>4. RecorderInv'
    BY <2>1 DEF RecorderInv
  <2>. QED
    BY <2>3, <2>4
<1>. QED
  BY <1>4, <1>5, <1>6, <1>7 DEF TaskAction, TaskStep, TaskFault

\* Init and Next establish and keep the inductive invariant.
THEOREM InvCorrect == Spec => []Inv
<1>1. Init /\ TypeOK => Inv
  <2> SUFFICES ASSUME Init, TypeOK PROVE Inv
    OBVIOUS
  <2>1. PollerInv /\ DispatchedInv /\ AtMostOnceDispatch
    BY DEF Init, PollerInv, DispatchedInv, AtMostOnceDispatch, Unfilled, Batch, Busy
  <2>2. AttemptInv /\ BoundedAttempts /\ ProcessedHasWitness /\ RecorderInv
    BY ConfigAssumption DEF Init, AttemptInv, BoundedAttempts, ProcessedHasWitness, RecorderInv
  <2>. QED
    BY <2>1, <2>2 DEF Inv
<1>2. Inv /\ TypeOK' /\ [Next]_vars => Inv'
  <2> SUFFICES ASSUME Inv, TypeOK', [Next]_vars PROVE Inv'
    OBVIOUS
  <2>. USE DEF Inv
  <2>1. PollerInv' /\ DispatchedInv' /\ AtMostOnceDispatch'
    BY PollerStep, DispatchedStep, AtMostOnceStep
  <2>2. CASE \E s \in Slots : TaskAction(s)
    BY <2>1, <2>2, AttemptTaskStep, BoundedTaskStep, RecorderTaskStep
  <2>3. CASE ~ \E s \in Slots : TaskAction(s)
    <3>1. /\ UNCHANGED <<retries, succ, fault, processed, dlq>>
          /\ \/ UNCHANGED status
             \/ \E s \in Slots : status[s] = "none" /\ status' = [status EXCEPT ![s] = "queued"]
      BY <2>3, PollEffect
    <3>. USE DEF TypeOK, TaskTypes, TableTypes
    <3>2. AttemptInv'
      BY <3>1 DEF AttemptInv
    <3>3. BoundedAttempts'
      <4>1. \A d \in dlq : d.slot \in Slots
        OBVIOUS
      <4>. QED
        BY <3>1, <4>1 DEF BoundedAttempts
    <3>4. ProcessedHasWitness' /\ RecorderInv'
      BY <3>1 DEF ProcessedHasWitness, RecorderInv
    <3>. QED
      BY <2>1, <3>2, <3>3, <3>4
  <2>. QED
    BY <2>2, <2>3
<1>. QED
  BY <1>1, <1>2, TypeCorrect, PTL DEF Spec

\* A handler that succeeded runs again only after recording the success failed
\* in the database, for any number of siblings, redeliveries and retries.
THEOREM SuccessBoundCorrect == Spec => []SuccessBound
<1>1. Inv => SuccessBound
  BY DEF Inv, AttemptInv, SuccessBound
<1>. QED
  BY <1>1, InvCorrect, PTL

\* No task is attempted more than MAX_RETRIES times and dead letters come from
\* exactly the last attempt (tasks.py:85-113).
THEOREM BoundedAttemptsCorrect == Spec => []BoundedAttempts
<1>1. Inv => BoundedAttempts
  BY DEF Inv
<1>. QED
  BY <1>1, InvCorrect, PTL

\* A message in ProcessedEvent was handled by some handler (tasks.py:74-78).
THEOREM ProcessedHasWitnessCorrect == Spec => []ProcessedHasWitness
<1>1. Inv => ProcessedHasWitness
  BY DEF Inv
<1>. QED
  BY <1>1, InvCorrect, PTL

\* Exactly one task of a recorded message ends by recording it, none of an
\* unrecorded one (models.py:19).
THEOREM UniqueRecorderCorrect == Spec => []UniqueRecorder
<1>1. Inv => UniqueRecorder
  <2> SUFFICES ASSUME Inv, NEW m \in Messages
               PROVE  Cardinality({s \in Slots : MsgOf(s) = m /\ status[s] = "done"})
                        = IF m \in processed THEN 1 ELSE 0
    BY DEF UniqueRecorder
  <2> DEFINE Done == {s \in Slots : MsgOf(s) = m /\ status[s] = "done"}
  <2>1. CASE m \in processed
    <3>1. PICK s \in Slots : MsgOf(s) = m /\ status[s] = "done"
      BY <2>1 DEF Inv, RecorderInv
    <3>2. Done = {s}
      BY <3>1 DEF Inv, RecorderInv
    <3>. QED
      BY <2>1, <3>2, FS_Singleton
  <2>2. CASE m \notin processed
    <3>1. Done = {}
      BY <2>2 DEF Inv, RecorderInv
    <3>. QED
      BY <2>2, <3>1, FS_EmptySet
  <2>. QED
    BY <2>1, <2>2
<1>. QED
  BY <1>1, InvCorrect, PTL

\* A task whose state a step leaves alone keeps its trace: both tables only grow.
LEMMA TraceStays ==
    ASSUME NEW s \in Slots, Traced(s), status'[s] = status[s], processed \subseteq processed', dlq \subseteq dlq'
    PROVE  Traced(s)'
BY DEF Traced

\* tasks.py:85-113: an exception is retried, dead-lettered, or lost with the database,
\* the broker or celery's own limit.
LEMMA ExceptionTraced ==
    ASSUME Inv, NEW s \in Slots, OnException(s), status'[s] \in Terminal
    PROVE  Traced(s)'
<1>. USE DEF Inv, TypeOK, TaskTypes
<1>1. retries[s] \in Nat /\ MaxRetries \in Nat /\ CeleryMaxRetries \in Nat
  BY ConfigAssumption
<1>2. CASE Retry(s)
  BY <1>2 DEF Retry, Finish, Terminal, Traced
<1>3. CASE RetryRefused(s)
  <2>1. MaxRetries > CeleryMaxRetries + 1
    BY <1>1, <1>3 DEF RetryRefused, MayRetry, Attempt
  <2>. QED
    BY <1>3, <2>1 DEF RetryRefused, Finish, Traced
<1>4. CASE DeadLetter(s)
  <2>1. CASE dlq' = dlq \cup {[slot |-> s, retries |-> Attempt(s)]}
    <3>1. [slot |-> s, retries |-> Attempt(s)].slot = s
      OBVIOUS
    <3>. QED
      BY <2>1, <3>1 DEF Traced
  <2>2. CASE "db" \in Faults /\ Finish(s, "failed")
    BY <2>2 DEF Finish, Traced
  <2>. QED
    BY <1>4, <2>1, <2>2 DEF DeadLetter
<1>. QED
  BY <1>2, <1>3, <1>4 DEF OnException

\* Whatever step ends a task leaves its trace (tasks.py:54-113).
LEMMA EndTraced ==
    ASSUME Inv, NEW s \in Slots, TaskAction(s), status'[s] \in Terminal
    PROVE  Traced(s)'
<1>. USE DEF Inv, TypeOK, TaskTypes
<1>1. CASE TaskSkip(s) \/ TaskDrop(s) \/ RecordProcessed(s) \/ WorkerCrash(s) \/ TaskCheckFault(s)
  BY <1>1 DEF TaskSkip, TaskDrop, RecordProcessed, WorkerCrash, TaskCheckFault, Finish, tables, Traced
<1>2. CASE TaskRun(s) \/ HandlerReturns(s)
  BY <1>2 DEF TaskRun, HandlerReturns, Finish, Terminal
<1>3. CASE HandlerRaises(s) \/ RecordDuplicate(s) \/ RecordFault(s)
  BY <1>3, ExceptionTraced DEF HandlerRaises, RecordDuplicate, RecordFault
<1>. QED
  BY <1>1, <1>2, <1>3 DEF TaskAction, TaskStep, TaskFault

\* The tables only grow.
LEMMA TablesGrow ==
    ASSUME Inv, [Next]_vars
    PROVE  processed \subseteq processed' /\ dlq \subseteq dlq'
<1>1. CASE \E s \in Slots : TaskAction(s)
  BY <1>1 DEF TaskAction, TaskStep, TaskFault, TaskSkip, TaskDrop, TaskRun, TaskCheckFault, WorkerCrash,
              HandlerReturns, HandlerRaises, RecordProcessed, RecordDuplicate, RecordFault,
              OnException, Retry, RetryRefused, DeadLetter, tables
<1>2. CASE ~ \E s \in Slots : TaskAction(s)
  BY <1>2 DEF Next, PollStep, TaskAction, Publish, PollStart, PollRead, PollSkip, PollBegin, PollAck,
              AckAndAdvance, PollDispatch, PollAbort, GroupLost, vars, tables
<1>. QED
  BY <1>1, <1>2

\* For any registry, limits and faults: a task that is over has its message recorded or a
\* dead letter of its own, unless its handler was not imported, its worker died, the
\* database or the broker failed, or celery's limit is below MAX_RETRIES.
THEOREM EndsAreTracedCorrect == Spec => []EndsAreTraced
<1>1. Init => EndsAreTraced
  BY DEF Init, EndsAreTraced, Terminal
<1>2. Inv /\ EndsAreTraced /\ [Next]_vars => EndsAreTraced'
  <2> SUFFICES ASSUME Inv, EndsAreTraced, [Next]_vars, NEW t \in Slots, status'[t] \in Terminal
               PROVE  Traced(t)'
    BY DEF EndsAreTraced
  <2>1. CASE status'[t] = status[t]
    BY <2>1, TablesGrow, TraceStays DEF EndsAreTraced
  <2>2. ASSUME NEW s \in Slots, TaskAction(s) PROVE Traced(t)'
    <3>1. s # t => status'[t] = status[t]
      BY <2>2, TaskEffect DEF Inv, TypeOK, TaskTypes
    <3>. QED
      BY <2>1, <2>2, <3>1, EndTraced
  <2>3. CASE ~ \E s \in Slots : TaskAction(s)
    <3>1. status'[t] \in {status[t], "queued"}
      BY <2>3, PollEffect DEF Inv, TypeOK, TaskTypes
    <3>. QED
      BY <2>1, <3>1 DEF Terminal
  <2>. QED
    BY <2>2, <2>3
<1>. QED
  BY <1>1, <1>2, InvCorrect, PTL DEF Spec

-----------------------------------------------------------------------------
(* Acknowledged messages are accounted for *)

\* A run in the middle of a message has enqueued every handler it no longer has to do.
ProgressInv ==
    \A p \in Pollers : pollPc[p] = "dispatch" =>
        \A r \in HandlersOf(stream[next[p]]) \ todo[p] :
            status[<<next[p], r, pollEpoch[p]>>] # "none"

\* A message that may leave the pending list: recorded, or with all its tasks.
Accounted(m) ==
    \/ m \in processed
    \/ \E e \in Epochs : \A r \in HandlersOf(stream[m]) : status[<<m, r, e>>] # "none"

\* Entries, records and tasks are never taken away.
LEMMA NothingGoesAway ==
    ASSUME Inv, [Next]_vars
    PROVE  /\ processed \subseteq processed'
           /\ \A s \in Slots : status[s] # "none" => status'[s] # "none"
           /\ \A m \in 1..Len(stream) : stream'[m] = stream[m]
<1>. USE DEF Inv, TypeOK
<1>1. CASE \E s \in Slots : TaskAction(s)
  <2>1. PICK s \in Slots : TaskAction(s)
    BY <1>1
  <2>2. processed \subseteq processed'
    BY <2>1 DEF TaskAction, TaskStep, TaskFault, TaskSkip, TaskDrop, TaskRun, TaskCheckFault, WorkerCrash,
                HandlerReturns, HandlerRaises, RecordProcessed, RecordDuplicate, RecordFault, tables
  <2>. QED
    BY <2>1, <2>2, TaskEffect DEF TaskTypes
<1>2. CASE ~ \E s \in Slots : TaskAction(s)
  <2>1. processed' = processed /\ \A s \in Slots : status[s] # "none" => status'[s] # "none"
    BY <1>2, PollEffect DEF TaskTypes
  <2>2. \/ \E t \in Types : stream' = Append(stream, t)
        \/ stream' = stream
    BY <1>2 DEF Next, PollStep, TaskAction, Publish, PollStart, PollRead, PollSkip, PollBegin, PollAck,
                AckAndAdvance, PollDispatch, PollAbort, GroupLost, vars
  <2>3. \A m \in 1..Len(stream) : stream'[m] = stream[m]
    BY <2>2 DEF GroupTypes
  <2>. QED
    BY <2>1, <2>3
<1>. QED
  BY <1>1, <1>2

\* The tasks of one message and epoch stay.
LEMMA TasksStay ==
    ASSUME Inv, [Next]_vars, NEW m \in 1..Len(stream), NEW e \in Epochs, NEW r \in HandlersOf(stream[m]),
           status[<<m, r, e>>] # "none"
    PROVE  status'[<<m, r, e>>] # "none"
<1>1. m \in Messages /\ r \in Regs
  BY ConfigAssumption DEF Inv, TypeOK, GroupTypes, Messages, HandlersOf
<1>2. <<m, r, e>> \in Slots
  BY <1>1 DEF Slots
<1>. QED
  BY <1>2, NothingGoesAway

\* An entry whose tasks were enqueued, or that was recorded, stays so.
LEMMA AccountedStays ==
    ASSUME Inv, [Next]_vars, NEW m \in 1..Len(stream), Accounted(m)
    PROVE  Accounted(m)'
<1>1. stream'[m] = stream[m] /\ processed \subseteq processed'
  BY NothingGoesAway
<1>2. CASE m \in processed
  BY <1>1, <1>2 DEF Accounted
<1>3. CASE m \notin processed
  <2>1. PICK e \in Epochs : \A r \in HandlersOf(stream[m]) : status[<<m, r, e>>] # "none"
    BY <1>3 DEF Accounted
  <2>2. \A r \in HandlersOf(stream[m]) : status'[<<m, r, e>>] # "none"
    BY <2>1, TasksStay
  <2>. QED
    BY <1>1, <2>2 DEF Accounted, HandlersOf
<1>. QED
  BY <1>2, <1>3

\* A run in the middle of an entry goes through its registrations one by one.
LEMMA ProgressStep ==
    ASSUME Inv, Inv', ProgressInv, [Next]_vars
    PROVE  ProgressInv'
<1>. USE DEF Inv, TypeOK
<1> SUFFICES ASSUME NEW p \in Pollers, pollPc'[p] = "dispatch",
                    NEW r \in HandlersOf(stream'[next'[p]]), r \notin todo'[p]
             PROVE  status'[<<next'[p], r, pollEpoch'[p]>>] # "none"
  BY DEF ProgressInv, HandlersOf
\* A run that was already at this message and has no less to do.
<1>1. ASSUME pollPc[p] = "dispatch", next'[p] = next[p], pollEpoch'[p] = pollEpoch[p], r \notin todo[p]
      PROVE  status'[<<next'[p], r, pollEpoch'[p]>>] # "none"
  <2>1. next[p] \in 1..Len(stream) /\ pollEpoch[p] \in Epochs
    BY <1>1 DEF PollerInv, Busy, PollTypes, GroupTypes
  <2>2. stream'[next[p]] = stream[next[p]]
    BY <2>1, NothingGoesAway
  <2>3. r \in HandlersOf(stream[next[p]])
    BY <1>1, <2>2 DEF HandlersOf
  <2>. QED
    BY <1>1, <2>1, <2>3, TasksStay DEF ProgressInv
<1>2. ASSUME NEW q \in Pollers, PollBegin(q) PROVE status'[<<next'[p], r, pollEpoch'[p]>>] # "none"
  <2>1. CASE p = q
    BY <1>2, <2>1 DEF PollBegin, PollTypes
  <2>2. CASE p # q
    BY <1>1, <1>2, <2>2 DEF PollBegin, PollTypes
  <2>. QED
    BY <2>1, <2>2
<1>3. ASSUME NEW q \in Pollers, NEW o \in Regs, PollDispatch(q, o)
      PROVE  status'[<<next'[p], r, pollEpoch'[p]>>] # "none"
  <2>1. UNCHANGED <<pollPc, next, pollEpoch>>
    BY <1>3 DEF PollDispatch
  <2>2. CASE p = q /\ r = o
    <3>1. <<next[p], r, pollEpoch[p]>> \in Slots
      BY <1>3, <2>2, ConfigAssumption
      DEF PollDispatch, PollerInv, Busy, PollTypes, GroupTypes, Slots, Messages
    <3>. QED
      BY <1>3, <2>1, <2>2, <3>1 DEF PollDispatch, TaskTypes
  <2>3. CASE ~(p = q /\ r = o)
    BY <1>1, <1>3, <2>1, <2>3 DEF PollDispatch, PollTypes
  <2>. QED
    BY <2>2, <2>3
<1>4. ASSUME NEW q \in Pollers, PollStart(q) \/ PollRead(q) \/ PollAbort(q) \/ PollSkip(q) \/ PollAck(q)
      PROVE  status'[<<next'[p], r, pollEpoch'[p]>>] # "none"
  <2>1. p # q
    BY <1>4 DEF PollStart, PollRead, PollAbort, PollSkip, PollAck, AckAndAdvance, PollTypes
  <2>. QED
    BY <1>1, <1>4, <2>1 DEF PollStart, PollRead, PollAbort, PollSkip, PollAck, AckAndAdvance, PollTypes
<1>5. ASSUME GroupLost PROVE status'[<<next'[p], r, pollEpoch'[p]>>] # "none"
  BY <1>1, <1>5 DEF GroupLost
<1>6. ASSUME (\E t \in Types : Publish(t)) \/ (\E s \in Slots : TaskAction(s)) \/ UNCHANGED vars
      PROVE  status'[<<next'[p], r, pollEpoch'[p]>>] # "none"
  <2>1. UNCHANGED pollVars
    BY <1>6, TaskEffect DEF Publish, vars
  <2>. QED
    BY <1>1, <2>1 DEF pollVars
<1>. QED
  BY <1>2, <1>3, <1>4, <1>5, <1>6 DEF Next, PollStep, TaskAction

\* XACK follows the last delay, or the check that finds the message recorded.
LEMMA AckedStep ==
    ASSUME Inv, Inv', ProgressInv, AckedMeansDispatched, [Next]_vars
    PROVE  AckedMeansDispatched'
<1>. USE DEF Inv, TypeOK, GroupTypes
<1>0. cursor \in Nat /\ Len(stream) \in Nat /\ cursor <= Len(stream)
  OBVIOUS
<1>1. \A m \in 1..cursor : m \notin pel => Accounted(m)
  BY DEF AckedMeansDispatched, Accounted
<1> SUFFICES ASSUME NEW m \in 1..cursor', m \notin pel' PROVE Accounted(m)'
  BY DEF AckedMeansDispatched, Accounted
<1>2. ASSUME m \in 1..cursor, m \notin pel PROVE Accounted(m)'
  BY <1>0, <1>1, <1>2, AccountedStays
<1>3. ASSUME NEW p \in Pollers, PollStart(p) PROVE Accounted(m)'
  BY <1>2, <1>3 DEF PollStart, PollerInv
<1>4. ASSUME NEW p \in Pollers, PollRead(p) PROVE Accounted(m)'
  BY <1>0, <1>2, <1>4 DEF PollRead, Deliver
\* The message in hand leaves the pending list: it is accounted for by then.
<1>5. ASSUME NEW p \in Pollers, PollSkip(p) \/ PollAck(p) PROVE Accounted(m)'
  <2>1. /\ next[p] \in 1..Len(stream) /\ pollEpoch[p] \in Epochs
        /\ pel' = pel \ {next[p]} /\ cursor' = cursor
    BY <1>5 DEF PollSkip, PollAck, AckAndAdvance, PollerInv, Busy, PollTypes
  <2>2. CASE m = next[p]
    <3>1. Accounted(m)
      BY <1>5, <2>1, <2>2 DEF PollSkip, PollAck, ProgressInv, Accounted
    <3>. QED
      BY <2>1, <2>2, <3>1, AccountedStays
  <2>3. CASE m # next[p]
    BY <1>2, <2>1, <2>3
  <2>. QED
    BY <2>2, <2>3
<1>6. ASSUME GroupLost PROVE Accounted(m)'
  BY <1>6 DEF GroupLost
<1>7. ASSUME UNCHANGED groupVars PROVE Accounted(m)'
  BY <1>2, <1>7 DEF groupVars
<1>8. ASSUME (\E t \in Types : Publish(t)) \/ (\E s \in Slots : TaskAction(s)) \/ UNCHANGED vars
             \/ (\E p \in Pollers : PollBegin(p) \/ PollAbort(p) \/ \E r \in Regs : PollDispatch(p, r))
      PROVE  UNCHANGED groupVars
  BY <1>8, TaskEffect DEF Publish, PollBegin, PollAbort, PollDispatch, vars
<1>. QED
  BY <1>3, <1>4, <1>5, <1>6, <1>7, <1>8 DEF Next, PollStep, TaskAction

\* A message leaves the pending list only when it is recorded or every handler
\* of it has a task, wherever runs break off and however often the group is lost
\* (consumer.py:93-96).
THEOREM AckedMeansDispatchedCorrect == Spec => []AckedMeansDispatched
<1>1. Init => ProgressInv /\ AckedMeansDispatched
  BY DEF Init, ProgressInv, AckedMeansDispatched
<1>2. Inv /\ Inv' /\ ProgressInv /\ AckedMeansDispatched /\ [Next]_vars
        => ProgressInv' /\ AckedMeansDispatched'
  BY ProgressStep, AckedStep
<1>. QED
  BY <1>1, <1>2, InvCorrect, PTL DEF Spec
=============================================================================
