-------------------------- MODULE IngestionProofs --------------------------
(***************************************************************************)
(* Safety of one upload session for any number of upload requests, any     *)
(* retry limit and every kind of failure.                                  *)
(***************************************************************************)
EXTENDS Ingestion, TLAPS

PcValues == {"none", "queued"} \cup Running \cup Ended

TaskTypes ==
    /\ pc \in [Uploads -> PcValues]
    /\ attempt \in [Uploads -> 0..MaxRetries]
    /\ local \in [Uploads -> Uploads \cup {NoKey}]
    /\ doubt \in [Uploads -> Nat]

PutTypes == put \in [Uploads -> {"new", "stored", "saved", "ended"}]

\* An exception moves its own task to "queued" or to the given end and counts the attempt.
LEMMA RaiseEffect ==
    ASSUME TaskTypes, NEW t \in Uploads, NEW end \in Ended, Raise(t, end)
    PROVE  /\ attempt' \in [Uploads -> 0..MaxRetries]
           /\ \E st \in {"queued", end} : pc' = [pc EXCEPT ![t] = st]
<1>1. attempt[t] \in 0..MaxRetries /\ MaxRetries \in Nat
  BY IngestionAssumption DEF TaskTypes
<1>2. attempt[t] < MaxRetries => attempt[t] + 1 \in 0..MaxRetries
  BY <1>1
<1>. QED
  BY <1>2 DEF TaskTypes, Raise

\* A step of an upload request: what it does to the row and to its own task.
LEMMA PutEffect ==
    ASSUME PutTypes, NEW u \in Uploads, PutStore(u) \/ PutSave(u) \/ PutEnqueue(u) \/ PutBreaks(u)
    PROVE  /\ \E to \in {"stored", "saved", "ended"} : put' = [put EXCEPT ![u] = to]
           /\ put[u] # "ended"
           /\ UNCHANGED <<attempt, local, doubt, events, valid>>
           /\ \/ UNCHANGED <<pc, row>>
              \/ state' = "UPLOADED" /\ key' = u /\ UNCHANGED pc
              \/ put'[u] = "ended" /\ pc' = [pc EXCEPT ![u] = "queued"] /\ UNCHANGED row
  BY DEF PutStore, PutSave, PutEnqueue, PutBreaks, MovePut, row, task, PutTypes

\* A step of a task: it moves its own pc, and of the row at most the state.
LEMMA TaskEffect ==
    ASSUME TypeOK, NEW t \in Uploads, TaskStep(t) \/ TaskFault(t)
    PROVE  /\ pc[t] \in {"queued"} \cup Running
           /\ \E st \in PcValues \ {"none"} : pc' = [pc EXCEPT ![t] = st]
           /\ UNCHANGED <<put, key, valid>>
           /\ state' \in States /\ TaskTypes'
           /\ events' = events \/ events' = Append(events, local[t])
<1>. USE DEF TypeOK, TaskTypes, PcValues, Running, Ended, Move, Goto, States, row, Doubt
<1>1. doubt[t] + 1 \in Nat
  OBVIOUS
<1>2. CASE TaskSkip(t) \/ TaskLoad(t) \/ TaskValidating(t) \/ TaskValidated(t)
  BY <1>2 DEF TaskSkip, TaskLoad, TaskValidating, TaskValidated
<1>3. CASE TaskProcessed(t) \/ TaskPublish(t) \/ TaskCommit(t) \/ TaskCrash(t)
  BY <1>3 DEF TaskProcessed, TaskPublish, TaskCommit, TaskCrash
<1>4. CASE TaskRejected(t)
  BY <1>4, RaiseEffect DEF TaskRejected
<1>5. CASE TaskProcessFails(t)
  BY <1>5, RaiseEffect DEF TaskProcessFails
<1>6. CASE TaskPublishFails(t)
  <2>1. Raise(t, "broken")
    BY <1>6 DEF TaskPublishFails
  <2>2. PICK st \in {"queued", "broken"} : pc' = [pc EXCEPT ![t] = st]
    BY <2>1, RaiseEffect
  <2>3. attempt' \in [Uploads -> 0..MaxRetries]
    BY <2>1, RaiseEffect
  <2>4. pc[t] \in Running
    BY <1>6 DEF TaskPublishFails
  <2>. QED
    BY <1>1, <1>6, <2>2, <2>3, <2>4 DEF TaskPublishFails
<1>7. CASE TaskCommitFails(t)
  <2>1. Raise(t, "broken")
    BY <1>7 DEF TaskCommitFails
  <2>2. PICK st \in {"queued", "broken"} : pc' = [pc EXCEPT ![t] = st]
    BY <2>1, RaiseEffect
  <2>3. attempt' \in [Uploads -> 0..MaxRetries]
    BY <2>1, RaiseEffect
  <2>4. pc[t] \in Running
    BY <1>7 DEF TaskCommitFails
  <2>. QED
    BY <1>1, <1>7, <2>2, <2>3, <2>4 DEF TaskCommitFails
<1>8. CASE TaskSaveFails(t)
  BY <1>8, RaiseEffect DEF TaskSaveFails
<1>. QED
  BY <1>2, <1>3, <1>4, <1>5, <1>6, <1>7, <1>8 DEF TaskStep, TaskFault

-----------------------------------------------------------------------------

\* A task exists only once its request has ended; the row has a key from the
\* first save on, so a task that works on a copy of the row holds one.
KeyInv ==
    /\ \A u \in Uploads : pc[u] # "none" => put[u] = "ended"
    /\ \A u \in Uploads : put[u] = "saved" \/ pc[u] # "none" => key # NoKey
    /\ \A t \in Uploads : pc[t] \in Running => local[t] # NoKey

\* An event is out before a task commits or ends and before the session says so.
PublishInv ==
    /\ state = "DOCUMENT_CREATED" => events # <<>>
    /\ \A t \in Uploads : pc[t] \in {"commit", "done"} => events # <<>>

IInv == TypeOK /\ KeyInv /\ PublishInv

\* A new session has no key, no task and no event.
LEMMA InitIInv == Init => IInv
BY IngestionAssumption
   DEF Init, IInv, TypeOK, KeyInv, PublishInv, Uploads, NoKey, States, Running, Ended

\* The event of a publish names an upload, because the task's copy has a key.
LEMMA TaskEvents ==
    ASSUME TypeOK, KeyInv, NEW t \in Uploads, TaskStep(t) \/ TaskFault(t)
    PROVE  events' \in Seq(Uploads) /\ (events # <<>> => events' # <<>>)
<1>1. CASE events' = events
  BY <1>1 DEF TypeOK
<1>2. CASE events' # events
  <2>1. pc[t] = "ready" /\ events' = Append(events, local[t])
    BY <1>2 DEF TaskStep, TaskFault, TaskSkip, TaskLoad, TaskValidating, TaskValidated, TaskRejected,
      TaskProcessed, TaskPublish, TaskCommit, TaskProcessFails, TaskPublishFails, TaskCommitFails,
      TaskSaveFails, TaskCrash, Move
  <2>2. local[t] \in Uploads
    BY <2>1 DEF TypeOK, KeyInv, Running
  <2>. QED
    BY <2>1, <2>2 DEF TypeOK
<1>. QED
  BY <1>1, <1>2

\* Which copy a task holds changes only when it loads the row.
LEMMA TaskKeys ==
    ASSUME TypeOK, KeyInv, NEW t \in Uploads, TaskStep(t) \/ TaskFault(t)
    PROVE  /\ \A s \in Uploads \ {t} : local'[s] = local[s]
           /\ pc'[t] \in Running => local'[t] # NoKey
<1>. USE DEF TypeOK, KeyInv, Running, Move, Raise, Ended
<1>1. CASE TaskLoad(t)
  BY <1>1 DEF TaskLoad
<1>2. CASE TaskStep(t) /\ ~TaskLoad(t)
  BY <1>2 DEF TaskStep, TaskSkip, TaskValidating, TaskValidated, TaskRejected, TaskProcessed,
    TaskPublish, TaskCommit
<1>3. CASE TaskFault(t)
  BY <1>3 DEF TaskFault, TaskProcessFails, TaskPublishFails, TaskCommitFails, TaskSaveFails, TaskCrash
<1>. QED
  BY <1>1, <1>2, <1>3

\* A task that commits or ends, or a session that is completed by a task, has an event.
LEMMA TaskPublishes ==
    ASSUME IInv, NEW t \in Uploads, TaskStep(t) \/ TaskFault(t)
    PROVE  state' = "DOCUMENT_CREATED" \/ pc'[t] \in {"commit", "done"} => events' # <<>>
<1>. USE DEF IInv, TypeOK, PublishInv, Running, Move, Goto, Raise, Ended
<1>1. CASE TaskPublish(t)
  <2>1. events' = Append(events, local[t]) /\ events \in Seq(Uploads)
    BY <1>1 DEF TaskPublish
  <2>. QED
    BY <1>1, <2>1, TaskEvents DEF TaskPublish
<1>2. CASE TaskStep(t) /\ ~TaskPublish(t)
  BY <1>2 DEF TaskStep, TaskSkip, TaskLoad, TaskValidating, TaskValidated, TaskRejected, TaskProcessed,
    TaskCommit, row
<1>3. CASE TaskProcessFails(t) \/ TaskCommitFails(t) \/ TaskSaveFails(t) \/ TaskCrash(t)
  BY <1>3 DEF TaskProcessFails, TaskCommitFails, TaskSaveFails, TaskCrash, row
<1>4. CASE TaskPublishFails(t)
  BY <1>4, TaskEvents DEF TaskPublishFails, TaskFault, row
<1>. QED
  BY <1>1, <1>2, <1>3, <1>4 DEF TaskFault

\* Every step of an upload request, of a task or of a fault keeps the invariant.
LEMMA StepIInv == IInv /\ [Next]_vars => IInv'
<1>. SUFFICES ASSUME IInv, [Next]_vars PROVE IInv'
  OBVIOUS
<1>. USE DEF IInv
<1>1. CASE UNCHANGED vars
  BY <1>1 DEF vars, row, task, TypeOK, KeyInv, PublishInv
<1>2. ASSUME NEW u \in Uploads, PutStore(u) \/ PutSave(u) \/ PutEnqueue(u) \/ PutBreaks(u)
      PROVE  IInv'
  <2>1. PutTypes /\ TaskTypes /\ u # NoKey
    BY IngestionAssumption DEF TypeOK, PutTypes, TaskTypes, PcValues, Uploads, NoKey
  <2>2. PICK to \in {"stored", "saved", "ended"} : put' = [put EXCEPT ![u] = to]
    BY <1>2, <2>1, PutEffect
  <2>3. /\ put[u] # "ended"
        /\ UNCHANGED <<attempt, local, doubt, events, valid>>
        /\ \/ UNCHANGED <<pc, row>>
           \/ state' = "UPLOADED" /\ key' = u /\ UNCHANGED pc
           \/ put'[u] = "ended" /\ pc' = [pc EXCEPT ![u] = "queued"] /\ UNCHANGED row
    BY <1>2, <2>1, PutEffect
  <2>4. TypeOK'
    BY <2>1, <2>2, <2>3 DEF TypeOK, row, States
  <2>5. put'[u] = "saved" => key' # NoKey
    BY <1>2, <2>1, <2>2 DEF TypeOK, PutStore, PutSave, PutEnqueue, PutBreaks, MovePut
  <2>6. put[u] = "saved" \/ pc'[u] = "none"
    BY <1>2, <2>1, <2>2 DEF TypeOK, KeyInv, PutStore, PutSave, PutEnqueue, PutBreaks, MovePut, task
  <2>7. KeyInv'
    BY <2>1, <2>2, <2>3, <2>5, <2>6 DEF TypeOK, KeyInv, row, Running
  <2>8. PublishInv'
    BY <2>1, <2>3 DEF TypeOK, PublishInv, row
  <2>. QED
    BY <2>4, <2>7, <2>8
<1>3. ASSUME NEW t \in Uploads, TaskStep(t) \/ TaskFault(t)
      PROVE  IInv'
  <2>1. PICK st \in PcValues \ {"none"} : pc' = [pc EXCEPT ![t] = st]
    BY <1>3, TaskEffect
  <2>2. /\ pc[t] \in {"queued"} \cup Running
        /\ UNCHANGED <<put, key, valid>>
        /\ state' \in States /\ TaskTypes'
    BY <1>3, TaskEffect
  <2>3. TypeOK'
    BY <1>3, <2>2, TaskEvents DEF TypeOK, TaskTypes, PcValues
  <2>4. KeyInv'
    BY <1>3, <2>1, <2>2, TaskKeys DEF TypeOK, KeyInv, Running
  <2>5. PublishInv'
    BY <1>3, <2>1, <2>2, TaskPublishes, TaskEvents DEF TypeOK, PublishInv
  <2>. QED
    BY <2>3, <2>4, <2>5
<1>. QED
  BY <1>1, <1>2, <1>3 DEF Next, PutStep

\* The session's row, its requests and its tasks keep their types, and every
\* event in the stream names a stored file (models.py:17-64, services.py:77-89).
THEOREM TypeCorrect == Spec => []TypeOK
<1>1. IInv => TypeOK
  BY DEF IInv
<1>. QED
  BY <1>1, InitIInv, StepIInv, PTL DEF Spec

\* Publish first, commit after: no session says DOCUMENT_CREATED, and no task
\* ends normally, without an event (services.py:91-98).
THEOREM CreatedMeansPublishedCorrect == Spec => []CreatedMeansPublished
<1>1. IInv => CreatedMeansPublished
  BY DEF IInv, PublishInv, CreatedMeansPublished
<1>. QED
  BY <1>1, InitIInv, StepIInv, PTL DEF Spec

-----------------------------------------------------------------------------

Alone(u) == \A v \in Uploads \ {u} : put[v] = "new"

\* With one upload request: before the publish of an attempt there are no more
\* events than earlier attempts in doubt, after it at most one more; and a
\* session that is DOCUMENT_CREATED has no attempt under way.
AloneInv ==
    \A u \in Uploads : Alone(u) =>
        /\ Len(events) <= 1 + doubt[u]
        /\ pc[u] \in {"none", "loaded", "validating", "processing", "ready"} => Len(events) <= doubt[u]
        /\ pc[u] = "queued" => Len(events) <= doubt[u] \/ state = "DOCUMENT_CREATED"
        /\ state = "DOCUMENT_CREATED" => pc[u] \in {"queued"} \cup Ended

\* No upload, no event.
LEMMA InitAlone == Init => AloneInv
BY DEF Init, AloneInv

\* A step of the task keeps the count of its own session.
LEMMA TaskAlone ==
    ASSUME IInv, AloneInv, NEW t \in Uploads, Alone(t), TaskStep(t) \/ TaskFault(t)
    PROVE  /\ Len(events') <= 1 + doubt'[t]
           /\ pc'[t] \in {"none", "loaded", "validating", "processing", "ready"} => Len(events') <= doubt'[t]
           /\ pc'[t] = "queued" => Len(events') <= doubt'[t] \/ state' = "DOCUMENT_CREATED"
           /\ state' = "DOCUMENT_CREATED" => pc'[t] \in {"queued"} \cup Ended
<1>. USE DEF IInv, TypeOK, AloneInv, Running, Move, Goto, Ended
<1>1. Len(events) \in Nat /\ doubt[t] \in Nat
  OBVIOUS
<1>2. pc[t] = "ready" => local[t] \in Uploads
  BY DEF KeyInv
<1>3. pc[t] = "ready" => Len(Append(events, local[t])) = Len(events) + 1
  BY <1>2
<1>4. CASE TaskStep(t) /\ ~TaskPublish(t)
  BY <1>1, <1>4 DEF TaskStep, TaskSkip, TaskLoad, TaskValidating, TaskValidated, TaskRejected,
    TaskProcessed, TaskCommit, Raise, row
<1>5. CASE TaskPublish(t)
  <2>1. /\ pc[t] = "ready" /\ pc'[t] = "commit"
        /\ Len(events') = Len(events) + 1
        /\ UNCHANGED <<state, doubt>>
    BY <1>3, <1>5 DEF TaskPublish, row
  <2>2. Len(events) <= doubt[t] /\ state # "DOCUMENT_CREATED"
    BY <2>1
  <2>. QED
    BY <1>1, <2>1, <2>2
<1>6. CASE TaskPublishFails(t)
  BY <1>1, <1>3, <1>6 DEF TaskPublishFails, Raise, Doubt, row
<1>7. CASE TaskProcessFails(t) \/ TaskSaveFails(t) \/ TaskCrash(t)
  BY <1>1, <1>7 DEF TaskProcessFails, TaskSaveFails, TaskCrash, Raise, row
<1>8. CASE TaskCommitFails(t)
  BY <1>1, <1>8 DEF TaskCommitFails, Raise, Doubt, row
<1>. QED
  BY <1>4, <1>5, <1>6, <1>7, <1>8 DEF TaskFault

\* With one upload only its task publishes, and each repetition is counted in doubt.
LEMMA StepAlone == IInv /\ AloneInv /\ [Next]_vars => AloneInv'
<1>. SUFFICES ASSUME IInv, AloneInv, [Next]_vars, NEW u \in Uploads, Alone(u)'
              PROVE  /\ Len(events') <= 1 + doubt'[u]
                     /\ pc'[u] \in {"none", "loaded", "validating", "processing", "ready"} => Len(events') <= doubt'[u]
                     /\ pc'[u] = "queued" => Len(events') <= doubt'[u] \/ state' = "DOCUMENT_CREATED"
                     /\ state' = "DOCUMENT_CREATED" => pc'[u] \in {"queued"} \cup Ended
  BY DEF AloneInv
<1>1. CASE UNCHANGED vars
  BY <1>1 DEF vars, row, task, Alone, AloneInv
<1>2. ASSUME NEW w \in Uploads, PutStore(w) \/ PutSave(w) \/ PutEnqueue(w) \/ PutBreaks(w)
      PROVE  w = u /\ Alone(u)
  <2>1. PutTypes
    BY DEF IInv, TypeOK, PutTypes
  <2>2. PICK to \in {"stored", "saved", "ended"} : put' = [put EXCEPT ![w] = to]
    BY <1>2, <2>1, PutEffect
  <2>. QED
    BY <2>1, <2>2 DEF PutTypes, Alone
<1>3. ASSUME NEW t \in Uploads, TaskStep(t) \/ TaskFault(t)
      PROVE  t = u /\ Alone(u)
  BY <1>3, TaskEffect DEF IInv, KeyInv, Alone, Running
<1>4. CASE PutStore(u) \/ PutSave(u) \/ PutEnqueue(u) \/ PutBreaks(u)
  <2>1. PutTypes /\ Alone(u)
    BY <1>2, <1>4 DEF IInv, TypeOK, PutTypes
  <2>2. /\ put[u] # "ended"
        /\ UNCHANGED <<attempt, local, doubt, events, valid>>
        /\ \/ UNCHANGED <<pc, row>>
           \/ state' = "UPLOADED" /\ key' = u /\ UNCHANGED pc
           \/ put'[u] = "ended" /\ pc' = [pc EXCEPT ![u] = "queued"] /\ UNCHANGED row
    BY <1>4, <2>1, PutEffect
  <2>3. pc[u] = "none"
    BY <2>2 DEF IInv, KeyInv
  <2>. QED
    BY <2>1, <2>2, <2>3 DEF IInv, TypeOK, AloneInv, row
<1>5. CASE TaskStep(u) \/ TaskFault(u)
  BY <1>3, <1>5, TaskAlone
<1>. QED
  BY <1>1, <1>2, <1>3, <1>4, <1>5 DEF Next, PutStep

\* One upload request and any number of retries publish at most one event more
\* than there were attempts that failed around the publish (services.py:32-33, 45-47).
THEOREM RepublishedOnlyInDoubtCorrect == Spec => []RepublishedOnlyInDoubt
<1>1. IInv /\ AloneInv => RepublishedOnlyInDoubt
  BY DEF AloneInv, Alone, RepublishedOnlyInDoubt
<1>. QED
  BY <1>1, InitIInv, InitAlone, StepIInv, StepAlone, PTL DEF Spec

-----------------------------------------------------------------------------

\* Something is still under way, has broken off, or nothing has reached the row
\* yet: otherwise the session is in one of its two final states.
SettledInv ==
    \/ state \in {"DOCUMENT_CREATED", "FAILED"}
    \/ BrokeOff
    \/ \E u \in Uploads : put[u] = "saved" \/ pc[u] \in {"queued"} \cup Running
    \/ \A u \in Uploads : put[u] \in {"new", "stored"}

\* What broke off stays so: no request and no task acts after its end.
LEMMA BrokeOffStays == IInv /\ [Next]_vars /\ BrokeOff => BrokeOff'
<1>. SUFFICES ASSUME IInv, [Next]_vars, BrokeOff PROVE BrokeOff'
  OBVIOUS
<1>1. PICK b \in Uploads : pc[b] \in {"broken", "lost"} \/ (put[b] = "ended" /\ pc[b] = "none")
  BY DEF BrokeOff
<1>2. put[b] = "ended"
  BY <1>1 DEF IInv, KeyInv
<1>3. ASSUME NEW u \in Uploads, PutStore(u) \/ PutSave(u) \/ PutEnqueue(u) \/ PutBreaks(u)
      PROVE  pc'[b] = pc[b] /\ put'[b] = put[b]
  BY <1>2, <1>3 DEF IInv, TypeOK, PutStore, PutSave, PutEnqueue, PutBreaks, MovePut, task
<1>4. ASSUME NEW t \in Uploads, TaskStep(t) \/ TaskFault(t)
      PROVE  pc'[b] = pc[b] /\ put'[b] = put[b]
  BY <1>1, <1>4, TaskEffect DEF IInv, TypeOK, Running
<1>5. pc'[b] = pc[b] /\ put'[b] = put[b]
  BY <1>3, <1>4 DEF Next, PutStep, vars, task
<1>. QED
  BY <1>1, <1>5 DEF BrokeOff

\* A task that ends normally or after marking the session leaves it in a final state.
LEMMA TaskSettles ==
    ASSUME IInv, NEW t \in Uploads, TaskStep(t) \/ TaskFault(t)
    PROVE  \/ pc'[t] \in {"queued", "broken", "lost"} \cup Running
           \/ state' \in {"DOCUMENT_CREATED", "FAILED"}
<1>. USE DEF IInv, TypeOK, Running, Move, Goto, Raise
<1>1. CASE TaskStep(t)
  BY <1>1 DEF TaskStep, TaskSkip, TaskLoad, TaskValidating, TaskValidated, TaskRejected, TaskProcessed,
    TaskPublish, TaskCommit, row
<1>2. CASE TaskFault(t)
  BY <1>2 DEF TaskFault, TaskProcessFails, TaskPublishFails, TaskCommitFails, TaskSaveFails, TaskCrash
<1>. QED
  BY <1>1, <1>2

\* A new session has no task that has ended.
LEMMA InitSettled == Init => SettledInv
BY DEF Init, SettledInv

\* Whatever order concurrent pipelines save in, the row's state says who is still at work
\* (services.py:25-98).
LEMMA StepSettled == IInv /\ SettledInv /\ [Next]_vars => SettledInv'
<1>. SUFFICES ASSUME IInv, SettledInv, [Next]_vars PROVE SettledInv'
  OBVIOUS
<1>1. CASE UNCHANGED vars
  BY <1>1 DEF vars, row, task, SettledInv, BrokeOff
<1>2. CASE BrokeOff
  BY <1>2, BrokeOffStays DEF SettledInv
<1>3. ASSUME NEW u \in Uploads, PutStore(u) \/ PutSave(u) \/ PutEnqueue(u) \/ PutBreaks(u), ~BrokeOff
      PROVE  SettledInv'
  <2>1. CASE PutStore(u)
    BY <1>3, <2>1 DEF SettledInv, IInv, TypeOK, PutStore, MovePut, row, task
  <2>2. CASE PutSave(u)
    BY <2>2 DEF SettledInv, IInv, TypeOK, PutSave, MovePut
  <2>3. CASE PutEnqueue(u)
    BY <2>3 DEF SettledInv, IInv, TypeOK, PutEnqueue, MovePut
  <2>4. CASE PutBreaks(u)
    <3>1. put'[u] = "ended" /\ pc'[u] = "none"
      BY <2>4 DEF IInv, TypeOK, KeyInv, PutBreaks, MovePut, task
    <3>. QED
      BY <3>1 DEF SettledInv, BrokeOff
  <2>. QED
    BY <1>3, <2>1, <2>2, <2>3, <2>4
<1>4. ASSUME NEW t \in Uploads, TaskStep(t) \/ TaskFault(t), ~BrokeOff
      PROVE  SettledInv'
  BY <1>4, TaskSettles DEF SettledInv, BrokeOff
<1>. QED
  BY <1>1, <1>2, <1>3, <1>4 DEF Next, PutStep

\* However many uploads of a session interleave, fail and retry, its row ends in
\* DOCUMENT_CREATED or FAILED unless one of them broke off (services.py:29-30, 57-73).
THEOREM SettledWhenDoneCorrect == Spec => []SettledWhenDone
<1>1. SettledInv => SettledWhenDone
  BY DEF SettledInv, SettledWhenDone, Running, Ended
<1>. QED
  BY <1>1, InitIInv, InitSettled, StepIInv, StepSettled, PTL DEF Spec

=============================================================================
