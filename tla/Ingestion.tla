----------------------------- MODULE Ingestion -----------------------------
(***************************************************************************)
(* One upload session of apps/dms_ingestion: the upload requests           *)
(* (UploadView.put) and the pipeline tasks they enqueue                    *)
(* (run_pipeline_task), all working on the same row without a lock.        *)
(* Sessions share no state, so one is enough.                              *)
(*                                                                         *)
(* An upload request, the file it stores, the storage key of that file and *)
(* the task it enqueues all have the same number.  Every database write,   *)
(* storage call and publish is a step of its own: requests and tasks       *)
(* interleave between them.                                                *)
(***************************************************************************)
EXTENDS Integers, Sequences

CONSTANTS
    MaxUploads,  \* bound: upload requests for the session
    MaxRetries,  \* max_retries of run_pipeline_task
    Faults       \* the kinds of failure the environment may produce

FaultKinds == {"storage", "redis", "db", "broker", "crash"}

ASSUME IngestionAssumption ==
    /\ MaxUploads \in Nat
    /\ MaxRetries \in Nat
    /\ Faults \subseteq FaultKinds

VARIABLES
    valid,                 \* whether the size, MIME type and name the session was created with pass
    state, key,            \* the rest of its row
    put,                   \* where each upload request is
    pc,                    \* where each pipeline task is
    attempt,               \* its request.retries
    local,                 \* the storage key its copy of the session holds
    doubt,                 \* history: attempts that failed with their event perhaps or surely out
    events                 \* storage keys of the document.created events in the stream

row  == <<valid, state, key>>
task == <<pc, attempt, local, doubt>>
vars == <<row, put, task, events>>

Uploads == 1..MaxUploads
NoKey   == 0

States  == {"NEW", "UPLOADED", "VALIDATING", "PROCESSING", "READY", "DOCUMENT_CREATED", "FAILED"}
Running == {"loaded", "validating", "processing", "ready", "commit"}
Ended   == {"done", "failed", "broken", "lost"}

TypeOK ==
    /\ valid \in BOOLEAN
    /\ state \in States
    /\ key \in Uploads \cup {NoKey}
    /\ put \in [Uploads -> {"new", "stored", "saved", "ended"}]
    /\ pc \in [Uploads -> {"none", "queued"} \cup Running \cup Ended]
    /\ attempt \in [Uploads -> 0..MaxRetries]
    /\ local \in [Uploads -> Uploads \cup {NoKey}]
    /\ doubt \in [Uploads -> Nat]
    /\ events \in Seq(Uploads)

Init ==
    /\ valid \in BOOLEAN
    /\ state = "NEW" /\ key = NoKey
    /\ put = [u \in Uploads |-> "new"]
    /\ pc = [u \in Uploads |-> "none"]
    /\ attempt = [u \in Uploads |-> 0]
    /\ local = [u \in Uploads |-> NoKey]
    /\ doubt = [u \in Uploads |-> 0]
    /\ events = <<>>

-----------------------------------------------------------------------------
(* UploadView.put *)

MovePut(u, from, to) == put[u] = from /\ put' = [put EXCEPT ![u] = to]

\* storage.save: the file gets a key of its own.
PutStore(u) ==
    /\ MovePut(u, "new", "stored")
    /\ UNCHANGED <<row, task, events>>

\* session.save(update_fields=["storage_key", "state", "updated_at"]), whatever
\* the state was.
PutSave(u) ==
    /\ MovePut(u, "stored", "saved")
    /\ key' = u /\ state' = "UPLOADED"
    /\ UNCHANGED <<valid, task, events>>

\* run_pipeline_task.delay
PutEnqueue(u) ==
    /\ MovePut(u, "saved", "ended")
    /\ pc' = [pc EXCEPT ![u] = "queued"]
    /\ UNCHANGED <<row, attempt, local, doubt, events>>

\* The request ends between two of its steps.
PutBreaks(u) ==
    /\ \/ put[u] = "stored" /\ Faults \cap {"db", "crash"} # {}
       \/ put[u] = "saved" /\ Faults \cap {"broker", "crash"} # {}
    /\ put' = [put EXCEPT ![u] = "ended"]
    /\ UNCHANGED <<row, task, events>>

-----------------------------------------------------------------------------
(* run_pipeline_task / run_pipeline *)

Move(t, from, to) == pc[t] = from /\ pc' = [pc EXCEPT ![t] = to]
Goto(st)          == state' = st /\ UNCHANGED <<valid, key>>

\* An exception leaves the task: celery enqueues it again, MaxRetries times, and then
\* gives up: "failed" if run_pipeline has marked the session, "broken" if no except
\* branch saw the exception.  With a broker fault the retry cannot be enqueued.
RaiseUncounted(t, end) ==
    /\ pc' = [pc EXCEPT ![t] = "queued"]
    /\ UNCHANGED attempt
RaiseOneMore(t, end) ==
    \/ /\ attempt[t] <= MaxRetries
       /\ pc' = [pc EXCEPT ![t] = "queued"]
       /\ attempt' = [attempt EXCEPT ![t] = @ + 1]
    \/ /\ attempt[t] > MaxRetries \/ "broker" \in Faults
       /\ pc' = [pc EXCEPT ![t] = end]
       /\ UNCHANGED attempt
Raise(t, end) ==
    \/ /\ attempt[t] < MaxRetries
       /\ pc' = [pc EXCEPT ![t] = "queued"]
       /\ attempt' = [attempt EXCEPT ![t] = @ + 1]
    \/ /\ attempt[t] = MaxRetries \/ "broker" \in Faults
       /\ pc' = [pc EXCEPT ![t] = end]
       /\ UNCHANGED attempt

\* The session is in DOCUMENT_CREATED: return at once.
TaskSkip(t) ==
    /\ state = "DOCUMENT_CREATED"
    /\ Move(t, "queued", "done")
    /\ UNCHANGED <<row, put, attempt, local, doubt, events>>

TaskLoadUnchecked(t) ==
    /\ Move(t, "queued", "loaded")
    /\ local' = [local EXCEPT ![t] = key]
    /\ UNCHANGED <<row, put, attempt, doubt, events>>

\* UploadSession.objects.get; the copy is what the whole attempt works on.
TaskLoad(t) ==
    /\ state # "DOCUMENT_CREATED"
    /\ Move(t, "queued", "loaded")
    /\ local' = [local EXCEPT ![t] = key]
    /\ UNCHANGED <<row, put, attempt, doubt, events>>

TaskValidating(t) ==
    /\ Move(t, "loaded", "validating")
    /\ Goto("VALIDATING")
    /\ UNCHANGED <<put, attempt, local, doubt, events>>

TaskValidated(t) ==
    /\ valid
    /\ Move(t, "validating", "processing")
    /\ Goto("PROCESSING")
    /\ UNCHANGED <<put, attempt, local, doubt, events>>

\* A validator raises ValidationError: _fail and re-raise.
TaskRejected(t) ==
    /\ ~valid
    /\ pc[t] = "validating"
    /\ Goto("FAILED")
    /\ Raise(t, "failed")
    /\ UNCHANGED <<put, local, doubt, events>>

TaskProcessedEarly(t) ==
    /\ Move(t, "processing", "ready")
    /\ Goto("DOCUMENT_CREATED")
    /\ UNCHANGED <<put, attempt, local, doubt, events>>

\* The processors set checksum and extension on the copy, and the transition
\* saves neither (update_fields=["state", "updated_at"]): the row has no part for them.
TaskProcessed(t) ==
    /\ Move(t, "processing", "ready")
    /\ Goto("READY")
    /\ UNCHANGED <<put, attempt, local, doubt, events>>

\* storage.open or a processor raises: _fail and re-raise.
TaskProcessFails(t) ==
    /\ "storage" \in Faults
    /\ pc[t] = "processing"
    /\ Goto("FAILED")
    /\ Raise(t, "failed")
    /\ UNCHANGED <<put, local, doubt, events>>

\* publish inside transaction.atomic: the XADD is no part of the transaction.
TaskPublish(t) ==
    /\ Move(t, "ready", "commit")
    /\ events' = Append(events, local[t])
    /\ UNCHANGED <<row, put, attempt, local, doubt>>

Doubt(t) == doubt' = [doubt EXCEPT ![t] = @ + 1]

\* publish raises RedisError, before the entry is written or after (a lost reply).
TaskPublishFails(t) ==
    /\ "redis" \in Faults
    /\ pc[t] = "ready"
    /\ Raise(t, "broken")
    /\ \/ UNCHANGED <<doubt, events>>
       \/ Doubt(t) /\ events' = Append(events, local[t])
    /\ UNCHANGED <<row, put, local>>

TaskCommitUnwritten(t) ==
    /\ Move(t, "commit", "done")
    /\ UNCHANGED <<row, put, attempt, local, doubt, events>>

TaskCommit(t) ==
    /\ Move(t, "commit", "done")
    /\ Goto("DOCUMENT_CREATED")
    /\ UNCHANGED <<put, attempt, local, doubt, events>>

\* The last transition or its COMMIT raises: rolled back, or committed with the
\* reply lost.
TaskCommitFails(t) ==
    /\ "db" \in Faults
    /\ pc[t] = "commit"
    /\ Raise(t, "broken")
    /\ \/ Doubt(t) /\ UNCHANGED row
       \/ Goto("DOCUMENT_CREATED") /\ UNCHANGED doubt
    /\ UNCHANGED <<put, local, events>>

\* A read or a save before that raises; no except branch covers the transitions.
TaskSaveFails(t) ==
    /\ "db" \in Faults
    /\ pc[t] \in {"queued", "loaded", "validating", "processing"}
    /\ Raise(t, "broken")
    /\ UNCHANGED <<row, put, local, doubt, events>>

\* The worker dies; the broker does not deliver the task again.
TaskCrash(t) ==
    /\ "crash" \in Faults
    /\ pc[t] \in Running
    /\ pc' = [pc EXCEPT ![t] = "lost"]
    /\ UNCHANGED <<row, put, attempt, local, doubt, events>>

-----------------------------------------------------------------------------

PutStep(u) == PutSave(u) \/ PutEnqueue(u)

TaskStep(t) ==
    \/ TaskSkip(t) \/ TaskLoad(t) \/ TaskValidating(t) \/ TaskValidated(t) \/ TaskRejected(t)
    \/ TaskProcessed(t) \/ TaskPublish(t) \/ TaskCommit(t)

TaskFault(t) ==
    TaskProcessFails(t) \/ TaskPublishFails(t) \/ TaskCommitFails(t) \/ TaskSaveFails(t) \/ TaskCrash(t)

Next == \E u \in Uploads : PutStore(u) \/ PutStep(u) \/ PutBreaks(u) \/ TaskStep(u) \/ TaskFault(u)

Spec == Init /\ [][Next]_vars

\* A request that began goes on and a free worker keeps taking tasks.
FairSpec == Spec /\ \A u \in Uploads : WF_vars(PutStep(u)) /\ WF_vars(TaskStep(u))

-----------------------------------------------------------------------------
(* Properties *)

\* The session reaches DOCUMENT_CREATED, and a task ends normally, only after an
\* event for one of its files is in the stream (services.py:91-98, publish before
\* the transition; 45-47, the early return).
CreatedMeansPublished ==
    state = "DOCUMENT_CREATED" \/ (\E t \in Uploads : pc[t] = "done") => events # <<>>

\* With a single upload request, however often its task is retried, there is one
\* event more than attempts that failed around the publish: a committed session
\* is never published again (services.py:32-33).
RepublishedOnlyInDoubt ==
    \A u \in Uploads :
        (\A v \in Uploads \ {u} : put[v] = "new") => Len(events) <= 1 + doubt[u]

\* A task ended on an exception that no branch of run_pipeline handles or with its
\* worker, or a request broke off before it had enqueued its task.
BrokeOff == \E u \in Uploads : pc[u] \in {"broken", "lost"} \/ (put[u] = "ended" /\ pc[u] = "none")

\* Once every request and every task has ended the session is in DOCUMENT_CREATED or
\* FAILED, in whatever order concurrent pipelines of the session, their failed
\* attempts and their retries wrote its state (services.py:29-30) - unless some
\* request or task broke off.
SettledWhenDone ==
    /\ \E u \in Uploads : put[u] = "ended"
    /\ \A u \in Uploads : put[u] \in {"new", "ended"} /\ pc[u] \in {"none"} \cup Ended
    => state \in {"DOCUMENT_CREATED", "FAILED"} \/ BrokeOff

\* Whatever fails and however often, a task that was enqueued ends (tasks.py:12-17).
EveryTaskEnds == \A t \in Uploads : pc[t] = "queued" ~> pc[t] \in Ended

=============================================================================
