---------------------------- MODULE DocumentFlow ----------------------------
(***************************************************************************)
(* From an upload to a document: Ingestion publishes document.created,     *)
(* EventBus carries it, and handle_document_created                        *)
(* (apps/dms_documents/event_handlers.py) creates a Document and its first *)
(* DocumentVersion.  The two modules are composed as they stand: a publish *)
(* of the pipeline is a Publish of the bus, and the handler the bus leaves *)
(* open ("running" to "recording") gets its two inserts.                   *)
(***************************************************************************)
EXTENDS Integers, Sequences, FiniteSets

CONSTANTS
    MaxUploads, PipelineRetries, PipelineFaults,                      \* of the pipeline
    HandlerRetries, Pollers, BusFaults, MaxPublished, MaxGroupLoss,   \* of the bus
    HandlerMayRaise  \* whether an insert or the document type lookup may fail

VARIABLES
    valid, state, key, put, pc, attempt, local, doubt, events,
    stream, groupExists, cursor, pel, epoch, pollPc, pollEpoch, next, last, todo,
    status, retries, succ, fault, processed, dlq,
    documents,  \* the documents: the message each was made for, its version's file
    making,     \* the document each running handler has created
    redone      \* history: handler attempts that failed after creating a document

ingestVars == <<valid, state, key, put, pc, attempt, local, doubt, events>>
busVars    == <<stream, groupExists, cursor, pel, epoch, pollPc, pollEpoch, next, last, todo,
                status, retries, succ, fault, processed, dlq>>
docVars    == <<documents, making, redone>>
vars       == <<ingestVars, busVars, docVars>>

Created == "document.created"

Ing == INSTANCE Ingestion WITH MaxRetries <- PipelineRetries, Faults <- PipelineFaults

\* One registration for the one event type.
Bus == INSTANCE EventBus WITH
         Types <- {Created},
         Registry <- << [type |-> Created, name |-> "handle_document_created"] >>,
         WorkerLoaded <- {1}, MaxRetries <- HandlerRetries, CeleryMaxRetries <- 3,
         BatchSize <- 2, Faults <- BusFaults

\* The settings are settings each of the parts allows.
ASSUME FlowAssumption ==
    /\ Ing!IngestionAssumption
    /\ Bus!ConfigAssumption
    /\ HandlerMayRaise \in BOOLEAN

None == 0

\* Message m carries the session as it was when it was published: its file is events[m].
File(m) == events[m]

Init ==
    /\ Ing!Init /\ Bus!Init
    /\ documents = <<>>
    /\ making = [s \in Bus!Slots |-> None]
    /\ redone = 0

-----------------------------------------------------------------------------

\* An event the pipeline puts out is an entry of the bus's stream.
Carry == IF events' = events THEN UNCHANGED busVars ELSE Bus!Publish(Created)

IngestStep(u) ==
    /\ Ing!PutStep(u) \/ Ing!TaskStep(u)
    /\ Carry /\ UNCHANGED docVars

IngestFault(u) ==
    /\ Ing!PutStore(u) \/ Ing!PutBreaks(u) \/ Ing!TaskFault(u)
    /\ Carry /\ UNCHANGED docVars

PollStep(p) ==
    /\ Bus!PollStep(p)
    /\ UNCHANGED <<ingestVars, docVars>>

PollFault(p) ==
    /\ Bus!PollAbort(p)
    /\ UNCHANGED <<ingestVars, docVars>>

GroupLost ==
    /\ Bus!GroupLost
    /\ UNCHANGED <<ingestVars, docVars>>

\* Every step of dispatch_handler around the handler itself.
TaskStep(s) ==
    /\ \/ Bus!TaskSkip(s) \/ Bus!TaskRun(s) \/ Bus!RecordProcessed(s) \/ Bus!RecordDuplicate(s)
    /\ UNCHANGED <<ingestVars, docVars>>

\* Document.objects.create
CreateDocument(s) ==
    /\ status[s] = "running" /\ making[s] = None
    /\ documents' = Append(documents, [msg |-> Bus!MsgOf(s), version |-> None])
    /\ making' = [making EXCEPT ![s] = Len(documents) + 1]
    /\ UNCHANGED <<ingestVars, busVars, redone>>

CreateVersionAndReport(s) ==
    /\ making[s] # None
    /\ status[s] = "running"
    /\ status' = [status EXCEPT ![s] = "recording"]
    /\ documents' = [documents EXCEPT ![making[s]].version = File(Bus!MsgOf(s))]
    /\ making' = [making EXCEPT ![s] = None]
    /\ processed' = processed \cup {Bus!MsgOf(s)}
    /\ UNCHANGED <<ingestVars, stream, groupExists, cursor, pel, epoch, pollPc, pollEpoch,
                   next, last, todo, retries, succ, fault, dlq, redone>>

\* DocumentVersion.objects.create, the end of the handler.
CreateVersion(s) ==
    /\ making[s] # None
    /\ Bus!HandlerReturns(s)
    /\ documents' = [documents EXCEPT ![making[s]].version = File(Bus!MsgOf(s))]
    /\ making' = [making EXCEPT ![s] = None]
    /\ UNCHANGED <<ingestVars, redone>>

\* The attempt is over; what it created stays: no transaction spans the inserts.
Abandon(s) ==
    /\ making' = [making EXCEPT ![s] = None]
    /\ redone' = IF making[s] = None THEN redone ELSE redone + 1
    /\ UNCHANGED <<ingestVars, documents>>

HandlerSwallows(s) == Bus!HandlerReturns(s) /\ Abandon(s)

\* An insert fails, or before them the document type is gone (ValueError).
HandlerRaises(s) == HandlerMayRaise /\ Bus!HandlerRaises(s) /\ Abandon(s)

HandlerCrash(s) == Bus!WorkerCrash(s) /\ status[s] = "running" /\ Abandon(s)

\* The handler is done but its success is not recorded.
RecordFault(s) ==
    /\ Bus!RecordFault(s) \/ (Bus!WorkerCrash(s) /\ status[s] = "recording")
    /\ redone' = redone + 1
    /\ UNCHANGED <<ingestVars, documents, making>>

CheckFault(s) ==
    /\ Bus!TaskCheckFault(s)
    /\ UNCHANGED <<ingestVars, docVars>>

-----------------------------------------------------------------------------

SlotStep(s)  == TaskStep(s) \/ CreateDocument(s) \/ CreateVersion(s)
SlotFault(s) == HandlerRaises(s) \/ HandlerCrash(s) \/ RecordFault(s) \/ CheckFault(s)

Next ==
    \/ \E u \in Ing!Uploads : IngestStep(u) \/ IngestFault(u)
    \/ \E p \in Pollers : PollStep(p) \/ PollFault(p)
    \/ GroupLost
    \/ \E s \in Bus!Slots : SlotStep(s) \/ SlotFault(s)

Spec == Init /\ [][Next]_vars

\* A request that began goes on, celery beat keeps starting polls and a free worker
\* keeps taking tasks; faults and callers are under no obligation.
FairSpec ==
    /\ Spec
    /\ \A u \in Ing!Uploads : WF_vars(IngestStep(u))
    /\ \A p \in Pollers : WF_vars(PollStep(p))
    /\ \A s \in Bus!Slots : WF_vars(SlotStep(s))

-----------------------------------------------------------------------------
(* Properties *)

\* The composed system implements the bus: whatever the pipeline publishes and
\* the handler does, the stream, the poll runs, the tasks and the tables go
\* through a behaviour of EventBus.
KeepsBusSpec == Bus!Spec

\* A recorded message has a complete document, made from the file that was
\* published in it (tasks.py:74-78, event_handlers.py:47-67).
ProcessedHasDocument ==
    \A m \in processed : \E d \in DOMAIN documents :
        documents[d].msg = m /\ documents[d].version = File(m)

\* Every document beyond one per dispatch_handler task is the rest of a handler
\* attempt that failed after its first insert: retries that the ProcessedEvent
\* check stops add none (tasks.py:54-60).
ExtraDocumentsExplained ==
    Len(documents) <= Cardinality({s \in Bus!Slots : status[s] # "none"}) + redone

\* How an upload may end: as a complete document, refused with its session in
\* FAILED, or as a dead letter of the handler.
Stored(u)     == \E d \in DOMAIN documents : documents[d].version = u
Refused(u)    == pc[u] = "failed" /\ state = "FAILED"
DeadLetter(u) == \E d \in dlq : File(Bus!MsgOf(d.slot)) = u

\* End to end: while files, validators and inserts may fail but Redis, broker and
\* sessions' rows do not, no lone upload is lost silently on its way through two
\* task queues and a stream, even if the consumer group is lost on the way
\* (services.py:91-98, consumer.py:42-102, tasks.py:86-113).
UploadAccountedFor ==
    \A u \in Ing!Uploads : put[u] = "saved" ~> Stored(u) \/ Refused(u) \/ DeadLetter(u)

\* With nothing but the handler failing and the group lost, every published message
\* is in the end handled by each of its handlers or in the dead letters
\* (consumer.py:42-102, tasks.py:54-113).
EventuallySettled == Bus!EventuallySettled

=============================================================================
