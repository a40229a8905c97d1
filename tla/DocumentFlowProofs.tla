------------------------- MODULE DocumentFlowProofs -------------------------
(***************************************************************************)
(* The composed system implements the two modules it is made of, for every *)
(* value of the constants: no step of the pipeline, of the bus or of the   *)
(* document handler takes either part out of its own specification.  What  *)
(* is proved of the parts therefore holds here, and from it follows what   *)
(* the document table promises.                                            *)
(***************************************************************************)
EXTENDS DocumentFlow, FiniteSetTheorems, TLAPS

\* An event the pipeline puts out is a publish of the bus, anything else a stutter.
LEMMA CarryIsBusStep == Carry => Bus!Next \/ UNCHANGED busVars
BY DEF Carry, Bus!Next

\* The bus of the composition has the variables of EventBus.
LEMMA BusVarsAgree == (UNCHANGED busVars) <=> (UNCHANGED Bus!vars)
BY DEF busVars, Bus!vars, Bus!groupVars, Bus!pollVars, Bus!taskVars, Bus!tables

\* The pipeline of the composition has the variables of Ingestion.
LEMMA IngestVarsAgree == (UNCHANGED ingestVars) <=> (UNCHANGED Ing!vars)
BY DEF ingestVars, Ing!vars, Ing!row, Ing!task

\* What a dispatch_handler task does in the composed system is a step of the bus
\* or, between the two inserts of the handler, none.
LEMMA SlotIsBusStep ==
    ASSUME NEW s \in Bus!Slots, SlotStep(s) \/ SlotFault(s)
    PROVE  Bus!Next \/ UNCHANGED busVars
<1>1. CASE TaskStep(s)
  BY <1>1 DEF TaskStep, Bus!Next, Bus!TaskStep
<1>2. CASE CreateDocument(s)
  BY <1>2 DEF CreateDocument
<1>3. CASE CreateVersion(s)
  BY <1>3 DEF CreateVersion, Bus!Next, Bus!TaskStep
<1>4. CASE HandlerRaises(s)
  BY <1>4 DEF HandlerRaises, Bus!Next, Bus!TaskStep
<1>5. CASE HandlerCrash(s) \/ RecordFault(s) \/ CheckFault(s)
  BY <1>5 DEF HandlerCrash, RecordFault, CheckFault, Bus!Next, Bus!TaskFault
<1>. QED
  BY <1>1, <1>2, <1>3, <1>4, <1>5 DEF SlotStep, SlotFault

\* Every step of the composition is one of the bus or leaves it alone.
LEMMA StepIsBusStep == [Next]_vars => [Bus!Next]_(Bus!vars)
<1>. SUFFICES ASSUME [Next]_vars PROVE Bus!Next \/ UNCHANGED busVars
  BY BusVarsAgree
<1>1. CASE UNCHANGED vars
  BY <1>1 DEF vars
<1>2. CASE \E u \in Ing!Uploads : IngestStep(u) \/ IngestFault(u)
  BY <1>2, CarryIsBusStep DEF IngestStep, IngestFault
<1>3. CASE \E p \in Pollers : PollStep(p) \/ PollFault(p)
  BY <1>3 DEF PollStep, PollFault, Bus!Next
<1>4. CASE GroupLost
  BY <1>4 DEF GroupLost, Bus!Next
<1>5. CASE \E s \in Bus!Slots : SlotStep(s) \/ SlotFault(s)
  BY <1>5, SlotIsBusStep
<1>. QED
  BY <1>1, <1>2, <1>3, <1>4, <1>5 DEF Next

\* Every step of the composition is one of the pipeline or leaves it alone.
LEMMA StepIsIngestionStep == [Next]_vars => [Ing!Next]_(Ing!vars)
<1>. SUFFICES ASSUME [Next]_vars PROVE Ing!Next \/ UNCHANGED ingestVars
  BY IngestVarsAgree
<1>1. CASE UNCHANGED vars
  BY <1>1 DEF vars
<1>2. CASE \E u \in Ing!Uploads : IngestStep(u) \/ IngestFault(u)
  BY <1>2 DEF IngestStep, IngestFault, Ing!Next
<1>3. CASE \E p \in Pollers : PollStep(p) \/ PollFault(p)
  BY <1>3 DEF PollStep, PollFault
<1>4. CASE GroupLost
  BY <1>4 DEF GroupLost
<1>5. CASE \E s \in Bus!Slots : SlotStep(s) \/ SlotFault(s)
  BY <1>5 DEF SlotStep, SlotFault, TaskStep, CreateDocument, CreateVersion, HandlerRaises,
    HandlerCrash, RecordFault, CheckFault, Abandon
<1>. QED
  BY <1>1, <1>2, <1>3, <1>4, <1>5 DEF Next

\* The composed system implements the bus: the pipeline only publishes to it, and
\* the two inserts of handle_document_created are one handler run of the bus
\* (event_handlers.py:15-73, tasks.py:33-113).
THEOREM KeepsBusSpecCorrect == Spec => KeepsBusSpec
<1>1. Init => Bus!Init
  BY DEF Init
<1>. QED
  BY <1>1, StepIsBusStep, PTL DEF Spec, KeepsBusSpec, Bus!Spec

\* The composed system implements the upload session: nothing the bus or the
\* handler does reaches back into it (services.py:25-100).
THEOREM KeepsIngestionSpec == Spec => Ing!Spec
<1>1. Init => Ing!Init
  BY DEF Init
<1>. QED
  BY <1>1, StepIsIngestionStep, PTL DEF Spec, Ing!Spec

-----------------------------------------------------------------------------
(* What is proved of the parts holds in the composition *)

BusP == INSTANCE EventBusProofs WITH
          Types <- {Created},
          Registry <- << [type |-> Created, name |-> "handle_document_created"] >>,
          WorkerLoaded <- {1}, MaxRetries <- HandlerRetries, CeleryMaxRetries <- 3,
          BatchSize <- 2, Faults <- BusFaults

IngP == INSTANCE IngestionProofs WITH MaxRetries <- PipelineRetries, Faults <- PipelineFaults

\* The settings the parts are composed with are settings they allow.
LEMMA PartsAssumptions == BusP!ConfigAssumption /\ IngP!IngestionAssumption
  BY FlowAssumption
  DEF Bus!ConfigAssumption, BusP!ConfigAssumption, Bus!Regs, BusP!Regs, Bus!FaultKinds, BusP!FaultKinds,
      Ing!IngestionAssumption, IngP!IngestionAssumption, Ing!FaultKinds, IngP!FaultKinds

\* The specification the bus's theorems are about is the one composed here.
LEMMA SameBus == Bus!Spec => BusP!Spec
<1>1. Bus!Init => BusP!Init
  BY DEF Bus!Init, BusP!Init, Bus!Slots, BusP!Slots, Bus!Messages, BusP!Messages, Bus!Regs,
      BusP!Regs, Bus!Epochs, BusP!Epochs
<1>2. Bus!Next => BusP!Next
  BY DEF Bus!Regs, BusP!Regs, Bus!groupVars, BusP!groupVars, Bus!pollVars, BusP!pollVars,
      Bus!taskVars, BusP!taskVars, Bus!tables, BusP!tables, Bus!vars, BusP!vars,
      Bus!Messages, BusP!Messages, Bus!Epochs, BusP!Epochs, Bus!Slots, BusP!Slots,
      Bus!MsgOf, BusP!MsgOf, Bus!RegOf, BusP!RegOf, Bus!EpochOf, BusP!EpochOf,
      Bus!HandlersOf, BusP!HandlersOf, Bus!SameName, BusP!SameName, Bus!IsLoaded,
      BusP!IsLoaded, Bus!Terminal, BusP!Terminal, Bus!Status, BusP!Status, Bus!Publish,
      BusP!Publish, Bus!PollStart, BusP!PollStart, Bus!BatchEnd, BusP!BatchEnd,
      Bus!Deliver, BusP!Deliver, Bus!PollRead, BusP!PollRead, Bus!AckAndAdvance,
      BusP!AckAndAdvance, Bus!PollSkip, BusP!PollSkip, Bus!PollBegin, BusP!PollBegin,
      Bus!PollDispatch, BusP!PollDispatch, Bus!PollAck, BusP!PollAck, Bus!PollAbort,
      BusP!PollAbort, Bus!GroupLost, BusP!GroupLost, Bus!Finish, BusP!Finish,
      Bus!TaskFrame, BusP!TaskFrame, Bus!TaskSkip, BusP!TaskSkip, Bus!TaskDrop,
      BusP!TaskDrop, Bus!TaskCheckFault, BusP!TaskCheckFault, Bus!TaskRun, BusP!TaskRun,
      Bus!Attempt, BusP!Attempt, Bus!MayRetry, BusP!MayRetry, Bus!Retry, BusP!Retry,
      Bus!RetryRefused, BusP!RetryRefused, Bus!DeadLetter, BusP!DeadLetter,
      Bus!OnException, BusP!OnException, Bus!HandlerRaises, BusP!HandlerRaises,
      Bus!HandlerReturns, BusP!HandlerReturns, Bus!RecordProcessed,
      BusP!RecordProcessed, Bus!RecordDuplicate, BusP!RecordDuplicate, Bus!RecordFault,
      BusP!RecordFault, Bus!WorkerCrash, BusP!WorkerCrash, Bus!PollStep, BusP!PollStep,
      Bus!TaskStep, BusP!TaskStep, Bus!TaskFault, BusP!TaskFault, Bus!Next, BusP!Next
<1>3. UNCHANGED Bus!vars => UNCHANGED BusP!vars
  BY DEF Bus!vars, BusP!vars, Bus!groupVars, BusP!groupVars, Bus!pollVars, BusP!pollVars,
      Bus!taskVars, BusP!taskVars, Bus!tables, BusP!tables
<1>. QED
  BY <1>1, <1>2, <1>3, PTL DEF Bus!Spec, BusP!Spec

\* The pipeline in the composition is the pipeline whose theorems IngestionProofs proves.
LEMMA SameIngestion == Ing!Spec => IngP!Spec
<1>1. Ing!Init => IngP!Init
  BY DEF Ing!Init, IngP!Init, Ing!Uploads, IngP!Uploads, Ing!NoKey, IngP!NoKey
<1>2. Ing!Next => IngP!Next
  BY DEF Ing!row, IngP!row, Ing!task, IngP!task, Ing!vars, IngP!vars, Ing!Uploads,
      IngP!Uploads, Ing!NoKey, IngP!NoKey, Ing!MovePut, IngP!MovePut, Ing!PutStore,
      IngP!PutStore, Ing!PutSave, IngP!PutSave, Ing!PutEnqueue, IngP!PutEnqueue,
      Ing!PutBreaks, IngP!PutBreaks, Ing!Move, IngP!Move, Ing!Goto, IngP!Goto,
      Ing!Raise, IngP!Raise, Ing!TaskSkip, IngP!TaskSkip, Ing!TaskLoad, IngP!TaskLoad,
      Ing!TaskValidating, IngP!TaskValidating, Ing!TaskValidated, IngP!TaskValidated,
      Ing!TaskRejected, IngP!TaskRejected, Ing!TaskProcessed, IngP!TaskProcessed,
      Ing!TaskProcessFails, IngP!TaskProcessFails, Ing!TaskPublish, IngP!TaskPublish,
      Ing!Doubt, IngP!Doubt, Ing!TaskPublishFails, IngP!TaskPublishFails,
      Ing!TaskCommit, IngP!TaskCommit, Ing!TaskCommitFails, IngP!TaskCommitFails,
      Ing!TaskSaveFails, IngP!TaskSaveFails, Ing!TaskCrash, IngP!TaskCrash, Ing!PutStep,
      IngP!PutStep, Ing!TaskStep, IngP!TaskStep, Ing!TaskFault, IngP!TaskFault,
      Ing!Next, IngP!Next, Ing!Running, IngP!Running
<1>3. UNCHANGED Ing!vars => UNCHANGED IngP!vars
  BY DEF Ing!vars, IngP!vars, Ing!row, IngP!row, Ing!task, IngP!task
<1>. QED
  BY <1>1, <1>2, <1>3, PTL DEF Ing!Spec, IngP!Spec

\* What is proved of the bus and of the pipeline holds of the composition.
LEMMA PartsInvariant == Spec => [](BusP!Inv /\ IngP!TypeOK)
<1>1. BusP!Spec => []BusP!Inv
  BY PartsAssumptions, BusP!InvCorrect
<1>2. IngP!Spec => []IngP!TypeOK
  BY PartsAssumptions, IngP!TypeCorrect
<1>. QED
  BY <1>1, <1>2, SameBus, SameIngestion, KeepsBusSpecCorrect, KeepsIngestionSpec, PTL DEF KeepsBusSpec

-----------------------------------------------------------------------------
(* The document table *)

Document == [msg : Bus!Messages, version : Nat]

Made(m) == \E d \in DOMAIN documents : documents[d].msg = m /\ documents[d].version = File(m)

Parts == BusP!Inv /\ IngP!TypeOK

\* Tasks are for messages in the stream, a running handler's document is for its
\* message, and a handler that returned has left a complete one.
DocInv ==
    /\ Len(events) = Len(stream)
    /\ documents \in Seq(Document)
    /\ making \in [Bus!Slots -> Nat]
    /\ redone \in Nat
    /\ \A s \in Bus!Slots : status[s] # "none" => Bus!MsgOf(s) \in 1..Len(events)
    /\ \A s \in Bus!Slots : making[s] # None =>
         /\ status[s] = "running"
         /\ making[s] \in 1..Len(documents) /\ documents[making[s]].msg = Bus!MsgOf(s)
    /\ \A s \in Bus!Slots : status[s] = "recording" => Made(Bus!MsgOf(s))
    /\ \A m \in processed : m \in 1..Len(events) /\ Made(m)

\* The types of the parts, as far as the handler needs them.
LEMMA PartsTypes ==
    ASSUME Parts
    PROVE  /\ status \in [Bus!Slots -> Bus!Status] /\ processed \subseteq Bus!Messages
           /\ Len(stream) \in Nat /\ stream \in Seq({Created})
           /\ events \in Seq(Ing!Uploads) /\ local \in [Ing!Uploads -> Ing!Uploads \cup {0}]
  BY DEF Parts, BusP!Inv, BusP!TypeOK, BusP!TaskTypes, BusP!TableTypes, BusP!GroupTypes, BusP!Status,
     BusP!Terminal, BusP!Slots, BusP!Messages, BusP!Regs, BusP!Epochs, Bus!Status, Bus!Terminal,
     Bus!Slots, Bus!Messages, Bus!Regs, Bus!Epochs, IngP!TypeOK, IngP!Uploads, IngP!NoKey, Ing!Uploads

-----------------------------------------------------------------------------
(* The kinds of steps, as far as documents are concerned *)

\* Nothing but a new message, or a task for one that is in the stream.
Quiet ==
    /\ UNCHANGED <<documents, making, redone, processed>>
    /\ \/ UNCHANGED <<events, stream, status>>
       \/ UNCHANGED status /\ stream' = Append(stream, Created) /\ \E x \in Nat : events' = Append(events, x)
       \/ /\ UNCHANGED <<events, stream>>
          /\ \E s \in Bus!Slots : /\ status[s] = "none" /\ Bus!MsgOf(s) \in 1..Len(stream)
                                  /\ status' = [status EXCEPT ![s] = "queued"]

\* The handler of task s raises or dies.
Ends(s) ==
    /\ status[s] = "running" /\ Abandon(s)
    /\ UNCHANGED <<stream, processed>>
    /\ \E st \in {"queued", "dead", "failed", "lost"} : status' = [status EXCEPT ![s] = st]

\* dispatch_handler around the handler.
Moves(s) ==
    /\ UNCHANGED <<events, stream, documents, making>>
    /\ \E st \in Bus!Status \ {"none"} :
         /\ status' = [status EXCEPT ![s] = st]
         /\ \/ /\ status[s] = "queued" /\ st \in {"skipped", "failed"}
               /\ UNCHANGED <<processed, redone>>
            \/ /\ status[s] = "queued" /\ st = "running" /\ Bus!MsgOf(s) \notin processed
               /\ UNCHANGED <<processed, redone>>
            \/ /\ status[s] = "recording" /\ st = "done"
               /\ processed' = processed \cup {Bus!MsgOf(s)} /\ UNCHANGED redone
            \/ /\ status[s] = "recording" /\ st \in {"queued", "dead", "failed"}
               /\ Bus!MsgOf(s) \in processed /\ UNCHANGED <<processed, redone>>
            \/ /\ status[s] = "recording" /\ st \in {"queued", "dead", "failed", "lost"}
               /\ UNCHANGED processed /\ redone' = redone + 1

\* The except branch of dispatch_handler ends the attempt in one of three ways.
LEMMA ExceptionEnds ==
    ASSUME NEW s \in Bus!Slots, Bus!OnException(s)
    PROVE  \E st \in {"queued", "dead", "failed"} : status' = [status EXCEPT ![s] = st]
  BY DEF Bus!OnException, Bus!Retry, Bus!RetryRefused, Bus!DeadLetter, Bus!Finish

\* What a poll run enqueues is new and is in the stream (consumer.py:79-93).
LEMMA PollIsQuiet ==
    ASSUME Parts, NEW p \in Pollers, PollStep(p) \/ PollFault(p)
    PROVE  Quiet
<1>1. UNCHANGED <<events, documents, making, redone>>
  BY DEF PollStep, PollFault, ingestVars, docVars
<1>2. ASSUME NEW r \in Bus!Regs, Bus!PollDispatch(p, r)
      PROVE  Quiet
  <2> DEFINE s == <<next[p], r, pollEpoch[p]>>
  <2>1. /\ next[p] \in 1..Len(stream) /\ next[p] <= last[p]
        /\ next[p] \in Int /\ last[p] \in Int /\ pollEpoch[p] \in Bus!Epochs /\ Len(stream) <= MaxPublished
    BY <1>2 DEF Bus!PollDispatch, Parts, BusP!Inv, BusP!PollerInv, BusP!Busy, BusP!TypeOK, BusP!PollTypes,
       BusP!GroupTypes, BusP!Epochs, Bus!Epochs
  <2>2. s \in Bus!Slots /\ Bus!MsgOf(s) = next[p]
    BY <2>1, FlowAssumption DEF Bus!ConfigAssumption, Bus!Slots, Bus!Messages, Bus!MsgOf
  <2>3. s \in BusP!Unfilled(p)
    BY <1>2, <2>1, <2>2 DEF Bus!PollDispatch, BusP!Unfilled, BusP!Batch, BusP!Busy, BusP!EpochOf, BusP!MsgOf,
       BusP!RegOf, BusP!Slots, BusP!Messages, BusP!Regs, BusP!Epochs, Bus!Slots, Bus!Messages, Bus!Regs, Bus!Epochs
  <2>4. status[s] = "none"
    BY <2>3 DEF Parts, BusP!Inv, BusP!AtMostOnceDispatch
  <2>. QED
    BY <1>1, <1>2, <2>1, <2>2, <2>4 DEF Bus!PollDispatch, Bus!tables, Quiet
<1>3. ASSUME \/ Bus!PollStart(p) \/ Bus!PollRead(p) \/ Bus!PollSkip(p) \/ Bus!PollBegin(p)
             \/ Bus!PollAck(p) \/ Bus!PollAbort(p)
      PROVE  UNCHANGED <<stream, status, processed>>
  BY <1>3 DEF Bus!PollStart, Bus!PollRead, Bus!PollSkip, Bus!PollBegin, Bus!PollAck, Bus!PollAbort,
     Bus!AckAndAdvance, Bus!taskVars, Bus!tables
<1>. QED
  BY <1>1, <1>2, <1>3 DEF PollStep, PollFault, Bus!PollStep, Quiet

\* The pipeline touches no more than the two streams of messages, together.
LEMMA IngestIsQuiet ==
    ASSUME Parts, NEW u \in Ing!Uploads, IngestStep(u) \/ IngestFault(u)
    PROVE  Quiet
<1>1. UNCHANGED <<documents, making, redone>> /\ Carry
  BY DEF IngestStep, IngestFault, docVars
<1>2. events' = events \/ events' = Append(events, local[u])
  <2>1. CASE Ing!PutStep(u) \/ Ing!PutStore(u) \/ Ing!PutBreaks(u)
    BY <2>1 DEF Ing!PutStep, Ing!PutStore, Ing!PutSave, Ing!PutEnqueue, Ing!PutBreaks
  <2>2. CASE Ing!TaskStep(u)
    BY <2>2 DEF Ing!TaskStep, Ing!TaskSkip, Ing!TaskLoad, Ing!TaskValidating, Ing!TaskValidated,
       Ing!TaskRejected, Ing!TaskProcessed, Ing!TaskPublish, Ing!TaskCommit
  <2>3. CASE Ing!TaskFault(u)
    BY <2>3 DEF Ing!TaskFault, Ing!TaskProcessFails, Ing!TaskPublishFails, Ing!TaskCommitFails,
       Ing!TaskSaveFails, Ing!TaskCrash
  <2>. QED
    BY <2>1, <2>2, <2>3 DEF IngestStep, IngestFault
<1>3. local[u] \in Nat
  BY PartsTypes, FlowAssumption DEF Ing!Uploads, Ing!IngestionAssumption
<1>4. CASE events' = events
  BY <1>1, <1>4 DEF Carry, busVars, Quiet
<1>5. CASE events' # events
  <2>1. Bus!Publish(Created)
    BY <1>1, <1>5 DEF Carry
  <2>. QED
    BY <1>1, <1>2, <1>3, <1>5, <2>1 DEF Bus!Publish, Bus!taskVars, Bus!tables, Quiet
<1>. QED
  BY <1>4, <1>5

\* The tasks: what dispatch_handler and the handler do (tasks.py:54-113).
LEMMA SlotKinds ==
    ASSUME Parts, NEW s \in Bus!Slots, SlotStep(s) \/ SlotFault(s)
    PROVE  CreateDocument(s) \/ CreateVersion(s) \/ Ends(s) \/ Moves(s)
<1> USE DEF Bus!Status, Bus!Terminal
<1>1. CASE TaskStep(s)
  <2>1. UNCHANGED <<events, stream, documents, making, redone>>
    BY <1>1 DEF TaskStep, ingestVars, docVars, Bus!TaskSkip, Bus!TaskRun, Bus!RecordProcessed,
       Bus!RecordDuplicate, Bus!TaskFrame
  <2>2. CASE Bus!TaskSkip(s) \/ Bus!TaskRun(s)
    BY <2>1, <2>2 DEF Bus!TaskSkip, Bus!TaskRun, Bus!Finish, Bus!tables, Moves
  <2>3. CASE Bus!RecordProcessed(s)
    BY <2>1, <2>3 DEF Bus!RecordProcessed, Bus!Finish, Moves
  <2>4. CASE Bus!RecordDuplicate(s)
    BY <2>1, <2>4, ExceptionEnds DEF Bus!RecordDuplicate, Moves
  <2>. QED
    BY <1>1, <2>2, <2>3, <2>4 DEF TaskStep
<1>2. CASE HandlerRaises(s)
  BY <1>2, ExceptionEnds DEF HandlerRaises, Bus!HandlerRaises, Bus!TaskFrame, Ends
<1>3. CASE HandlerCrash(s)
  BY <1>3 DEF HandlerCrash, Bus!WorkerCrash, Bus!Finish, Bus!TaskFrame, Bus!tables, Ends
<1>4. CASE RecordFault(s)
  <2>1. UNCHANGED <<events, stream, documents, making, processed>> /\ redone' = redone + 1
    BY <1>4 DEF RecordFault, ingestVars, Bus!RecordFault, Bus!WorkerCrash, Bus!TaskFrame, Bus!tables
  <2>2. status[s] = "recording"
    BY <1>4 DEF RecordFault, Bus!RecordFault
  <2>3. \E st \in {"queued", "dead", "failed", "lost"} : status' = [status EXCEPT ![s] = st]
    BY <1>4, ExceptionEnds DEF RecordFault, Bus!RecordFault, Bus!WorkerCrash, Bus!Finish
  <2>. QED
    BY <2>1, <2>2, <2>3 DEF Moves
<1>5. CASE CheckFault(s)
  BY <1>5 DEF CheckFault, ingestVars, docVars, Bus!TaskCheckFault, Bus!Finish, Bus!TaskFrame, Bus!tables, Moves
<1>. QED
  BY <1>1, <1>2, <1>3, <1>4, <1>5 DEF SlotStep, SlotFault

\* A step makes a document, its version, ends a handler attempt, moves a task, or is quiet.
LEMMA StepKinds ==
    ASSUME Parts, [Next]_vars
    PROVE  \/ Quiet
           \/ \E s \in Bus!Slots : CreateDocument(s) \/ CreateVersion(s) \/ Ends(s) \/ Moves(s)
<1>1. CASE UNCHANGED vars
  BY <1>1 DEF vars, ingestVars, busVars, docVars, Quiet
<1>2. CASE GroupLost
  BY <1>2 DEF GroupLost, Bus!GroupLost, ingestVars, docVars, Bus!taskVars, Bus!tables, Quiet
<1>. QED
  BY <1>1, <1>2, PollIsQuiet, IngestIsQuiet, SlotKinds DEF Next

\* A document that is complete stays so, whatever else is written to the table.
LEMMA MadeStays ==
    ASSUME DOMAIN documents \subseteq DOMAIN documents', NEW m, Made(m), File(m)' = File(m),
           \A d \in DOMAIN documents :
              /\ documents'[d].msg = documents[d].msg
              /\ documents'[d].version = documents[d].version \/ documents'[d].version = File(documents[d].msg)
    PROVE  Made(m)'
  BY DEF Made

\* A publish, a poll or a pipeline task changes neither a document nor the file a message names.
LEMMA QuietDocs ==
    ASSUME Parts, Parts', DocInv, Quiet
    PROVE  DocInv'
<1>0. /\ events \in Seq(Ing!Uploads) /\ Len(stream) \in Nat /\ stream \in Seq({Created})
      /\ status \in [Bus!Slots -> Bus!Status]
  BY PartsTypes
<1>1. /\ Len(events') = Len(stream') /\ Len(events) \in Nat /\ Len(events') \in Nat /\ Len(events') >= Len(events)
      /\ \A m \in 1..Len(events) : File(m)' = File(m)
  <2>1. CASE UNCHANGED <<events, stream>>
    BY <1>0, <2>1 DEF DocInv, File
  <2>2. CASE stream' = Append(stream, Created) /\ \E x \in Nat : events' = Append(events, x)
    BY <1>0, <2>2 DEF DocInv, File
  <2>. QED
    BY <2>1, <2>2 DEF Quiet
<1>2. UNCHANGED <<documents, making, redone, processed>>
  BY DEF Quiet
<1>3. ASSUME NEW m \in 1..Len(events), Made(m) PROVE Made(m)'
  BY <1>1, <1>2, <1>3, MadeStays
<1>4. \A s \in Bus!Slots :
         \/ status'[s] = status[s]
         \/ status[s] = "none" /\ status'[s] = "queued" /\ Bus!MsgOf(s) \in 1..Len(events)
  BY <1>0 DEF Quiet, DocInv
<1>5. \A s \in Bus!Slots : status'[s] # "none" => Bus!MsgOf(s) \in 1..Len(events)
  BY <1>4 DEF DocInv
<1>6. \A s \in Bus!Slots : status'[s] = "recording" => Made(Bus!MsgOf(s))'
  BY <1>3, <1>4, <1>5 DEF DocInv
<1>7. \A m \in processed : m \in 1..Len(events) /\ Made(m)'
  BY <1>3 DEF DocInv
<1>8. \A s \in Bus!Slots : making[s] # None => status'[s] = "running"
  BY <1>4 DEF DocInv
<1>9. 1..Len(events) \subseteq 1..Len(events')
  BY <1>1
<1>. QED
  BY <1>1, <1>2, <1>5, <1>6, <1>7, <1>8, <1>9 DEF DocInv

\* A task moves on without touching the documents.
LEMMA MovesDocs ==
    ASSUME Parts, Parts', DocInv, NEW s \in Bus!Slots, Ends(s) \/ Moves(s)
    PROVE  DocInv'
<1>0. status \in [Bus!Slots -> Bus!Status] /\ making \in [Bus!Slots -> Nat] /\ redone \in Nat
  BY PartsTypes DEF DocInv
<1>1. UNCHANGED <<events, stream, documents>>
  BY DEF Ends, Moves, Abandon, ingestVars
<1>2. \A m : Made(m)' = Made(m)
  BY <1>1 DEF Made, File
<1>3. /\ status[s] # "none" /\ status'[s] # "recording"
      /\ \A t \in Bus!Slots \ {s} : status'[t] = status[t]
  BY <1>0 DEF Ends, Moves
<1>4. /\ making' \in [Bus!Slots -> Nat]
      /\ \A t \in Bus!Slots \ {s} : making'[t] = making[t]
      /\ making'[s] = None
  <2>1. CASE Ends(s)
    BY <1>0, <2>1 DEF Ends, Abandon, None
  <2>2. CASE Moves(s)
    BY <1>0, <2>2 DEF Moves, DocInv
  <2>. QED
    BY <2>1, <2>2
<1>5. redone' \in Nat
  BY <1>0 DEF Ends, Moves, Abandon
<1>6. \A m \in processed' : m \in 1..Len(events) /\ Made(m)
  <2>1. \A m \in processed' : m \in processed \/ (m = Bus!MsgOf(s) /\ status[s] = "recording")
    BY DEF Ends, Moves
  <2>. QED
    BY <1>3, <2>1 DEF DocInv
<1>7. \A t \in Bus!Slots : status'[t] # "none" => Bus!MsgOf(t) \in 1..Len(events)
  BY <1>3 DEF DocInv
<1>8. \A t \in Bus!Slots : status'[t] = "recording" => Made(Bus!MsgOf(t))
  BY <1>3 DEF DocInv
<1>9. \A t \in Bus!Slots : making'[t] # None =>
         /\ status'[t] = "running"
         /\ making'[t] \in 1..Len(documents) /\ documents[making'[t]].msg = Bus!MsgOf(t)
  BY <1>3, <1>4 DEF DocInv
<1>. QED
  BY <1>1, <1>2, <1>4, <1>5, <1>6, <1>7, <1>8, <1>9 DEF DocInv

\* Document.objects.create (event_handlers.py:46-56).
LEMMA CreateDocumentDocs ==
    ASSUME Parts, Parts', DocInv, NEW s \in Bus!Slots, CreateDocument(s)
    PROVE  DocInv'
<1> DEFINE row == [msg |-> Bus!MsgOf(s), version |-> None]
<1>1. UNCHANGED <<events, stream, status, processed, redone>>
  BY DEF CreateDocument, ingestVars, busVars
<1>2. row \in Document
  BY DEF Bus!Slots, Bus!MsgOf, None, Document
<1>3. documents' = Append(documents, row) /\ documents \in Seq(Document)
  BY DEF CreateDocument, DocInv
<1>4. row.msg = Bus!MsgOf(s)
  OBVIOUS
<1> HIDE DEF row
<1>5. /\ documents' \in Seq(Document)
      /\ Len(documents) \in Nat /\ Len(documents') = Len(documents) + 1
      /\ DOMAIN documents = 1..Len(documents) /\ DOMAIN documents' = 1..Len(documents')
      /\ \A d \in 1..Len(documents) : documents'[d] = documents[d]
      /\ documents'[Len(documents) + 1] = row
  BY <1>2, <1>3
<1>6. ASSUME NEW m, Made(m) PROVE Made(m)'
  BY <1>1, <1>5, <1>6, MadeStays DEF File
<1>7. /\ making' \in [Bus!Slots -> Nat] /\ making'[s] = Len(documents) + 1 /\ status[s] = "running"
      /\ \A t \in Bus!Slots \ {s} : making'[t] = making[t]
  BY <1>5 DEF CreateDocument, DocInv
<1>8. \A t \in Bus!Slots : making'[t] # None =>
         /\ status'[t] = "running"
         /\ making'[t] \in 1..Len(documents') /\ documents'[making'[t]].msg = Bus!MsgOf(t)
  <2>1. making'[s] \in 1..Len(documents') /\ documents'[making'[s]].msg = Bus!MsgOf(s)
    BY <1>4, <1>5, <1>7
  <2>2. ASSUME NEW t \in Bus!Slots \ {s}, making'[t] # None
        PROVE  /\ status'[t] = "running"
               /\ making'[t] \in 1..Len(documents') /\ documents'[making'[t]].msg = Bus!MsgOf(t)
    BY <1>1, <1>5, <1>7, <2>2 DEF DocInv
  <2>. QED
    BY <1>1, <1>7, <2>1, <2>2
<1>9. /\ \A t \in Bus!Slots : status[t] = "recording" => Made(Bus!MsgOf(t))'
      /\ \A m \in processed : m \in 1..Len(events) /\ Made(m)'
  BY <1>6 DEF DocInv
<1>. QED
  BY <1>1, <1>5, <1>7, <1>8, <1>9 DEF DocInv

\* DocumentVersion.objects.create (event_handlers.py:58-67): the version's file is that of
\* the message the document was made for.
LEMMA CreateVersionDocs ==
    ASSUME Parts, Parts', DocInv, NEW s \in Bus!Slots, CreateVersion(s)
    PROVE  DocInv'
<1> DEFINE i == making[s]
           m0 == Bus!MsgOf(s)
           row == [documents[i] EXCEPT !.version = File(m0)]
<1>0. status \in [Bus!Slots -> Bus!Status] /\ making \in [Bus!Slots -> Nat]
  BY PartsTypes DEF DocInv
<1>1. /\ UNCHANGED <<events, stream, processed, redone>>
      /\ status' = [status EXCEPT ![s] = "recording"] /\ status[s] = "running"
      /\ documents' = [documents EXCEPT ![i] = row] /\ making' = [making EXCEPT ![s] = None]
  BY DEF CreateVersion, ingestVars, Bus!HandlerReturns, Bus!TaskFrame, Bus!tables, Bus!Finish
<1>2. /\ i \in 1..Len(documents) /\ documents[i].msg = m0 /\ m0 \in 1..Len(events)
      /\ documents \in Seq(Document)
  BY <1>1 DEF DocInv, CreateVersion
<1>3. File(m0) \in Nat
  BY <1>2, PartsTypes, FlowAssumption DEF File, Ing!Uploads, Ing!IngestionAssumption
<1>4. row \in Document /\ row.msg = m0 /\ row.version = File(m0)
  <2>1. documents[i] \in Document
    BY <1>2
  <2>. QED
    BY <1>2, <1>3, <2>1 DEF Document
<1> HIDE DEF row
<1>5. /\ documents' \in Seq(Document) /\ Len(documents') = Len(documents)
      /\ DOMAIN documents = 1..Len(documents) /\ DOMAIN documents' = 1..Len(documents)
      /\ documents'[i] = row
      /\ \A d \in 1..Len(documents) : d # i => documents'[d] = documents[d]
  BY <1>1, <1>2, <1>4
<1>6. \A d \in DOMAIN documents :
         /\ documents'[d].msg = documents[d].msg
         /\ documents'[d].version = documents[d].version \/ documents'[d].version = File(documents[d].msg)
  BY <1>2, <1>4, <1>5
<1>7. ASSUME NEW m, Made(m) PROVE Made(m)'
  BY <1>1, <1>5, <1>6, <1>7, MadeStays DEF File
<1>8. \A m : m = m0 => Made(m)'
  BY <1>1, <1>2, <1>4, <1>5 DEF Made, File
<1>9. \A t \in Bus!Slots : status'[t] = "recording" => Made(Bus!MsgOf(t))'
  BY <1>0, <1>1, <1>7, <1>8 DEF DocInv
<1>10. \A t \in Bus!Slots : making'[t] # None =>
         /\ status'[t] = "running"
         /\ making'[t] \in 1..Len(documents') /\ documents'[making'[t]].msg = Bus!MsgOf(t)
  BY <1>0, <1>1, <1>5, <1>6 DEF DocInv
<1>11. \A t \in Bus!Slots : status'[t] # "none" => Bus!MsgOf(t) \in 1..Len(events)
  BY <1>0, <1>1 DEF DocInv
<1>12. making' \in [Bus!Slots -> Nat]
  BY <1>0, <1>1 DEF None
<1>13. \A m \in processed : m \in 1..Len(events) /\ Made(m)'
  BY <1>7 DEF DocInv
<1>. QED
  BY <1>1, <1>5, <1>9, <1>10, <1>11, <1>12, <1>13 DEF DocInv

\* Documents, the handlers that make them and the tasks agree in every state.
LEMMA DocsInvariant == Spec => [](Parts /\ DocInv)
<1>1. Spec => []Parts
  BY PartsInvariant DEF Parts
<1>2. Init => DocInv
  <2> SUFFICES ASSUME Init PROVE DocInv
    OBVIOUS
  <2>1. /\ events = <<>> /\ stream = <<>> /\ documents = <<>> /\ redone = 0 /\ processed = {}
        /\ status = [s \in Bus!Slots |-> "none"] /\ making = [s \in Bus!Slots |-> None]
    BY DEF Init, Ing!Init, Bus!Init
  <2>. QED
    BY <2>1 DEF DocInv, None
<1>3. Parts /\ Parts' /\ DocInv /\ [Next]_vars => DocInv'
  BY StepKinds, QuietDocs, MovesDocs, CreateDocumentDocs, CreateVersionDocs
<1>. QED
  BY <1>1, <1>2, <1>3, PTL DEF Spec

\* ProcessedHasDocument: when dispatch_handler has recorded a message, the document of
\* that message is in the table with the file that was published, whatever failed or was
\* done twice on the way (tasks.py:74-78, event_handlers.py:46-67).
THEOREM ProcessedHasDocumentCorrect == Spec => []ProcessedHasDocument
<1>1. DocInv => ProcessedHasDocument
  BY DEF DocInv, ProcessedHasDocument, Made
<1>. QED
  BY <1>1, DocsInvariant, PTL

-----------------------------------------------------------------------------
(* How many documents there are *)

\* A task one document is put down to: the one it is making or has made, unless the
\* attempt failed, which redone counts.  Once its message is recorded no retry makes
\* another (tasks.py:54-60).
Paid(s) ==
    \/ making[s] # None \/ status[s] \in {"recording", "done"}
    \/ status[s] \in {"queued", "skipped", "dead", "failed", "lost"} /\ Bus!MsgOf(s) \in processed

PaidSlots == {s \in Bus!Slots : Paid(s)}

CountInv == Len(documents) <= Cardinality(PaidSlots) + redone

\* There are finitely many tasks, so that those begun can be counted.
LEMMA SlotsFinite == IsFiniteSet(Bus!Slots)
<1>1. IsFiniteSet(Bus!Messages) /\ IsFiniteSet(Bus!Regs) /\ IsFiniteSet(Bus!Epochs)
  <2>1. MaxPublished \in Nat /\ MaxGroupLoss \in Nat
    BY FlowAssumption DEF Bus!ConfigAssumption
  <2>2. IsFiniteSet(1..MaxPublished) /\ IsFiniteSet(0..MaxGroupLoss)
    BY <2>1, FS_Interval
  <2>3. IsFiniteSet({1})
    BY FS_Singleton
  <2>4. Bus!Regs = {1}
    BY DEF Bus!Regs
  <2>. QED
    BY <2>2, <2>3, <2>4 DEF Bus!Messages, Bus!Epochs
<1> DEFINE Pairs == Bus!Messages \X Bus!Regs
           f == [x \in Pairs \X Bus!Epochs |-> <<x[1][1], x[1][2], x[2]>>]
<1>2. IsFiniteSet(Pairs \X Bus!Epochs)
  BY <1>1, FS_Product
<1>3. \A m \in Bus!Messages, r \in Bus!Regs, e \in Bus!Epochs :
         << <<m, r>>, e >> \in Pairs \X Bus!Epochs /\ f[<< <<m, r>>, e >>] = <<m, r, e>>
  OBVIOUS
<1>4. \A s \in Bus!Slots : \E x \in Pairs \X Bus!Epochs : f[x] = s
  <2> SUFFICES ASSUME NEW s \in Bus!Slots PROVE \E x \in Pairs \X Bus!Epochs : f[x] = s
    OBVIOUS
  <2>1. PICK m \in Bus!Messages, r \in Bus!Regs, e \in Bus!Epochs : s = <<m, r, e>>
    BY DEF Bus!Slots
  <2>2. << <<m, r>>, e >> \in Pairs \X Bus!Epochs /\ f[<< <<m, r>>, e >>] = s
    BY <1>3, <2>1
  <2> HIDE DEF f, Pairs
  <2>. QED
    BY <2>2
<1>5. f \in [Pairs \X Bus!Epochs -> Bus!Slots]
  BY DEF Bus!Slots
<1> HIDE DEF f
<1>6. f \in Surjection(Pairs \X Bus!Epochs, Bus!Slots)
  BY <1>4, <1>5 DEF Surjection
<1>. QED
  BY <1>2, <1>6, FS_Surjection

\* No paid task is lost, one is lost and counted in redone, or one is gained.
LEMMA PaidCardinality ==
    /\ IsFiniteSet(PaidSlots) /\ Cardinality(PaidSlots) \in Nat
    /\ IsFiniteSet(PaidSlots') /\ Cardinality(PaidSlots') \in Nat
    /\ PaidSlots \subseteq PaidSlots' => Cardinality(PaidSlots) <= Cardinality(PaidSlots')
    /\ \A s : PaidSlots \ {s} \subseteq PaidSlots' => Cardinality(PaidSlots) <= Cardinality(PaidSlots') + 1
    /\ \A s : s \notin PaidSlots /\ PaidSlots \cup {s} \subseteq PaidSlots' =>
            Cardinality(PaidSlots) + 1 <= Cardinality(PaidSlots')
<1>1. PaidSlots \in SUBSET Bus!Slots /\ PaidSlots' \in SUBSET Bus!Slots
  BY DEF PaidSlots, Bus!Slots, Bus!Messages, Bus!Regs, Bus!Epochs
<1>2. IsFiniteSet(PaidSlots) /\ IsFiniteSet(PaidSlots')
  BY <1>1, SlotsFinite, FS_Subset
<1>3. Cardinality(PaidSlots) \in Nat /\ Cardinality(PaidSlots') \in Nat
  BY <1>2, FS_CardinalityType
<1>4. \A T \in SUBSET PaidSlots' : Cardinality(T) <= Cardinality(PaidSlots')
  BY <1>2, FS_Subset
<1>5. ASSUME NEW s, PaidSlots \ {s} \subseteq PaidSlots'
      PROVE  Cardinality(PaidSlots) <= Cardinality(PaidSlots') + 1
  <2>1. Cardinality(PaidSlots \ {s}) = IF s \in PaidSlots THEN Cardinality(PaidSlots) - 1
                                                           ELSE Cardinality(PaidSlots)
    BY <1>2, FS_RemoveElement
  <2>. QED
    BY <1>3, <1>4, <1>5, <2>1
<1>6. ASSUME NEW s, s \notin PaidSlots, PaidSlots \cup {s} \subseteq PaidSlots'
      PROVE  Cardinality(PaidSlots) + 1 <= Cardinality(PaidSlots')
  <2>1. Cardinality(PaidSlots \cup {s}) = Cardinality(PaidSlots) + 1
    BY <1>2, <1>6, FS_AddElement
  <2>. QED
    BY <1>3, <1>4, <1>6, <2>1
<1>. QED
  BY <1>2, <1>3, <1>4, <1>5, <1>6

\* A new document belongs to a task that had none, or to an attempt that was counted as redone.
LEMMA StepCount ==
    ASSUME Parts, Parts', DocInv, CountInv, [Next]_vars
    PROVE  CountInv'
<1>0. /\ status \in [Bus!Slots -> Bus!Status] /\ making \in [Bus!Slots -> Nat]
      /\ redone \in Nat /\ Len(documents) \in Nat
  BY PartsTypes DEF DocInv
<1>1. CASE Quiet
  <2>1. \A s \in Bus!Slots : status'[s] = status[s] \/ (status[s] = "none" /\ status'[s] = "queued")
    BY <1>0, <1>1 DEF Quiet
  <2>2. UNCHANGED <<documents, making, redone, processed>>
    BY <1>1 DEF Quiet
  <2>3. \A s \in Bus!Slots : Paid(s) => Paid(s)'
    BY <2>1, <2>2 DEF Paid
  <2>4. PaidSlots \subseteq PaidSlots'
    BY <2>3 DEF PaidSlots
  <2>. QED
    BY <1>0, <2>2, <2>4, PaidCardinality DEF CountInv
<1>2. ASSUME NEW s \in Bus!Slots, CreateDocument(s) PROVE CountInv'
  <2>1. /\ UNCHANGED <<status, processed, redone>> /\ status[s] = "running" /\ making[s] = None
        /\ making' = [making EXCEPT ![s] = Len(documents) + 1]
        /\ Len(documents') = Len(documents) + 1
    BY <1>0, <1>2 DEF CreateDocument, busVars, DocInv
  <2>2. ~Paid(s) /\ Paid(s)' /\ \A t \in Bus!Slots : Paid(t) => Paid(t)'
    BY <1>0, <2>1 DEF Paid, None
  <2>3. s \notin PaidSlots /\ PaidSlots \cup {s} \subseteq PaidSlots'
    BY <2>2 DEF PaidSlots
  <2>. QED
    BY <1>0, <2>1, <2>3, PaidCardinality DEF CountInv
<1>3. ASSUME NEW s \in Bus!Slots, CreateVersion(s) PROVE CountInv'
  <2>1. /\ UNCHANGED <<processed, redone>>
        /\ status' = [status EXCEPT ![s] = "recording"] /\ making' = [making EXCEPT ![s] = None]
        /\ Len(documents') = Len(documents)
    BY <1>3 DEF CreateVersion, Bus!HandlerReturns, Bus!tables, Bus!Finish, DocInv
  <2>2. \A t \in Bus!Slots : Paid(t) => Paid(t)'
    BY <1>0, <2>1 DEF Paid
  <2>3. PaidSlots \subseteq PaidSlots'
    BY <2>2 DEF PaidSlots
  <2>. QED
    BY <1>0, <2>1, <2>3, PaidCardinality DEF CountInv
<1>4. ASSUME NEW s \in Bus!Slots, Ends(s) PROVE CountInv'
  <2>1. /\ UNCHANGED <<processed, documents>> /\ status[s] = "running"
        /\ making' = [making EXCEPT ![s] = None]
        /\ redone' = IF making[s] = None THEN redone ELSE redone + 1
        /\ \A t \in Bus!Slots \ {s} : status'[t] = status[t]
    BY <1>0, <1>4 DEF Ends, Abandon
  <2>2. \A t \in Bus!Slots \ {s} : Paid(t) => Paid(t)'
    BY <1>0, <2>1 DEF Paid
  <2>3. PaidSlots \ {s} \subseteq PaidSlots' /\ (making[s] = None => PaidSlots \subseteq PaidSlots')
    BY <2>1, <2>2 DEF PaidSlots, Paid
  <2>4. CASE making[s] = None
    BY <1>0, <2>1, <2>3, <2>4, PaidCardinality DEF CountInv
  <2>5. Cardinality(PaidSlots) <= Cardinality(PaidSlots') + 1
    BY <2>3, PaidCardinality, Zenon
  <2>6. Cardinality(PaidSlots) \in Nat /\ Cardinality(PaidSlots') \in Nat
    BY PaidCardinality
  <2>. QED
    BY <1>0, <2>1, <2>4, <2>5, <2>6 DEF CountInv
<1>5. ASSUME NEW s \in Bus!Slots, Moves(s) PROVE CountInv'
  <2>1. /\ UNCHANGED <<documents, making>> /\ processed \subseteq processed'
        /\ \A t \in Bus!Slots \ {s} : status'[t] = status[t]
    BY <1>0, <1>5 DEF Moves
  <2>2. \A t \in Bus!Slots \ {s} : Paid(t) => Paid(t)'
    BY <2>1 DEF Paid
  <2>3. PaidSlots \ {s} \subseteq PaidSlots'
    BY <2>2 DEF PaidSlots
  <2>4. redone' = redone + 1 \/ (redone' = redone /\ (Paid(s) => Paid(s)'))
    <3>1. making[s] = None
      BY <1>5 DEF Moves, DocInv
    <3>. QED
      BY <1>0, <1>5, <3>1 DEF Moves, Paid
  <2>5. CASE redone' = redone + 1
    <3>1. Cardinality(PaidSlots) <= Cardinality(PaidSlots') + 1
      BY <2>3, PaidCardinality, Zenon
    <3>2. Cardinality(PaidSlots) \in Nat /\ Cardinality(PaidSlots') \in Nat
      BY PaidCardinality
    <3>. QED
      BY <1>0, <2>1, <2>5, <3>1, <3>2 DEF CountInv
  <2>6. CASE redone' = redone /\ (Paid(s) => Paid(s)')
    <3>1. PaidSlots \subseteq PaidSlots'
      BY <2>2, <2>6 DEF PaidSlots
    <3>. QED
      BY <1>0, <2>1, <2>6, <3>1, PaidCardinality DEF CountInv
  <2>. QED
    BY <2>4, <2>5, <2>6
<1>. QED
  BY <1>1, <1>2, <1>3, <1>4, <1>5, StepKinds

\* ExtraDocumentsExplained: every document beyond one per task stems from an attempt that
\* failed after its first insert; neither redelivery nor retries of what is recorded add
\* any (tasks.py:54-60, event_handlers.py:46-56).
THEOREM ExtraDocumentsExplainedCorrect == Spec => []ExtraDocumentsExplained
<1>1. Init => CountInv
  <2> SUFFICES ASSUME Init PROVE CountInv
    OBVIOUS
  <2>1. Len(documents) = 0 /\ redone = 0
    BY DEF Init
  <2>. QED
    BY <2>1, PaidCardinality DEF CountInv
<1>2. DocInv /\ Parts /\ CountInv => ExtraDocumentsExplained
  <2> SUFFICES ASSUME DocInv, Parts, CountInv PROVE ExtraDocumentsExplained
    OBVIOUS
  <2> DEFINE Begun == {s \in Bus!Slots : status[s] # "none"}
  <2>1. IsFiniteSet(Begun) /\ Cardinality(Begun) \in Nat
    <3>1. Begun \in SUBSET Bus!Slots
      OBVIOUS
    <3>. QED
      BY <3>1, SlotsFinite, FS_Subset, FS_CardinalityType
  <2>2. PaidSlots \in SUBSET Begun
    BY DEF PaidSlots, Paid, DocInv
  <2>3. Cardinality(PaidSlots) <= Cardinality(Begun) /\ Cardinality(PaidSlots) \in Nat
    BY <2>1, <2>2, FS_Subset, PaidCardinality
  <2>. QED
    BY <2>1, <2>3 DEF CountInv, ExtraDocumentsExplained, DocInv
<1>. QED
  BY <1>1, <1>2, StepCount, DocsInvariant, PTL DEF Spec

=============================================================================
