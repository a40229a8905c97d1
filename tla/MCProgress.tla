----------------------------- MODULE MCProgress -----------------------------
(* Progress, for TLC: polls and handlers on a finite pool, where a task must wait for a
   worker, and an upload on its way through pipeline and bus, where every task gets one.
   They share no state: a behaviour is of the one that focus names. *)
EXTENDS PollWorkers

CONSTANTS p1, p2, w1, w2,
    MaxUploads, PipelineRetries, PipelineFaults,
    HandlerRetries, Pollers, BusFaults, FlowPublished, MaxGroupLoss, HandlerMayRaise

VARIABLES
    focus,
    valid, state, key, put, pc, attempt, local, doubt, events,
    stream, groupExists, cursor, pel, epoch, pollPc, pollEpoch, next, last, todo,
    status, retries, succ, fault, processed, dlq, documents, making, redone

Flow == INSTANCE DocumentFlow WITH MaxPublished <- FlowPublished

flowVars ==
    <<valid, state, key, put, pc, attempt, local, doubt, events,
      stream, groupExists, cursor, pel, epoch, pollPc, pollEpoch, next, last, todo,
      status, retries, succ, fault, processed, dlq, documents, making, redone>>
allVars == <<focus, vars, flowVars>>

OfFlow(step) == focus = "flow" /\ step /\ UNCHANGED <<focus, vars>>
OfPool(step) == focus = "pool" /\ step /\ UNCHANGED <<focus, flowVars>>

ProgressInit == focus \in {"flow", "pool"} /\ Init /\ Flow!Init
ProgressNext == OfFlow(Flow!Next) \/ OfPool(Next)

ProgressSpec ==
    /\ ProgressInit /\ [][ProgressNext]_allVars
    /\ \A u \in Flow!Ing!Uploads : WF_allVars(OfFlow(Flow!IngestStep(u)))
    /\ \A p \in Pollers : WF_allVars(OfFlow(Flow!PollStep(p)))
    /\ \A s \in Flow!Bus!Slots : WF_allVars(OfFlow(Flow!SlotStep(s)))
    /\ WF_allVars(OfPool(Beat))
    /\ \A w \in Workers : WF_allVars(OfPool(WorkerStep(w)))

UploadAccountedFor == Flow!UploadAccountedFor
EventuallySettled  == Flow!EventuallySettled
=============================================================================
