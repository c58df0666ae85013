------------------------------ MODULE MCLiveness ------------------------------
(***************************************************************************)
(* The two pipelines that a caller waits for, checked in one run because    *)
(* both ask for liveness: a behaviour chooses the dispatch of events or the *)
(* batch exporter.  The fairness is that of StreamDispatch!Spec and of      *)
(* BatchExporter!FairSpec.                                                  *)
(***************************************************************************)
EXTENDS StreamDispatch

VARIABLES component,  \* the component this behaviour exercises
          putPc, flushPc, shutdownPc, queue, stop, done, wpc, item, batch, reason,
          cbOpen, cbFailures, order, attempted, raised

batchVars == <<putPc, flushPc, shutdownPc, queue, stop, done, wpc, item, batch, reason,
               cbOpen, cbFailures, order, attempted, raised>>
allVars == <<component, vars, batchVars>>

Calls == {"s1"}
Batch == INSTANCE BatchExporter
    WITH failed <- raised, Events <- {"e1", "e2"}, Flushes <- {"f1"}, Shutdowns <- Calls,
         Sentinel <- "sentinel", MaxQueueSize <- 1, BatchSize <- 2, Threshold <- 2

InStream(A) == component = "stream" /\ A /\ UNCHANGED <<component, batchVars>>
InBatch(A) == component = "batch" /\ A /\ UNCHANGED <<component, vars>>

LiveInit == component \in {"stream", "batch"} /\ Init /\ Batch!Init

StreamStep == InStream(Next)
BatchStep == InBatch(Batch!Next)

LiveSpec ==
    /\ LiveInit /\ [][StreamStep \/ BatchStep]_allVars
    /\ \A t \in Threads : WF_allVars(InStream(Continue(t)))
    /\ WF_allVars(InBatch(Batch!Worker))
    /\ \A s \in Calls : WF_allVars(InBatch(Batch!ShutdownSetStop(s) \/ Batch!ShutdownWakeWorker(s)))

(* Once the stop event of the batch exporter is set its worker ends, even    *)
(* when the queue was full and swallowed the sentinel.                       *)
StopEndsTheWorker == Batch!StopEndsTheWorker
=============================================================================
