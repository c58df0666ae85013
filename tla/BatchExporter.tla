---------------------------- MODULE BatchExporter ----------------------------
(***************************************************************************)
(* spanforge/_batch_exporter.py: a bounded queue between the threads that  *)
(* call put(), flush() and shutdown() and one daemon thread that exports   *)
(* what they queued, with a circuit breaker in front of put().             *)
(*                                                                         *)
(* Every call of put, flush and shutdown is a process of its own: an event *)
(* names the call put(event), and the members of Flushes and Shutdowns     *)
(* name calls.  A step is what happens between two points where another    *)
(* thread may run: one operation of queue.Queue, one critical section of   *)
(* _cb_lock, or one read or write of a threading.Event.                    *)
(***************************************************************************)
EXTENDS Naturals, Sequences, SequencesExt

CONSTANTS
  Events,        \* the calls put(event); each queues a different event
  Flushes,       \* the calls flush(); a call's done_event is the call itself
  Shutdowns,     \* the calls shutdown()
  Sentinel,      \* _SENTINEL, which is None
  MaxQueueSize,  \* max_queue_size
  BatchSize,     \* batch_size
  Threshold      \* _CIRCUIT_BREAKER_THRESHOLD

Items == Events \cup Flushes \cup {Sentinel}

ASSUME ItemsAssumption ==
  /\ Events \cap Flushes = {}
  /\ Sentinel \notin Events \cup Flushes

ASSUME SizesAssumption ==
  /\ MaxQueueSize \in Nat \ {0}
  /\ BatchSize \in Nat \ {0}
  /\ Threshold \in Nat \ {0}

VARIABLES
  putPc,       \* where each put() is; "queued" returned True, "rejected" False
  flushPc,     \* where each flush() is; "true" and "false" are its results
  shutdownPc,  \* where each shutdown() is
  queue,       \* self._queue
  stop,        \* self._stop_event
  done,        \* the done_events that are set
  wpc,         \* where the worker thread is
  item,        \* the worker's local variable item
  batch,       \* the worker's local variable batch, less what it has exported
  reason,      \* which branch of _worker is draining and exporting
  cbOpen,      \* self._cb_open
  cbFailures,  \* self._cb_consecutive_failures
  order,       \* history: events and flush tags in the order they were queued
  attempted,   \* history: events in the order _export_fn was called
  failed       \* history: the events whose export raised

callerVars == <<putPc, flushPc, shutdownPc, stop>>
circuitVars == <<cbOpen, cbFailures>>
exportVars == <<attempted, failed>>
workerVars == <<wpc, item, batch, reason>>
vars == <<callerVars, queue, done, workerVars, circuitVars, order, exportVars>>

TypeOK ==
  /\ putPc \in [Events -> {"idle", "admitted", "checked", "queued", "rejected"}]
  /\ flushPc \in [Flushes -> {"idle", "alive", "waiting", "true", "false"}]
  /\ shutdownPc \in [Shutdowns -> {"idle", "alive", "set", "join", "returned", "timedOut"}]
  /\ queue \in Seq(Items)
  /\ Len(queue) <= MaxQueueSize
  /\ stop \in BOOLEAN
  /\ done \subseteq Flushes
  /\ wpc \in {"get", "dispatch", "drain", "export", "dead"}
  /\ item \in Items
  /\ batch \in Seq(Events)
  /\ reason \in {"full", "flush", "stop"}
  /\ cbOpen \in BOOLEAN
  /\ cbFailures \in Nat
  /\ order \in Seq(Events \cup Flushes)
  /\ attempted \in Seq(Events)
  /\ failed \subseteq Events

Init ==
  /\ putPc = [e \in Events |-> "idle"]
  /\ flushPc = [f \in Flushes |-> "idle"]
  /\ shutdownPc = [s \in Shutdowns |-> "idle"]
  /\ queue = <<>>
  /\ stop = FALSE
  /\ done = {}
  /\ wpc = "get"
  /\ item = Sentinel
  /\ batch = <<>>
  /\ reason = "full"
  /\ cbOpen = FALSE
  /\ cbFailures = 0
  /\ order = <<>>
  /\ attempted = <<>>
  /\ failed = {}

Alive == wpc # "dead"          \* self._thread.is_alive()

HasRoom == Len(queue) < MaxQueueSize

\* Mutant: a batch that starts anew.
JoinNewBatch(e) == batch' = <<e>>
JoinBatch(e) == batch' = Append(batch, e)       \* batch.append(item)

----------------------------------------------------------------------------
(* put(event).                                                              *)

\* _circuit_is_open(): an open circuit closes by itself once the reset
\* interval has passed, which the caller finds out here and nowhere else.
PutCheckCircuit(e) ==
  /\ putPc[e] = "idle"
  /\ \/ /\ ~cbOpen
        /\ putPc' = [putPc EXCEPT ![e] = "admitted"]
        /\ UNCHANGED circuitVars
     \/ /\ cbOpen
        /\ putPc' = [putPc EXCEPT ![e] = "rejected"]
        /\ UNCHANGED circuitVars
     \/ /\ cbOpen
        /\ cbOpen' = FALSE
        /\ cbFailures' = 0
        /\ putPc' = [putPc EXCEPT ![e] = "admitted"]
  /\ UNCHANGED <<flushPc, shutdownPc, stop, queue, done, workerVars, order, exportVars>>

PutCheckStop(e) ==
  /\ putPc[e] = "admitted"
  /\ putPc' = [putPc EXCEPT ![e] = IF stop THEN "rejected" ELSE "checked"]
  /\ UNCHANGED <<flushPc, shutdownPc, stop, queue, done, workerVars, circuitVars,
                 order, exportVars>>

PutEnqueue(e) ==
  /\ putPc[e] = "checked"
  /\ \/ /\ HasRoom
        /\ queue' = Append(queue, e)
        /\ order' = Append(order, e)
        /\ putPc' = [putPc EXCEPT ![e] = "queued"]
     \/ /\ ~HasRoom
        /\ putPc' = [putPc EXCEPT ![e] = "rejected"]
        /\ UNCHANGED <<queue, order>>
  /\ UNCHANGED <<flushPc, shutdownPc, stop, done, workerVars, circuitVars, exportVars>>

----------------------------------------------------------------------------
(* flush(timeout_seconds).                                                  *)

FlushStart(f) ==
  /\ flushPc[f] = "idle"
  /\ flushPc' = [flushPc EXCEPT ![f] = IF Alive THEN "alive" ELSE "true"]
  /\ UNCHANGED <<putPc, shutdownPc, stop, queue, done, workerVars, circuitVars,
                 order, exportVars>>

FlushEnqueue(f) ==
  /\ flushPc[f] = "alive"
  /\ \/ /\ HasRoom
        /\ queue' = Append(queue, f)
        /\ order' = Append(order, f)
        /\ flushPc' = [flushPc EXCEPT ![f] = "waiting"]
     \/ /\ ~HasRoom
        /\ flushPc' = [flushPc EXCEPT ![f] = "false"]
        /\ UNCHANGED <<queue, order>>
  /\ UNCHANGED <<putPc, shutdownPc, stop, done, workerVars, circuitVars, exportVars>>

\* done_event.wait(): True once the event is set, False when time is up first.
FlushReturn(f) ==
  /\ flushPc[f] = "waiting"
  /\ flushPc' = [flushPc EXCEPT ![f] = IF f \in done THEN "true" ELSE "false"]
  /\ UNCHANGED <<putPc, shutdownPc, stop, queue, done, workerVars, circuitVars,
                 order, exportVars>>

----------------------------------------------------------------------------
(* shutdown(timeout_seconds).                                               *)

ShutdownStart(s) ==
  /\ shutdownPc[s] = "idle"
  /\ shutdownPc' = [shutdownPc EXCEPT ![s] = IF Alive THEN "alive" ELSE "returned"]
  /\ UNCHANGED <<putPc, flushPc, stop, queue, done, workerVars, circuitVars,
                 order, exportVars>>

ShutdownSetStop(s) ==
  /\ shutdownPc[s] = "alive"
  /\ shutdownPc' = [shutdownPc EXCEPT ![s] = "set"]
  /\ stop' = TRUE
  /\ UNCHANGED <<putPc, flushPc, queue, done, workerVars, circuitVars, order, exportVars>>

\* A full queue swallows the sentinel: queue.Full is suppressed.
ShutdownWakeWorker(s) ==
  /\ shutdownPc[s] = "set"
  /\ shutdownPc' = [shutdownPc EXCEPT ![s] = "join"]
  /\ queue' = IF HasRoom THEN Append(queue, Sentinel) ELSE queue
  /\ UNCHANGED <<putPc, flushPc, stop, done, workerVars, circuitVars, order, exportVars>>

ShutdownJoin(s) ==
  /\ shutdownPc[s] = "join"
  /\ shutdownPc' = [shutdownPc EXCEPT ![s] = IF Alive THEN "timedOut" ELSE "returned"]
  /\ UNCHANGED <<putPc, flushPc, stop, queue, done, workerVars, circuitVars,
                 order, exportVars>>

----------------------------------------------------------------------------
(* The worker thread.                                                       *)

\* Mutant: the get without a timeout.
WorkerGetBlocks ==
  /\ wpc = "get"
  /\ wpc' = "dispatch"
  /\ queue # <<>>
  /\ item' = Head(queue)
  /\ queue' = Tail(queue)
  /\ UNCHANGED <<callerVars, done, batch, reason, circuitVars, order, exportVars>>

\* self._queue.get(timeout=remaining): an item if there is one, else None
\* once the flush interval is over -- and None is also _SENTINEL.
WorkerGet ==
  /\ wpc = "get"
  /\ wpc' = "dispatch"
  /\ \/ /\ queue # <<>>
        /\ item' = Head(queue)
        /\ queue' = Tail(queue)
     \/ /\ queue = <<>>
        /\ item' = Sentinel
        /\ UNCHANGED queue
  /\ UNCHANGED <<callerVars, done, batch, reason, circuitVars, order, exportVars>>

\* `item is _SENTINEL or self._stop_event.is_set()`: the item in hand, when
\* it is an event or a flush tag, goes nowhere.
WorkerStop ==
  /\ wpc = "dispatch"
  /\ item = Sentinel \/ stop
  /\ wpc' = "drain"
  /\ reason' = "stop"
  /\ UNCHANGED <<callerVars, queue, done, item, batch, circuitVars, order, exportVars>>

\* Mutant: the caller is released before the batch is exported.
WorkerFlushReleasesFirst ==
  /\ wpc = "dispatch"
  /\ ~stop
  /\ item \in Flushes
  /\ wpc' = "drain"
  /\ reason' = "flush"
  /\ done' = done \cup {item}
  /\ UNCHANGED <<callerVars, queue, item, batch, circuitVars, order, exportVars>>

WorkerFlush ==
  /\ wpc = "dispatch"
  /\ ~stop
  /\ item \in Flushes
  /\ wpc' = "drain"
  /\ reason' = "flush"
  /\ UNCHANGED <<callerVars, queue, done, item, batch, circuitVars, order, exportVars>>

\* time_expired may hold whatever the batch: the deadline is real time.
WorkerBatch ==
  /\ wpc = "dispatch"
  /\ ~stop
  /\ item \in Events
  /\ JoinBatch(item)
  /\ \/ wpc' = "export"
     \/ Len(batch') < BatchSize /\ wpc' = "get"
  /\ reason' = "full"
  /\ UNCHANGED <<callerVars, queue, done, item, circuitVars, order, exportVars>>

\* One get_nowait() of _drain_queue: events join the batch, the callers of
\* drained flush tags are released at once.
WorkerDrain ==
  /\ wpc = "drain"
  /\ queue # <<>>
  /\ queue' = Tail(queue)
  /\ IF Head(queue) \in Events THEN JoinBatch(Head(queue)) ELSE UNCHANGED batch
  /\ done' = IF Head(queue) \in Flushes THEN done \cup {Head(queue)} ELSE done
  /\ UNCHANGED <<callerVars, wpc, item, reason, circuitVars, order, exportVars>>

WorkerDrained ==
  /\ wpc = "drain"
  /\ queue = <<>>
  /\ wpc' = "export"
  /\ UNCHANGED <<callerVars, queue, done, item, batch, reason, circuitVars, order,
                 exportVars>>

\* Mutant: a success closes the circuit and keeps the count.
RecordSuccessKeepsCount ==
  /\ UNCHANGED cbFailures
  /\ cbOpen' = FALSE

RecordSuccess ==
  /\ cbFailures' = 0
  /\ cbOpen' = FALSE

RecordFailure ==
  /\ cbFailures' = cbFailures + 1
  /\ cbOpen' = (cbOpen \/ cbFailures' >= Threshold)

\* Mutant: an export that raised is tried again.
WorkerExportRetries ==
  /\ wpc = "export"
  /\ batch # <<>>
  /\ attempted' = Append(attempted, Head(batch))
  /\ \/ RecordSuccess /\ batch' = Tail(batch) /\ UNCHANGED failed
     \/ RecordFailure /\ failed' = failed \cup {Head(batch)} /\ UNCHANGED batch
  /\ UNCHANGED <<callerVars, queue, done, wpc, item, reason, order>>

\* One turn of the loop in _export_batch; the export succeeds or raises.
WorkerExport ==
  /\ wpc = "export"
  /\ batch # <<>>
  /\ attempted' = Append(attempted, Head(batch))
  /\ batch' = Tail(batch)
  /\ \/ RecordSuccess /\ UNCHANGED failed
     \/ RecordFailure /\ failed' = failed \cup {Head(batch)}
  /\ UNCHANGED <<callerVars, queue, done, wpc, item, reason, order>>

\* What follows _export_batch in the branch of _worker that called it.
WorkerExported ==
  /\ wpc = "export"
  /\ batch = <<>>
  /\ wpc' = IF reason = "stop" THEN "dead" ELSE "get"
  /\ done' = IF reason = "flush" THEN done \cup {item} ELSE done
  /\ UNCHANGED <<callerVars, queue, item, batch, reason, circuitVars, order, exportVars>>

Worker ==
  \/ WorkerGet \/ WorkerStop \/ WorkerFlush \/ WorkerBatch
  \/ WorkerDrain \/ WorkerDrained \/ WorkerExport \/ WorkerExported

Put(e) == PutCheckCircuit(e) \/ PutCheckStop(e) \/ PutEnqueue(e)
Flush(f) == FlushStart(f) \/ FlushEnqueue(f) \/ FlushReturn(f)
Shutdown(s) ==
  ShutdownStart(s) \/ ShutdownSetStop(s) \/ ShutdownWakeWorker(s) \/ ShutdownJoin(s)

Next ==
  \/ \E e \in Events : Put(e)
  \/ \E f \in Flushes : Flush(f)
  \/ \E s \in Shutdowns : Shutdown(s)
  \/ Worker

Spec == Init /\ [][Next]_vars

\* The worker is a running thread, and a shutdown() that was begun goes on.
FairSpec ==
  /\ Spec
  /\ WF_vars(Worker)
  /\ \A s \in Shutdowns : WF_vars(ShutdownSetStop(s) \/ ShutdownWakeWorker(s))

----------------------------------------------------------------------------
(* Properties.                                                              *)

InHand == IF wpc = "dispatch" /\ item \in Events THEN <<item>> ELSE <<>>

\* The events in the queue q, in order.
EventsIn(q) ==
  LET F[n \in 0 .. Len(q)] ==
        IF n = 0 THEN <<>>
        ELSE IF q[n] \in Events THEN Append(F[n - 1], q[n]) ELSE F[n - 1]
  IN  F[Len(q)]

\* The accepted events that are still on their way to the exporter, in order.
Pipeline == batch \o InHand \o EventsIn(queue)

Accepted == {e \in Events : putPc[e] = "queued"}
Present == ToSet(queue) \cup ToSet(InHand) \cup ToSet(batch) \cup ToSet(attempted)

\* Events put() answered True for that are nowhere any more.
Lost == Accepted \ Present

\* Events put() answered True for that wait in the queue of a worker that has
\* ended: nobody will take them.
Stranded == IF wpc = "dead" THEN Accepted \cap ToSet(queue) ELSE {}

\* What the end of the worker leaves unexported: the one event in its hand
\* when it found the stop event set, which is nowhere any more, and those that
\* were queued after its last drain.  All other accepted events are exported
\* by then, and before the stop none is missing.
OnlyItemAndStrandedGoUnexported ==
  /\ Lost \subseteq {item}
  /\ Lost # {} => stop /\ reason = "stop"
  /\ wpc = "dead" => Accepted \subseteq ToSet(attempted) \cup Lost \cup Stranded

\* An open circuit means the most recent Threshold exports all failed: a
\* success in between, or an earlier reset, starts the count again.
CircuitOpensOnConsecutiveFailures ==
  cbOpen =>
    /\ Len(attempted) >= Threshold
    /\ \A i \in Len(attempted) - Threshold + 1 .. Len(attempted) :
         attempted[i] \in failed

\* The events queued before the tag of flush call f.
QueuedBefore(f) ==
  {order[i] : i \in {k \in DOMAIN order :
                       order[k] \in Events /\ \E j \in DOMAIN order : j > k /\ order[j] = f}}

\* What a released flush call may rely on.  The tag the worker took in hand is
\* released only when all that was queued before it has been exported.  A tag
\* found by a drain is released earlier, when what was queued before it has
\* left the queue and waits in the batch, but for an event the stop has lost.
FlushIsReleasedBehindItsEvents ==
  [][\A f \in done' \ done :
       /\ QueuedBefore(f) \subseteq ToSet(batch) \cup ToSet(attempted) \cup Lost
       /\ f = item => QueuedBefore(f) \subseteq ToSet(attempted)]_vars

\* The pipeline implements the abstract lossy FIFO: it neither reorders nor
\* duplicates, and what it gives up is given up silently.
Fifo == INSTANCE LossyFifo WITH Elements <- Events, pipe <- Pipeline, delivered <- attempted
ImplementsLossyFifo == Fifo!FifoSpec

\* Once the stop event is set the worker ends, even when the queue was full
\* and swallowed the sentinel.
StopEndsTheWorker == stop ~> (wpc = "dead")

----------------------------------------------------------------------------
(* What the documentation says and the code does not do.                    *)

\* flush_interval_seconds is how long a partial batch waits, not how long the
\* worker lives: the thread ends only after shutdown().
WorkerEndsOnlyOnShutdown == wpc = "dead" => stop

\* flush(): "Block until all currently queued events have been exported" --
\* True means that everything queued before the tag has been.
FlushReturnsAfterItsExports ==
  \A f \in Flushes : flushPc[f] = "true" => QueuedBefore(f) \subseteq ToSet(attempted)

\* shutdown(): "Flush remaining events and stop the background thread" -- once
\* it has joined the worker no accepted event is lost.
ShutdownFlushesTheRest ==
  \A s \in Shutdowns : shutdownPc[s] = "returned" => Lost = {}

----------------------------------------------------------------------------
\* For TLC: the calls of one kind are interchangeable (runs without liveness).
CallSymmetry == Permutations(Events) \cup Permutations(Flushes)
=============================================================================
