----------------------------- MODULE RemoteExport -----------------------------
(***************************************************************************)
(* The exporters that ship events over HTTP: CloudExporter (export/cloud.py) *)
(* with its bounded queue and its background flush threads, the Splunk HEC   *)
(* exporter (export/siem_splunk.py) that sends under its lock and counts,    *)
(* and the webhook exporter (export/webhook.py) that posts in the call.  A   *)
(* behaviour uses one of them.  An event is its number in the order in which *)
(* the exporter accepted it; the endpoint is external: it may take a batch,  *)
(* refuse it (4xx), fail (5xx, no connection), or take it and lose its       *)
(* answer; and the post may end in an exception that no retry is made for.   *)
(***************************************************************************)
EXTENDS Naturals, Sequences, SequencesExt, FiniteSets

CONSTANTS ExCallers,     \* the threads that call the exporter, an event loop each
          ExBatchSize,   \* _batch_size
          ExQueueSize,   \* _MAX_QUEUE_SIZE
          ExRetries,     \* how often one batch is posted before it is given up
          ExCalls        \* bound: calls begun

VARIABLES exKind,      \* the exporter in use: "cloud", "splunk" or "webhook"; "none" before
          exQueue,     \* _queue; Splunk's _pending
          exClosed, exStop, \* _closed, _stop_event
          exRef,       \* _flush_thread: the caller that started it, or "none"
          exProc,      \* the callers and the flush thread each has started
          exBegun, exNext,  \* calls begun; the number of the next event accepted
          exCounts,    \* Splunk's _sent_count and _error_count
          exReceived,  \* the endpoint: the events it has received
          exInOrder,   \* history: whether each event first came after all earlier ones
          exRejected,  \* events whose batch was refused, ended in another exception,
                       \* or was given up by a webhook
          exOverlap    \* whether two batches were ever under way at once
exVars == <<exKind, exQueue, exClosed, exStop, exRef, exProc, exBegun, exNext, exCounts,
            exReceived, exInOrder, exRejected, exOverlap>>
receivedVars == <<exReceived, exInOrder>>
endpointVars == <<receivedVars, exRejected>>

Kinds == {"cloud", "splunk", "webhook"}
Procs == ExCallers \X {"caller", "loop"}
Caller(t) == <<t, "caller">>
Loop(t) == <<t, "loop">>
Fresh(place) == [at |-> place, batch |-> <<>>, tries |-> 0, flush |-> FALSE, closing |-> FALSE]
Closing(place) == [Fresh(place) EXCEPT !.closing = TRUE]
Go(p, place) == [p EXCEPT !.at = place]
Rest(w) == Fresh(IF w[2] = "loop" THEN "off" ELSE "idle")
At(w, place) == exProc[w].at = place
Move(w, p) == exProc' = [exProc EXCEPT ![w] = p]
Sending == {w \in Procs : At(w, "sending")}

Batch(q) == SubSeq(q, 1, IF Len(q) < ExBatchSize THEN Len(q) ELSE ExBatchSize)
NewCall == exBegun < ExCalls /\ exBegun' = exBegun + 1
Receive(batch) ==
    /\ exReceived' = exReceived \cup Range(batch)
    /\ exInOrder' = (exInOrder /\ \A i \in DOMAIN batch : batch[i] \notin exReceived =>
                                     /\ \A e \in exReceived : e < batch[i]
                                     /\ \A j \in DOMAIN batch : j < i => batch[j] <= batch[i])

----------------------------------------------------------------------------
(* export(): the test of _closed; then, under the lock, the test of the      *)
(* bound and the append; then _ensure_flush_thread(), which no lock guards.  *)
export(t) ==
    LET w == Caller(t) IN
    /\ exKind = "cloud" /\ At(w, "idle") /\ ~exClosed /\ NewCall
    /\ Move(w, Fresh("appending"))
    /\ UNCHANGED <<exKind, exQueue, exClosed, exStop, exRef, exNext, exCounts, endpointVars, exOverlap>>

append(t) ==
    LET w == Caller(t)
        room == Len(exQueue) < ExQueueSize IN
    /\ At(w, "appending")
    /\ exQueue' = IF room THEN Append(exQueue, exNext) ELSE exQueue
    /\ exNext' = IF room THEN exNext + 1 ELSE exNext
    /\ Move(w, IF room THEN [Fresh("ensuring") EXCEPT !.flush = Len(exQueue') >= ExBatchSize]
                       ELSE Rest(w))                              \* CloudExporterError: full
    /\ UNCHANGED <<exKind, exClosed, exStop, exRef, exBegun, exCounts, endpointVars, exOverlap>>

Ensured(p) == IF p.flush THEN Go(p, "flushing") ELSE Go(p, "idle")
Alive(t) == t # "none" /\ ~At(Loop(t), "off")

_ensure_flush_thread(t) ==
    LET w == Caller(t) IN
    /\ At(w, "ensuring")
    /\ Move(w, IF Alive(exRef) THEN Ensured(exProc[w]) ELSE Go(exProc[w], "starting"))
    /\ UNCHANGED <<exKind, exQueue, exClosed, exStop, exRef, exBegun, exNext, exCounts, endpointVars, exOverlap>>

(* A thread started after close() has set the event ends before its first    *)
(* batch; it is not told from one that never ran.                            *)
Started(p) == IF exStop \/ p.at # "off" THEN p ELSE Go(p, "waiting")
start_flush_thread(t) ==
    LET w == Caller(t) IN
    /\ At(w, "starting")
    /\ exRef' = t
    /\ exProc' = [exProc EXCEPT ![w] = Ensured(@), ![Loop(t)] = Started(@)]
    /\ UNCHANGED <<exKind, exQueue, exClosed, exStop, exBegun, exNext, exCounts, endpointVars, exOverlap>>

(* flush() by a caller; the test of _closed of every flush.                  *)
flush(t) ==
    LET w == Caller(t) IN
    /\ exKind = "cloud"
    /\ \/ At(w, "idle") /\ ~exClosed /\ NewCall /\ Move(w, Fresh("taking"))
       \/ At(w, "flushing")
          /\ UNCHANGED exBegun
          /\ Move(w, IF ~exClosed THEN Go(exProc[w], "taking")
                     ELSE IF exProc[w].closing THEN Closing("shutting") ELSE Rest(w))
    /\ UNCHANGED <<exKind, exQueue, exClosed, exStop, exRef, exNext, exCounts, endpointVars, exOverlap>>

(* close(): the event is set, the thread joined (or the join gives up after  *)
(* its timeout), one batch flushed, and only then the exporter closed.       *)
close(t) ==
    LET w == Caller(t) IN
    /\ exKind = "cloud" /\ At(w, "idle") /\ NewCall
    /\ exStop' = TRUE /\ Move(w, Closing("flushing"))
    /\ UNCHANGED <<exKind, exQueue, exClosed, exRef, exNext, exCounts, endpointVars, exOverlap>>

set_closed(t) ==
    LET w == Caller(t) IN
    /\ At(w, "shutting")
    /\ exClosed' = TRUE /\ Move(w, Rest(w))
    /\ UNCHANGED <<exKind, exQueue, exStop, exRef, exBegun, exNext, exCounts, endpointVars, exOverlap>>

(* A thread wakes up after the interval, or ends.                            *)
_flush_loop(t) ==
    LET w == Loop(t) IN
    /\ At(w, "waiting")
    /\ Move(w, Go(exProc[w], IF exStop THEN "off" ELSE "taking"))
    /\ UNCHANGED <<exKind, exQueue, exClosed, exStop, exRef, exBegun, exNext, exCounts, endpointVars, exOverlap>>

(* Where a process goes when its batch is settled.                           *)
Settled(w) ==
    IF w[2] = "loop" THEN Fresh("waiting")
    ELSE IF exProc[w].closing THEN Closing("shutting") ELSE Rest(w)

take_batch(w) ==
    LET batch == Batch(exQueue) IN
    /\ At(w, "taking")
    /\ exQueue' = SubSeq(exQueue, Len(batch) + 1, Len(exQueue))
    /\ Move(w, IF batch = <<>> THEN Settled(w) ELSE [exProc[w] EXCEPT !.at = "sending", !.batch = batch])
    /\ exOverlap' = (exOverlap \/ (batch # <<>> /\ Sending # {}))
    /\ UNCHANGED <<exKind, exClosed, exStop, exRef, exBegun, exNext, exCounts, endpointVars>>

(* Mutants: a batch that was given up is forgotten, or put back in the wrong *)
(* order.                                                                    *)
ForgetBatch(batch, q) == q
ExtendLeft(batch, q) == Reverse(batch) \o q

PutBack(batch, q) == batch \o q

(* A refusal, and any exception but a network error, whether or not the      *)
(* endpoint had the batch by then, raises out of the call or is logged by    *)
(* the thread; either way the batch is gone, and close() leaves the exporter *)
(* open.                                                                     *)
Refused(w) == IF w[2] = "loop" THEN Settled(w) ELSE Rest(w)

_send_batch(w) ==
    LET p == exProc[w]
        give_up == p.tries + 1 = ExRetries IN
    /\ At(w, "sending")
    /\ \/ Receive(p.batch) /\ Move(w, Settled(w)) /\ UNCHANGED <<exQueue, exRejected>>
       \/ /\ Receive(p.batch) \/ UNCHANGED receivedVars
          /\ exRejected' = exRejected \cup Range(p.batch)
          /\ Move(w, Refused(w)) /\ UNCHANGED exQueue
       \/ /\ Receive(p.batch) \/ UNCHANGED receivedVars
          /\ IF ~give_up
             THEN Move(w, [p EXCEPT !.tries = @ + 1]) /\ UNCHANGED <<exQueue, exRejected>>
             ELSE IF exKind = "cloud"
             THEN Move(w, Settled(w)) /\ exQueue' = PutBack(p.batch, exQueue) /\ UNCHANGED exRejected
             ELSE Move(w, Rest(w)) /\ exRejected' = exRejected \cup Range(p.batch) /\ UNCHANGED exQueue
    /\ UNCHANGED <<exKind, exClosed, exStop, exRef, exBegun, exNext, exCounts, exOverlap>>

----------------------------------------------------------------------------
(* The webhook exporter posts one event inside the call; the call raises     *)
(* what the last attempt failed with.                                        *)
webhook_export(t) ==
    LET w == Caller(t) IN
    /\ exKind = "webhook" /\ At(w, "idle") /\ NewCall
    /\ exNext' = exNext + 1
    /\ Move(w, [Fresh("sending") EXCEPT !.batch = <<exNext>>])
    /\ UNCHANGED <<exKind, exQueue, exClosed, exStop, exRef, exCounts, endpointVars, exOverlap>>

(* The Splunk exporter holds its lock from the append to the endpoint's      *)
(* answer, clears the pending events before it sends them, and counts a      *)
(* failure once, without a second attempt.                                   *)
_flush_locked(pending) ==
    IF pending = <<>> THEN exQueue' = pending /\ UNCHANGED <<exCounts, receivedVars>>
    ELSE /\ exQueue' = <<>>
         /\ \/ Receive(pending) /\ exCounts' = [exCounts EXCEPT !.sent = @ + Len(pending)]
            \/ (Receive(pending) \/ UNCHANGED receivedVars)
               /\ exCounts' = [exCounts EXCEPT !.errors = @ + Len(pending)]

splunk_export ==
    LET pending == Append(exQueue, exNext) IN
    /\ exKind = "splunk" /\ NewCall
    /\ exNext' = exNext + 1
    /\ IF Len(pending) >= ExBatchSize THEN _flush_locked(pending)
       ELSE exQueue' = pending /\ UNCHANGED <<exCounts, receivedVars>>
    /\ UNCHANGED <<exKind, exClosed, exStop, exRef, exProc, exRejected, exOverlap>>

splunk_flush ==
    /\ exKind = "splunk" /\ exQueue # <<>> /\ NewCall /\ _flush_locked(exQueue)
    /\ UNCHANGED <<exKind, exClosed, exStop, exRef, exProc, exNext, exRejected, exOverlap>>

----------------------------------------------------------------------------
Init ==
    /\ exKind = "none"
    /\ exQueue = <<>> /\ exClosed = FALSE /\ exStop = FALSE /\ exRef = "none"
    /\ exProc = [w \in Procs |-> Rest(w)]
    /\ exBegun = 0 /\ exNext = 1 /\ exCounts = [sent |-> 0, errors |-> 0]
    /\ exReceived = {} /\ exInOrder = TRUE /\ exRejected = {} /\ exOverlap = FALSE

choose_exporter ==
    /\ exKind = "none" /\ exKind' \in Kinds
    /\ UNCHANGED <<exQueue, exClosed, exStop, exRef, exProc, exBegun, exNext, exCounts, endpointVars, exOverlap>>

Next ==
    \/ choose_exporter
    \/ \E t \in ExCallers :
         \/ export(t) \/ append(t) \/ _ensure_flush_thread(t) \/ start_flush_thread(t)
         \/ flush(t) \/ close(t) \/ set_closed(t) \/ _flush_loop(t) \/ webhook_export(t)
    \/ \E w \in Procs : take_batch(w) \/ _send_batch(w)
    \/ splunk_export \/ splunk_flush
Spec == Init /\ [][Next]_exVars

----------------------------------------------------------------------------
Accepted == 1..exNext - 1

ExportTypeOK ==
    /\ exKind \in Kinds \cup {"none"} /\ exBegun \in 0..ExCalls /\ exNext \in Nat \ {0}
    /\ Range(exQueue) \cup exReceived \cup exRejected \subseteq Accepted
    /\ exRef \in ExCallers \cup {"none"}
    /\ \A w \in Procs : Len(exProc[w].batch) <= ExBatchSize /\ exProc[w].tries < ExRetries

Held == UNION {Range(exProc[w].batch) : w \in Sending}
Increasing(s) == \A i, j \in DOMAIN s : i < j => s[i] < s[j]
Apart(s, r) == Range(s) \cap Range(r) = {}

(* An event the exporter accepted is in one place at most, the queue or the  *)
(* hand of one sender, and if it is in neither, then the endpoint received   *)
(* it, or its post ended in a refusal or another exception that no retry is  *)
(* made for (the caller gets it, the flush thread logs it), or the webhook's *)
(* caller was told, or Splunk's error count has it.                          *)
NoEventVanishes ==
    /\ IsInjective(exQueue)
    /\ \A w \in Sending : IsInjective(exProc[w].batch) /\ Apart(exProc[w].batch, exQueue)
    /\ \A v, w \in Sending : v # w => Apart(exProc[v].batch, exProc[w].batch)
    /\ exKind # "splunk" => Accepted \subseteq Range(exQueue) \cup Held \cup exReceived \cup exRejected
    /\ exKind = "splunk" => /\ exCounts.sent + exCounts.errors + Len(exQueue) = exNext - 1
                            /\ exCounts.sent <= Cardinality(exReceived) /\ Len(exQueue) < ExBatchSize

(* As long as no two batches were under way at once, the endpoint receives   *)
(* the events in the order of their export, whatever is posted again, and no *)
(* event waits in the queue, unreceived, behind one the endpoint has.        *)
OneSenderKeepsTheOrder ==
    exKind # "webhook" /\ ~exOverlap =>
      /\ exInOrder /\ Increasing(exQueue)
      /\ \A e \in Range(exQueue), f \in exReceived : e < f => e \in exReceived

ShipmentsAddUp == NoEventVanishes /\ OneSenderKeepsTheOrder

(* What CloudExporter.close() says of itself: it flushes the remaining       *)
(* events (cloud.py:238), as flush() drains the queue and sends all of it    *)
(* (:224).  A closed exporter that is at rest has no accepted event left.    *)
CloseFlushesTheRest == exClosed /\ (\A w \in Procs : exProc[w] = Rest(w)) => exQueue = <<>>
=============================================================================
