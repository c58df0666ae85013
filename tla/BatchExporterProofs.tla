------------------------ MODULE BatchExporterProofs ------------------------
(***************************************************************************)
(* Proofs about BatchExporter, for any number of calls, any queue bound    *)
(* and any circuit breaker threshold.                                      *)
(*                                                                         *)
(* The argument: events and flush tags are queued once each (EventsOnce,   *)
(* TagsOnce); until the worker finds the stop event set nothing is lost    *)
(* (LossInv), and it ends with an empty batch (EndInv); what was queued    *)
(* before a flush tag is ahead of it in the queue (AheadInv) and, until    *)
(* the stop, all the way (BarrierInv); and every step moves an event from  *)
(* the head of one part of the pipeline to the tail of the next: the       *)
(* refinement of LossyFifo.                                                *)
(***************************************************************************)
EXTENDS BatchExporter, SequenceTheorems, WellFoundedInduction, TLAPS

----------------------------------------------------------------------------
(* The elements of a sequence.                                              *)

\* What batch.append and queue.put do to the set of elements.
LEMMA ToSetAppend ==
  ASSUME NEW S, NEW s \in Seq(S), NEW e \in S
  PROVE  ToSet(Append(s, e)) = ToSet(s) \cup {e}
<1>1. /\ DOMAIN Append(s, e) = 1 .. Len(s) + 1
      /\ DOMAIN s = 1 .. Len(s)
      /\ Len(s) \in Nat
      /\ Append(s, e)[Len(s) + 1] = e
      /\ \A i \in 1 .. Len(s) : Append(s, e)[i] = s[i]
  BY AppendProperties
<1>2. 1 .. Len(s) + 1 = (1 .. Len(s)) \cup {Len(s) + 1}
  BY <1>1
<1> QED
  BY <1>1, <1>2 DEF ToSet

\* What queue.get does: the head leaves, all else stays.
LEMMA ToSetHeadTail ==
  ASSUME NEW S, NEW s \in Seq(S), s # <<>>
  PROVE  ToSet(s) = {Head(s)} \cup ToSet(Tail(s))
<1>1. /\ Len(s) \in Nat
      /\ Len(s) >= 1
      /\ Len(Tail(s)) = Len(s) - 1
      /\ DOMAIN s = 1 .. Len(s)
      /\ DOMAIN Tail(s) = 1 .. Len(s) - 1
      /\ Head(s) = s[1]
      /\ \A i \in 1 .. Len(s) - 1 : Tail(s)[i] = s[i + 1]
  BY HeadTailProperties, EmptySeq
<1>2. ToSet(s) \subseteq {Head(s)} \cup ToSet(Tail(s))
  <2> SUFFICES ASSUME NEW i \in 1 .. Len(s)
               PROVE  s[i] \in {Head(s)} \cup ToSet(Tail(s))
    BY <1>1 DEF ToSet
  <2>1. CASE i = 1
    BY <1>1, <2>1
  <2>2. CASE i # 1
    <3>1. i - 1 \in 1 .. Len(s) - 1 /\ Tail(s)[i - 1] = s[i]
      BY <1>1, <2>2
    <3> QED
      BY <1>1, <3>1 DEF ToSet
  <2> QED
    BY <2>1, <2>2
<1>3. {Head(s)} \cup ToSet(Tail(s)) \subseteq ToSet(s)
  <2>1. Head(s) \in ToSet(s)
    BY <1>1 DEF ToSet
  <2>2. ASSUME NEW i \in 1 .. Len(s) - 1
        PROVE  Tail(s)[i] \in ToSet(s)
    <3>1. i + 1 \in 1 .. Len(s)
      BY <1>1
    <3> QED
      BY <1>1, <3>1 DEF ToSet
  <2> QED
    BY <1>1, <2>1, <2>2 DEF ToSet
<1> QED
  BY <1>2, <1>3

----------------------------------------------------------------------------
(* Types.                                                                   *)

\* While a flush tag is being served, the item in hand is that tag: what
\* WorkerExported adds to done is a flush call.
FlushInHand == wpc \in {"drain", "export"} /\ reason = "flush" => item \in Flushes

TypeInv == TypeOK /\ FlushInHand

LEMMA TypeInit == Init => TypeInv
<1> SUFFICES ASSUME Init
             PROVE  TypeInv
  OBVIOUS
<1>1. queue \in Seq(Items) /\ Len(queue) <= MaxQueueSize
  BY SizesAssumption DEF Init, SizesAssumption
<1>2. batch \in Seq(Events) /\ order \in Seq(Events \cup Flushes) /\ attempted \in Seq(Events)
  BY DEF Init
<1>3. item \in Items /\ cbFailures \in Nat
  BY DEF Init, Items
<1> QED
  BY <1>1, <1>2, <1>3 DEF Init, TypeInv, TypeOK, FlushInHand

\* Every step keeps the types and the bound of the queue.
LEMMA TypeStep == TypeInv /\ [Next]_vars => TypeInv'
<1> SUFFICES ASSUME TypeInv, [Next]_vars
             PROVE  TypeInv'
  OBVIOUS
<1>a. /\ queue \in Seq(Items)
      /\ Len(queue) <= MaxQueueSize
      /\ MaxQueueSize \in Nat \ {0}
      /\ batch \in Seq(Events)
      /\ order \in Seq(Events \cup Flushes)
      /\ attempted \in Seq(Events)
      /\ item \in Items
      /\ cbFailures \in Nat
      /\ failed \subseteq Events
  BY SizesAssumption DEF TypeInv, TypeOK, SizesAssumption
<1>b. \A x \in Events \cup Flushes \cup {Sentinel} : x \in Items
  BY DEF Items
<1>c. ASSUME NEW x \in Items, HasRoom, queue' = Append(queue, x)
      PROVE  queue' \in Seq(Items) /\ Len(queue') <= MaxQueueSize
  BY <1>a, <1>c DEF HasRoom
<1>e. ASSUME NEW x \in Events \cup Flushes, order' \in {order, Append(order, x)}
      PROVE  order' \in Seq(Events \cup Flushes)
  <2>1. Append(order, x) \in Seq(Events \cup Flushes)
    BY <1>a, AppendProperties, Zenon
  <2> QED
    BY <1>a, <1>e, <2>1
<1>d. ASSUME queue # <<>>, queue' = Tail(queue)
      PROVE  queue' \in Seq(Items) /\ Len(queue') <= MaxQueueSize /\ Head(queue) \in Items
  BY <1>a, <1>d
<1>1. ASSUME NEW e \in Events, PutCheckCircuit(e) PROVE TypeInv'
  <2>1. cbOpen' \in BOOLEAN
    BY <1>1, Zenon DEF TypeInv, TypeOK, PutCheckCircuit, circuitVars
  <2>2. /\ cbFailures' \in Nat
        /\ putPc' \in [Events -> {"idle", "admitted", "checked", "queued", "rejected"}]
    BY <1>1 DEF TypeInv, TypeOK, PutCheckCircuit, circuitVars
  <2> QED
    BY <1>1, <2>1, <2>2 DEF TypeInv, TypeOK, FlushInHand, PutCheckCircuit, workerVars, exportVars
<1>2. ASSUME NEW e \in Events, PutCheckStop(e) PROVE TypeInv'
  BY <1>2 DEF TypeInv, TypeOK, FlushInHand, PutCheckStop, circuitVars, workerVars, exportVars
<1>3. ASSUME NEW e \in Events, PutEnqueue(e) PROVE TypeInv'
  <2>1. queue' \in Seq(Items) /\ Len(queue') <= MaxQueueSize
    BY <1>3, <1>a, <1>b, <1>c DEF PutEnqueue
  <2>2. order' \in Seq(Events \cup Flushes)
    BY <1>3, <1>e DEF PutEnqueue
  <2> QED
    BY <1>3, <2>1, <2>2 DEF TypeInv, TypeOK, FlushInHand, PutEnqueue, circuitVars, workerVars, exportVars
<1>4. ASSUME NEW f \in Flushes, FlushStart(f) PROVE TypeInv'
  BY <1>4 DEF TypeInv, TypeOK, FlushInHand, FlushStart, circuitVars, workerVars, exportVars
<1>5. ASSUME NEW f \in Flushes, FlushEnqueue(f) PROVE TypeInv'
  <2>1. queue' \in Seq(Items) /\ Len(queue') <= MaxQueueSize
    BY <1>5, <1>a, <1>b, <1>c DEF FlushEnqueue
  <2>2. order' \in Seq(Events \cup Flushes)
    BY <1>5, <1>e DEF FlushEnqueue
  <2> QED
    BY <1>5, <2>1, <2>2 DEF TypeInv, TypeOK, FlushInHand, FlushEnqueue, circuitVars, workerVars, exportVars
<1>6. ASSUME NEW f \in Flushes, FlushReturn(f) PROVE TypeInv'
  BY <1>6 DEF TypeInv, TypeOK, FlushInHand, FlushReturn, circuitVars, workerVars, exportVars
<1>7. ASSUME NEW s \in Shutdowns, ShutdownStart(s) PROVE TypeInv'
  BY <1>7 DEF TypeInv, TypeOK, FlushInHand, ShutdownStart, circuitVars, workerVars, exportVars
<1>8. ASSUME NEW s \in Shutdowns, ShutdownSetStop(s) PROVE TypeInv'
  BY <1>8 DEF TypeInv, TypeOK, FlushInHand, ShutdownSetStop, circuitVars, workerVars, exportVars
<1>9. ASSUME NEW s \in Shutdowns, ShutdownWakeWorker(s) PROVE TypeInv'
  <2>1. queue' \in Seq(Items) /\ Len(queue') <= MaxQueueSize
    BY <1>9, <1>a, <1>b, <1>c DEF ShutdownWakeWorker
  <2> QED
    BY <1>9, <2>1 DEF TypeInv, TypeOK, FlushInHand, ShutdownWakeWorker, circuitVars, workerVars, exportVars
<1>10. ASSUME NEW s \in Shutdowns, ShutdownJoin(s) PROVE TypeInv'
  BY <1>10 DEF TypeInv, TypeOK, FlushInHand, ShutdownJoin, circuitVars, workerVars, exportVars
<1>11. ASSUME WorkerGet PROVE TypeInv'
  <2>1. queue' \in Seq(Items) /\ Len(queue') <= MaxQueueSize /\ item' \in Items
    BY <1>11, <1>a, <1>b, <1>d DEF WorkerGet
  <2> QED
    BY <1>11, <2>1 DEF TypeInv, TypeOK, FlushInHand, WorkerGet, callerVars, circuitVars, exportVars
<1>12. ASSUME WorkerStop PROVE TypeInv'
  BY <1>12 DEF TypeInv, TypeOK, FlushInHand, WorkerStop, callerVars, circuitVars, exportVars
<1>13. ASSUME WorkerFlush PROVE TypeInv'
  BY <1>13 DEF TypeInv, TypeOK, FlushInHand, WorkerFlush, callerVars, circuitVars, exportVars
<1>14. ASSUME WorkerBatch PROVE TypeInv'
  <2>1. batch' \in Seq(Events)
    BY <1>14, <1>a DEF WorkerBatch, JoinBatch
  <2> QED
    BY <1>14, <2>1 DEF TypeInv, TypeOK, FlushInHand, WorkerBatch, callerVars, circuitVars, exportVars
<1>15. ASSUME WorkerDrain PROVE TypeInv'
  <2>1. queue' \in Seq(Items) /\ Len(queue') <= MaxQueueSize /\ Head(queue) \in Items
    BY <1>15, <1>d DEF WorkerDrain
  <2>2. batch' \in Seq(Events)
    <3>1. CASE Head(queue) \in Events
      <4>1. Append(batch, Head(queue)) \in Seq(Events)
        BY <1>a, <3>1, AppendProperties, Zenon
      <4> QED
        BY <1>15, <3>1, <4>1 DEF WorkerDrain, JoinBatch
    <3>2. CASE Head(queue) \notin Events
      BY <1>15, <1>a, <3>2 DEF WorkerDrain
    <3> QED
      BY <3>1, <3>2
  <2> QED
    BY <1>15, <2>1, <2>2 DEF TypeInv, TypeOK, FlushInHand, WorkerDrain, callerVars, circuitVars, exportVars
<1>16. ASSUME WorkerDrained PROVE TypeInv'
  BY <1>16 DEF TypeInv, TypeOK, FlushInHand, WorkerDrained, callerVars, circuitVars, exportVars
<1>17. ASSUME WorkerExport PROVE TypeInv'
  <2>1. Head(batch) \in Events /\ batch' \in Seq(Events) /\ attempted' \in Seq(Events)
    BY <1>17, <1>a DEF WorkerExport
  <2>2. cbFailures' \in Nat /\ failed' \subseteq Events
    BY <1>17, <1>a, <2>1 DEF WorkerExport, RecordSuccess, RecordFailure
  <2>3. cbOpen' \in BOOLEAN
    BY <1>17, Zenon DEF TypeInv, TypeOK, FlushInHand, WorkerExport, RecordSuccess, RecordFailure
  <2> QED
    BY <1>17, <2>1, <2>2, <2>3 DEF TypeInv, TypeOK, FlushInHand, WorkerExport, callerVars
<1>18. ASSUME WorkerExported PROVE TypeInv'
  BY <1>18 DEF TypeInv, TypeOK, FlushInHand, WorkerExported, callerVars, circuitVars, exportVars
<1>19. ASSUME UNCHANGED vars PROVE TypeInv'
  BY <1>19 DEF TypeInv, TypeOK, FlushInHand, vars, callerVars, circuitVars, workerVars, exportVars
<1> QED
  BY <1>1, <1>2, <1>3, <1>4, <1>5, <1>6, <1>7, <1>8, <1>9, <1>10, <1>11, <1>12, <1>13,
     <1>14, <1>15, <1>16, <1>17, <1>18, <1>19
     DEF Next, Put, Flush, Shutdown, Worker

LEMMA TypeInvariant == Spec => []TypeInv
  BY TypeInit, TypeStep, PTL DEF Spec

\* The queue never outgrows max_queue_size, the worker's batch holds events
\* only, and only flush calls are ever released.
THEOREM TypeCorrect == Spec => []TypeOK
<1>1. TypeInv => TypeOK
  BY DEF TypeInv
<1> QED
  BY <1>1, TypeInvariant, PTL

----------------------------------------------------------------------------
(* The circuit breaker.                                                     *)

\* cbFailures counts the failures at the end of attempted, and an open circuit
\* has counted at least Threshold of them.
CircuitInv ==
  /\ cbFailures <= Len(attempted)
  /\ \A i \in Len(attempted) - cbFailures + 1 .. Len(attempted) : attempted[i] \in failed
  /\ cbOpen => cbFailures >= Threshold

LEMMA CircuitInit == Init => CircuitInv
  BY DEF Init, CircuitInv

\* What an export does to the count: a success starts it anew, a failure
\* prolongs the run of failures by one.
LEMMA CircuitExport == TypeInv /\ CircuitInv /\ WorkerExport => CircuitInv'
<1> SUFFICES ASSUME TypeInv, CircuitInv, WorkerExport
             PROVE  CircuitInv'
  OBVIOUS
<1>1. /\ attempted \in Seq(Events) /\ batch \in Seq(Events) /\ batch # <<>>
      /\ cbFailures \in Nat
      /\ attempted' = Append(attempted, Head(batch))
  BY DEF TypeInv, TypeOK, WorkerExport
<1>2. Head(batch) \in Events
  BY <1>1, HeadTailProperties
<1>3. /\ Len(attempted) \in Nat
      /\ Len(attempted') = Len(attempted) + 1
      /\ \A i \in 1 .. Len(attempted) : attempted'[i] = attempted[i]
      /\ attempted'[Len(attempted) + 1] = Head(batch)
  BY <1>1, <1>2, AppendProperties
<1>4. CASE RecordSuccess /\ UNCHANGED failed
  BY <1>3, <1>4 DEF CircuitInv, RecordSuccess
<1>5. CASE RecordFailure /\ failed' = failed \cup {Head(batch)}
  <2>1. cbFailures' = cbFailures + 1 /\ cbFailures' <= Len(attempted')
    BY <1>1, <1>3, <1>5 DEF RecordFailure, CircuitInv
  <2>2. cbOpen' => cbFailures' >= Threshold
    <3>1. cbOpen' => cbOpen \/ cbFailures' >= Threshold
      BY <1>5, Zenon DEF RecordFailure
    <3>2. cbOpen => cbFailures' >= Threshold
      BY <1>1, <2>1, SizesAssumption DEF CircuitInv, SizesAssumption
    <3> QED
      BY <3>1, <3>2
  <2>3. ASSUME NEW i \in Len(attempted') - cbFailures' + 1 .. Len(attempted')
        PROVE  attempted'[i] \in failed'
    <3>1. CASE i = Len(attempted) + 1
      BY <1>3, <1>5, <3>1
    <3>2. CASE i # Len(attempted) + 1
      <4>1. i \in Len(attempted) - cbFailures + 1 .. Len(attempted) /\ i \in 1 .. Len(attempted)
        BY <1>1, <1>3, <2>1, <3>2 DEF CircuitInv
      <4> QED
        BY <1>3, <1>5, <4>1 DEF CircuitInv
    <3> QED
      BY <3>1, <3>2
  <2> QED
    BY <2>1, <2>2, <2>3 DEF CircuitInv
<1> QED
  BY <1>4, <1>5 DEF WorkerExport

LEMMA CircuitStep == TypeInv /\ CircuitInv /\ [Next]_vars => CircuitInv'
<1> SUFFICES ASSUME TypeInv, CircuitInv, [Next]_vars
             PROVE  CircuitInv'
  OBVIOUS
<1>1. ASSUME NEW e \in Events, PutCheckCircuit(e) PROVE CircuitInv'
  <2>1. UNCHANGED <<attempted, failed>>
    BY <1>1 DEF PutCheckCircuit, exportVars
  <2>2. CASE UNCHANGED <<cbOpen, cbFailures>>
    BY <2>1, <2>2 DEF CircuitInv
  <2>3. CASE cbOpen' = FALSE /\ cbFailures' = 0
    BY <2>1, <2>3 DEF CircuitInv, TypeInv, TypeOK
  <2> QED
    BY <1>1, <2>2, <2>3 DEF PutCheckCircuit, circuitVars
<1>2. ASSUME WorkerExport PROVE CircuitInv'
  BY <1>2, CircuitExport
<1>3. ASSUME UNCHANGED <<circuitVars, exportVars>> PROVE CircuitInv'
  BY <1>3 DEF CircuitInv, circuitVars, exportVars
<1>4. ASSUME NEW e \in Events, PutCheckStop(e) \/ PutEnqueue(e) PROVE CircuitInv'
  BY <1>3, <1>4 DEF PutCheckStop, PutEnqueue
<1>5. ASSUME NEW f \in Flushes, Flush(f) PROVE CircuitInv'
  BY <1>3, <1>5 DEF Flush, FlushStart, FlushEnqueue, FlushReturn
<1>6. ASSUME NEW s \in Shutdowns, Shutdown(s) PROVE CircuitInv'
  BY <1>3, <1>6
     DEF Shutdown, ShutdownStart, ShutdownSetStop, ShutdownWakeWorker, ShutdownJoin
<1>7. ASSUME WorkerGet \/ WorkerStop \/ WorkerFlush \/ WorkerBatch \/ WorkerDrain
             \/ WorkerDrained \/ WorkerExported
      PROVE CircuitInv'
  BY <1>3, <1>7
     DEF WorkerGet, WorkerStop, WorkerFlush, WorkerBatch, WorkerDrain, WorkerDrained,
         WorkerExported
<1>8. ASSUME UNCHANGED vars PROVE CircuitInv'
  BY <1>3, <1>8 DEF vars
<1> QED
  BY <1>1, <1>2, <1>4, <1>5, <1>6, <1>7, <1>8 DEF Next, Put, Worker

\* An open circuit is always the work of Threshold consecutive failures, the
\* most recent exports of all, whatever put() resets in between.
THEOREM CircuitCorrect == Spec => []CircuitOpensOnConsecutiveFailures
<1>1. TypeInv /\ CircuitInv => CircuitOpensOnConsecutiveFailures
  <2> SUFFICES ASSUME TypeInv, CircuitInv, cbOpen
               PROVE  /\ Len(attempted) >= Threshold
                      /\ \A i \in Len(attempted) - Threshold + 1 .. Len(attempted) :
                           attempted[i] \in failed
    BY DEF CircuitOpensOnConsecutiveFailures
  <2>1. /\ Len(attempted) \in Nat /\ cbFailures \in Nat /\ Threshold \in Nat
        /\ Threshold <= cbFailures /\ cbFailures <= Len(attempted)
    BY SizesAssumption DEF TypeInv, TypeOK, CircuitInv, SizesAssumption
  <2>2. Len(attempted) - Threshold + 1 .. Len(attempted)
          \subseteq Len(attempted) - cbFailures + 1 .. Len(attempted)
    BY <2>1
  <2> QED
    BY <2>1, <2>2 DEF CircuitInv
<1> QED
  BY <1>1, CircuitInit, CircuitStep, TypeInvariant, PTL DEF Spec

----------------------------------------------------------------------------
(* What the pipeline may lose.                                              *)

\* Nothing is lost before the worker has found the stop event set.
LossInv ==
  /\ Lost \subseteq {item}
  /\ Lost # {} => stop /\ reason = "stop" /\ wpc \in {"drain", "export", "dead"}

\* The events in the worker's hand are at most its item.
InHandSet == IF wpc = "dispatch" /\ item \in Events THEN {item} ELSE {}

LEMMA LossInit == Init => LossInv
  BY DEF Init, LossInv, Lost, Accepted

LEMMA LossStep == TypeInv /\ TypeInv' /\ LossInv /\ [Next]_vars => LossInv'
<1> SUFFICES ASSUME TypeInv, TypeInv', LossInv, [Next]_vars
             PROVE  LossInv'
  OBVIOUS
<1>a. /\ queue \in Seq(Items) /\ batch \in Seq(Events) /\ attempted \in Seq(Events)
      /\ \A x \in Events \cup Flushes \cup {Sentinel} : x \in Items
      /\ Sentinel \notin Events /\ Events \cap Flushes = {}
  BY ItemsAssumption DEF TypeInv, TypeOK, Items, ItemsAssumption
<1>b. /\ Lost = Accepted \ (ToSet(queue) \cup InHandSet \cup ToSet(batch) \cup ToSet(attempted))
      /\ Lost' = Accepted' \ (ToSet(queue') \cup InHandSet' \cup ToSet(batch') \cup ToSet(attempted'))
  <2>1. ToSet(InHand) = InHandSet /\ ToSet(InHand)' = InHandSet'
    BY DEF InHand, InHandSet, ToSet
  <2> QED
    BY <2>1 DEF Lost, Present
<1>c. Accepted \subseteq Events
  BY DEF Accepted
\* A step that takes nothing away loses nothing.
<1>d. ASSUME Lost' \subseteq Lost, item' = item, stop => stop', reason' = reason, wpc' = wpc
      PROVE  LossInv'
  BY <1>d DEF LossInv
<1>e. ASSUME NEW x \in Items, queue' = Append(queue, x)
      PROVE  ToSet(queue') = ToSet(queue) \cup {x}
  BY <1>a, <1>e, ToSetAppend
<1>f. ASSUME queue # <<>>, queue' = Tail(queue)
      PROVE  ToSet(queue) = {Head(queue)} \cup ToSet(queue')
  BY <1>a, <1>f, ToSetHeadTail
<1>g. ASSUME NEW e \in Events, batch' = Append(batch, e)
      PROVE  ToSet(batch') = ToSet(batch) \cup {e}
  BY <1>a, <1>g, ToSetAppend
<1>1. ASSUME NEW e \in Events, PutCheckCircuit(e) \/ PutCheckStop(e) PROVE LossInv'
  <2>1. Accepted' = Accepted
    BY <1>1 DEF Accepted, PutCheckCircuit, PutCheckStop, TypeInv, TypeOK
  <2>2. UNCHANGED <<queue, batch, attempted, item, wpc, stop, reason>>
    BY <1>1 DEF PutCheckCircuit, PutCheckStop, workerVars, exportVars
  <2> QED
    BY <1>b, <1>d, <2>1, <2>2 DEF InHandSet
<1>2. ASSUME NEW e \in Events, PutEnqueue(e) PROVE LossInv'
  <2>1. UNCHANGED <<batch, attempted, item, wpc, stop, reason>>
    BY <1>2 DEF PutEnqueue, workerVars, exportVars
  <2>2. CASE HasRoom /\ queue' = Append(queue, e) /\ putPc' = [putPc EXCEPT ![e] = "queued"]
    <3>1. Accepted' = Accepted \cup {e}
      BY <2>2 DEF Accepted, TypeInv, TypeOK
    <3> QED
      BY <1>a, <1>b, <1>d, <1>e, <2>1, <2>2, <3>1 DEF InHandSet
  <2>3. CASE queue' = queue /\ putPc' = [putPc EXCEPT ![e] = "rejected"]
    <3>1. Accepted' \subseteq Accepted
      BY <2>3 DEF Accepted, TypeInv, TypeOK
    <3> QED
      BY <1>b, <1>d, <2>1, <2>3, <3>1 DEF InHandSet
  <2> QED
    BY <1>2, <2>2, <2>3 DEF PutEnqueue
<1>3. ASSUME NEW f \in Flushes, Flush(f) PROVE LossInv'
  <2>1. UNCHANGED <<putPc, batch, attempted, item, wpc, stop, reason>>
    BY <1>3 DEF Flush, FlushStart, FlushEnqueue, FlushReturn, workerVars, exportVars
  <2>2. queue' = queue \/ queue' = Append(queue, f)
    BY <1>3 DEF Flush, FlushStart, FlushEnqueue, FlushReturn
  <2> QED
    BY <1>a, <1>b, <1>d, <1>e, <2>1, <2>2 DEF InHandSet, Accepted
<1>4. ASSUME NEW s \in Shutdowns, Shutdown(s) PROVE LossInv'
  <2>1. UNCHANGED <<putPc, batch, attempted, item, wpc, reason>> /\ (stop => stop')
    BY <1>4 DEF Shutdown, ShutdownStart, ShutdownSetStop, ShutdownWakeWorker, ShutdownJoin,
                workerVars, exportVars
  <2>2. queue' = queue \/ queue' = Append(queue, Sentinel)
    BY <1>4 DEF Shutdown, ShutdownStart, ShutdownSetStop, ShutdownWakeWorker, ShutdownJoin
  <2> QED
    BY <1>a, <1>b, <1>d, <1>e, <2>1, <2>2 DEF InHandSet, Accepted
<1>5. ASSUME WorkerGet PROVE LossInv'
  <2>1. UNCHANGED <<putPc, batch, attempted>> /\ wpc = "get" /\ wpc' = "dispatch"
    BY <1>5 DEF WorkerGet, callerVars, exportVars
  <2>2. Lost = {}
    BY <2>1 DEF LossInv
  <2>3. CASE queue # <<>> /\ item' = Head(queue) /\ queue' = Tail(queue)
    BY <1>b, <1>c, <1>f, <2>1, <2>2, <2>3 DEF InHandSet, Accepted, LossInv
  <2>4. CASE queue' = queue
    BY <1>b, <2>1, <2>2, <2>4 DEF InHandSet, Accepted, LossInv
  <2> QED
    BY <1>5, <2>3, <2>4 DEF WorkerGet
<1>6. ASSUME WorkerStop PROVE LossInv'
  <2>1. /\ UNCHANGED <<putPc, queue, batch, attempted, item, stop>>
        /\ wpc = "dispatch" /\ wpc' = "drain" /\ reason' = "stop"
        /\ item = Sentinel \/ stop
    BY <1>6 DEF WorkerStop, callerVars, exportVars
  <2>2. Lost = {}
    BY <2>1 DEF LossInv
  <2>3. Lost' \subseteq InHandSet
    BY <1>b, <2>1, <2>2 DEF Accepted
  <2>4. InHandSet \subseteq {item} /\ (InHandSet # {} => stop)
    BY <1>a, <2>1 DEF InHandSet
  <2> QED
    BY <2>1, <2>3, <2>4 DEF LossInv
<1>7. ASSUME WorkerFlush PROVE LossInv'
  <2>1. /\ UNCHANGED <<putPc, queue, batch, attempted>>
        /\ wpc = "dispatch" /\ wpc' = "drain" /\ item \in Flushes
    BY <1>7 DEF WorkerFlush, callerVars, exportVars
  <2>2. Lost = {} /\ InHandSet = {}
    BY <1>a, <2>1 DEF LossInv, InHandSet
  <2> QED
    BY <1>b, <2>1, <2>2 DEF LossInv, Accepted
<1>8. ASSUME WorkerBatch PROVE LossInv'
  <2>1. /\ UNCHANGED <<putPc, queue, attempted>>
        /\ wpc = "dispatch" /\ item \in Events /\ batch' = Append(batch, item)
    BY <1>8 DEF WorkerBatch, JoinBatch, callerVars, exportVars
  <2>2. Lost = {} /\ InHandSet = {item}
    BY <2>1 DEF LossInv, InHandSet
  <2> QED
    BY <1>b, <1>g, <2>1, <2>2 DEF LossInv, Accepted
<1>9. ASSUME WorkerDrain PROVE LossInv'
  <2>1. /\ UNCHANGED <<putPc, attempted, item, wpc, stop, reason>>
        /\ queue # <<>> /\ queue' = Tail(queue)
    BY <1>9 DEF WorkerDrain, callerVars, exportVars
  <2>2. CASE Head(queue) \in Events
    <3>1. ToSet(batch') = ToSet(batch) \cup {Head(queue)}
      BY <1>9, <1>g, <2>2 DEF WorkerDrain, JoinBatch
    <3> QED
      BY <1>b, <1>d, <1>f, <2>1, <3>1 DEF InHandSet, Accepted
  <2>3. CASE Head(queue) \notin Events
    <3>1. batch' = batch
      BY <1>9, <2>3 DEF WorkerDrain
    <3> QED
      BY <1>b, <1>c, <1>d, <1>f, <2>1, <2>3, <3>1 DEF InHandSet, Accepted
  <2> QED
    BY <2>2, <2>3
<1>10. ASSUME WorkerDrained PROVE LossInv'
  <2>1. /\ UNCHANGED <<putPc, queue, batch, attempted, item, stop, reason>>
        /\ wpc = "drain" /\ wpc' = "export"
    BY <1>10 DEF WorkerDrained, callerVars, exportVars
  <2> QED
    BY <1>b, <2>1 DEF LossInv, InHandSet, Accepted
<1>11. ASSUME WorkerExport PROVE LossInv'
  <2>1. /\ UNCHANGED <<putPc, queue, item, wpc, stop, reason>>
        /\ batch # <<>> /\ batch' = Tail(batch) /\ attempted' = Append(attempted, Head(batch))
    BY <1>11 DEF WorkerExport, callerVars
  <2>2. ToSet(batch) = {Head(batch)} \cup ToSet(batch') /\ Head(batch) \in Events
    BY <1>a, <2>1, ToSetHeadTail, HeadTailProperties
  <2>3. ToSet(attempted') = ToSet(attempted) \cup {Head(batch)}
    BY <1>a, <2>1, <2>2, ToSetAppend
  <2> QED
    BY <1>b, <1>d, <2>1, <2>2, <2>3 DEF InHandSet, Accepted
<1>12. ASSUME WorkerExported PROVE LossInv'
  <2>1. /\ UNCHANGED <<putPc, queue, batch, attempted, item, stop, reason>>
        /\ wpc = "export" /\ wpc' = IF reason = "stop" THEN "dead" ELSE "get"
    BY <1>12 DEF WorkerExported, callerVars, exportVars
  <2>2. Lost' = Lost
    BY <1>b, <2>1 DEF InHandSet, Accepted
  <2> QED
    BY <2>1, <2>2 DEF LossInv
<1>13. ASSUME UNCHANGED vars PROVE LossInv'
  <2>1. UNCHANGED <<putPc, queue, batch, attempted, item, wpc, stop, reason>>
    BY <1>13 DEF vars, callerVars, workerVars, exportVars
  <2> QED
    BY <1>b, <1>d, <2>1 DEF InHandSet, Accepted
<1> QED
  BY <1>1, <1>2, <1>3, <1>4, <1>5, <1>6, <1>7, <1>8, <1>9, <1>10, <1>11, <1>12, <1>13
     DEF Next, Put, Worker

\* A worker that has ended has exported its batch.
EndInv == wpc = "dead" => batch = <<>>

LEMMA EndStep == EndInv /\ [Next]_vars => EndInv'
<1> SUFFICES ASSUME EndInv, [Next]_vars
             PROVE  EndInv'
  OBVIOUS
<1>1. ASSUME NEW e \in Events, Put(e) PROVE EndInv'
  BY <1>1 DEF EndInv, Put, PutCheckCircuit, PutCheckStop, PutEnqueue, workerVars
<1>2. ASSUME NEW f \in Flushes, Flush(f) PROVE EndInv'
  BY <1>2 DEF EndInv, Flush, FlushStart, FlushEnqueue, FlushReturn, workerVars
<1>3. ASSUME NEW s \in Shutdowns, Shutdown(s) PROVE EndInv'
  BY <1>3 DEF EndInv, Shutdown, ShutdownStart, ShutdownSetStop, ShutdownWakeWorker,
              ShutdownJoin, workerVars
<1>4. ASSUME Worker PROVE EndInv'
  BY <1>4 DEF EndInv, Worker, WorkerGet, WorkerStop, WorkerFlush, WorkerBatch, WorkerDrain,
              WorkerDrained, WorkerExport, WorkerExported
<1>5. CASE UNCHANGED vars
  BY <1>5 DEF EndInv, vars, workerVars
<1> QED
  BY <1>1, <1>2, <1>3, <1>4, <1>5 DEF Next

\* Of the events put() answered True for, the end of the worker leaves
\* unexported at most one that is lost, the one in its hand when it found the
\* stop event set, and those still in the queue: all others have been exported.
THEOREM LossCorrect == Spec => []OnlyItemAndStrandedGoUnexported
<1>1. LossInv /\ EndInv => OnlyItemAndStrandedGoUnexported
  <2> SUFFICES ASSUME LossInv, EndInv, wpc = "dead"
               PROVE  Accepted \subseteq ToSet(attempted) \cup Lost \cup Stranded
    BY DEF LossInv, OnlyItemAndStrandedGoUnexported
  <2>1. ToSet(batch) = {} /\ ToSet(InHand) = {}
    BY DEF EndInv, InHand, ToSet
  <2> QED
    BY <2>1 DEF Lost, Present, Stranded
<1>2. Init => EndInv
  BY DEF Init, EndInv
<1> QED
  BY <1>1, <1>2, LossInit, LossStep, EndStep, TypeInvariant, PTL DEF Spec

----------------------------------------------------------------------------
(* Each event and each flush tag is queued once.                            *)

\* The worker leaves the stop branch only by ending.
StopLasts == reason = "stop" => wpc \in {"drain", "export", "dead"}

\* An event that put() has not queued is nowhere, so no event comes twice.
EventsOnce == \A e \in Events : putPc[e] # "queued" => e \notin Present /\ e \notin ToSet(order)

\* A flush tag is queued by one step of its caller, and is not in the queue
\* any more once the worker has taken it.
TagsOnce ==
  /\ \A f \in Flushes : flushPc[f] \in {"idle", "alive"} =>
       f \notin ToSet(queue) /\ f \notin ToSet(order) /\ f # item
  /\ \A i \in 1 .. Len(queue) : queue[i] \in Flushes =>
       queue[i] # item /\ \A j \in 1 .. Len(queue) : queue[j] = queue[i] => j = i

LEMMA OnceInit == Init => StopLasts /\ EventsOnce /\ TagsOnce
<1> SUFFICES ASSUME Init
             PROVE  StopLasts /\ EventsOnce /\ TagsOnce
  OBVIOUS
<1>1. ToSet(queue) = {} /\ ToSet(InHand) = {} /\ ToSet(batch) = {} /\ ToSet(attempted) = {}
      /\ ToSet(order) = {} /\ Len(queue) = 0
  BY DEF Init, InHand, ToSet
<1>2. Sentinel \notin Flushes
  BY ItemsAssumption DEF ItemsAssumption
<1> QED
  BY <1>1, <1>2 DEF Init, StopLasts, EventsOnce, TagsOnce, Present

LEMMA StopStep == TypeInv /\ StopLasts /\ [Next]_vars => StopLasts'
<1> SUFFICES ASSUME TypeInv, StopLasts, [Next]_vars
             PROVE  StopLasts'
  OBVIOUS
<1>1. ASSUME Worker PROVE StopLasts'
  <2>1. CASE WorkerGet \/ WorkerBatch
    BY <2>1 DEF WorkerGet, WorkerBatch, StopLasts
  <2>2. CASE WorkerStop \/ WorkerFlush \/ WorkerDrain
    BY <2>2 DEF WorkerStop, WorkerFlush, WorkerDrain, StopLasts
  <2>3. CASE WorkerDrained \/ WorkerExport \/ WorkerExported
    BY <2>3 DEF WorkerDrained, WorkerExport, WorkerExported, StopLasts
  <2> QED
    BY <1>1, <2>1, <2>2, <2>3 DEF Worker
<1>2. ASSUME UNCHANGED <<wpc, reason>> PROVE StopLasts'
  BY <1>2 DEF StopLasts
<1>3. ASSUME NEW e \in Events, Put(e) PROVE UNCHANGED <<wpc, reason>>
  BY <1>3 DEF Put, PutCheckCircuit, PutCheckStop, PutEnqueue, workerVars
<1>4. ASSUME NEW f \in Flushes, Flush(f) PROVE UNCHANGED <<wpc, reason>>
  BY <1>4 DEF Flush, FlushStart, FlushEnqueue, FlushReturn, workerVars
<1>5. ASSUME NEW s \in Shutdowns, Shutdown(s) PROVE UNCHANGED <<wpc, reason>>
  BY <1>5 DEF Shutdown, ShutdownStart, ShutdownSetStop, ShutdownWakeWorker, ShutdownJoin, workerVars
<1>6. UNCHANGED vars => UNCHANGED <<wpc, reason>>
  BY DEF vars, workerVars
<1> QED
  BY <1>1, <1>2, <1>3, <1>4, <1>5, <1>6 DEF Next

\* An event turns up in the pipeline only when put() queues it.
LEMMA PresentGrows ==
  ASSUME TypeInv, TypeInv', [Next]_vars, NEW e \in Events, e \in Present', e \notin Present
  PROVE  PutEnqueue(e) /\ queue' = Append(queue, e)
<1>a. /\ queue \in Seq(Items) /\ batch \in Seq(Events) /\ attempted \in Seq(Events)
      /\ \A x \in Events \cup Flushes \cup {Sentinel} : x \in Items
      /\ Sentinel \notin Events /\ Events \cap Flushes = {}
  BY ItemsAssumption DEF TypeInv, TypeOK, Items, ItemsAssumption
<1>b. /\ Present = ToSet(queue) \cup InHandSet \cup ToSet(batch) \cup ToSet(attempted)
      /\ Present' = ToSet(queue') \cup InHandSet' \cup ToSet(batch') \cup ToSet(attempted')
  <2>1. ToSet(InHand) = InHandSet /\ ToSet(InHand)' = InHandSet'
    BY DEF InHand, InHandSet, ToSet
  <2> QED
    BY <2>1 DEF Present
<1>c. ASSUME NEW x \in Items, queue' = Append(queue, x)
      PROVE  ToSet(queue') = ToSet(queue) \cup {x}
  BY <1>a, <1>c, ToSetAppend
<1>d. ASSUME queue # <<>>, queue' = Tail(queue)
      PROVE  ToSet(queue) = {Head(queue)} \cup ToSet(queue')
  BY <1>a, <1>d, ToSetHeadTail
<1>e. ASSUME NEW x \in Events, batch' = Append(batch, x)
      PROVE  ToSet(batch') = ToSet(batch) \cup {x}
  BY <1>a, <1>e, ToSetAppend
<1>1. ASSUME NEW x \in Events, Put(x)
      PROVE  PutEnqueue(e) /\ queue' = Append(queue, e)
  <2>1. UNCHANGED <<batch, attempted, item, wpc>>
    BY <1>1 DEF Put, PutCheckCircuit, PutCheckStop, PutEnqueue, workerVars, exportVars
  <2>2. queue' = queue \/ (PutEnqueue(x) /\ queue' = Append(queue, x))
    BY <1>1 DEF Put, PutCheckCircuit, PutCheckStop, PutEnqueue
  <2>3. queue' # queue
    BY <1>b, <2>1 DEF InHandSet
  <2>4. e = x
    BY <1>a, <1>b, <1>c, <2>1, <2>2, <2>3 DEF InHandSet
  <2> QED
    BY <2>2, <2>3, <2>4
<1>2. ASSUME NEW f \in Flushes, Flush(f) PROVE FALSE
  <2>1. UNCHANGED <<batch, attempted, item, wpc>>
    BY <1>2 DEF Flush, FlushStart, FlushEnqueue, FlushReturn, workerVars, exportVars
  <2>2. queue' = queue \/ queue' = Append(queue, f)
    BY <1>2 DEF Flush, FlushStart, FlushEnqueue, FlushReturn
  <2> QED
    BY <1>a, <1>b, <1>c, <2>1, <2>2 DEF InHandSet
<1>3. ASSUME NEW s \in Shutdowns, Shutdown(s) PROVE FALSE
  <2>1. UNCHANGED <<batch, attempted, item, wpc>>
    BY <1>3 DEF Shutdown, ShutdownStart, ShutdownSetStop, ShutdownWakeWorker, ShutdownJoin,
                workerVars, exportVars
  <2>2. queue' = queue \/ queue' = Append(queue, Sentinel)
    BY <1>3 DEF Shutdown, ShutdownStart, ShutdownSetStop, ShutdownWakeWorker, ShutdownJoin
  <2> QED
    BY <1>a, <1>b, <1>c, <2>1, <2>2 DEF InHandSet
<1>4. ASSUME WorkerGet PROVE FALSE
  <2>1. UNCHANGED <<batch, attempted>>
    BY <1>4 DEF WorkerGet, exportVars
  <2>2. CASE queue # <<>> /\ item' = Head(queue) /\ queue' = Tail(queue)
    BY <1>b, <1>d, <2>1, <2>2 DEF InHandSet
  <2>3. CASE item' = Sentinel /\ queue' = queue
    BY <1>a, <1>b, <2>1, <2>3 DEF InHandSet
  <2> QED
    BY <1>4, <2>2, <2>3 DEF WorkerGet
<1>5. ASSUME WorkerStop \/ WorkerFlush \/ WorkerDrained \/ WorkerExported PROVE FALSE
  <2>1. UNCHANGED <<queue, batch, attempted>> /\ wpc' # "dispatch"
    BY <1>5 DEF WorkerStop, WorkerFlush, WorkerDrained, WorkerExported, exportVars
  <2> QED
    BY <1>b, <2>1 DEF InHandSet
<1>6. ASSUME WorkerBatch PROVE FALSE
  <2>1. /\ UNCHANGED <<queue, attempted>> /\ wpc' # "dispatch"
        /\ wpc = "dispatch" /\ item \in Events /\ batch' = Append(batch, item)
    BY <1>6 DEF WorkerBatch, JoinBatch, exportVars
  <2> QED
    BY <1>b, <1>e, <2>1 DEF InHandSet
<1>7. ASSUME WorkerDrain PROVE FALSE
  <2>1. /\ UNCHANGED <<attempted, item, wpc>> /\ queue # <<>> /\ queue' = Tail(queue)
    BY <1>7 DEF WorkerDrain, exportVars
  <2>2. ToSet(batch') \subseteq ToSet(batch) \cup {Head(queue)}
    <3>1. CASE Head(queue) \in Events
      BY <1>7, <1>e, <3>1 DEF WorkerDrain, JoinBatch
    <3>2. CASE Head(queue) \notin Events
      BY <1>7, <3>2 DEF WorkerDrain
    <3> QED
      BY <3>1, <3>2
  <2> QED
    BY <1>b, <1>d, <2>1, <2>2 DEF InHandSet
<1>8. ASSUME WorkerExport PROVE FALSE
  <2>1. /\ UNCHANGED <<queue, item, wpc>>
        /\ batch # <<>> /\ batch' = Tail(batch) /\ attempted' = Append(attempted, Head(batch))
    BY <1>8 DEF WorkerExport
  <2>2. ToSet(batch) = {Head(batch)} \cup ToSet(batch') /\ Head(batch) \in Events
    BY <1>a, <2>1, ToSetHeadTail, HeadTailProperties
  <2>3. ToSet(attempted') = ToSet(attempted) \cup {Head(batch)}
    BY <1>a, <2>1, <2>2, ToSetAppend
  <2> QED
    BY <1>b, <2>1, <2>2, <2>3 DEF InHandSet
<1>9. ~ UNCHANGED vars
  <2>1. UNCHANGED vars => UNCHANGED <<queue, batch, attempted, item, wpc>>
    BY DEF vars, workerVars, exportVars
  <2> QED
    BY <1>b, <2>1 DEF InHandSet
<1> QED
  BY <1>1, <1>2, <1>3, <1>4, <1>5, <1>6, <1>7, <1>8, <1>9 DEF Next, Worker

\* What the steps add to the order of queueing, and to the queue.
LEMMA OrderGrows ==
  ASSUME TypeInv, [Next]_vars
  PROVE  \/ UNCHANGED order
         \/ \E e \in Events : PutEnqueue(e) /\ putPc'[e] = "queued" /\ order' = Append(order, e)
                              /\ queue' = Append(queue, e)
         \/ \E f \in Flushes : FlushEnqueue(f) /\ flushPc[f] = "alive" /\ flushPc'[f] = "waiting"
                               /\ order' = Append(order, f) /\ queue' = Append(queue, f)
<1>1. ASSUME NEW e \in Events, Put(e), order' # order
      PROVE  PutEnqueue(e) /\ putPc'[e] = "queued" /\ order' = Append(order, e)
             /\ queue' = Append(queue, e)
  BY <1>1 DEF Put, PutCheckCircuit, PutCheckStop, PutEnqueue, TypeInv, TypeOK
<1>2. ASSUME NEW f \in Flushes, Flush(f), order' # order
      PROVE  FlushEnqueue(f) /\ flushPc[f] = "alive" /\ flushPc'[f] = "waiting"
             /\ order' = Append(order, f) /\ queue' = Append(queue, f)
  BY <1>2 DEF Flush, FlushStart, FlushEnqueue, FlushReturn, TypeInv, TypeOK
<1>3. ASSUME NEW s \in Shutdowns, Shutdown(s) PROVE UNCHANGED order
  BY <1>3 DEF Shutdown, ShutdownStart, ShutdownSetStop, ShutdownWakeWorker, ShutdownJoin
<1>4. ASSUME Worker PROVE UNCHANGED order
  BY <1>4 DEF Worker, WorkerGet, WorkerStop, WorkerFlush, WorkerBatch, WorkerDrain,
              WorkerDrained, WorkerExport, WorkerExported
<1>5. UNCHANGED vars => UNCHANGED order
  BY DEF vars
<1> QED
  BY <1>1, <1>2, <1>3, <1>4, <1>5 DEF Next

\* The callers' places: a call that is over stays so.
LEMMA CallsGoOn ==
  ASSUME TypeInv, [Next]_vars
  PROVE  /\ \A e \in Events : putPc[e] = "queued" => putPc'[e] = "queued"
         /\ \A f \in Flushes : flushPc[f] \notin {"idle", "alive"} => flushPc'[f] \notin {"idle", "alive"}
<1>0. /\ putPc \in [Events -> {"idle", "admitted", "checked", "queued", "rejected"}]
      /\ flushPc \in [Flushes -> {"idle", "alive", "waiting", "true", "false"}]
  BY DEF TypeInv, TypeOK
<1>1. ASSUME NEW x \in Events, Put(x)
      PROVE  flushPc' = flushPc /\ \A e \in Events : putPc[e] = "queued" => putPc'[e] = "queued"
  BY <1>0, <1>1 DEF Put, PutCheckCircuit, PutCheckStop, PutEnqueue
<1>2. ASSUME NEW x \in Flushes, Flush(x)
      PROVE  putPc' = putPc /\ \A f \in Flushes : flushPc[f] \notin {"idle", "alive"} =>
                                                  flushPc'[f] \notin {"idle", "alive"}
  BY <1>0, <1>2 DEF Flush, FlushStart, FlushEnqueue, FlushReturn
<1>3. ASSUME NEW s \in Shutdowns, Shutdown(s) PROVE UNCHANGED <<putPc, flushPc>>
  BY <1>3 DEF Shutdown, ShutdownStart, ShutdownSetStop, ShutdownWakeWorker, ShutdownJoin
<1>4. ASSUME Worker PROVE UNCHANGED <<putPc, flushPc>>
  BY <1>4 DEF Worker, WorkerGet, WorkerStop, WorkerFlush, WorkerBatch, WorkerDrain,
              WorkerDrained, WorkerExport, WorkerExported, callerVars
<1>5. UNCHANGED vars => UNCHANGED <<putPc, flushPc>>
  BY DEF vars, callerVars
<1> QED
  BY <1>1, <1>2, <1>3, <1>4, <1>5 DEF Next

LEMMA EventsStep == TypeInv /\ TypeInv' /\ EventsOnce /\ [Next]_vars => EventsOnce'
<1> SUFFICES ASSUME TypeInv, TypeInv', EventsOnce, [Next]_vars,
                    NEW e \in Events, putPc'[e] # "queued"
             PROVE  e \notin Present' /\ e \notin ToSet(order')
  BY DEF EventsOnce
<1>0. order \in Seq(Events \cup Flushes) /\ Events \cap Flushes = {}
  BY ItemsAssumption DEF TypeInv, TypeOK, ItemsAssumption
<1>1. e \notin Present /\ e \notin ToSet(order)
  BY CallsGoOn DEF EventsOnce
<1>2. e \notin Present'
  <2> SUFFICES ASSUME e \in Present'
               PROVE  FALSE
    OBVIOUS
  <2>1. PutEnqueue(e) /\ queue' = Append(queue, e)
    BY <1>1, PresentGrows
  <2>2. queue' # queue
    <3>1. queue \in Seq(Items) /\ e \in Items
      BY DEF TypeInv, TypeOK, Items
    <3>2. Len(queue') = Len(queue) + 1 /\ Len(queue) \in Nat
      BY <2>1, <3>1
    <3> QED
      BY <3>2
  <2> QED
    BY <2>1, <2>2 DEF PutEnqueue, TypeInv, TypeOK
<1>3. e \notin ToSet(order')
  <2>1. ASSUME NEW x \in Events \cup Flushes, order' = Append(order, x), x # e
        PROVE  e \notin ToSet(order')
    <3>1. ToSet(order') = ToSet(order) \cup {x}
      BY <1>0, <2>1, ToSetAppend
    <3> QED
      BY <1>1, <2>1, <3>1
  <2> QED
    BY <1>0, <1>1, <2>1, OrderGrows
<1> QED
  BY <1>2, <1>3

\* What the steps do to the queue and to the item in hand.
LEMMA QueueSteps ==
  ASSUME TypeInv, [Next]_vars
  PROVE  \/ UNCHANGED <<queue, item>>
         \/ \E x \in Items \ Flushes : queue' = Append(queue, x) /\ item' = item
         \/ \E f \in Flushes : /\ FlushEnqueue(f) /\ flushPc[f] = "alive" /\ flushPc'[f] = "waiting"
                               /\ queue' = Append(queue, f) /\ item' = item
         \/ WorkerGet /\ queue # <<>> /\ queue' = Tail(queue) /\ item' = Head(queue)
         \/ WorkerGet /\ queue' = queue /\ item' = Sentinel
         \/ WorkerDrain /\ queue # <<>> /\ queue' = Tail(queue) /\ item' = item
<1>0. Events \subseteq Items \ Flushes /\ Sentinel \in Items \ Flushes
  BY ItemsAssumption DEF ItemsAssumption, Items
<1>1. ASSUME NEW e \in Events, Put(e)
      PROVE  item' = item /\ (queue' = queue \/ queue' = Append(queue, e))
  BY <1>1 DEF Put, PutCheckCircuit, PutCheckStop, PutEnqueue, workerVars
<1>2. ASSUME NEW f \in Flushes, Flush(f)
      PROVE  /\ item' = item
             /\ \/ queue' = queue
                \/ FlushEnqueue(f) /\ flushPc[f] = "alive" /\ flushPc'[f] = "waiting" /\ queue' = Append(queue, f)
  BY <1>2 DEF Flush, FlushStart, FlushEnqueue, FlushReturn, workerVars, TypeInv, TypeOK
<1>3. ASSUME NEW s \in Shutdowns, Shutdown(s)
      PROVE  item' = item /\ (queue' = queue \/ queue' = Append(queue, Sentinel))
  BY <1>3 DEF Shutdown, ShutdownStart, ShutdownSetStop, ShutdownWakeWorker, ShutdownJoin, workerVars
<1>4. CASE WorkerGet
  BY <1>4 DEF WorkerGet
<1>5. CASE WorkerDrain
  BY <1>5 DEF WorkerDrain
<1>6. CASE WorkerStop \/ WorkerFlush \/ WorkerBatch \/ WorkerDrained \/ WorkerExport \/ WorkerExported
  BY <1>6 DEF WorkerStop, WorkerFlush, WorkerBatch, WorkerDrained, WorkerExport, WorkerExported
<1>7. UNCHANGED vars => UNCHANGED <<queue, item>>
  BY DEF vars, workerVars
<1> QED
  BY <1>0, <1>1, <1>2, <1>3, <1>4, <1>5, <1>6, <1>7 DEF Next, Worker

LEMMA TagsStep == TypeInv /\ TagsOnce /\ [Next]_vars => TagsOnce'
<1> SUFFICES ASSUME TypeInv, TagsOnce, [Next]_vars
             PROVE  TagsOnce'
  OBVIOUS
<1>0. /\ queue \in Seq(Items) /\ Len(queue) \in Nat /\ order \in Seq(Events \cup Flushes)
      /\ Events \cap Flushes = {} /\ Sentinel \notin Flushes /\ Flushes \subseteq Items
  BY ItemsAssumption DEF TypeInv, TypeOK, ItemsAssumption, Items
<1>1. ASSUME queue # <<>>, queue' = Tail(queue)
      PROVE  /\ Len(queue') \in Nat /\ Len(queue) = Len(queue') + 1
             /\ Head(queue) = queue[1]
             /\ \A i \in 1 .. Len(queue') : i + 1 \in 1 .. Len(queue) /\ queue'[i] = queue[i + 1]
             /\ ToSet(queue) = {Head(queue)} \cup ToSet(queue')
  <2>1. ToSet(queue) = {Head(queue)} \cup ToSet(queue')
    BY <1>0, <1>1, ToSetHeadTail
  <2> QED
    BY <1>0, <1>1, <2>1, HeadTailProperties, EmptySeq
<1>2. ASSUME NEW x \in Items, queue' = Append(queue, x)
      PROVE  /\ Len(queue') = Len(queue) + 1
             /\ queue'[Len(queue) + 1] = x
             /\ \A i \in 1 .. Len(queue) : queue'[i] = queue[i]
             /\ ToSet(queue') = ToSet(queue) \cup {x}
  <2>1. ToSet(queue') = ToSet(queue) \cup {x}
    BY <1>0, <1>2, ToSetAppend
  <2> QED
    BY <1>0, <1>2, <2>1, AppendProperties
<1>3. \A i \in 1 .. Len(queue) : queue[i] \in ToSet(queue)
  BY <1>0 DEF ToSet
<1>4. ASSUME NEW f \in Flushes, flushPc'[f] \in {"idle", "alive"}
      PROVE  f \notin ToSet(queue') /\ f \notin ToSet(order') /\ f # item'
  <2>1. f \notin ToSet(queue) /\ f \notin ToSet(order) /\ f # item
    BY <1>4, CallsGoOn DEF TagsOnce
  <2>2. f \notin ToSet(order')
    <3>1. ASSUME NEW x \in Events \cup Flushes, order' = Append(order, x), x # f
          PROVE  f \notin ToSet(order')
      <4>1. ToSet(order') = ToSet(order) \cup {x}
        BY <1>0, <3>1, ToSetAppend
      <4> QED
        BY <2>1, <3>1, <4>1
    <3> QED
      BY <1>0, <1>4, <2>1, <3>1, OrderGrows
  <2>3. f \notin ToSet(queue')
    <3>1. ASSUME NEW x \in Items, queue' = Append(queue, x), x # f
          PROVE  f \notin ToSet(queue')
      BY <1>2, <2>1, <3>1
    <3>2. ASSUME queue # <<>>, queue' = Tail(queue)
          PROVE  f \notin ToSet(queue')
      BY <1>1, <2>1, <3>2
    <3> QED
      BY <1>0, <1>4, <2>1, <3>1, <3>2, QueueSteps
  <2>4. f # item'
    <3>1. ASSUME queue # <<>>
          PROVE  Head(queue) \in ToSet(queue)
      BY <1>0, <3>1, ToSetHeadTail
    <3> QED
      BY <1>0, <2>1, <3>1, QueueSteps
  <2> QED
    BY <2>2, <2>3, <2>4
<1>5. ASSUME NEW i \in 1 .. Len(queue'), queue'[i] \in Flushes
      PROVE  queue'[i] # item' /\ \A j \in 1 .. Len(queue') : queue'[j] = queue'[i] => j = i
  <2>1. CASE UNCHANGED <<queue, item>>
    BY <1>5, <2>1 DEF TagsOnce
  <2>2. ASSUME NEW x \in Items, queue' = Append(queue, x), item' = item,
               x \in Flushes => x \notin ToSet(queue) /\ x # item
        PROVE  queue'[i] # item' /\ \A j \in 1 .. Len(queue') : queue'[j] = queue'[i] => j = i
    <3>1. \A j \in 1 .. Len(queue') : j \in 1 .. Len(queue) \/ j = Len(queue) + 1
      BY <1>0, <1>2, <2>2
    <3>2. CASE i = Len(queue) + 1
      BY <1>2, <1>3, <1>5, <2>2, <3>1, <3>2
    <3>3. CASE i \in 1 .. Len(queue)
      <4>1. queue'[i] = queue[i] /\ queue[i] \in Flushes /\ queue[i] \in ToSet(queue)
        BY <1>2, <1>3, <1>5, <2>2, <3>3
      <4>2. queue[i] # x
        BY <2>2, <4>1
      <4>3. queue[i] # item /\ \A j \in 1 .. Len(queue) : queue[j] = queue[i] => j = i
        BY <3>3, <4>1 DEF TagsOnce
      <4> QED
        BY <1>2, <2>2, <3>1, <4>1, <4>2, <4>3
    <3> QED
      BY <3>1, <3>2, <3>3
  <2>3. ASSUME queue # <<>>, queue' = Tail(queue), item' \in {item, Head(queue)}
        PROVE  queue'[i] # item' /\ \A j \in 1 .. Len(queue') : queue'[j] = queue'[i] => j = i
    <3>1. /\ i + 1 \in 1 .. Len(queue) /\ queue'[i] = queue[i + 1] /\ i + 1 # 1
          /\ 1 \in 1 .. Len(queue) /\ Head(queue) = queue[1]
      BY <1>0, <1>1, <2>3
    <3>2. queue[i + 1] # item /\ \A j \in 1 .. Len(queue) : queue[j] = queue[i + 1] => j = i + 1
      BY <1>5, <3>1 DEF TagsOnce
    <3>3. \A j \in 1 .. Len(queue') : queue'[j] = queue[j + 1] /\ j + 1 \in 1 .. Len(queue)
      BY <1>1, <2>3
    <3>4. ASSUME NEW j \in 1 .. Len(queue'), queue'[j] = queue'[i]
          PROVE  j = i
      <4>1. j + 1 = i + 1
        BY <3>1, <3>2, <3>3, <3>4
      <4> QED
        BY <1>0, <4>1
    <3> QED
      BY <2>3, <3>1, <3>2, <3>4
  <2>4. CASE queue' = queue /\ item' = Sentinel
    BY <1>0, <1>5, <2>4 DEF TagsOnce
  <2>5. \A f \in Flushes : flushPc[f] = "alive" => f \notin ToSet(queue) /\ f # item
    BY DEF TagsOnce
  <2> QED
    BY <1>0, <2>1, <2>2, <2>3, <2>4, <2>5, QueueSteps
<1> QED
  BY <1>4, <1>5 DEF TagsOnce

LEMMA OnceInvariance == Spec => []StopLasts /\ []EventsOnce /\ []TagsOnce
<1> QED
  BY OnceInit, StopStep, EventsStep, TagsStep, TypeInvariant, PTL DEF Spec

----------------------------------------------------------------------------
(* A served flush is a barrier.                                             *)

\* What has left the queue and is not lost.
OnTheWay == InHandSet \cup ToSet(batch) \cup ToSet(attempted)

\* Until the worker stops, what was queued before a tag is ahead of it: in the
\* queue, or on its way to the exporter; and of a tag that is served, all is
\* in the batch or exported.
BarrierInv ==
  reason # "stop" =>
    /\ \A f \in Flushes : \A k \in 1 .. Len(queue) : queue[k] = f =>
         \A e \in QueuedBefore(f) : e \in OnTheWay \/ \E i \in 1 .. k - 1 : queue[i] = e
    /\ item \in Flushes /\ wpc \in {"dispatch", "drain", "export"} =>
         QueuedBefore(item) \subseteq ToSet(batch) \cup ToSet(attempted)

LEMMA QueuedBeforeEvents ==
  ASSUME TypeInv, NEW f
  PROVE  QueuedBefore(f) \subseteq Events /\ QueuedBefore(f) \subseteq ToSet(order)
BY DEF QueuedBefore, ToSet

\* What is queued behind the tag of f was not queued before it.
LEMMA QueuedBeforeStays ==
  ASSUME TypeInv, NEW f, NEW x \in Events \cup Flushes, order' = Append(order, x), x # f
  PROVE  QueuedBefore(f)' = QueuedBefore(f)
<1>1. /\ order \in Seq(Events \cup Flushes) /\ Len(order) \in Nat
      /\ DOMAIN order = 1 .. Len(order) /\ DOMAIN order' = 1 .. Len(order) + 1
      /\ order'[Len(order) + 1] = x
      /\ \A i \in 1 .. Len(order) : order'[i] = order[i]
  BY AppendProperties DEF TypeInv, TypeOK
<1>2. ASSUME NEW k \in 1 .. Len(order) + 1, NEW j \in 1 .. Len(order) + 1, j > k, order'[j] = f
      PROVE  k \in 1 .. Len(order) /\ j \in 1 .. Len(order) /\ order[j] = f /\ order[k] = order'[k]
  <2>1. j # Len(order) + 1
    BY <1>1, <1>2
  <2> QED
    BY <1>1, <1>2, <2>1
<1>3. ASSUME NEW k \in 1 .. Len(order), NEW j \in 1 .. Len(order), j > k, order[j] = f
      PROVE  k \in 1 .. Len(order) + 1 /\ j \in 1 .. Len(order) + 1 /\ order'[j] = f /\ order'[k] = order[k]
  BY <1>1, <1>3
<1>4. QueuedBefore(f)' \subseteq QueuedBefore(f)
  BY <1>1, <1>2 DEF QueuedBefore
<1>5. QueuedBefore(f) \subseteq QueuedBefore(f)'
  BY <1>1, <1>3 DEF QueuedBefore
<1> QED
  BY <1>4, <1>5

\* What a step changes between the queue and the exporter.
LEMMA OnTheWaySteps ==
  ASSUME TypeInv, TypeInv', [Next]_vars
  PROVE  /\ ToSet(batch) \cup ToSet(attempted) \subseteq ToSet(batch') \cup ToSet(attempted')
         /\ reason' # "stop" => OnTheWay \subseteq OnTheWay'
         /\ StopLasts /\ reason = "stop" => reason' = "stop"
         /\ WorkerGet \/ (wpc' \in {"dispatch", "drain", "export"} => wpc \in {"dispatch", "drain", "export"})
<1>a. /\ queue \in Seq(Items) /\ batch \in Seq(Events) /\ attempted \in Seq(Events)
      /\ Sentinel \notin Events /\ Events \cap Flushes = {}
  BY ItemsAssumption DEF TypeInv, TypeOK, Items, ItemsAssumption
<1>b. ASSUME NEW x \in Events, batch' = Append(batch, x)
      PROVE  ToSet(batch') = ToSet(batch) \cup {x}
  BY <1>a, <1>b, ToSetAppend
<1> DEFINE Goal == /\ ToSet(batch) \cup ToSet(attempted) \subseteq ToSet(batch') \cup ToSet(attempted')
                   /\ reason' # "stop" => OnTheWay \subseteq OnTheWay'
                   /\ StopLasts /\ reason = "stop" => reason' = "stop"
                   /\ WorkerGet \/ (wpc' \in {"dispatch", "drain", "export"} =>
                                      wpc \in {"dispatch", "drain", "export"})
<1>1. ASSUME UNCHANGED <<batch, attempted, item, wpc, reason>> PROVE Goal
  BY <1>1 DEF OnTheWay, InHandSet
<1>2. ASSUME NEW e \in Events, Put(e) PROVE UNCHANGED <<batch, attempted, item, wpc, reason>>
  BY <1>2 DEF Put, PutCheckCircuit, PutCheckStop, PutEnqueue, workerVars, exportVars
<1>3. ASSUME NEW f \in Flushes, Flush(f) PROVE UNCHANGED <<batch, attempted, item, wpc, reason>>
  BY <1>3 DEF Flush, FlushStart, FlushEnqueue, FlushReturn, workerVars, exportVars
<1>4. ASSUME NEW s \in Shutdowns, Shutdown(s) PROVE UNCHANGED <<batch, attempted, item, wpc, reason>>
  BY <1>4 DEF Shutdown, ShutdownStart, ShutdownSetStop, ShutdownWakeWorker, ShutdownJoin,
              workerVars, exportVars
<1>5. ASSUME WorkerGet PROVE Goal
  BY <1>5 DEF WorkerGet, exportVars, OnTheWay, InHandSet
<1>6. ASSUME WorkerStop PROVE Goal
  BY <1>6 DEF WorkerStop, exportVars
<1>7. ASSUME WorkerFlush PROVE Goal
  BY <1>7, <1>a DEF WorkerFlush, exportVars, OnTheWay, InHandSet, StopLasts
<1>8. ASSUME WorkerBatch PROVE Goal
  <2>1. /\ UNCHANGED attempted /\ wpc = "dispatch" /\ item \in Events
        /\ ToSet(batch') = ToSet(batch) \cup {item}
    BY <1>8, <1>b DEF WorkerBatch, JoinBatch, exportVars
  <2> QED
    BY <2>1 DEF OnTheWay, InHandSet, StopLasts
<1>9. ASSUME WorkerDrain PROVE Goal
  <2>1. UNCHANGED <<attempted, item, wpc, reason>>
    BY <1>9 DEF WorkerDrain, exportVars
  <2>2. ToSet(batch) \subseteq ToSet(batch')
    <3>1. CASE Head(queue) \in Events
      BY <1>9, <1>b, <3>1 DEF WorkerDrain, JoinBatch
    <3>2. CASE Head(queue) \notin Events
      BY <1>9, <3>2 DEF WorkerDrain
    <3> QED
      BY <3>1, <3>2
  <2> QED
    BY <2>1, <2>2 DEF OnTheWay, InHandSet
<1>10. ASSUME WorkerDrained \/ WorkerExported PROVE Goal
  BY <1>10 DEF WorkerDrained, WorkerExported, exportVars, OnTheWay, InHandSet
<1>11. ASSUME WorkerExport PROVE Goal
  <2>1. /\ UNCHANGED <<item, wpc, reason>>
        /\ batch # <<>> /\ batch' = Tail(batch) /\ attempted' = Append(attempted, Head(batch))
    BY <1>11 DEF WorkerExport
  <2>2. ToSet(batch) = {Head(batch)} \cup ToSet(batch') /\ Head(batch) \in Events
    BY <1>a, <2>1, ToSetHeadTail, HeadTailProperties
  <2>3. ToSet(attempted') = ToSet(attempted) \cup {Head(batch)}
    BY <1>a, <2>1, <2>2, ToSetAppend
  <2> QED
    BY <2>1, <2>2, <2>3 DEF OnTheWay, InHandSet
<1>12. UNCHANGED vars => UNCHANGED <<batch, attempted, item, wpc, reason>>
  BY DEF vars, workerVars, exportVars
<1> QED
  BY <1>1, <1>2, <1>3, <1>4, <1>5, <1>6, <1>7, <1>8, <1>9, <1>10, <1>11, <1>12 DEF Next, Worker

LEMMA BarrierStep ==
  /\ TypeInv /\ TypeInv' /\ LossInv /\ StopLasts /\ EventsOnce /\ TagsOnce
  /\ BarrierInv /\ [Next]_vars
  => BarrierInv'
<1> SUFFICES ASSUME TypeInv, TypeInv', LossInv, StopLasts, EventsOnce, TagsOnce,
                    BarrierInv, [Next]_vars, reason' # "stop"
             PROVE  /\ \A f \in Flushes : \A k \in 1 .. Len(queue') : queue'[k] = f =>
                         \A e \in QueuedBefore(f)' :
                           e \in OnTheWay' \/ \E i \in 1 .. k - 1 : queue'[i] = e
                    /\ item' \in Flushes /\ wpc' \in {"dispatch", "drain", "export"} =>
                         \A f \in Flushes : f = item' =>
                           QueuedBefore(f)' \subseteq ToSet(batch') \cup ToSet(attempted')
  BY DEF BarrierInv
<1>0. /\ queue \in Seq(Items) /\ Len(queue) \in Nat /\ order \in Seq(Events \cup Flushes)
      /\ batch \in Seq(Events)
      /\ Events \cap Flushes = {} /\ Sentinel \notin Flushes /\ Flushes \subseteq Items
  BY ItemsAssumption DEF TypeInv, TypeOK, ItemsAssumption, Items
<1>1. /\ reason # "stop"
      /\ OnTheWay \subseteq OnTheWay'
      /\ ToSet(batch) \cup ToSet(attempted) \subseteq ToSet(batch') \cup ToSet(attempted')
  BY OnTheWaySteps
\* A tag that is queued or in hand already has its place in the order.
<1>2. ASSUME NEW f \in Flushes, f \in ToSet(queue) \/ f = item
      PROVE  QueuedBefore(f)' = QueuedBefore(f)
  <2>1. ASSUME NEW x \in Events \cup Flushes, order' = Append(order, x),
               x \in Flushes => flushPc[x] = "alive"
        PROVE  QueuedBefore(f)' = QueuedBefore(f)
    <3>1. x # f
      BY <1>0, <1>2, <2>1 DEF TagsOnce
    <3> QED
      BY <2>1, <3>1, QueuedBeforeStays
  <2>2. UNCHANGED order => QueuedBefore(f)' = QueuedBefore(f)
    BY DEF QueuedBefore
  <2> QED
    BY <1>0, <2>1, <2>2, OrderGrows
<1>3. \A i \in 1 .. Len(queue) : queue[i] \in ToSet(queue)
  BY <1>0 DEF ToSet
<1>4. ASSUME NEW f \in Flushes, NEW k \in 1 .. Len(queue), queue[k] = f, NEW e \in QueuedBefore(f)
      PROVE  e \in OnTheWay \/ \E i \in 1 .. k - 1 : queue[i] = e
  BY <1>1, <1>4 DEF BarrierInv
\* All that was queued is in the pipeline.
<1>5. ASSUME NEW e \in Events, e \in ToSet(order)
      PROVE  e \in OnTheWay \/ \E i \in 1 .. Len(queue) : queue[i] = e
  <2>1. putPc[e] = "queued"
    BY <1>5 DEF EventsOnce
  <2>2. e \in Present
    BY <1>1, <2>1 DEF LossInv, Lost, Accepted
  <2>3. ToSet(InHand) = InHandSet
    BY DEF InHand, InHandSet, ToSet
  <2> QED
    BY <1>0, <2>2, <2>3 DEF Present, OnTheWay, ToSet
<1>6. ASSUME queue # <<>>, queue' = Tail(queue)
      PROVE  /\ Len(queue') \in Nat /\ Len(queue) = Len(queue') + 1
             /\ 1 \in 1 .. Len(queue) /\ Head(queue) = queue[1]
             /\ \A i \in 1 .. Len(queue') : i + 1 \in 1 .. Len(queue) /\ queue'[i] = queue[i + 1]
  BY <1>0, <1>6, HeadTailProperties, EmptySeq
\* The tags in the queue.
<1>7. ASSUME NEW f \in Flushes, NEW k \in 1 .. Len(queue'), queue'[k] = f, NEW e \in QueuedBefore(f)'
      PROVE  e \in OnTheWay' \/ \E i \in 1 .. k - 1 : queue'[i] = e
  <2>1. ASSUME k \in 1 .. Len(queue), queue[k] = f, \A i \in 1 .. k - 1 : queue'[i] = queue[i]
        PROVE  e \in OnTheWay' \/ \E i \in 1 .. k - 1 : queue'[i] = e
    <3>1. e \in QueuedBefore(f)
      BY <1>2, <1>3, <1>7, <2>1
    <3> QED
      BY <1>1, <1>4, <2>1, <3>1
  <2>2. ASSUME NEW x \in Items, queue' = Append(queue, x),
               x \in Flushes => FlushEnqueue(x) /\ flushPc[x] = "alive" /\ flushPc'[x] = "waiting"
        PROVE  e \in OnTheWay' \/ \E i \in 1 .. k - 1 : queue'[i] = e
    <3>1. /\ Len(queue') = Len(queue) + 1
          /\ queue'[Len(queue) + 1] = x
          /\ \A i \in 1 .. Len(queue) : queue'[i] = queue[i]
      BY <1>0, <2>2, AppendProperties
    <3>2. CASE k \in 1 .. Len(queue)
      <4>1. queue[k] = f /\ \A i \in 1 .. k - 1 : queue'[i] = queue[i]
        BY <1>0, <1>7, <3>1, <3>2
      <4> QED
        BY <2>1, <3>2, <4>1
    <3>3. CASE k = Len(queue) + 1
      <4>1. x = f /\ FlushEnqueue(f)
        BY <1>7, <2>2, <3>1, <3>3
      <4>2. order' = Append(order, f)
        <5>1. queue' # queue
          BY <1>0, <3>1
        <5> QED
          BY <4>1, <5>1 DEF FlushEnqueue
      <4>3. e \in Events /\ e \in ToSet(order') /\ e # f
        <5>1. QueuedBefore(f)' \subseteq Events /\ QueuedBefore(f)' \subseteq ToSet(order')
          BY DEF QueuedBefore, ToSet
        <5> QED
          BY <1>0, <1>7, <5>1
      <4>4. e \in ToSet(order)
        <5>1. ToSet(order') = ToSet(order) \cup {f}
          BY <1>0, <4>2, ToSetAppend
        <5> QED
          BY <4>3, <5>1
      <4>5. e \in OnTheWay \/ \E i \in 1 .. Len(queue) : queue[i] = e
        BY <1>5, <4>3, <4>4
      <4>6. k - 1 = Len(queue)
        BY <1>0, <3>3
      <4> QED
        BY <1>1, <3>1, <4>5, <4>6
    <3> QED
      BY <1>0, <3>1, <3>2, <3>3
  <2>3. ASSUME queue # <<>>, queue' = Tail(queue),
               (WorkerGet /\ item' = Head(queue)) \/ WorkerDrain
        PROVE  e \in OnTheWay' \/ \E i \in 1 .. k - 1 : queue'[i] = e
    <3>1. k + 1 \in 1 .. Len(queue) /\ queue[k + 1] = f
      BY <1>6, <1>7, <2>3
    <3>2. e \in QueuedBefore(f) /\ e \in Events
      BY <1>2, <1>3, <1>7, <3>1, QueuedBeforeEvents
    <3>3. e \in OnTheWay \/ \E i \in 1 .. k : queue[i] = e
      <4>1. (k + 1) - 1 = k
        BY <1>6, <2>3
      <4> QED
        BY <1>4, <3>1, <3>2, <4>1
    <3>4. ASSUME e = Head(queue)
          PROVE  e \in OnTheWay'
      <4>1. CASE WorkerGet /\ item' = Head(queue)
        BY <3>2, <3>4, <4>1 DEF WorkerGet, OnTheWay, InHandSet
      <4>2. CASE WorkerDrain
        <5>1. batch' = Append(batch, e)
          BY <3>2, <3>4, <4>2 DEF WorkerDrain, JoinBatch
        <5>2. e \in ToSet(batch')
          BY <1>0, <3>2, <5>1, ToSetAppend
        <5> QED
          BY <5>2 DEF OnTheWay
      <4> QED
        BY <2>3, <4>1, <4>2
    <3>5. ASSUME NEW i \in 1 .. k, queue[i] = e, i # 1
          PROVE  \E j \in 1 .. k - 1 : queue'[j] = e
      <4>1. i - 1 \in 1 .. k - 1 /\ i - 1 \in 1 .. Len(queue') /\ (i - 1) + 1 = i
        BY <1>6, <2>3, <3>5
      <4> QED
        BY <1>6, <2>3, <3>5, <4>1
    <3>6. ASSUME NEW i \in 1 .. k, queue[i] = e
          PROVE  e \in OnTheWay' \/ \E j \in 1 .. k - 1 : queue'[j] = e
      <4>1. i = 1 => e = Head(queue)
        BY <1>6, <2>3, <3>6
      <4> QED
        BY <3>4, <3>5, <3>6, <4>1
    <3>7. CASE e \in OnTheWay
      BY <1>1, <3>7
    <3>8. CASE \E i \in 1 .. k : queue[i] = e
      <4>1. PICK i \in 1 .. k : queue[i] = e
        BY <3>8
      <4> QED
        BY <3>6, <4>1
    <3> QED
      BY <3>3, <3>7, <3>8
  <2>4. CASE queue' = queue
    BY <1>7, <2>1, <2>4
  <2>5. CASE \E x \in Items \ Flushes : queue' = Append(queue, x) /\ item' = item
    BY <2>2, <2>5
  <2>6. CASE \E x \in Flushes : /\ FlushEnqueue(x) /\ flushPc[x] = "alive" /\ flushPc'[x] = "waiting"
                                /\ queue' = Append(queue, x) /\ item' = item
    BY <1>0, <2>2, <2>6
  <2> QED
    BY <2>3, <2>4, <2>5, <2>6, QueueSteps
\* The tag in hand.
<1>8. ASSUME NEW f \in Flushes, f = item', wpc' \in {"dispatch", "drain", "export"}
      PROVE  QueuedBefore(f)' \subseteq ToSet(batch') \cup ToSet(attempted')
  <2>1. ASSUME WorkerGet, queue # <<>>, item' = Head(queue)
        PROVE  QueuedBefore(f)' \subseteq ToSet(batch') \cup ToSet(attempted')
    <3>1. 1 \in 1 .. Len(queue) /\ queue[1] = f
      BY <1>0, <1>8, <2>1, HeadTailProperties, EmptySeq
    <3>2. QueuedBefore(f)' = QueuedBefore(f)
      BY <1>2, <1>3, <3>1
    <3>3. \A e \in QueuedBefore(f) : e \in OnTheWay
      BY <1>4, <3>1
    <3>4. InHandSet = {}
      BY <2>1 DEF WorkerGet, InHandSet
    <3> QED
      BY <1>1, <3>2, <3>3, <3>4 DEF OnTheWay
  <2>2. ASSUME ~WorkerGet, item' = item
        PROVE  QueuedBefore(f)' \subseteq ToSet(batch') \cup ToSet(attempted')
    <3>1. wpc \in {"dispatch", "drain", "export"} /\ item = f
      BY <1>8, <2>2, OnTheWaySteps
    <3>2. QueuedBefore(f) \subseteq ToSet(batch) \cup ToSet(attempted)
      BY <1>1, <3>1 DEF BarrierInv
    <3> QED
      BY <1>1, <1>2, <3>1, <3>2
  <2>3. WorkerGet => item' = Sentinel \/ (queue # <<>> /\ item' = Head(queue))
    BY DEF WorkerGet
  <2>4. ~WorkerGet => item' = item
    BY QueueSteps
  <2> QED
    BY <1>0, <1>8, <2>1, <2>2, <2>3, <2>4
<1> QED
  BY <1>7, <1>8

LEMMA BarrierInvariance == Spec => []BarrierInv
<1>1. Init => BarrierInv
  <2> SUFFICES ASSUME Init
               PROVE  BarrierInv
    OBVIOUS
  <2>1. Len(queue) = 0 /\ item \notin Flushes
    BY ItemsAssumption DEF Init, ItemsAssumption
  <2> QED
    BY <2>1 DEF BarrierInv
<1>2. Spec => []LossInv
  BY LossInit, LossStep, TypeInvariant, PTL DEF Spec
<1> QED
  BY <1>1, <1>2, TypeInvariant, OnceInvariance, BarrierStep, PTL DEF Spec

\* The queue keeps the order in which it was filled: what was queued before a
\* tag and is still in the queue lies ahead of it.
AheadInv ==
  \A f \in Flushes : \A k \in 1 .. Len(queue) : queue[k] = f =>
    \A e \in QueuedBefore(f) : \A i \in 1 .. Len(queue) : queue[i] = e => i < k

LEMMA AheadStep ==
  TypeInv /\ TypeInv' /\ EventsOnce /\ TagsOnce /\ AheadInv /\ [Next]_vars => AheadInv'
<1> SUFFICES ASSUME TypeInv, TypeInv', EventsOnce, TagsOnce, AheadInv, [Next]_vars,
                    NEW f \in Flushes, NEW k \in 1 .. Len(queue'), queue'[k] = f,
                    NEW e \in QueuedBefore(f)', NEW i \in 1 .. Len(queue'), queue'[i] = e
             PROVE  i < k
  BY DEF AheadInv
<1>0. /\ queue \in Seq(Items) /\ Len(queue) \in Nat /\ order \in Seq(Events \cup Flushes)
      /\ Events \cap Flushes = {} /\ Sentinel \notin Flushes /\ Sentinel \notin Events
      /\ Flushes \subseteq Items
  BY ItemsAssumption DEF TypeInv, TypeOK, ItemsAssumption, Items
<1>1. e \in Events
  BY DEF QueuedBefore
<1>2. ASSUME f \in ToSet(queue)
      PROVE  QueuedBefore(f)' = QueuedBefore(f)
  <2>1. ASSUME NEW x \in Events \cup Flushes, order' = Append(order, x),
               x \in Flushes => flushPc[x] = "alive"
        PROVE  QueuedBefore(f)' = QueuedBefore(f)
    <3>1. x # f
      BY <1>0, <1>2, <2>1 DEF TagsOnce
    <3> QED
      BY <2>1, <3>1, QueuedBeforeStays
  <2>2. UNCHANGED order => QueuedBefore(f)' = QueuedBefore(f)
    BY DEF QueuedBefore
  <2> QED
    BY <1>0, <2>1, <2>2, OrderGrows
<1>3. \A j \in 1 .. Len(queue) : queue[j] \in ToSet(queue)
  BY <1>0 DEF ToSet
<1>4. ASSUME queue' = queue
      PROVE  i < k
  BY <1>2, <1>3, <1>4 DEF AheadInv
<1>5. ASSUME NEW x \in Items, queue' = Append(queue, x),
             (x \in Events /\ putPc[x] # "queued") \/ x \notin Events
      PROVE  i < k
  <2>1. /\ Len(queue') = Len(queue) + 1
        /\ queue'[Len(queue) + 1] = x
        /\ \A j \in 1 .. Len(queue) : queue'[j] = queue[j]
    BY <1>0, <1>5, AppendProperties
  <2>2. CASE k = Len(queue) + 1
    <3>1. e # f
      BY <1>0, <1>1
    <3> QED
      BY <1>0, <2>1, <2>2, <3>1
  <2>3. CASE k \in 1 .. Len(queue)
    <3>1. queue[k] = f /\ e \in QueuedBefore(f)
      BY <1>2, <1>3, <2>1, <2>3
    <3>2. e \in ToSet(order)
      BY <3>1, QueuedBeforeEvents
    <3>3. e # x
      BY <1>1, <1>5, <3>2 DEF EventsOnce
    <3>4. i \in 1 .. Len(queue) /\ queue[i] = e
      BY <1>0, <2>1, <3>3
    <3> QED
      BY <2>3, <3>1, <3>4 DEF AheadInv
  <2> QED
    BY <1>0, <2>1, <2>2, <2>3
<1>6. ASSUME queue # <<>>, queue' = Tail(queue)
      PROVE  i < k
  <2>1. /\ Len(queue') = Len(queue) - 1
        /\ \A j \in 1 .. Len(queue') : j + 1 \in 1 .. Len(queue) /\ queue'[j] = queue[j + 1]
    BY <1>0, <1>6, HeadTailProperties, EmptySeq
  <2>2. queue[k + 1] = f /\ queue[i + 1] = e
    BY <2>1
  <2>3. e \in QueuedBefore(f)
    BY <1>2, <1>3, <2>1, <2>2
  <2>4. i + 1 < k + 1
    BY <2>1, <2>2, <2>3 DEF AheadInv
  <2> QED
    BY <1>0, <2>1, <2>4
<1>7. ASSUME NEW x \in Events, Put(x) PROVE i < k
  BY <1>4, <1>5, <1>7 DEF Put, PutCheckCircuit, PutCheckStop, PutEnqueue, Items
<1>8. ASSUME NEW x \in Flushes, Flush(x) PROVE i < k
  BY <1>0, <1>4, <1>5, <1>8 DEF Flush, FlushStart, FlushEnqueue, FlushReturn, Items
<1>9. ASSUME NEW s \in Shutdowns, Shutdown(s) PROVE i < k
  BY <1>0, <1>4, <1>5, <1>9 DEF Shutdown, ShutdownStart, ShutdownSetStop, ShutdownWakeWorker,
                                ShutdownJoin, Items
<1>10. ASSUME Worker PROVE i < k
  BY <1>4, <1>6, <1>10 DEF Worker, WorkerGet, WorkerStop, WorkerFlush, WorkerBatch, WorkerDrain,
                           WorkerDrained, WorkerExport, WorkerExported
<1>11. CASE UNCHANGED vars
  BY <1>4, <1>11 DEF vars
<1> QED
  BY <1>7, <1>8, <1>9, <1>10, <1>11 DEF Next

LEMMA AheadInvariance == Spec => []AheadInv
<1>1. Init => AheadInv
  BY DEF Init, AheadInv
<1> QED
  BY <1>1, AheadStep, TypeInvariant, OnceInvariance, PTL DEF Spec

\* A flush tag the worker takes in hand releases its caller only when all that
\* was queued before it has been exported; one that a drain finds, when all of
\* it has left the queue for the batch, but for the event the stop has lost --
\* whichever calls overlap.
THEOREM BarrierCorrect == Spec => FlushIsReleasedBehindItsEvents
<1> DEFINE Behind ==
             \A f \in done' \ done :
               /\ QueuedBefore(f) \subseteq ToSet(batch) \cup ToSet(attempted) \cup Lost
               /\ f = item => QueuedBefore(f) \subseteq ToSet(attempted)
<1>1. TypeInv /\ EventsOnce /\ TagsOnce /\ BarrierInv /\ AheadInv /\ [Next]_vars => [Behind]_vars
  <2> SUFFICES ASSUME TypeInv, EventsOnce, TagsOnce, BarrierInv, AheadInv, [Next]_vars,
                      NEW f \in done' \ done
               PROVE  /\ QueuedBefore(f) \subseteq ToSet(batch) \cup ToSet(attempted) \cup Lost
                      /\ f = item => QueuedBefore(f) \subseteq ToSet(attempted)
    OBVIOUS
  <2>1. ASSUME WorkerDrain
        PROVE  /\ QueuedBefore(f) \subseteq ToSet(batch) \cup ToSet(attempted) \cup Lost
               /\ f # item
    <3>1. queue # <<>> /\ f = Head(queue) /\ f \in Flushes /\ wpc = "drain"
      BY <2>1 DEF WorkerDrain
    <3>2. 1 \in 1 .. Len(queue) /\ queue[1] = f /\ queue \in Seq(Items) /\ Len(queue) \in Nat
      BY <3>1, HeadTailProperties, EmptySeq DEF TypeInv, TypeOK
    <3>3. f # item
      BY <3>1, <3>2 DEF TagsOnce
    <3>4. ASSUME NEW e \in QueuedBefore(f)
          PROVE  e \in ToSet(batch) \cup ToSet(attempted) \cup Lost
      <4>1. e \in Events /\ e \in ToSet(order)
        BY QueuedBeforeEvents
      <4>2. e \in Accepted
        BY <4>1 DEF EventsOnce, Accepted
      <4>3. \A i \in 1 .. Len(queue) : queue[i] # e
        BY <3>1, <3>2 DEF AheadInv
      <4>4. e \notin ToSet(queue)
        BY <3>2, <4>3 DEF ToSet
      <4>5. ToSet(InHand) = {}
        BY <3>1 DEF InHand, ToSet
      <4> QED
        BY <4>2, <4>4, <4>5 DEF Lost, Present
    <3> QED
      BY <3>3, <3>4
  <2>2. ASSUME ~WorkerDrain
        PROVE  WorkerExported /\ reason = "flush"
    <3>1. ASSUME NEW e \in Events, Put(e) PROVE UNCHANGED done
      BY <3>1 DEF Put, PutCheckCircuit, PutCheckStop, PutEnqueue
    <3>2. ASSUME NEW g \in Flushes, Flush(g) PROVE UNCHANGED done
      BY <3>2 DEF Flush, FlushStart, FlushEnqueue, FlushReturn
    <3>3. ASSUME NEW s \in Shutdowns, Shutdown(s) PROVE UNCHANGED done
      BY <3>3 DEF Shutdown, ShutdownStart, ShutdownSetStop, ShutdownWakeWorker, ShutdownJoin
    <3>4. UNCHANGED vars => UNCHANGED done
      BY DEF vars
    <3>5. WorkerGet \/ WorkerStop \/ WorkerFlush \/ WorkerBatch \/ WorkerDrained \/ WorkerExport
          => UNCHANGED done
      BY DEF WorkerGet, WorkerStop, WorkerFlush, WorkerBatch, WorkerDrained, WorkerExport
    <3>6. WorkerExported
      BY <2>2, <3>1, <3>2, <3>3, <3>4, <3>5 DEF Next, Worker
    <3> QED
      BY <3>6 DEF WorkerExported
  <2>3. ASSUME ~WorkerDrain
        PROVE  f = item /\ QueuedBefore(f) \subseteq ToSet(attempted)
    <3>1. item \in Flushes /\ wpc = "export" /\ batch = <<>> /\ f = item
      BY <2>2, <2>3 DEF WorkerExported, TypeInv, FlushInHand
    <3>2. ToSet(batch) = {}
      BY <3>1 DEF ToSet
    <3> QED
      BY <2>2, <2>3, <3>1, <3>2 DEF BarrierInv
  <2> QED
    BY <2>1, <2>3
<1> QED
  BY <1>1, TypeInvariant, OnceInvariance, BarrierInvariance,
     AheadInvariance, PTL DEF Spec, FlushIsReleasedBehindItsEvents

----------------------------------------------------------------------------
(* The events of the queue.  EventsIn is defined by recursion over the      *)
(* queue; a set of numbers with 0 and the successors of its members holds   *)
(* them all, which is the induction these lemmas use.                       *)

LEMMA SetInduction ==
  ASSUME NEW S, 0 \in S, \A n \in Nat : n \in S => n + 1 \in S
  PROVE  Nat \subseteq S
<1> SUFFICES ASSUME NEW m \in Nat, m \notin S
             PROVE  FALSE
  OBVIOUS
<1>1. PICK T : T = {n \in Nat : n \notin S}
  OBVIOUS
<1>2. PICK R : R = OpToRel(<, Nat)
  OBVIOUS
<1>3. IsWellFoundedOn(R, Nat)
  BY <1>2, NatLessThanWellFounded
<1>4. T \subseteq Nat /\ T # {}
  BY <1>1
<1>5. PICK x \in T : \A y \in T : ~ (<<y, x>> \in R)
  BY <1>3, <1>4, WFMin
<1>6. \A y \in Nat, z \in Nat : y < z => <<y, z>> \in R
  BY <1>2 DEF OpToRel
<1>7. x # 0 /\ x \in Nat /\ x \notin S
  BY <1>1
<1>8. x - 1 \in Nat /\ x - 1 < x /\ (x - 1) + 1 = x
  BY <1>7
<1>9. x - 1 \in S
  BY <1>1, <1>5, <1>6, <1>8
<1> QED
  BY <1>7, <1>8, <1>9

\* F picks the events from the first n items of q.
Picks(F, q, n) ==
  /\ F[0] = <<>>
  /\ \A i \in 1 .. n : F[i] = IF q[i] \in Events THEN Append(F[i - 1], q[i]) ELSE F[i - 1]

\* There is such a function, and it is that of the definition.
LEMMA PicksExists ==
  ASSUME NEW q \in Seq(Items)
  PROVE  \A n \in 0 .. Len(q) : \E F : F \in [0 .. n -> Seq(Events)] /\ Picks(F, q, n)
<1> DEFINE Good(n) == \E F : F \in [0 .. n -> Seq(Events)] /\ Picks(F, q, n)
           S == {n \in Nat : n <= Len(q) => Good(n)}
<1>0. Len(q) \in Nat
  OBVIOUS
<1>1. 0 \in S
  <2>1. PICK F : F = [i \in 0 .. 0 |-> <<>>]
    OBVIOUS
  <2>2. F \in [0 .. 0 -> Seq(Events)] /\ F[0] = <<>>
    BY <2>1
  <2>3. Picks(F, q, 0)
    BY <2>2 DEF Picks
  <2> QED
    BY <2>2, <2>3
<1>2. ASSUME NEW n \in Nat, n \in S
      PROVE  n + 1 \in S
  <2> SUFFICES ASSUME n + 1 <= Len(q)
               PROVE  Good(n + 1)
    OBVIOUS
  <2>1. PICK F : F \in [0 .. n -> Seq(Events)] /\ Picks(F, q, n)
    BY <1>0, <1>2
  <2>2. PICK new : new = IF q[n + 1] \in Events THEN Append(F[n], q[n + 1]) ELSE F[n]
    OBVIOUS
  <2>3. F[n] \in Seq(Events)
    BY <2>1
  <2>4. new \in Seq(Events)
    <3>1. CASE q[n + 1] \in Events
      BY <2>2, <2>3, <3>1, AppendProperties
    <3>2. CASE q[n + 1] \notin Events
      BY <2>2, <2>3, <3>2
    <3> QED
      BY <3>1, <3>2
  <2>5. PICK G : G = [i \in 0 .. n + 1 |-> IF i = n + 1 THEN new ELSE F[i]]
    OBVIOUS
  <2>6. /\ G[n + 1] = new
        /\ \A i \in 0 .. n : G[i] = F[i]
    BY <2>5
  <2>7. G \in [0 .. n + 1 -> Seq(Events)]
    <3>1. ASSUME NEW i \in 0 .. n + 1
          PROVE  (IF i = n + 1 THEN new ELSE F[i]) \in Seq(Events)
      <4>1. CASE i = n + 1
        BY <2>4, <4>1
      <4>2. CASE i # n + 1
        BY <2>1, <4>2
      <4> QED
        BY <4>1, <4>2
    <3> QED
      BY <2>5, <3>1
  <2>8. Picks(G, q, n + 1)
    <3>1. G[0] = <<>>
      BY <2>1, <2>6 DEF Picks
    <3>2. ASSUME NEW i \in 1 .. n + 1
          PROVE  G[i] = IF q[i] \in Events THEN Append(G[i - 1], q[i]) ELSE G[i - 1]
      <4>1. CASE i = n + 1
        <5>1. i - 1 = n /\ G[n] = F[n]
          BY <2>6, <4>1
        <5> QED
          BY <2>2, <2>6, <4>1, <5>1
      <4>2. CASE i # n + 1
        <5>1. i \in 1 .. n /\ i \in 0 .. n /\ i - 1 \in 0 .. n
          BY <4>2
        <5>2. G[i] = F[i] /\ G[i - 1] = F[i - 1]
          BY <2>6, <5>1
        <5> QED
          BY <2>1, <5>1, <5>2 DEF Picks
      <4> QED
        BY <4>1, <4>2
    <3> QED
      BY <3>1, <3>2 DEF Picks
  <2> QED
    BY <2>7, <2>8
<1> HIDE DEF S
<1>3. Nat \subseteq S
  BY <1>1, <1>2, SetInduction
<1> QED
  BY <1>0, <1>3 DEF S

LEMMA PicksUnique ==
  ASSUME NEW n \in Nat, NEW F, NEW G, NEW q, Picks(F, q, n), Picks(G, q, n)
  PROVE  F[n] = G[n]
<1> DEFINE S == {i \in Nat : i <= n => F[i] = G[i]}
<1>1. 0 \in S
  BY DEF Picks
<1>2. ASSUME NEW i \in Nat, i \in S
      PROVE  i + 1 \in S
  <2> SUFFICES ASSUME i + 1 <= n
               PROVE  F[i + 1] = G[i + 1]
    OBVIOUS
  <2>1. F[i] = G[i] /\ i + 1 \in 1 .. n /\ (i + 1) - 1 = i
    BY <1>2
  <2> QED
    BY <2>1 DEF Picks
<1> HIDE DEF S
<1>3. Nat \subseteq S
  BY <1>1, <1>2, SetInduction
<1> QED
  BY <1>3 DEF S

LEMMA EventsInPicks ==
  ASSUME NEW q \in Seq(Items), NEW F, Picks(F, q, Len(q))
  PROVE  EventsIn(q) = F[Len(q)]
<1>0. Len(q) \in Nat
  OBVIOUS
<1>1. PICK H : H \in [0 .. Len(q) -> Seq(Events)] /\ Picks(H, q, Len(q))
  BY <1>0, PicksExists
<1>2. H = [n \in 0 .. Len(q) |->
             IF n = 0 THEN <<>>
             ELSE IF q[n] \in Events THEN Append(H[n - 1], q[n]) ELSE H[n - 1]]
  <2>1. ASSUME NEW n \in 0 .. Len(q)
        PROVE  H[n] = IF n = 0 THEN <<>>
                      ELSE IF q[n] \in Events THEN Append(H[n - 1], q[n]) ELSE H[n - 1]
    <3>1. n = 0 \/ n \in 1 .. Len(q)
      BY <1>0
    <3> QED
      BY <1>1, <3>1 DEF Picks
  <2> QED
    BY <1>1, <2>1
<1>3. PICK C : C = CHOOSE G : G = [n \in 0 .. Len(q) |->
             IF n = 0 THEN <<>>
             ELSE IF q[n] \in Events THEN Append(G[n - 1], q[n]) ELSE G[n - 1]]
  OBVIOUS
<1>4. C = [n \in 0 .. Len(q) |->
             IF n = 0 THEN <<>>
             ELSE IF q[n] \in Events THEN Append(C[n - 1], q[n]) ELSE C[n - 1]]
  BY <1>2, <1>3
<1>5. EventsIn(q) = C[Len(q)]
  BY <1>3 DEF EventsIn
<1>6. Picks(C, q, Len(q))
  <2>1. 0 \in 0 .. Len(q) /\ \A i \in 1 .. Len(q) : i \in 0 .. Len(q) /\ i # 0
    BY <1>0
  <2>2. C[0] = <<>>
    BY <1>4, <2>1
  <2>3. ASSUME NEW i \in 1 .. Len(q)
        PROVE  C[i] = IF q[i] \in Events THEN Append(C[i - 1], q[i]) ELSE C[i - 1]
    BY <1>4, <2>1
  <2> QED
    BY <2>2, <2>3 DEF Picks
<1> QED
  BY <1>0, <1>5, <1>6, PicksUnique

LEMMA EventsInType ==
  ASSUME NEW q \in Seq(Items)
  PROVE  EventsIn(q) \in Seq(Events)
<1>1. PICK F : F \in [0 .. Len(q) -> Seq(Events)] /\ Picks(F, q, Len(q))
  BY PicksExists
<1> QED
  BY <1>1, EventsInPicks

LEMMA EventsInEmpty == EventsIn(<<>>) = <<>>
<1>1. Picks([i \in {0} |-> <<>>], <<>>, 0)
  BY DEF Picks
<1> QED
  BY <1>1, EventsInPicks

\* What put(), flush() and shutdown() do to the events in the queue.
LEMMA EventsInAppend ==
  ASSUME NEW q \in Seq(Items), NEW x \in Items
  PROVE  EventsIn(Append(q, x)) = IF x \in Events THEN Append(EventsIn(q), x) ELSE EventsIn(q)
<1>1. PICK n : n = Len(q)
  OBVIOUS
<1>2. PICK r : r = Append(q, x)
  OBVIOUS
<1>3. n \in Nat /\ r \in Seq(Items) /\ Len(r) = n + 1 /\ r[n + 1] = x /\ \A i \in 1 .. n : r[i] = q[i]
  BY <1>1, <1>2, AppendProperties
<1>4. PICK F : F \in [0 .. n + 1 -> Seq(Events)] /\ Picks(F, r, n + 1)
  BY <1>3, PicksExists
<1>5. Picks(F, q, n)
  <2>1. \A i \in 1 .. n : i \in 1 .. n + 1 /\ r[i] = q[i]
    BY <1>3
  <2> QED
    BY <1>4, <2>1 DEF Picks
<1>6. EventsIn(q) = F[n] /\ EventsIn(r) = F[n + 1]
  BY <1>1, <1>3, <1>4, <1>5, EventsInPicks
<1>7. F[n + 1] = IF x \in Events THEN Append(F[n], x) ELSE F[n]
  <2>1. n + 1 \in 1 .. n + 1 /\ (n + 1) - 1 = n
    BY <1>3
  <2> QED
    BY <1>3, <1>4, <2>1 DEF Picks
<1> QED
  BY <1>2, <1>6, <1>7

\* The events of an item: itself, or nothing.
EventOf(x) == IF x \in Events THEN <<x>> ELSE <<>>

LEMMA AppendToConcat ==
  ASSUME NEW T, NEW s \in Seq(T), NEW t \in Seq(T), NEW x \in T
  PROVE  s \o Append(t, x) = Append(s \o t, x)
<1>1. /\ s \o t \in Seq(T) /\ Append(s \o t, x) \in Seq(T)
      /\ Append(t, x) \in Seq(T) /\ s \o Append(t, x) \in Seq(T)
      /\ Len(s) \in Nat /\ Len(t) \in Nat
  BY AppendProperties, ConcatProperties, LenProperties
<1>2. Len(Append(s \o t, x)) = Len(s) + Len(t) + 1 /\ Len(s \o Append(t, x)) = Len(s) + Len(t) + 1
  BY <1>1, AppendProperties, ConcatProperties
<1>3. ASSUME NEW i \in 1 .. Len(s) + Len(t) + 1
      PROVE  Append(s \o t, x)[i] = (s \o Append(t, x))[i]
  OBVIOUS
<1> QED
  BY <1>1, <1>2, <1>3, SeqEqual

\* What the worker's get does to them.
LEMMA EventsInTail ==
  ASSUME NEW q \in Seq(Items), q # <<>>
  PROVE  EventsIn(q) = EventOf(Head(q)) \o EventsIn(Tail(q))
<1>1. PICK r : r = Tail(q)
  OBVIOUS
<1>2. PICK n : n = Len(r)
  OBVIOUS
<1>3. /\ n \in Nat /\ r \in Seq(Items) /\ Len(q) = n + 1 /\ Head(q) = q[1]
      /\ \A i \in 1 .. n : r[i] = q[i + 1]
  BY <1>1, <1>2, HeadTailProperties, EmptySeq
<1>4. PICK F : F \in [0 .. n + 1 -> Seq(Events)] /\ Picks(F, q, n + 1)
  BY <1>3, PicksExists
<1>5. PICK G : G \in [0 .. n -> Seq(Events)] /\ Picks(G, r, n)
  <2>1. n \in 0 .. Len(r)
    BY <1>2, <1>3
  <2>2. \A m \in 0 .. Len(r) : \E G : G \in [0 .. m -> Seq(Events)] /\ Picks(G, r, m)
    BY <1>3, PicksExists
  <2> QED
    BY <2>1, <2>2
<1>6. EventsIn(q) = F[n + 1] /\ EventsIn(r) = G[n]
  BY <1>2, <1>3, <1>4, <1>5, EventsInPicks
<1>7. PICK h : h = EventOf(q[1])
  OBVIOUS
<1>8. h \in Seq(Events) /\ h \o <<>> = h
  <2>1. h \in Seq(Events)
    BY <1>7 DEF EventOf
  <2> QED
    BY <2>1, ConcatEmptySeq
<1> DEFINE S == {i \in Nat : i <= n => F[i + 1] = h \o G[i]}
<1>9. 0 \in S
  <2>1. F[1] = IF q[1] \in Events THEN Append(<<>>, q[1]) ELSE <<>>
    <3>1. 1 \in 1 .. n + 1 /\ 1 - 1 = 0
      BY <1>3
    <3>2. F[1] = IF q[1] \in Events THEN Append(F[0], q[1]) ELSE F[0]
      BY <1>4, <3>1 DEF Picks
    <3> QED
      BY <1>4, <3>2 DEF Picks
  <2>2. F[1] = h
    <3>1. Append(<<>>, q[1]) = <<q[1]>>
      OBVIOUS
    <3> QED
      BY <1>7, <2>1, <3>1 DEF EventOf
  <2>3. G[0] = <<>>
    BY <1>5 DEF Picks
  <2> QED
    BY <1>8, <2>2, <2>3
<1>10. ASSUME NEW i \in Nat, i \in S
       PROVE  i + 1 \in S
  <2> SUFFICES ASSUME i + 1 <= n
               PROVE  F[i + 1 + 1] = h \o G[i + 1]
    OBVIOUS
  <2>1. F[i + 1] = h \o G[i]
    BY <1>3, <1>10
  <2>2. /\ i + 2 \in 1 .. n + 1 /\ i + 2 - 1 = i + 1 /\ i + 1 + 1 = i + 2
        /\ i + 1 \in 1 .. n /\ (i + 1) - 1 = i /\ i \in 0 .. n
    BY <1>3
  <2>3. PICK x : x = q[i + 2]
    OBVIOUS
  <2>4. r[i + 1] = x
    BY <1>3, <2>2, <2>3
  <2>5. F[i + 2] = IF x \in Events THEN Append(F[i + 1], x) ELSE F[i + 1]
    BY <1>4, <2>2, <2>3 DEF Picks
  <2>6. G[i + 1] = IF x \in Events THEN Append(G[i], x) ELSE G[i]
    BY <1>5, <2>2, <2>4 DEF Picks
  <2>7. G[i] \in Seq(Events)
    BY <1>5, <2>2
  <2>8. CASE x \in Events
    <3>0. h \in Seq(Events)
      BY <1>8
    <3>1. h \o Append(G[i], x) = Append(h \o G[i], x)
      <4>1. \A t \in Seq(Events) : h \o Append(t, x) = Append(h \o t, x)
        BY <2>8, <3>0, AppendToConcat
      <4> QED
        BY <2>7, <4>1
    <3>a. F[i + 2] = Append(F[i + 1], x)
      BY <2>5, <2>8
    <3>2. F[i + 2] = Append(h \o G[i], x)
      BY <2>1, <3>a, Zenon
    <3>3. G[i + 1] = Append(G[i], x)
      BY <2>6, <2>8
    <3>4. F[i + 2] = h \o G[i + 1]
      BY <3>1, <3>2, <3>3, Zenon
    <3> QED
      BY <2>2, <3>4
  <2>9. CASE x \notin Events
    BY <2>1, <2>2, <2>5, <2>6, <2>9
  <2> QED
    BY <2>8, <2>9
<1> HIDE DEF S
<1>11. Nat \subseteq S
  BY <1>9, <1>10, SetInduction
<1>12. F[n + 1] = h \o G[n]
  <2>1. n \in S /\ n <= n
    BY <1>3, <1>11
  <2> QED
    BY <2>1 DEF S
<1> QED
  BY <1>1, <1>3, <1>6, <1>7, <1>12

\* The events picked from the queue are in the queue.
LEMMA EventsInElements ==
  ASSUME NEW q \in Seq(Items)
  PROVE  ToSet(EventsIn(q)) \subseteq ToSet(q)
<1>0. Len(q) \in Nat /\ DOMAIN q = 1 .. Len(q)
  OBVIOUS
<1>1. PICK F : F \in [0 .. Len(q) -> Seq(Events)] /\ Picks(F, q, Len(q))
  BY <1>0, PicksExists
<1>2. EventsIn(q) = F[Len(q)]
  BY <1>1, EventsInPicks
<1> DEFINE S == {i \in Nat : i <= Len(q) => ToSet(F[i]) \subseteq ToSet(q)}
<1>3. 0 \in S
  BY <1>1 DEF Picks, ToSet
<1>4. ASSUME NEW i \in Nat, i \in S
      PROVE  i + 1 \in S
  <2> SUFFICES ASSUME i + 1 <= Len(q)
               PROVE  ToSet(F[i + 1]) \subseteq ToSet(q)
    OBVIOUS
  <2>1. i + 1 \in 1 .. Len(q) /\ (i + 1) - 1 = i /\ i \in 0 .. Len(q) /\ i <= Len(q)
    BY <1>0
  <2>2. F[i] \in Seq(Events) /\ ToSet(F[i]) \subseteq ToSet(q)
    BY <1>1, <1>4, <2>1
  <2>3. q[i + 1] \in ToSet(q)
    BY <1>0, <2>1 DEF ToSet
  <2>4. F[i + 1] = IF q[i + 1] \in Events THEN Append(F[i], q[i + 1]) ELSE F[i]
    BY <1>1, <2>1 DEF Picks
  <2>5. CASE q[i + 1] \in Events
    <3>1. ToSet(Append(F[i], q[i + 1])) = ToSet(F[i]) \cup {q[i + 1]}
      BY <2>2, <2>5, ToSetAppend
    <3> QED
      BY <2>2, <2>3, <2>4, <2>5, <3>1
  <2>6. CASE q[i + 1] \notin Events
    BY <2>2, <2>4, <2>6
  <2> QED
    BY <2>5, <2>6
<1> HIDE DEF S
<1>5. Nat \subseteq S
  BY <1>3, <1>4, SetInduction
<1> QED
  BY <1>0, <1>2, <1>5 DEF S

----------------------------------------------------------------------------
(* The pipeline is a lossy FIFO: batch, then the item in hand, then the     *)
(* events of the queue.                                                     *)

\* The head and the tail of a pipeline are those of its batch.
LEMMA HeadTailOfConcat ==
  ASSUME NEW T, NEW s \in Seq(T), NEW t \in Seq(T), s # <<>>
  PROVE  /\ s \o t # <<>>
         /\ Head(s \o t) = Head(s)
         /\ Tail(s) \o t = Tail(s \o t)
<1>1. /\ s \o t \in Seq(T) /\ Len(s \o t) = Len(s) + Len(t) /\ Len(s) \in Nat /\ Len(s) >= 1
      /\ Len(t) \in Nat
  BY ConcatProperties, EmptySeq, LenProperties
<1>2. s \o t # <<>>
  BY <1>1
<1>3. /\ Tail(s) \in Seq(T) /\ Len(Tail(s)) = Len(s) - 1
      /\ Tail(s \o t) \in Seq(T) /\ Len(Tail(s \o t)) = Len(s) + Len(t) - 1
      /\ Tail(s) \o t \in Seq(T) /\ Len(Tail(s) \o t) = Len(s) + Len(t) - 1
  BY <1>1, <1>2, HeadTailProperties, ConcatProperties
<1>4. Head(s \o t) = Head(s)
  BY <1>1, <1>2
<1>5. ASSUME NEW i \in 1 .. Len(s) + Len(t) - 1
      PROVE  (Tail(s) \o t)[i] = Tail(s \o t)[i]
  <2>1. Tail(s \o t)[i] = (s \o t)[i + 1] /\ i + 1 \in 1 .. Len(s) + Len(t)
    BY <1>1, <1>2, <1>3, HeadTailProperties
  <2>2. CASE i <= Len(s) - 1
    <3>1. (Tail(s) \o t)[i] = Tail(s)[i] /\ Tail(s)[i] = s[i + 1]
      BY <1>1, <1>3, <2>2, HeadTailProperties, ConcatProperties
    <3>2. (s \o t)[i + 1] = s[i + 1]
      BY <1>1, <2>1, <2>2, ConcatProperties
    <3> QED
      BY <2>1, <3>1, <3>2
  <2>3. CASE i > Len(s) - 1
    <3>1. (Tail(s) \o t)[i] = t[i - (Len(s) - 1)]
      BY <1>1, <1>3, <2>3, ConcatProperties
    <3>2. (s \o t)[i + 1] = t[i + 1 - Len(s)]
      BY <1>1, <2>1, <2>3, ConcatProperties
    <3>3. i - (Len(s) - 1) = i + 1 - Len(s)
      BY <1>1
    <3> QED
      BY <2>1, <3>1, <3>2, <3>3
  <2> QED
    BY <1>1, <2>2, <2>3
<1> QED
  BY <1>2, <1>3, <1>4, <1>5, SeqEqual

\* What is discarded from the middle leaves what is before and after it.
LEMMA RemoveFromMiddle ==
  ASSUME NEW T, NEW s \in Seq(T), NEW t \in Seq(T), NEW x \in T, NEW p,
         p = (s \o <<x>>) \o t
  PROVE  Len(s) + 1 \in DOMAIN p /\ s \o t = RemoveAt(p, Len(s) + 1)
<1>1. PICK n : n = Len(s)
  OBVIOUS
<1>2. PICK m : m = Len(t)
  OBVIOUS
<1>3. n \in Nat /\ m \in Nat
  BY <1>1, <1>2, LenProperties
<1>4. /\ s \o <<x>> \in Seq(T) /\ Len(s \o <<x>>) = n + 1
      /\ \A i \in 1 .. n : (s \o <<x>>)[i] = s[i]
  BY <1>1, <1>3, ConcatProperties
<1>5. /\ p \in Seq(T) /\ Len(p) = n + 1 + m
      /\ \A i \in 1 .. n + 1 + m : p[i] = IF i <= n + 1 THEN (s \o <<x>>)[i] ELSE t[i - (n + 1)]
  BY <1>2, <1>3, <1>4, ConcatProperties
<1>6. /\ SubSeq(p, 1, n) \in Seq(T) /\ Len(SubSeq(p, 1, n)) = n
      /\ \A i \in 1 .. n : SubSeq(p, 1, n)[i] = p[i]
  BY <1>3, <1>5
<1>7. SubSeq(p, 1, n) = s
  <2>1. \A i \in 1 .. n : SubSeq(p, 1, n)[i] = s[i]
    BY <1>3, <1>4, <1>5, <1>6
  <2> QED
    BY <1>1, <1>6, <2>1, SeqEqual
<1>8. /\ SubSeq(p, n + 2, n + 1 + m) \in Seq(T) /\ Len(SubSeq(p, n + 2, n + 1 + m)) = m
      /\ \A i \in 1 .. m : SubSeq(p, n + 2, n + 1 + m)[i] = p[n + 1 + i]
  BY SMTT(30), <1>3, <1>5
<1>9. SubSeq(p, n + 2, n + 1 + m) = t
  <2>1. ASSUME NEW i \in 1 .. m
        PROVE  SubSeq(p, n + 2, n + 1 + m)[i] = t[i]
    <3>1. PICK j : j = n + 1 + i
      OBVIOUS
    <3>2. j \in 1 .. n + 1 + m /\ ~(j <= n + 1) /\ j - (n + 1) = i
      BY <1>3, <3>1
    <3>3. p[j] = t[i]
      BY <1>5, <3>2
    <3> QED
      BY <1>8, <3>1, <3>3
  <2> QED
    BY <1>2, <1>8, <2>1, SeqEqual
<1>10. n + 1 \in DOMAIN p /\ (n + 1) - 1 = n /\ (n + 1) + 1 = n + 2
  BY <1>3, <1>5
<1>11. RemoveAt(p, n + 1) = SubSeq(p, 1, n) \o SubSeq(p, n + 2, n + 1 + m)
  <2>1. RemoveAt(p, n + 1) = SubSeq(p, 1, (n + 1) - 1) \o SubSeq(p, (n + 1) + 1, Len(p))
    BY Zenon DEF RemoveAt
  <2> QED
    BY <1>5, <1>10, <2>1, Zenon
<1>12. s \o t = RemoveAt(p, n + 1)
  BY <1>7, <1>9, <1>11, Zenon
<1> QED
  BY <1>1, <1>10, <1>12, Zenon

LEMMA ToSetConcat ==
  ASSUME NEW T, NEW s \in Seq(T), NEW t \in Seq(T)
  PROVE  ToSet(s \o t) \subseteq ToSet(s) \cup ToSet(t)
<1> SUFFICES ASSUME NEW i \in 1 .. Len(s) + Len(t)
             PROVE  (s \o t)[i] \in ToSet(s) \cup ToSet(t)
  BY ConcatProperties, LenProperties DEF ToSet
<1>0. Len(s) \in Nat /\ Len(t) \in Nat /\ DOMAIN s = 1 .. Len(s) /\ DOMAIN t = 1 .. Len(t)
  BY LenProperties
<1>1. CASE i <= Len(s)
  <2>1. (s \o t)[i] = s[i] /\ i \in 1 .. Len(s)
    BY <1>0, <1>1, ConcatProperties
  <2> QED
    BY <1>0, <2>1 DEF ToSet
<1>2. CASE ~(i <= Len(s))
  <2>1. (s \o t)[i] = t[i - Len(s)] /\ i - Len(s) \in 1 .. Len(t)
    BY <1>0, <1>2, ConcatProperties
  <2> QED
    BY <1>0, <2>1 DEF ToSet
<1> QED
  BY <1>1, <1>2

LEMMA PipelineType ==
  ASSUME TypeInv
  PROVE  /\ batch \in Seq(Events) /\ InHand \in Seq(Events) /\ EventsIn(queue) \in Seq(Events)
         /\ batch \o InHand \in Seq(Events)
         /\ Pipeline \in Seq(Events)
         /\ ToSet(Pipeline) \subseteq Present
<1>1. batch \in Seq(Events) /\ queue \in Seq(Items)
  BY DEF TypeInv, TypeOK
<1>2. InHand \in Seq(Events)
  BY DEF InHand
<1>3. EventsIn(queue) \in Seq(Events) /\ ToSet(EventsIn(queue)) \subseteq ToSet(queue)
  BY <1>1, EventsInType, EventsInElements
<1>4. batch \o InHand \in Seq(Events) /\ ToSet(batch \o InHand) \subseteq ToSet(batch) \cup ToSet(InHand)
  BY <1>1, <1>2, ToSetConcat, ConcatProperties
<1>5. /\ Pipeline \in Seq(Events)
      /\ ToSet(Pipeline) \subseteq ToSet(batch \o InHand) \cup ToSet(EventsIn(queue))
  BY <1>3, <1>4, ToSetConcat, ConcatProperties DEF Pipeline
<1> QED
  BY <1>1, <1>2, <1>3, <1>4, <1>5 DEF Present

\* Every step of the exporter is a step of the FIFO, or none.
LEMMA FifoStep ==
  TypeInv /\ TypeInv' /\ EventsOnce /\ [Next]_vars => [Fifo!FifoNext]_(Fifo!fifoVars)
<1> SUFFICES ASSUME TypeInv, TypeInv', EventsOnce, [Next]_vars
             PROVE  Fifo!FifoNext \/ (Pipeline' = Pipeline /\ attempted' = attempted)
  BY DEF Fifo!fifoVars
<1>a. /\ queue \in Seq(Items) /\ batch \in Seq(Events) /\ attempted \in Seq(Events)
      /\ Sentinel \notin Events /\ Events \cap Flushes = {}
      /\ \A x \in Events \cup Flushes \cup {Sentinel} : x \in Items
  BY ItemsAssumption DEF TypeInv, TypeOK, ItemsAssumption, Items
<1>b. /\ EventsIn(queue) \in Seq(Events) /\ batch \o InHand \in Seq(Events)
      /\ ToSet(Pipeline) \subseteq Present
  BY PipelineType
<1>c. EventsIn(queue') \in Seq(Events) /\ batch' \in Seq(Events)
  BY EventsInType DEF TypeInv, TypeOK
<1>d. UNCHANGED <<batch, item, wpc>> => batch' \o InHand' = batch \o InHand
  BY DEF InHand
<1>e. ASSUME UNCHANGED <<batch, item, wpc, attempted>>,
             queue' = queue \/ \E x \in Items \ Events : queue' = Append(queue, x)
      PROVE  Pipeline' = Pipeline /\ attempted' = attempted
  <2>1. EventsIn(queue') = EventsIn(queue)
    BY <1>a, <1>e, EventsInAppend
  <2> QED
    BY <1>d, <1>e, <2>1 DEF Pipeline
<1>f. wpc # "dispatch" => InHand = <<>>
  BY DEF InHand
<1>g. wpc' # "dispatch" => InHand' = <<>>
  BY DEF InHand
<1>1. ASSUME NEW e \in Events, PutCheckCircuit(e) \/ PutCheckStop(e)
      PROVE  UNCHANGED <<batch, item, wpc, attempted, queue>>
  BY <1>1 DEF PutCheckCircuit, PutCheckStop, workerVars, exportVars
<1>2. ASSUME NEW e \in Events, PutEnqueue(e)
      PROVE  Fifo!FifoNext \/ (Pipeline' = Pipeline /\ attempted' = attempted)
  <2>1. UNCHANGED <<batch, item, wpc, attempted>> /\ putPc[e] = "checked"
    BY <1>2 DEF PutEnqueue, workerVars, exportVars
  <2>2. CASE queue' = queue
    BY <1>e, <2>1, <2>2
  <2>3. CASE queue' = Append(queue, e)
    <3>1. EventsIn(queue') = Append(EventsIn(queue), e)
      BY <1>a, <2>3, EventsInAppend
    <3>2. (batch \o InHand) \o Append(EventsIn(queue), e) = Append((batch \o InHand) \o EventsIn(queue), e)
      BY <1>b, AppendToConcat
    <3>3. Pipeline' = Append(Pipeline, e)
      BY <1>d, <2>1, <3>1, <3>2 DEF Pipeline
    <3>4. e \notin Present
      BY <2>1 DEF EventsOnce
    <3>5. e \notin ToSet(Pipeline) \cup ToSet(attempted)
      BY <1>b, <3>4 DEF Present
    <3>6. Fifo!Accept(e)
      BY <2>1, <3>3, <3>5 DEF Fifo!Accept, Fifo!ToSet, ToSet
    <3> QED
      BY <3>6 DEF Fifo!FifoNext
  <2> QED
    BY <1>2, <2>2, <2>3 DEF PutEnqueue
<1>3. ASSUME NEW f \in Flushes, Flush(f)
      PROVE  UNCHANGED <<batch, item, wpc, attempted>> /\ (queue' = queue \/ queue' = Append(queue, f))
  BY <1>3 DEF Flush, FlushStart, FlushEnqueue, FlushReturn, workerVars, exportVars
<1>4. ASSUME NEW s \in Shutdowns, Shutdown(s)
      PROVE  UNCHANGED <<batch, item, wpc, attempted>> /\ (queue' = queue \/ queue' = Append(queue, Sentinel))
  BY <1>4 DEF Shutdown, ShutdownStart, ShutdownSetStop, ShutdownWakeWorker, ShutdownJoin,
              workerVars, exportVars
<1>5. ASSUME WorkerGet
      PROVE  Pipeline' = Pipeline /\ attempted' = attempted
  <2>1. UNCHANGED <<batch, attempted>> /\ wpc # "dispatch" /\ wpc' = "dispatch"
    BY <1>5 DEF WorkerGet, exportVars
  <2>2. InHand' = EventOf(item')
    BY <2>1 DEF InHand, EventOf
  <2>3. CASE queue # <<>> /\ item' = Head(queue) /\ queue' = Tail(queue)
    <3>1. EventsIn(queue) = InHand' \o EventsIn(queue')
      BY <1>a, <2>2, <2>3, EventsInTail
    <3>2. InHand' \in Seq(Events)
      BY <2>2 DEF EventOf
    <3>3. (batch \o InHand') \o EventsIn(queue') = batch \o (InHand' \o EventsIn(queue'))
      BY SMTT(30), <1>a, <1>c, <3>2, ConcatAssociative
    <3>4. batch \o InHand = batch
      BY <1>a, <1>f, <2>1, ConcatEmptySeq
    <3> QED
      BY <2>1, <3>1, <3>3, <3>4 DEF Pipeline
  <2>4. CASE queue' = queue /\ item' = Sentinel
    <3>1. InHand' = InHand
      BY <1>a, <1>f, <2>1, <2>2, <2>4 DEF EventOf
    <3> QED
      BY <2>1, <2>4, <3>1 DEF Pipeline
  <2> QED
    BY <1>5, <2>3, <2>4 DEF WorkerGet
<1>6. ASSUME WorkerStop
      PROVE  Fifo!FifoNext \/ (Pipeline' = Pipeline /\ attempted' = attempted)
  <2>1. UNCHANGED <<batch, attempted, queue>> /\ wpc' # "dispatch" /\ wpc = "dispatch"
    BY <1>6 DEF WorkerStop, exportVars
  <2>2. InHand' = <<>> /\ Pipeline' = batch \o EventsIn(queue)
    BY <1>a, <1>g, <2>1, ConcatEmptySeq DEF Pipeline
  <2>3. CASE item \notin Events
    BY <2>1, <2>2, <2>3 DEF InHand, Pipeline
  <2>4. CASE item \in Events
    <3>1. Pipeline = (batch \o <<item>>) \o EventsIn(queue)
      BY <2>1, <2>4 DEF InHand, Pipeline
    <3>2. Len(batch) + 1 \in DOMAIN Pipeline
          /\ batch \o EventsIn(queue) = RemoveAt(Pipeline, Len(batch) + 1)
      <4>1. ASSUME NEW r \in Seq(Events), NEW p, p = (batch \o <<item>>) \o r
            PROVE  Len(batch) + 1 \in DOMAIN p /\ batch \o r = RemoveAt(p, Len(batch) + 1)
        <5>1. batch \in Seq(Events)
          BY <1>a
        <5> QED
          BY <2>4, <4>1, <5>1, RemoveFromMiddle
      <4> QED
        BY <1>b, <3>1, <4>1
    <3>3. Fifo!Discard(Len(batch) + 1)
      BY <2>1, <2>2, <3>2, Zenon DEF Fifo!Discard, Fifo!RemoveAt, RemoveAt
    <3> QED
      BY <3>2, <3>3 DEF Fifo!FifoNext
  <2> QED
    BY <2>3, <2>4
<1>7. ASSUME WorkerFlush \/ WorkerDrained \/ WorkerExported
      PROVE  Pipeline' = Pipeline /\ attempted' = attempted
  <2>1. UNCHANGED <<batch, attempted, queue>> /\ wpc' # "dispatch"
    BY <1>7 DEF WorkerFlush, WorkerDrained, WorkerExported, exportVars
  <2>2. wpc # "dispatch" \/ item \in Flushes
    BY <1>7 DEF WorkerFlush, WorkerDrained, WorkerExported
  <2>3. InHand = <<>> /\ InHand' = <<>>
    BY <1>a, <1>g, <2>1, <2>2 DEF InHand
  <2> QED
    BY <2>1, <2>3 DEF Pipeline
<1>8. ASSUME WorkerBatch
      PROVE  Pipeline' = Pipeline /\ attempted' = attempted
  <2>1. /\ UNCHANGED <<attempted, queue>> /\ wpc' # "dispatch" /\ wpc = "dispatch" /\ item \in Events
        /\ batch' = Append(batch, item)
    BY <1>8 DEF WorkerBatch, JoinBatch, exportVars
  <2>2. batch' = batch \o <<item>>
    BY <1>a, <2>1, AppendIsConcat
  <2>3. batch' \o InHand' = batch'
    BY <1>c, <1>g, <2>1, ConcatEmptySeq
  <2>4. InHand = <<item>>
    BY <2>1 DEF InHand
  <2> QED
    BY <2>1, <2>2, <2>3, <2>4 DEF Pipeline
<1>9. ASSUME WorkerDrain
      PROVE  Pipeline' = Pipeline /\ attempted' = attempted
  <2>1. /\ UNCHANGED <<attempted, item, wpc>> /\ wpc # "dispatch" /\ queue # <<>> /\ queue' = Tail(queue)
        /\ IF Head(queue) \in Events THEN batch' = Append(batch, Head(queue)) ELSE batch' = batch
    BY <1>9 DEF WorkerDrain, JoinBatch, exportVars
  <2>2. EventsIn(queue) = EventOf(Head(queue)) \o EventsIn(queue')
    BY <1>a, <2>1, EventsInTail
  <2>3. InHand = <<>> /\ InHand' = <<>>
    BY <1>f, <1>g, <2>1
  <2>4. batch' = batch \o EventOf(Head(queue))
    <3>1. CASE Head(queue) \in Events
      BY <1>a, <2>1, <3>1, AppendIsConcat DEF EventOf
    <3>2. CASE Head(queue) \notin Events
      BY <1>a, <2>1, <3>2, ConcatEmptySeq DEF EventOf
    <3> QED
      BY <3>1, <3>2
  <2>5. EventOf(Head(queue)) \in Seq(Events)
    BY DEF EventOf
  <2>6. (batch \o EventOf(Head(queue))) \o EventsIn(queue')
        = batch \o (EventOf(Head(queue)) \o EventsIn(queue'))
    BY SMTT(30), <1>a, <1>c, <2>5, ConcatAssociative
  <2>7. batch \o InHand = batch /\ batch' \o InHand' = batch'
    BY <1>a, <1>c, <2>3, ConcatEmptySeq
  <2> QED
    BY <2>1, <2>2, <2>4, <2>6, <2>7 DEF Pipeline
<1>10. ASSUME WorkerExport
       PROVE  Fifo!FifoNext
  <2>1. /\ UNCHANGED <<queue, item, wpc>> /\ wpc # "dispatch"
        /\ batch # <<>> /\ batch' = Tail(batch) /\ attempted' = Append(attempted, Head(batch))
    BY <1>10 DEF WorkerExport
  <2>2. InHand = <<>> /\ InHand' = <<>>
    BY <1>f, <1>g, <2>1
  <2>3. batch \o InHand = batch /\ batch' \o InHand' = batch'
    BY <1>a, <1>c, <2>2, ConcatEmptySeq
  <2>4. Pipeline = batch \o EventsIn(queue) /\ Pipeline' = Tail(batch) \o EventsIn(queue)
    BY <2>1, <2>3 DEF Pipeline
  <2>5. Pipeline # <<>> /\ Head(Pipeline) = Head(batch) /\ Pipeline' = Tail(Pipeline)
    BY <1>a, <1>b, <2>1, <2>4, HeadTailOfConcat
  <2>6. Fifo!Deliver
    BY <2>1, <2>5 DEF Fifo!Deliver
  <2> QED
    BY <2>6 DEF Fifo!FifoNext
<1>11. UNCHANGED vars => UNCHANGED <<batch, item, wpc, attempted, queue>>
  BY DEF vars, workerVars, exportVars
<1> QED
  BY <1>a, <1>e, <1>1, <1>2, <1>3, <1>4, <1>5, <1>6, <1>7, <1>8, <1>9, <1>10, <1>11
     DEF Next, Put, Worker

\* The exporter implements the lossy FIFO: the events put() accepts are handed to
\* the export function in the order they were queued and none of them twice,
\* whatever calls overlap; some may be discarded.
THEOREM FifoCorrect == Spec => ImplementsLossyFifo
<1>1. Init => Fifo!FifoInit
  <2> SUFFICES ASSUME Init
               PROVE  Pipeline = <<>> /\ attempted = <<>>
    BY DEF Fifo!FifoInit
  <2>1. queue = <<>> /\ batch = <<>> /\ InHand = <<>> /\ attempted = <<>>
    BY DEF Init, InHand
  <2> QED
    BY <2>1, EventsInEmpty DEF Pipeline
<1> QED
  BY <1>1, TypeInvariant, OnceInvariance, FifoStep, PTL DEF Spec, ImplementsLossyFifo, Fifo!FifoSpec
=============================================================================
