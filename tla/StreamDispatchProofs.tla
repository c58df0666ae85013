------------------------ MODULE StreamDispatchProofs ------------------------
(***************************************************************************)
(* Proofs about StreamDispatch, for any number of threads, exporters with   *)
(* any number of children, and any number of retries, events and resets.    *)
(*                                                                          *)
(* A step is of one thread and leaves where the others are.  Four things    *)
(* follow from it in turn: an event in dispatch belongs to one thread, so   *)
(* the exporter it was handed to stays (TypeInv); whoever closes an         *)
(* exporter holds the lock, so none is replaced half closed (ExporterInv);  *)
(* every new chain is paid for by a reset that has begun (ChainInv); an     *)
(* event is settled before the child its dispatch has come to, and written  *)
(* there no more often than attempts have failed (AccountInv).              *)
(***************************************************************************)
EXTENDS StreamDispatch, SequenceTheorems, FiniteSetTheorems, TLAPS

Dispatching == {"get", "build", "return", "export", "write"}
Exporting == {"export", "write"}
Resetting == {"lock", "close", "chain"}

ThreadState == [pc : Locations, event : 0 .. Len(links), child : 1 .. children,
                attempt : 0 .. MaxRetries]

\* A thread in a dispatch has an event, which no other thread has.
OwnEvent ==
  \A t \in Threads : thread[t].pc \in Dispatching =>
    /\ thread[t].event # 0
    /\ \A u \in Threads \ {t} : thread[u].pc \in Dispatching => thread[u].event # thread[t].event

\* What is exported was handed to an exporter.
HandedOver == \A t \in Threads : thread[t].pc \in Exporting => via[thread[t].event] # 0

TypeInv == TypeOK /\ thread \in [Threads -> ThreadState] /\ OwnEvent /\ HandedOver

----------------------------------------------------------------------------
(* One thread moves.                                                        *)

\* The thread t goes to the place r, and the others stay.
Moves(t, r) == thread' = [thread EXCEPT ![t] = r]

LEMMA GotoMoves ==
  ASSUME thread \in [Threads -> ThreadState], NEW t \in Threads, NEW p \in Locations, Goto(t, p)
  PROVE  \E r \in ThreadState :
           /\ Moves(t, r)
           /\ r.pc = p /\ r.event = thread[t].event /\ r.child = thread[t].child
           /\ r.attempt = thread[t].attempt
<1> DEFINE r == [thread[t] EXCEPT !.pc = p]
<1>1. thread[t] \in ThreadState
  OBVIOUS
<1>2. r \in ThreadState
  BY <1>1 DEF ThreadState
<1>3. /\ r.pc = p /\ r.event = thread[t].event /\ r.child = thread[t].child
      /\ r.attempt = thread[t].attempt
  BY <1>1 DEF ThreadState
<1>4. Moves(t, r)
  BY DEF Goto, Moves
<1> QED
  BY <1>2, <1>3, <1>4

LEMMA NextChildMoves ==
  ASSUME TypeOK, thread \in [Threads -> ThreadState], NEW t \in Threads, thread' = NextChild(t)
  PROVE  \E r \in ThreadState :
           /\ Moves(t, r)
           /\ \/ r = Idle
              \/ r.pc = "export" /\ r.event = thread[t].event
<1>0. thread[t] \in ThreadState /\ children \in Nat \ {0} /\ MaxRetries \in Nat /\ Len(links) \in Nat
  BY DispatchAssumption DEF DispatchAssumption, TypeOK
<1>1. CASE thread[t].child < children
  <2> DEFINE r == [thread[t] EXCEPT !.pc = "export", !.child = @ + 1]
  <2>0. thread[t].child \in Nat /\ thread[t].child + 1 \in 1 .. children
    BY <1>0, <1>1 DEF ThreadState
  <2>1. r.pc = "export" /\ r.event = thread[t].event
    BY <1>0 DEF ThreadState
  <2>2. r \in ThreadState
    BY <1>0, <2>0 DEF ThreadState, Locations
  <2>3. Moves(t, r)
    BY <1>1 DEF Moves, NextChild
  <2> QED
    BY <2>1, <2>2, <2>3
<1>2. CASE ~(thread[t].child < children)
  <2>1. Idle \in ThreadState
    BY <1>0 DEF ThreadState, Locations, Idle
  <2>2. Moves(t, Idle)
    BY <1>2 DEF Moves, NextChild
  <2> QED
    BY <2>1, <2>2
<1> QED
  BY <1>1, <1>2

\* When nothing but the place of one thread changes, it is enough to look at it.
LEMMA MoveKeepsThreads ==
  ASSUME TypeInv, NEW t \in Threads, NEW r \in ThreadState, Moves(t, r),
         UNCHANGED <<links, children>>,
         r.pc \in Dispatching => thread[t].pc \in Dispatching /\ r.event = thread[t].event,
         via' \in [Events -> 0 .. made'],
         \A e \in Events : \/ via'[e] = via[e]
                           \/ thread[t].pc \in Dispatching /\ e = thread[t].event,
         r.pc \in Exporting => via'[r.event] # 0
  PROVE  thread' \in [Threads -> ThreadState'] /\ OwnEvent' /\ HandedOver'
<1>1. /\ thread \in [Threads -> ThreadState] /\ OwnEvent /\ HandedOver
      /\ thread' = [thread EXCEPT ![t] = r]
  BY DEF TypeInv, Moves
<1>2. thread' \in [Threads -> ThreadState'] /\ ThreadState' = ThreadState
  BY <1>1 DEF ThreadState
<1>3. thread'[t] = r /\ \A u \in Threads : u # t => thread'[u] = thread[u]
  BY <1>1
<1>4. OwnEvent'
  BY <1>1, <1>3 DEF OwnEvent
<1>5. HandedOver'
  <2> SUFFICES ASSUME NEW u \in Threads, thread'[u].pc \in Exporting
               PROVE  via'[thread'[u].event] # 0
    BY DEF HandedOver
  <2>1. CASE u = t
    BY <2>1, <1>3
  <2>2. CASE u # t
    <3>1. thread[u] \in ThreadState /\ thread[t] \in ThreadState /\ thread'[u] = thread[u]
      BY <1>1, <1>3, <2>2
    <3>2. thread[u].event # 0 /\ via[thread[u].event] # 0 /\ thread[u].pc \in Dispatching
      BY <3>1, <1>1 DEF OwnEvent, HandedOver, Exporting, Dispatching
    <3>3. thread[u].event \in Events
      <4>1. Len(links) \in Nat
        BY DEF TypeInv, TypeOK
      <4> QED
        BY <4>1, <3>1, <3>2 DEF ThreadState, Events
    <3>4. ~(thread[t].pc \in Dispatching /\ thread[u].event = thread[t].event)
      BY <3>1, <3>2, <2>2, <1>1 DEF OwnEvent
    <3> QED
      BY <3>1, <3>2, <3>3, <3>4
  <2> QED
    BY <2>1, <2>2
<1> QED
  BY <1>2, <1>4, <1>5

LEMMA LongerSeq ==
  ASSUME NEW S, NEW T, S \subseteq T
  PROVE  Seq(S) \subseteq Seq(T)
BY SeqDef

\* Everything in TypeOK but the threads.
DataOK ==
  /\ children \in Children
  /\ made \in Nat /\ cached \in 0 .. made
  /\ lock \in Threads \cup {None}
  /\ links \in Seq(Nat) /\ Len(links) <= MaxEvents
  /\ prevSigned \in 0 .. Len(links)
  /\ shutdownCalled \in BOOLEAN /\ resets \in 0 .. MaxResets
  /\ via \in [Events -> 0 .. made]
  /\ closed \subseteq (1 .. made) \X (1 .. children)
  /\ failed \subseteq (1 .. made) \X (1 .. children)
  /\ file \in [1 .. children -> Seq(Events)]
  /\ refused \subseteq Events

LEMMA ThreadsAndData ==
  ASSUME DataOK, thread \in [Threads -> ThreadState]
  PROVE  TypeOK
BY DEF DataOK, TypeOK, ThreadState

LEMMA ThreadsAndDataNext ==
  ASSUME DataOK', (thread \in [Threads -> ThreadState])'
  PROVE  TypeOK'
BY DEF DataOK, TypeOK, ThreadState, Events, Locations, None

----------------------------------------------------------------------------
(* Every step keeps the types.                                              *)

THEOREM TypeInit == Init => TypeInv
<1> SUFFICES ASSUME Init PROVE TypeInv
  OBVIOUS
<1>1. children \in Nat \ {0} /\ MaxRetries \in Nat /\ MaxEvents \in Nat /\ MaxResets \in Nat
  BY DispatchAssumption DEF DispatchAssumption, Init
<1>2. links = <<>> /\ Len(links) = 0 /\ Events = {}
  BY DEF Init, Events
<1>3. thread \in [Threads -> ThreadState] /\ \A t \in Threads : thread[t].pc = "idle"
  BY <1>1, <1>2 DEF Init, Idle, ThreadState, Locations
<1>4. via \in [Events -> 0 .. made]
  BY <1>2 DEF Init
<1>5. file \in [1 .. children -> Seq(Events)]
  BY <1>2 DEF Init
<1>6. DataOK
  <2>1. /\ children \in Children /\ cached = 0 /\ made = 0 /\ lock = None
        /\ closed = {} /\ failed = {} /\ refused = {} /\ prevSigned = 0
        /\ shutdownCalled = FALSE /\ resets = 0
    BY DEF Init
  <2>2. cached \in 0 .. made /\ prevSigned \in 0 .. Len(links) /\ resets \in 0 .. MaxResets
    BY <2>1, <1>1, <1>2
  <2>3. links \in Seq(Nat) /\ Len(links) <= MaxEvents
    BY <1>1, <1>2
  <2>4. lock \in Threads \cup {None} /\ made \in Nat /\ shutdownCalled \in BOOLEAN
    BY <2>1
  <2>5. /\ closed \subseteq (1 .. made) \X (1 .. children)
        /\ failed \subseteq (1 .. made) \X (1 .. children) /\ refused \subseteq Events
    BY <2>1
  <2> QED
    BY <2>1, <2>2, <2>3, <2>4, <2>5, <1>4, <1>5 DEF DataOK
<1>7. OwnEvent /\ HandedOver
  BY <1>3 DEF OwnEvent, HandedOver, Dispatching, Exporting
<1> QED
  BY <1>3, <1>6, <1>7, ThreadsAndData DEF TypeInv

LEMMA TypeSign ==
  ASSUME TypeInv, NEW t \in Threads, Sign(t)
  PROVE  TypeInv'
<1> DEFINE r == [Idle EXCEPT !.pc = "get", !.event = Len(links) + 1]
<1>0. /\ children \in Nat \ {0} /\ MaxRetries \in Nat /\ MaxEvents \in Nat
      /\ links \in Seq(Nat) /\ Len(links) \in Nat /\ prevSigned \in 0 .. Len(links)
      /\ made \in Nat /\ via \in [Events -> 0 .. made]
      /\ thread \in [Threads -> ThreadState] /\ OwnEvent /\ HandedOver
  BY DispatchAssumption DEF DispatchAssumption, TypeInv, TypeOK
<1>1. /\ links' = Append(links, prevSigned) /\ Len(links) < MaxEvents
      /\ prevSigned' = Len(links) + 1 /\ via' = Append(via, 0)
      /\ thread' = [thread EXCEPT ![t] = r]
      /\ UNCHANGED <<exporterVars, outputVars, lifeVars>>
  BY DEF Sign
<1>2. links' \in Seq(Nat) /\ Len(links') = Len(links) + 1
  BY <1>0, <1>1
<1>3. Events \subseteq Events' /\ Events' = 1 .. Len(links) + 1
  BY <1>0, <1>2 DEF Events
<1>4. /\ via' \in [Events' -> 0 .. made]
      /\ \A e \in Events : via'[e] = via[e]
  <2>1. via \in Seq(0 .. made) /\ Len(via) = Len(links)
    BY SMTT(30), <1>0 DEF Events
  <2> QED
    <3>1. /\ Append(via, 0) \in Seq(0 .. made) /\ Len(Append(via, 0)) = Len(via) + 1
          /\ \A e \in 1 .. Len(via) : Append(via, 0)[e] = via[e]
      BY <2>1, <1>0, AppendProperties
    <3>2. Append(via, 0) \in [1 .. Len(via) + 1 -> 0 .. made]
      BY <3>1, LenProperties
    <3> QED
      BY <2>1, <3>1, <3>2, <1>1, <1>3 DEF Events
<1>5. r \in ThreadState' /\ r.pc = "get" /\ r.event = Len(links) + 1
  <2>1. /\ r.pc = "get" /\ r.event = Len(links) + 1 /\ r.child = 1 /\ r.attempt = 0
        /\ r \in [pc : {r.pc}, event : {r.event}, child : {r.child}, attempt : {r.attempt}]
        /\ children' = children
    BY <1>1 DEF Idle, exporterVars
  <2>2. Len(links) + 1 \in 0 .. Len(links') /\ 1 \in 1 .. children' /\ 0 \in 0 .. MaxRetries
    BY <2>1, <1>0, <1>2
  <2> QED
    BY <2>1, <2>2 DEF ThreadState, Locations
<1>6. ThreadState \subseteq ThreadState'
  BY <1>0, <1>1, <1>2 DEF ThreadState, exporterVars
<1> HIDE DEF r
<1>7. /\ thread'[t] = r
      /\ \A u \in Threads : u # t => thread'[u] = thread[u]
  BY <1>0, <1>1
<1>8. thread' \in [Threads -> ThreadState']
  BY <1>0, <1>1, <1>5, <1>6
<1>9. \A u \in Threads : thread[u].event \in 0 .. Len(links)
  BY <1>0 DEF ThreadState
<1>10. OwnEvent'
  <2>1. \A u \in Threads : thread[u].event # r.event
    BY <1>0, <1>5, <1>9
  <2>2. r.event # 0
    BY <1>0, <1>5
  <2> QED
    BY <2>1, <2>2, <1>0, <1>7 DEF OwnEvent
<1>11. HandedOver'
  <2> SUFFICES ASSUME NEW u \in Threads, thread'[u].pc \in Exporting
               PROVE  via'[thread'[u].event] # 0
    BY DEF HandedOver
  <2>1. u # t
    BY <1>5, <1>7 DEF Exporting
  <2>2. thread'[u] = thread[u] /\ thread[u].pc \in Dispatching
    BY <2>1, <1>7 DEF Exporting, Dispatching
  <2>3. thread[u].event \in Events
    BY <2>2, <1>0, <1>9 DEF OwnEvent, Events
  <2> QED
    BY <2>2, <2>3, <1>0, <1>4 DEF HandedOver
<1>12. file' \in [1 .. children -> Seq(Events')]
  <2>1. file' = file /\ file \in [1 .. children -> Seq(Events)]
    BY <1>1 DEF TypeInv, TypeOK, outputVars
  <2> QED
    BY ZenonT(30), <2>1, <1>3, LongerSeq
<1>13. DataOK'
  BY <1>0, <1>1, <1>2, <1>3, <1>4, <1>12
     DEF TypeInv, TypeOK, DataOK, exporterVars, outputVars, lifeVars, None
<1> QED
  BY <1>8, <1>10, <1>11, <1>13, ThreadsAndDataNext DEF TypeInv

\* The steps that only move a thread to the place p, and leave the data in
\* their types and the exporter of every event.
LEMMA TypeGoto ==
  ASSUME TypeInv, NEW t \in Threads, NEW p \in Locations, Goto(t, p),
         UNCHANGED <<links, children, via>>, made' \in Nat, made <= made', DataOK',
         p \in Dispatching => thread[t].pc \in Dispatching,
         p \in Exporting => via[thread[t].event] # 0
  PROVE  TypeInv'
<1>1. thread \in [Threads -> ThreadState]
  BY DEF TypeInv
<1>2. PICK r \in ThreadState :
          /\ Moves(t, r)
          /\ r.pc = p /\ r.event = thread[t].event
  BY <1>1, GotoMoves
<1>3. via' \in [Events -> 0 .. made'] /\ \A e \in Events : via'[e] = via[e]
  <2>1. made \in Nat /\ via \in [Events -> 0 .. made]
    BY DEF TypeInv, TypeOK
  <2>2. 0 .. made \subseteq 0 .. made'
    BY <2>1
  <2> QED
    BY <2>1, <2>2
<1>4. thread' \in [Threads -> ThreadState'] /\ OwnEvent' /\ HandedOver'
  BY <1>2, <1>3, MoveKeepsThreads
<1> QED
  BY <1>4, ThreadsAndDataNext DEF TypeInv

LEMMA TypeGet ==
  ASSUME TypeInv, NEW t \in Threads, TestCache(t) \/ Build(t) \/ ReadCache(t)
  PROVE  TypeInv'
<1>0. /\ DataOK /\ made \in Nat /\ cached \in 0 .. made /\ Len(links) \in Nat
      /\ via \in [Events -> 0 .. made]
      /\ thread \in [Threads -> ThreadState] /\ OwnEvent /\ HandedOver
  <2>1. TypeOK /\ thread \in [Threads -> ThreadState] /\ OwnEvent /\ HandedOver
    BY DEF TypeInv
  <2>2. DataOK
    BY <2>1 DEF TypeOK, DataOK
  <2> QED
    BY <2>1, <2>2 DEF DataOK
<1>1. thread[t].pc \in {"get", "build", "return"}
  BY DEF TestCache, Build, ReadCache, At
<1>2. thread[t].pc \in Dispatching /\ thread[t].event \in Events
  BY <1>0, <1>1 DEF Dispatching, OwnEvent, Events, ThreadState
<1>3. CASE TestCache(t)
  <2>1. PICK p \in {"return", "build"} : Goto(t, p)
    BY <1>3 DEF TestCache
  <2>2. DataOK' /\ UNCHANGED <<links, children, via, made>>
    BY <1>0, <1>3 DEF TestCache, DataOK, Events, exporterVars, outputVars, chainVars, lifeVars, None
  <2> QED
    BY <2>1, <2>2, <1>0, <1>2, TypeGoto DEF Locations, Dispatching, Exporting
<1>4. CASE Build(t) /\ cached = 0
  <2>1. /\ Goto(t, "return") /\ made' = made + 1 /\ cached' = made + 1
        /\ UNCHANGED <<children, lock, closed, failed, outputVars, chainVars, lifeVars, via>>
    BY <1>4 DEF Build
  <2>2. 0 .. made \subseteq 0 .. made + 1 /\ 1 .. made \subseteq 1 .. made + 1
    BY <1>0
  <2>3. via' \in [Events -> 0 .. made + 1]
    BY <1>0, <2>1, <2>2
  <2>4. DataOK'
    BY <1>0, <2>1, <2>2, <2>3 DEF DataOK, Events, outputVars, chainVars, lifeVars, None
  <2> QED
    BY <2>1, <2>4, <1>0, <1>2, TypeGoto DEF Locations, Dispatching, Exporting, chainVars
<1>5. CASE \/ Build(t) /\ cached # 0
           \/ ReadCache(t) /\ cached # 0
  <2>1. /\ Goto(t, "export") /\ via' = [via EXCEPT ![thread[t].event] = cached]
        /\ UNCHANGED <<exporterVars, outputVars, chainVars, lifeVars>>
    BY <1>5 DEF Build, ReadCache, exporterVars, outputVars, chainVars, lifeVars
  <2>2. PICK r \in ThreadState : Moves(t, r) /\ r.pc = "export" /\ r.event = thread[t].event
    BY <2>1, <1>0, GotoMoves DEF Locations
  <2>3. /\ via' \in [Events -> 0 .. made] /\ via'[thread[t].event] = cached
        /\ \A e \in Events : e # thread[t].event => via'[e] = via[e]
    BY <2>1, <1>0, <1>2
  <2>4. DataOK' /\ UNCHANGED <<links, children, made>>
    BY <1>0, <2>1, <2>3 DEF DataOK, Events, exporterVars, outputVars, chainVars, lifeVars, None
  <2>5. thread' \in [Threads -> ThreadState'] /\ OwnEvent' /\ HandedOver'
    BY <2>2, <2>3, <2>4, <1>2, <1>5, MoveKeepsThreads
  <2> QED
    BY <2>4, <2>5, ThreadsAndDataNext DEF TypeInv
<1>6. CASE ReadCache(t) /\ cached = 0
  <2>1. /\ via' = [via EXCEPT ![thread[t].event] = 0] /\ refused' = refused \cup {thread[t].event}
        /\ thread' = [thread EXCEPT ![t] = Idle]
        /\ UNCHANGED <<exporterVars, file, chainVars, lifeVars>>
    BY <1>6 DEF ReadCache
  <2>2. Idle \in ThreadState /\ Idle.pc = "idle"
    <3>1. children \in Nat \ {0} /\ MaxRetries \in Nat
      BY <1>0, DispatchAssumption DEF DispatchAssumption, DataOK
    <3> QED
      BY <3>1, <1>0 DEF Idle, ThreadState, Locations
  <2>3. /\ via' \in [Events -> 0 .. made]
        /\ \A e \in Events : e # thread[t].event => via'[e] = via[e]
    BY <2>1, <1>0, <1>2
  <2>4. DataOK' /\ UNCHANGED <<links, children, made>>
    BY <1>0, <1>2, <2>1, <2>3 DEF DataOK, Events, exporterVars, chainVars, lifeVars, None
  <2>5. thread' \in [Threads -> ThreadState'] /\ OwnEvent' /\ HandedOver'
    BY <2>1, <2>2, <2>3, <2>4, <1>2, MoveKeepsThreads DEF Moves, Dispatching, Exporting
  <2> QED
    BY <2>4, <2>5, ThreadsAndDataNext DEF TypeInv
<1> QED
  BY <1>3, <1>4, <1>5, <1>6

\* A child that fails belongs to an exporter that was built.
LEMMA TypeFails ==
  ASSUME TypeInv, NEW t \in Threads, thread[t].pc \in Exporting, Fails(t)
  PROVE  /\ failed' \subseteq (1 .. made) \X (1 .. children)
         /\ refused' \subseteq Events
<1>1. /\ made \in Nat /\ Len(links) \in Nat /\ via \in [Events -> 0 .. made]
      /\ failed \subseteq (1 .. made) \X (1 .. children) /\ refused \subseteq Events
      /\ thread \in [Threads -> ThreadState] /\ OwnEvent /\ HandedOver
  BY DEF TypeInv, TypeOK
<1>2. /\ thread[t].event \in Events /\ via[thread[t].event] # 0
      /\ thread[t].child \in 1 .. children
  BY <1>1 DEF OwnEvent, HandedOver, Exporting, Dispatching, Events, ThreadState
<1>3. via[thread[t].event] \in 1 .. made
  BY <1>1, <1>2
<1> QED
  BY <1>1, <1>2, <1>3 DEF Fails, Records

LEMMA TypeExport ==
  ASSUME TypeInv, NEW t \in Threads,
         TestClosed(t) \/ Write(t) \/ WriteFails(t) \/ Retry(t)
  PROVE  TypeInv'
<1>0. /\ TypeOK /\ DataOK /\ made \in Nat /\ Len(links) \in Nat
      /\ via \in [Events -> 0 .. made]
      /\ thread \in [Threads -> ThreadState] /\ OwnEvent /\ HandedOver
  <2>1. TypeOK /\ thread \in [Threads -> ThreadState] /\ OwnEvent /\ HandedOver
    BY DEF TypeInv
  <2>2. DataOK
    BY <2>1 DEF TypeOK, DataOK
  <2> QED
    BY <2>1, <2>2 DEF DataOK
<1>1. /\ thread[t].pc \in Exporting /\ thread[t].pc \in Dispatching
      /\ UNCHANGED <<children, cached, lock, made, closed, chainVars, lifeVars, via>>
  BY DEF TestClosed, Write, WriteFails, Retry, At, Exporting, Dispatching, exporterVars
<1>2. /\ thread[t].event \in Events /\ via[thread[t].event] # 0
      /\ thread[t].child \in 1 .. children
  BY <1>0, <1>1 DEF OwnEvent, HandedOver, Events, ThreadState
<1>3. DataOK'
  <2>1. failed' \subseteq (1 .. made) \X (1 .. children) /\ refused' \subseteq Events
    <3>1. CASE Fails(t)
      BY <3>1, <1>1, TypeFails
    <3>2. CASE UNCHANGED failed /\ (UNCHANGED refused \/ Records(t))
      BY <3>2, <1>0, <1>2 DEF DataOK, Records
    <3> QED
      BY <3>1, <3>2 DEF TestClosed, Write, WriteFails, Retry, exporterVars
  <2>2. file' \in [1 .. children -> Seq(Events)]
    <3>1. file \in [1 .. children -> Seq(Events)]
      BY <1>0 DEF DataOK
    <3>2. CASE file' = file
      BY <3>1, <3>2
    <3>3. CASE Appended(t)
      <4>1. Append(file[thread[t].child], thread[t].event) \in Seq(Events)
        BY <3>1, <1>2, AppendProperties
      <4> QED
        BY <4>1, <3>1, <3>3 DEF Appended
    <3> QED
      BY <3>2, <3>3 DEF TestClosed, Write, WriteFails, Retry
  <2> QED
    BY <2>1, <2>2, <1>0, <1>1 DEF DataOK, Events, chainVars, lifeVars, None
<1>4. UNCHANGED <<links, children, via, made>>
  BY <1>1 DEF chainVars
<1>8. via' \in [Events -> 0 .. made'] /\ \A e \in Events : via'[e] = via[e]
  BY <1>0, <1>4
<1>9. thread[t].pc \in Dispatching /\ UNCHANGED <<links, children>>
  BY <1>1, <1>4
<1>5. CASE thread' = NextChild(t)
  <2>1. PICK r \in ThreadState :
          /\ Moves(t, r)
          /\ r = Idle \/ (r.pc = "export" /\ r.event = thread[t].event)
    BY <1>0, <1>5, NextChildMoves
  <2>2. r.pc \in {"idle", "export"} /\ (r.pc = "export" => r.event = thread[t].event)
    BY <2>1 DEF Idle
  <2>3. r.pc \in Dispatching => r.event = thread[t].event
    BY <2>2 DEF Dispatching
  <2>4. r.pc \in Exporting => via'[r.event] # 0
    BY <2>2, <1>2, <1>4 DEF Exporting
  <2>5. thread' \in [Threads -> ThreadState'] /\ OwnEvent' /\ HandedOver'
    BY <2>1, <2>3, <2>4, <1>8, <1>9, MoveKeepsThreads
  <2> QED
    BY <2>5, <1>3, ThreadsAndDataNext DEF TypeInv
<1>6. CASE Goto(t, "write")
  BY <1>6, <1>0, <1>1, <1>2, <1>3, <1>4, TypeGoto DEF Locations
<1>7. CASE Retry(t)
  <2> DEFINE r == [thread[t] EXCEPT !.pc = "export", !.attempt = @ + 1]
  <2>1. Moves(t, r) /\ thread[t].attempt < MaxRetries
    BY <1>7 DEF Retry, Moves
  <2>2. MaxRetries \in Nat
    BY DispatchAssumption DEF DispatchAssumption
  <2>3. thread[t].attempt + 1 \in 0 .. MaxRetries
    BY <1>0, <2>1, <2>2 DEF ThreadState
  <2>4. r.pc = "export" /\ r.event = thread[t].event
    BY <1>0 DEF ThreadState
  <2>5. r \in ThreadState
    BY <1>0, <2>3 DEF ThreadState, Locations
  <2> HIDE DEF r
  <2>6. thread' \in [Threads -> ThreadState'] /\ OwnEvent' /\ HandedOver'
    BY <2>1, <2>4, <2>5, <1>0, <1>1, <1>2, <1>4, MoveKeepsThreads
  <2> QED
    BY <2>6, <1>3, ThreadsAndDataNext DEF TypeInv
<1> QED
  BY <1>5, <1>6, <1>7 DEF TestClosed, Write, WriteFails

LEMMA TypeReset ==
  ASSUME TypeInv, NEW t \in Threads,
         \/ Configure(t) \/ Shutdown(t) \/ TakeLock(t)
         \/ CloseChild(t) \/ Discard(t) \/ ResetChain(t)
  PROVE  TypeInv'
<1>0. /\ TypeOK /\ DataOK /\ made \in Nat /\ Len(links) \in Nat
      /\ via \in [Events -> 0 .. made]
      /\ thread \in [Threads -> ThreadState] /\ OwnEvent /\ HandedOver
      /\ children \in Nat \ {0} /\ MaxRetries \in Nat /\ MaxResets \in Nat
  <2>1. TypeOK /\ thread \in [Threads -> ThreadState] /\ OwnEvent /\ HandedOver
    BY DEF TypeInv
  <2>2. DataOK
    BY <2>1 DEF TypeOK, DataOK
  <2>3. made \in Nat /\ Len(links) \in Nat /\ via \in [Events -> 0 .. made] /\ children \in Children
    BY <2>2 DEF DataOK
  <2> QED
    BY <2>1, <2>2, <2>3, DispatchAssumption DEF DispatchAssumption
<1>1. UNCHANGED <<links, children, via, made, failed, outputVars>>
  BY DEF Configure, Shutdown, TakeLock, CloseChild, Discard, ResetChain,
         exporterVars, chainVars
<1>2. DataOK'
  <2>1. CASE Configure(t)
    BY <2>1, <1>0 DEF Configure, DataOK, Events, exporterVars, outputVars, chainVars, None
  <2>2. CASE Shutdown(t)
    BY <2>2, <1>0 DEF Shutdown, DataOK, Events, exporterVars, outputVars, chainVars, None
  <2>3. CASE TakeLock(t)
    BY <2>3, <1>0 DEF TakeLock, DataOK, Events, outputVars, chainVars, lifeVars, None
  <2>4. CASE CloseChild(t)
    <3>1. <<cached, thread[t].child>> \in (1 .. made) \X (1 .. children)
      <4>1. made \in Nat /\ cached \in 0 .. made /\ cached # 0
        BY <2>4, <1>0 DEF CloseChild, DataOK
      <4>2. thread[t].child \in 1 .. children
        BY <1>0 DEF ThreadState
      <4> QED
        BY <4>1, <4>2
    <3> QED
      BY <3>1, <2>4, <1>0 DEF CloseChild, DataOK, Events, outputVars, chainVars, lifeVars, None
  <2>5. CASE Discard(t)
    BY <2>5, <1>0 DEF Discard, DataOK, Events, outputVars, chainVars, lifeVars, None
  <2>6. CASE ResetChain(t)
    BY SMTT(30), <2>6, <1>0 DEF ResetChain, DataOK, Events, exporterVars, outputVars, lifeVars, None
  <2> QED
    BY <2>1, <2>2, <2>3, <2>4, <2>5, <2>6
<1>3. CASE \E p \in Resetting : Goto(t, p)
  <2>1. PICK p \in Resetting : Goto(t, p)
    BY <1>3
  <2>2. p \in Locations /\ p \notin Dispatching /\ p \notin Exporting
    BY DEF Resetting, Locations, Dispatching, Exporting
  <2> QED
    BY <2>1, <2>2, <1>0, <1>1, <1>2, TypeGoto
<1>4. CASE CloseChild(t)
  <2>1. PICK r \in ThreadState : Moves(t, r) /\ r.pc = "close"
    <3>1. thread[t].pc = "close" /\ thread[t] \in ThreadState
      BY <1>4, <1>0 DEF CloseChild, At
    <3>2. CASE thread[t].child < children
      <4> DEFINE r == [thread[t] EXCEPT !.child = @ + 1]
      <4>0. thread[t].child + 1 \in 1 .. children
        BY <3>1, <3>2, <1>0 DEF ThreadState
      <4>1. r \in ThreadState /\ r.pc = "close"
        BY <3>1, <4>0 DEF ThreadState
      <4>2. Moves(t, r)
        BY <3>2, <1>4 DEF CloseChild, Moves
      <4> QED
        BY <4>1, <4>2
    <3>3. CASE ~(thread[t].child < children)
      <4>1. Moves(t, thread[t])
        BY <3>3, <1>4, <1>0 DEF CloseChild, Moves
      <4> QED
        BY <4>1, <3>1
    <3> QED
      BY <3>2, <3>3
  <2>2. r.pc \notin Dispatching /\ r.pc \notin Exporting
    BY <2>1 DEF Dispatching, Exporting
  <2>3. thread' \in [Threads -> ThreadState'] /\ OwnEvent' /\ HandedOver'
    BY <2>1, <2>2, <1>0, <1>1, MoveKeepsThreads
  <2> QED
    BY <2>3, <1>2, ThreadsAndDataNext DEF TypeInv
<1>5. CASE ResetChain(t)
  <2>1. Moves(t, Idle)
    BY <1>5 DEF ResetChain, Moves
  <2>2. Idle \in ThreadState /\ Idle.pc \notin Dispatching /\ Idle.pc \notin Exporting
    BY <1>0 DEF Idle, ThreadState, Locations, Dispatching, Exporting
  <2>3. thread' \in [Threads -> ThreadState'] /\ OwnEvent' /\ HandedOver'
    BY <2>1, <2>2, <1>0, <1>1, MoveKeepsThreads
  <2> QED
    BY <2>3, <1>2, ThreadsAndDataNext DEF TypeInv
<1> QED
  BY <1>3, <1>4, <1>5 DEF Configure, Shutdown, TakeLock, Discard, Resetting

THEOREM TypeStep == TypeInv /\ [Next]_vars => TypeInv'
<1> SUFFICES ASSUME TypeInv, [Next]_vars PROVE TypeInv'
  OBVIOUS
<1>1. CASE UNCHANGED vars
  <2>1. UNCHANGED <<children, cached, lock, made, closed, failed, file, refused, prevSigned,
                    links, shutdownCalled, resets, via, thread>>
    BY <1>1 DEF vars, exporterVars, outputVars, chainVars, lifeVars
  <2> QED
    BY <2>1 DEF TypeInv, TypeOK, ThreadState, OwnEvent, HandedOver, Events, None
<1>2. ASSUME NEW t \in Threads, Sign(t) \/ Configure(t) \/ Shutdown(t) \/ Continue(t)
      PROVE  TypeInv'
  BY <1>2, TypeSign, TypeGet, TypeExport, TypeReset DEF Continue
<1> QED
  BY <1>1, <1>2 DEF Next

\* The state that _stream.py keeps stays in its types, whatever the threads do.
THEOREM TypeCorrect == Spec => []TypeOK
<1>1. TypeInv => TypeOK
  BY DEF TypeInv
<1> QED
  BY <1>1, TypeInit, TypeStep, PTL DEF Spec

----------------------------------------------------------------------------
(* The exporters.                                                           *)

\* A dispatch and a reset begin with the first child.
FirstChild == \A t \in Threads : thread[t].pc \in {"idle", "lock"} => thread[t].child = 1

LockHeld == \A t \in Threads : thread[t].pc = "close" <=> lock = t

\* The children of an exporter are closed from the first to the last.
ClosedInOrder ==
  \A x \in 1 .. made : \A c, d \in 1 .. children :
    d <= c /\ <<x, c>> \in closed => <<x, d>> \in closed

\* Whoever closes an exporter has closed the children before its own.
ClosingInOrder ==
  \A t \in Threads : thread[t].pc = "close" /\ cached # 0 =>
    \A c \in 1 .. children : c < thread[t].child => <<cached, c>> \in closed

ExporterInv == FirstChild /\ LockHeld /\ ClosedInOrder /\ ClosingInOrder /\ OneLiveExporter

\* The others stay where they are.
Others(t) == \A u \in Threads : u # t => thread'[u] = thread[u]

THEOREM ExporterInit == Init => ExporterInv
<1> SUFFICES ASSUME Init PROVE ExporterInv
  OBVIOUS
<1>1. /\ \A t \in Threads : thread[t].pc = "idle" /\ thread[t].child = 1
      /\ lock = None /\ made = 0 /\ closed = {} /\ 1 .. made = {}
  BY DEF Init, Idle
<1>2. \A t \in Threads : t # None
  BY DispatchAssumption DEF DispatchAssumption, None
<1> QED
  BY <1>1, <1>2 DEF ExporterInv, FirstChild, LockHeld, ClosedInOrder, ClosingInOrder, OneLiveExporter

\* Steps of a thread that does not close, and changes no exporter.
LEMMA QuietStep ==
  ASSUME ExporterInv, NEW t \in Threads, Others(t),
         UNCHANGED <<children, cached, lock, made, closed>>,
         thread[t].pc # "close", thread'[t].pc # "close",
         thread'[t].pc \in {"idle", "lock"} => thread'[t].child = 1
  PROVE  ExporterInv'
<1>1. FirstChild' /\ LockHeld' /\ ClosingInOrder'
  BY DEF ExporterInv, FirstChild, LockHeld, ClosingInOrder, Others
<1>2. ClosedInOrder' /\ OneLiveExporter'
  BY DEF ExporterInv, ClosedInOrder, OneLiveExporter
<1> QED
  BY <1>1, <1>2 DEF ExporterInv

LEMMA GotoFrom ==
  ASSUME TypeInv, NEW t \in Threads, NEW p \in Locations, Goto(t, p)
  PROVE  Others(t) /\ thread'[t].pc = p /\ thread'[t].child = thread[t].child
<1>1. thread \in [Threads -> ThreadState]
  BY DEF TypeInv
<1>2. PICK r \in ThreadState : Moves(t, r) /\ r.pc = p /\ r.child = thread[t].child
  BY <1>1, GotoMoves
<1> QED
  BY <1>1, <1>2 DEF Moves, Others

LEMMA NextChildFrom ==
  ASSUME TypeInv, NEW t \in Threads, thread' = NextChild(t)
  PROVE  /\ Others(t) /\ thread'[t].pc \in {"idle", "export"}
         /\ thread'[t].pc = "idle" => thread'[t].child = 1
<1>1. TypeOK /\ thread \in [Threads -> ThreadState]
  BY DEF TypeInv
<1>2. PICK r \in ThreadState : Moves(t, r) /\ (r = Idle \/ r.pc = "export")
  BY <1>1, NextChildMoves
<1> QED
  BY <1>1, <1>2 DEF Moves, Others, Idle

LEMMA ExporterDispatch ==
  ASSUME TypeInv, ExporterInv, NEW t \in Threads,
         \/ Sign(t) \/ TestCache(t) \/ (Build(t) /\ cached # 0) \/ ReadCache(t)
         \/ TestClosed(t) \/ Write(t) \/ WriteFails(t) \/ Retry(t)
  PROVE  ExporterInv'
<1>1. thread \in [Threads -> ThreadState]
  BY DEF TypeInv
<1>2. thread[t].pc # "close" /\ UNCHANGED <<children, cached, lock, made, closed>>
  BY DEF Sign, TestCache, Build, ReadCache, TestClosed, Write, WriteFails, Retry, At, exporterVars
<1>3. CASE \E p \in {"return", "build", "export", "write"} : Goto(t, p)
  BY <1>2, <1>3, GotoFrom, QuietStep DEF Locations
<1>4. CASE thread' = NextChild(t)
  BY <1>2, <1>4, NextChildFrom, QuietStep
<1>5. CASE Sign(t)
  <2>1. Others(t) /\ thread'[t].pc = "get"
    BY <1>1, <1>5 DEF Sign, Others, Idle
  <2> QED
    BY <2>1, <1>2, QuietStep
<1>6. CASE thread' = [thread EXCEPT ![t] = Idle]
  <2>1. Others(t) /\ thread'[t].pc = "idle" /\ thread'[t].child = 1
    BY <1>1, <1>6 DEF Others, Idle
  <2> QED
    BY <2>1, <1>2, QuietStep
<1>7. CASE Retry(t)
  <2>1. Others(t) /\ thread'[t].pc = "export"
    <3>1. thread[t] \in ThreadState
      BY <1>1
    <3> QED
      BY <1>1, <1>7, <3>1 DEF Retry, Others, ThreadState
  <2> QED
    BY <2>1, <1>2, QuietStep
<1> QED
  BY <1>3, <1>4, <1>5, <1>6, <1>7 DEF TestCache, Build, ReadCache, TestClosed, Write, WriteFails

\* A new exporter is built when there is none, so the others are closed.
LEMMA ExporterBuild ==
  ASSUME TypeInv, ExporterInv, NEW t \in Threads, Build(t), cached = 0
  PROVE  ExporterInv'
<1>1. /\ made \in Nat /\ closed \subseteq (1 .. made) \X (1 .. children)
  BY DEF TypeInv, TypeOK
<1>2. /\ lock = None /\ thread[t].pc = "build" /\ Goto(t, "return")
      /\ made' = made + 1 /\ cached' = made + 1 /\ UNCHANGED <<children, lock, closed>>
  BY DEF Build, At
<1>3. Others(t) /\ thread'[t].pc = "return"
  BY <1>2, GotoFrom DEF Locations
<1>4. \A u \in Threads : thread[u].pc # "close" /\ thread'[u].pc # "close"
  <2>1. \A u \in Threads : lock # u
    BY <1>2, DispatchAssumption DEF DispatchAssumption, None
  <2> QED
    BY <2>1, <1>3 DEF ExporterInv, LockHeld, Others
<1>5. FirstChild' /\ LockHeld' /\ ClosingInOrder'
  BY <1>2, <1>3, <1>4 DEF ExporterInv, FirstChild, LockHeld, ClosingInOrder, Others
<1>6. \A x \in 1 .. made' : x \in 1 .. made \/ x = made'
  BY <1>1, <1>2
<1>7. \A c \in 1 .. children : <<made', c>> \notin closed
  BY <1>1, <1>2
<1>8. ClosedInOrder'
  BY <1>2, <1>6, <1>7 DEF ExporterInv, ClosedInOrder
<1>9. OneLiveExporter'
  <2>1. \A x \in 1 .. made : x # cached
    BY <1>1
  <2> QED
    BY <2>1, <1>2, <1>6 DEF ExporterInv, OneLiveExporter
<1> QED
  BY <1>5, <1>8, <1>9 DEF ExporterInv

LEMMA ExporterClose ==
  ASSUME TypeInv, ExporterInv, NEW t \in Threads, CloseChild(t)
  PROVE  ExporterInv'
<1>1. /\ made \in Nat /\ cached \in 1 .. made /\ children \in Nat \ {0}
      /\ closed \subseteq (1 .. made) \X (1 .. children)
      /\ thread \in [Threads -> ThreadState]
      /\ thread[t].child \in 1 .. children /\ thread[t].pc = "close"
  BY SMTT(30), DispatchAssumption DEF DispatchAssumption, CloseChild, At, TypeInv, TypeOK
<1> DEFINE k == thread[t].child
<1>2. /\ closed' = closed \cup {<<cached, k>>}
      /\ UNCHANGED <<children, cached, lock, made>>
  BY DEF CloseChild
<1>3. /\ Others(t) /\ thread'[t].pc = "close"
      /\ thread'[t].child \in {k, k + 1}
  <2>1. thread[t] \in ThreadState
    BY <1>1
  <2>2. CASE k < children
    BY <2>1, <2>2, <1>1 DEF CloseChild, Others, ThreadState
  <2>3. CASE ~(k < children)
    BY <2>3, <1>1 DEF CloseChild, Others
  <2> QED
    BY <2>2, <2>3
<1>4. \A c \in 1 .. children : c < k => <<cached, c>> \in closed
  BY <1>1 DEF ExporterInv, ClosingInOrder
<1>5. FirstChild' /\ LockHeld'
  BY <1>1, <1>2, <1>3 DEF ExporterInv, FirstChild, LockHeld, Others
<1>6. \A u \in Threads : thread[u].pc = "close" => u = t
  BY <1>1 DEF ExporterInv, LockHeld
<1>7. ClosingInOrder'
  <2> SUFFICES ASSUME NEW u \in Threads, thread'[u].pc = "close",
                      NEW c \in 1 .. children, c < thread'[u].child
               PROVE  <<cached, c>> \in closed'
    BY <1>2 DEF ClosingInOrder
  <2>1. u = t
    BY <1>3, <1>6 DEF Others
  <2>2. c < k \/ c = k
    BY <2>1, <1>1, <1>3
  <2> QED
    BY <2>2, <1>2, <1>4
<1>8. ClosedInOrder'
  <2> SUFFICES ASSUME NEW x \in 1 .. made, NEW c \in 1 .. children, NEW d \in 1 .. children,
                      d <= c, <<x, c>> \in closed'
               PROVE  <<x, d>> \in closed'
    BY <1>2 DEF ClosedInOrder
  <2>1. CASE <<x, c>> \in closed
    BY <2>1, <1>2 DEF ExporterInv, ClosedInOrder
  <2>2. CASE x = cached /\ c = k
    <3>1. d < k \/ d = k
      BY <2>2, <1>1
    <3> QED
      BY <3>1, <2>2, <1>2, <1>4
  <2> QED
    BY <2>1, <2>2, <1>2
<1>9. OneLiveExporter'
  BY <1>2 DEF ExporterInv, OneLiveExporter
<1> QED
  BY <1>5, <1>7, <1>8, <1>9 DEF ExporterInv

LEMMA ExporterReset ==
  ASSUME TypeInv, ExporterInv, NEW t \in Threads,
         \/ Configure(t) \/ Shutdown(t) \/ TakeLock(t) \/ Discard(t) \/ ResetChain(t)
  PROVE  ExporterInv'
<1>1. /\ thread \in [Threads -> ThreadState] /\ made \in Nat /\ cached \in 0 .. made
      /\ children \in Nat \ {0}
  BY DispatchAssumption DEF DispatchAssumption, TypeInv, TypeOK
<1>2. \A u \in Threads : u # None
  BY DispatchAssumption DEF DispatchAssumption, None
<1>3. CASE Configure(t) \/ Shutdown(t)
  <2>1. /\ Goto(t, "lock") /\ thread[t].pc = "idle"
        /\ UNCHANGED <<children, cached, lock, made, closed>>
    BY <1>3 DEF Configure, Shutdown, At, exporterVars
  <2>2. Others(t) /\ thread'[t].pc = "lock" /\ thread'[t].child = 1
    BY <2>1, GotoFrom DEF Locations, ExporterInv, FirstChild
  <2> QED
    BY <2>1, <2>2, QuietStep
<1>4. CASE TakeLock(t)
  <2>1. /\ Goto(t, "close") /\ thread[t].pc = "lock" /\ lock = None /\ lock' = t
        /\ UNCHANGED <<children, cached, made, closed>>
    BY <1>4 DEF TakeLock, At
  <2>2. Others(t) /\ thread'[t].pc = "close" /\ thread'[t].child = 1
    BY <2>1, GotoFrom DEF Locations, ExporterInv, FirstChild
  <2>3. \A u \in Threads : thread[u].pc # "close"
    BY <2>1, <1>2 DEF ExporterInv, LockHeld
  <2>4. FirstChild' /\ LockHeld'
    BY <2>1, <2>2, <2>3 DEF ExporterInv, FirstChild, LockHeld, Others
  <2>5. ClosingInOrder'
    BY <2>1, <2>2, <2>3, <1>1 DEF ClosingInOrder, Others
  <2>6. ClosedInOrder' /\ OneLiveExporter'
    BY <2>1 DEF ExporterInv, ClosedInOrder, OneLiveExporter
  <2> QED
    BY <2>4, <2>5, <2>6 DEF ExporterInv
<1>5. CASE Discard(t)
  <2>1. /\ Goto(t, "chain") /\ thread[t].pc = "close" /\ cached' = 0 /\ lock' = None
        /\ cached = 0 \/ <<cached, children>> \in closed
        /\ UNCHANGED <<children, made, closed>>
    BY <1>5 DEF Discard, At
  <2>2. Others(t) /\ thread'[t].pc = "chain"
    BY <2>1, GotoFrom DEF Locations
  <2>3. \A u \in Threads : thread'[u].pc # "close"
    BY <2>1, <2>2 DEF ExporterInv, LockHeld, Others
  <2>4. FirstChild' /\ LockHeld' /\ ClosingInOrder'
    BY <2>1, <2>2, <2>3, <1>2 DEF ExporterInv, FirstChild, LockHeld, ClosingInOrder, Others
  <2>5. ClosedInOrder'
    BY <2>1 DEF ExporterInv, ClosedInOrder
  <2>6. cached # 0 => \A c \in 1 .. children : <<cached, c>> \in closed
    BY <2>1, <1>1 DEF ExporterInv, ClosedInOrder
  <2>7. OneLiveExporter'
    BY <2>1, <2>6 DEF ExporterInv, OneLiveExporter
  <2> QED
    BY <2>4, <2>5, <2>7 DEF ExporterInv
<1>6. CASE ResetChain(t)
  <2>1. /\ thread' = [thread EXCEPT ![t] = Idle] /\ thread[t].pc = "chain"
        /\ UNCHANGED <<children, cached, lock, made, closed>>
    BY <1>6 DEF ResetChain, At, exporterVars
  <2>2. Others(t) /\ thread'[t].pc = "idle" /\ thread'[t].child = 1
    BY <2>1, <1>1 DEF Others, Idle
  <2> QED
    BY <2>1, <2>2, QuietStep
<1> QED
  BY <1>3, <1>4, <1>5, <1>6

THEOREM ExporterStep == TypeInv /\ ExporterInv /\ [Next]_vars => ExporterInv'
<1> SUFFICES ASSUME TypeInv, ExporterInv, [Next]_vars PROVE ExporterInv'
  OBVIOUS
<1>1. CASE UNCHANGED vars
  <2>1. UNCHANGED <<children, cached, lock, made, closed, thread>>
    BY <1>1 DEF vars, exporterVars
  <2> QED
    BY <2>1 DEF ExporterInv, FirstChild, LockHeld, ClosedInOrder, ClosingInOrder, OneLiveExporter
<1>2. ASSUME NEW t \in Threads, Sign(t) \/ Configure(t) \/ Shutdown(t) \/ Continue(t)
      PROVE  ExporterInv'
  BY <1>2, ExporterDispatch, ExporterBuild, ExporterClose, ExporterReset DEF Continue
<1> QED
  BY <1>1, <1>2 DEF Next

\* However threads and resets race in _active_exporter, every exporter but the
\* cached one has been closed entirely.
THEOREM ExporterCorrect == Spec => []OneLiveExporter
<1>1. Init => TypeInv /\ ExporterInv
  BY TypeInit, ExporterInit
<1>2. TypeInv /\ ExporterInv /\ [Next]_vars => (TypeInv /\ ExporterInv)'
  BY TypeStep, ExporterStep
<1>3. ExporterInv => OneLiveExporter
  BY DEF ExporterInv
<1> QED
  BY <1>1, <1>2, <1>3, PTL DEF Spec

----------------------------------------------------------------------------
(* The chain.                                                               *)

Roots == {e \in Events : links[e] = 0}
Resetters == {t \in Threads : thread[t].pc \in Resetting}
Flag(b) == IF b THEN 1 ELSE 0

\* A chain begins with the first event, or behind a reset that is over; a reset
\* that has begun may still start one.
ChainsArePaid ==
  Cardinality(Roots) + Flag(prevSigned = 0) + Cardinality(Resetters)
    <= 1 + resets + Flag(shutdownCalled)

ChainInv ==
  /\ \A e \in Events : links[e] \in {0, e - 1}
  /\ prevSigned \in {0, Len(links)}
  /\ IsFiniteSet(Resetters)
  /\ ChainsArePaid

LEMMA RootsAreFinite ==
  ASSUME TypeInv
  PROVE  IsFiniteSet(Roots) /\ Cardinality(Roots) \in Nat
<1>1. Len(links) \in Nat
  BY DEF TypeInv, TypeOK
<1>2. IsFiniteSet(Events)
  BY <1>1, FS_Interval DEF Events
<1>3. Roots \in SUBSET Events
  BY DEF Roots
<1>4. IsFiniteSet(Roots)
  BY <1>2, <1>3, FS_Subset
<1> QED
  BY <1>4, FS_CardinalityType

THEOREM ChainInit == Init => ChainInv
<1> SUFFICES ASSUME Init PROVE ChainInv
  OBVIOUS
<1>1. /\ prevSigned = 0 /\ Len(links) = 0 /\ Events = {}
      /\ resets = 0 /\ shutdownCalled = FALSE
      /\ \A t \in Threads : thread[t].pc = "idle"
  BY DEF Init, Events, Idle
<1>2. Roots = {} /\ Resetters = {}
  BY <1>1 DEF Roots, Resetters, Resetting
<1>3. IsFiniteSet({}) /\ Cardinality({}) = 0
  BY FS_EmptySet
<1>4. ChainsArePaid
  BY <1>1, <1>2, <1>3 DEF ChainsArePaid, Flag
<1> QED
  BY <1>1, <1>2, <1>3, <1>4 DEF ChainInv

LEMMA ChainSign ==
  ASSUME TypeInv, ChainInv, NEW t \in Threads, Sign(t)
  PROVE  ChainInv'
<1> DEFINE n == Len(links) + 1
<1>1. /\ links \in Seq(Nat) /\ Len(links) \in Nat /\ prevSigned \in Nat
      /\ thread \in [Threads -> ThreadState]
      /\ resets \in Nat
  BY DispatchAssumption DEF DispatchAssumption, TypeInv, TypeOK
<1>2. /\ links' = Append(links, prevSigned) /\ prevSigned' = n
      /\ UNCHANGED <<resets, shutdownCalled>>
      /\ thread[t].pc = "idle"
  BY DEF Sign, At, lifeVars
<1>3. Others(t) /\ thread'[t].pc = "get"
  BY <1>1 DEF Sign, Others, Idle
<1>4. Resetters' = Resetters
  BY <1>2, <1>3 DEF Resetters, Resetting, Others
<1>5. /\ Len(links') = n /\ links'[n] = prevSigned
      /\ \A e \in 1 .. Len(links) : links'[e] = links[e]
  BY <1>1, <1>2, AppendProperties
<1>6. Events' = Events \cup {n} /\ n \notin Events /\ n # 0
  BY <1>1, <1>5 DEF Events
<1>7. \A e \in Events' : links'[e] \in {0, e - 1}
  BY <1>1, <1>5, <1>6 DEF ChainInv, Events
<1>8. IsFiniteSet(Roots) /\ Cardinality(Roots) \in Nat /\ n \notin Roots
  BY <1>6, RootsAreFinite DEF Roots
<1>9. IsFiniteSet(Resetters) /\ Cardinality(Resetters) \in Nat
  BY FS_CardinalityType DEF ChainInv
<1>10. Cardinality(Roots') = Cardinality(Roots) + Flag(prevSigned = 0)
  <2>1. CASE prevSigned = 0
    <3>1. Roots' = Roots \cup {n}
      BY <2>1, <1>5, <1>6 DEF Roots, Events
    <3> QED
      BY <3>1, <2>1, <1>8, FS_AddElement DEF Flag
  <2>2. CASE prevSigned # 0
    <3>1. Roots' = Roots
      BY <2>2, <1>5, <1>6 DEF Roots, Events
    <3> QED
      BY <3>1, <2>2, <1>8 DEF Flag
  <2> QED
    BY <2>1, <2>2
<1>11. Flag(prevSigned = 0)' = 0
  BY <1>2, <1>6 DEF Flag
<1>12. ChainsArePaid'
  BY <1>2, <1>4, <1>8, <1>9, <1>10, <1>11 DEF ChainInv, ChainsArePaid, Flag
<1> QED
  BY <1>2, <1>4, <1>5, <1>7, <1>9, <1>12 DEF ChainInv

LEMMA ChainConfigure ==
  ASSUME TypeInv, ChainInv, NEW t \in Threads, Configure(t) \/ Shutdown(t)
  PROVE  ChainInv'
<1>1. /\ thread[t].pc = "idle" /\ Goto(t, "lock") /\ UNCHANGED <<links, prevSigned>>
  BY DEF Configure, Shutdown, At, chainVars
<1>2. Others(t) /\ thread'[t].pc = "lock"
  BY <1>1, GotoFrom DEF Locations
<1>3. Resetters' = Resetters \cup {t} /\ t \notin Resetters
  BY <1>1, <1>2 DEF Resetters, Resetting, Others
<1>4. IsFiniteSet(Resetters) /\ Cardinality(Resetters) \in Nat
  BY FS_CardinalityType DEF ChainInv
<1>5. IsFiniteSet(Resetters') /\ Cardinality(Resetters') = Cardinality(Resetters) + 1
  BY <1>3, <1>4, FS_AddElement
<1>6. Roots' = Roots /\ Events' = Events /\ Cardinality(Roots) \in Nat
  BY <1>1, RootsAreFinite DEF Roots, Events
<1>7. resets \in Nat /\ shutdownCalled \in BOOLEAN
  BY DispatchAssumption DEF DispatchAssumption, TypeInv, TypeOK
<1>8. \/ resets' = resets + 1 /\ Flag(shutdownCalled)' = Flag(shutdownCalled)
      \/ resets' = resets /\ Flag(shutdownCalled)' = Flag(shutdownCalled) + 1
  BY <1>7 DEF Configure, Shutdown, Flag
<1>9. /\ Flag(shutdownCalled) \in Nat /\ Flag(prevSigned = 0) \in Nat
      /\ Flag(prevSigned = 0)' = Flag(prevSigned = 0)
  BY <1>1 DEF Flag
<1>10. ChainsArePaid'
  <2>1. Cardinality(Roots) + Flag(prevSigned = 0) + Cardinality(Resetters)
          <= 1 + resets + Flag(shutdownCalled)
    BY DEF ChainInv, ChainsArePaid
  <2>2. CASE resets' = resets + 1 /\ Flag(shutdownCalled)' = Flag(shutdownCalled)
    BY <2>1, <2>2, <1>4, <1>5, <1>6, <1>7, <1>9 DEF ChainsArePaid
  <2>3. CASE resets' = resets /\ Flag(shutdownCalled)' = Flag(shutdownCalled) + 1
    BY <2>1, <2>3, <1>4, <1>5, <1>6, <1>7, <1>9 DEF ChainsArePaid
  <2> QED
    BY <2>2, <2>3, <1>8
<1> QED
  BY <1>1, <1>5, <1>6, <1>10 DEF ChainInv

LEMMA ChainReset ==
  ASSUME TypeInv, ChainInv, NEW t \in Threads, ResetChain(t)
  PROVE  ChainInv'
<1>1. /\ thread[t].pc = "chain" /\ thread' = [thread EXCEPT ![t] = Idle] /\ prevSigned' = 0
      /\ UNCHANGED <<links, resets, shutdownCalled>> /\ thread \in [Threads -> ThreadState]
  BY DEF ResetChain, At, lifeVars, TypeInv
<1>2. Others(t) /\ thread'[t].pc = "idle"
  BY <1>1 DEF Others, Idle
<1>3. Resetters' = Resetters \ {t} /\ t \in Resetters
  BY <1>1, <1>2 DEF Resetters, Resetting, Others
<1>4. IsFiniteSet(Resetters) /\ Cardinality(Resetters) \in Nat
  BY FS_CardinalityType DEF ChainInv
<1>5. IsFiniteSet(Resetters') /\ Cardinality(Resetters') = Cardinality(Resetters) - 1
  BY <1>3, <1>4, FS_RemoveElement
<1>6. Roots' = Roots /\ Events' = Events /\ Cardinality(Roots) \in Nat
  BY <1>1, RootsAreFinite DEF Roots, Events
<1>7. resets \in Nat /\ Flag(shutdownCalled) \in Nat /\ Flag(prevSigned = 0) \in Nat
  BY DispatchAssumption DEF DispatchAssumption, TypeInv, TypeOK, Flag
<1>8. Flag(prevSigned = 0)' = 1 /\ Flag(shutdownCalled)' = Flag(shutdownCalled)
  BY <1>1 DEF Flag
<1>9. ChainsArePaid'
  BY <1>1, <1>4, <1>5, <1>6, <1>7, <1>8 DEF ChainInv, ChainsArePaid
<1> QED
  BY <1>1, <1>5, <1>6, <1>9 DEF ChainInv

\* Every other step leaves the chain and who resets it.
LEMMA ChainAside ==
  ASSUME TypeInv, ChainInv, NEW t \in Threads,
         \/ TestCache(t) \/ Build(t) \/ ReadCache(t) \/ TestClosed(t) \/ Write(t)
         \/ WriteFails(t) \/ Retry(t) \/ TakeLock(t) \/ CloseChild(t) \/ Discard(t)
  PROVE  ChainInv'
<1>1. UNCHANGED <<links, prevSigned, resets, shutdownCalled>> /\ thread \in [Threads -> ThreadState]
  BY DEF TestCache, Build, ReadCache, TestClosed, Write, WriteFails, Retry, TakeLock,
         CloseChild, Discard, chainVars, lifeVars, TypeInv
<1>2. Others(t) /\ (thread'[t].pc \in Resetting <=> thread[t].pc \in Resetting)
  <2>1. CASE \E p \in {"return", "build", "export", "write"} :
               Goto(t, p) /\ thread[t].pc \in {"get", "build", "return", "export"}
    BY <2>1, GotoFrom DEF Locations, Resetting
  <2>2. CASE \E p \in {"close", "chain"} : Goto(t, p) /\ thread[t].pc \in {"lock", "close"}
    BY <2>2, GotoFrom DEF Locations, Resetting
  <2>3. CASE thread' = NextChild(t) /\ thread[t].pc \in {"export", "write"}
    BY <2>3, NextChildFrom DEF Resetting
  <2>4. CASE thread' = [thread EXCEPT ![t] = Idle] /\ thread[t].pc = "return"
    BY <2>4, <1>1 DEF Others, Idle, Resetting
  <2>5. CASE Retry(t)
    <3>1. thread[t] \in ThreadState /\ thread[t].pc = "write"
      BY <2>5, <1>1 DEF Retry, At
    <3>2. Others(t) /\ thread'[t].pc = "export"
      BY <3>1, <2>5, <1>1 DEF Retry, Others, ThreadState
    <3> QED
      BY <3>1, <3>2 DEF Resetting
  <2>6. CASE CloseChild(t)
    <3>1. thread[t] \in ThreadState
      BY <1>1
    <3> QED
      BY <3>1, <2>6, <1>1 DEF CloseChild, Others, ThreadState
  <2> QED
    BY <2>1, <2>2, <2>3, <2>4, <2>5, <2>6
       DEF TestCache, Build, ReadCache, TestClosed, Write, WriteFails, TakeLock, Discard, At
<1>3. Resetters' = Resetters
  BY <1>2 DEF Resetters, Others
<1>4. Roots' = Roots /\ Events' = Events
  BY <1>1 DEF Roots, Events
<1> QED
  BY <1>1, <1>3, <1>4 DEF ChainInv, ChainsArePaid, Flag

THEOREM ChainStep == TypeInv /\ ChainInv /\ [Next]_vars => ChainInv'
<1> SUFFICES ASSUME TypeInv, ChainInv, [Next]_vars PROVE ChainInv'
  OBVIOUS
<1>1. CASE UNCHANGED vars
  <2>1. UNCHANGED <<links, prevSigned, resets, shutdownCalled, thread>>
    BY <1>1 DEF vars, chainVars, lifeVars
  <2>2. Roots' = Roots /\ Resetters' = Resetters /\ Events' = Events
    BY <2>1 DEF Roots, Resetters, Events
  <2> QED
    BY <2>1, <2>2 DEF ChainInv, ChainsArePaid, Flag
<1>2. ASSUME NEW t \in Threads, Sign(t) \/ Configure(t) \/ Shutdown(t) \/ Continue(t)
      PROVE  ChainInv'
  BY <1>2, ChainSign, ChainConfigure, ChainReset, ChainAside DEF Continue
<1> QED
  BY <1>1, <1>2 DEF Next

\* However the threads that sign race with resets, the signing chain of
\* _dispatch never forks, and only a reset starts a new one.
THEOREM ChainCorrect == Spec => []ChainIsLinear
<1>1. Init => TypeInv /\ ChainInv
  BY TypeInit, ChainInit
<1>2. TypeInv /\ ChainInv /\ [Next]_vars => (TypeInv /\ ChainInv)'
  BY TypeStep, ChainStep
<1>3. TypeInv /\ ChainInv => ChainIsLinear
  <2> SUFFICES ASSUME TypeInv, ChainInv PROVE ChainIsLinear
    OBVIOUS
  <2>1. /\ Cardinality(Roots) \in Nat /\ Cardinality(Resetters) \in Nat
        /\ resets \in Nat /\ Flag(prevSigned = 0) \in Nat
    BY SMTT(30), RootsAreFinite, FS_CardinalityType, DispatchAssumption
       DEF DispatchAssumption, ChainInv, TypeInv, TypeOK, Flag
  <2>2. Cardinality(Roots) <= 1 + resets + Flag(shutdownCalled)
    BY <2>1 DEF ChainInv, ChainsArePaid, Flag
  <2> QED
    BY <2>2 DEF ChainInv, ChainIsLinear, Roots, Flag
<1> QED
  BY <1>1, <1>2, <1>3, PTL DEF Spec

----------------------------------------------------------------------------
(* What becomes of the events.                                              *)

\* The places of an event in the file of a child.
Places(e, c) == {i \in DOMAIN file[c] : file[c][i] = e}
Fits(e, c, n) == IsFiniteSet(Places(e, c)) /\ Cardinality(Places(e, c)) <= n

\* How often the event may be written: once per attempt.
Limit == IF FanOut THEN 1 ELSE 1 + MaxRetries

\* The child c has the event, or was disabled by its exporter.
Settled(e, c) == Places(e, c) # {} \/ (FanOut /\ <<via[e], c>> \in failed)

\* A dispatch has come to its k-th child, after a failed attempts at it.
Underway(e, k, a) ==
  /\ e \notin refused
  /\ \A c \in 1 .. children : IF c < k THEN Settled(e, c) ELSE Fits(e, c, a)

Finished(e) == e \in refused \/ \A c \in 1 .. children : Settled(e, c)

InDispatch(e) == \E t \in Threads : thread[t].pc \in Dispatching /\ thread[t].event = e

\* Only the export has a second child, or a second attempt, and never both.
InOrder(r) ==
  /\ r.pc \in Exporting \/ (r.child = 1 /\ r.attempt = 0)
  /\ r.attempt = 0 \/ ~FanOut

AccountInv ==
  /\ FanOut \/ failed = {}
  /\ \A e \in Events, c \in 1 .. children : Fits(e, c, Limit)
  /\ \A t \in Threads : thread[t].pc \in Dispatching =>
       /\ InOrder(thread[t])
       /\ Underway(thread[t].event, thread[t].child, thread[t].attempt)
  /\ \A e \in Events : InDispatch(e) \/ Finished(e)

THEOREM AccountInit == Init => AccountInv
<1> SUFFICES ASSUME Init PROVE AccountInv
  OBVIOUS
<1>1. failed = {} /\ Events = {} /\ \A t \in Threads : thread[t].pc = "idle"
  BY DEF Init, Idle, Events
<1> QED
  BY <1>1 DEF AccountInv, Dispatching

\* A step of the thread t that touches no event but e.
TouchesOnly(t, e) ==
  /\ Others(t) /\ UNCHANGED <<links, children>>
  /\ failed \subseteq failed' /\ (FanOut \/ failed' = {})
  /\ \A d \in Events \ {e} :
       /\ via'[d] = via[d] /\ (d \in refused' <=> d \in refused)
       /\ \A c \in 1 .. children : Places(d, c)' = Places(d, c)

\* What e is to the thread t that dispatches it.
Owns(t, e) == thread[t].pc \in Dispatching /\ thread[t].event = e

LEMMA OthersKeep ==
  ASSUME TypeInv, AccountInv, NEW t \in Threads, NEW e \in Events, Owns(t, e), TouchesOnly(t, e)
  PROVE  /\ Events' = Events /\ (FanOut \/ failed = {})'
         /\ \A d \in Events \ {e}, c \in 1 .. children : Fits(d, c, Limit)'
         /\ \A u \in Threads \ {t} : thread'[u].pc \in Dispatching =>
              /\ InOrder(thread[u])'
              /\ Underway(thread[u].event, thread[u].child, thread[u].attempt)'
         /\ \A d \in Events \ {e} : InDispatch(d)' \/ Finished(d)'
<1>1. Events' = Events /\ children' = children /\ (FanOut \/ failed = {})' /\ Limit' = Limit
  BY DEF TouchesOnly, Events, FanOut, Limit
<1>2. ASSUME NEW d \in Events \ {e}, NEW c \in 1 .. children
      PROVE  /\ \A n : Fits(d, c, n)' <=> Fits(d, c, n)
             /\ Settled(d, c) => Settled(d, c)'
  <2>1. Places(d, c)' = Places(d, c) /\ via'[d] = via[d] /\ failed \subseteq failed'
    BY DEF TouchesOnly
  <2>2. \A n : Fits(d, c, n)' <=> Fits(d, c, n)
    BY <2>1 DEF Fits
  <2> QED
    BY <2>1, <2>2, <1>1 DEF Settled, FanOut
<1>3. \A d \in Events \ {e}, c \in 1 .. children : Fits(d, c, Limit)'
  <2> SUFFICES ASSUME NEW d \in Events \ {e}, NEW c \in 1 .. children
               PROVE  Fits(d, c, Limit)'
    OBVIOUS
  <2>1. Fits(d, c, Limit) /\ Places(d, c)' = Places(d, c)
    BY DEF AccountInv, TouchesOnly
  <2> QED
    BY <2>1, <1>1 DEF Fits
<1>4. ASSUME NEW d \in Events \ {e}, NEW k, NEW a, Underway(d, k, a)
      PROVE  Underway(d, k, a)'
  BY <1>1, <1>2, <1>4 DEF Underway, TouchesOnly
<1>5. ASSUME NEW d \in Events \ {e}, Finished(d)
      PROVE  Finished(d)'
  BY <1>1, <1>2, <1>5 DEF Finished, TouchesOnly
<1>6. ASSUME NEW u \in Threads \ {t}, thread'[u].pc \in Dispatching
      PROVE  /\ InOrder(thread[u])'
             /\ Underway(thread[u].event, thread[u].child, thread[u].attempt)'
  <2>1. thread'[u] = thread[u]
    BY DEF TouchesOnly, Others
  <2>2. thread[u].event \in Events \ {e}
    <3>1. thread[u] \in ThreadState /\ Len(links) \in Nat
      BY DEF TypeInv, TypeOK
    <3>2. thread[u].event # 0 /\ thread[u].event # e
      BY <1>6, <2>1 DEF TypeInv, OwnEvent, Owns
    <3> QED
      BY <3>1, <3>2 DEF ThreadState, Events
  <2>3. PICK d \in Events \ {e} : d = thread[u].event
    BY <2>2
  <2>4. PICK k, a : k = thread[u].child /\ a = thread[u].attempt
    OBVIOUS
  <2>5. InOrder(thread[u]) /\ Underway(d, k, a)
    BY <1>6, <2>1, <2>3, <2>4 DEF AccountInv
  <2>6. Underway(d, k, a)'
    BY <2>5, <1>4
  <2>7. Underway(thread[u].event, thread[u].child, thread[u].attempt)'
    BY <2>1, <2>3, <2>4, <2>6
  <2>8. InOrder(thread[u])'
    BY <2>1, <2>5, <1>1 DEF InOrder, FanOut
  <2> QED
    BY <2>7, <2>8
<1>7. ASSUME NEW d \in Events \ {e}
      PROVE  InDispatch(d)' \/ Finished(d)'
  <2>1. CASE Finished(d)
    BY <2>1, <1>5
  <2>2. CASE InDispatch(d)
    <3>1. PICK u \in Threads : thread[u].pc \in Dispatching /\ thread[u].event = d
      BY <2>2 DEF InDispatch
    <3>2. thread'[u] = thread[u]
      BY <3>1 DEF Owns, TouchesOnly, Others
    <3> QED
      BY <3>1, <3>2 DEF InDispatch
  <2> QED
    BY <2>1, <2>2 DEF AccountInv
<1> QED
  BY <1>1, <1>3, <1>6, <1>7

LEMMA DispatchGoesOn ==
  ASSUME TypeInv, AccountInv, NEW t \in Threads, NEW e \in Events, NEW k \in Nat, NEW a \in Nat,
         Owns(t, e), TouchesOnly(t, e),
         thread'[t].pc \in Dispatching, thread'[t].event = e, thread'[t].child = k,
         thread'[t].attempt = a, InOrder(thread[t])',
         \A c \in 1 .. children : Fits(e, c, Limit)',
         Underway(e, k, a)'
  PROVE  AccountInv'
<1>1. \A u \in Threads : thread'[u].pc \in Dispatching =>
        /\ InOrder(thread[u])'
        /\ Underway(thread[u].event, thread[u].child, thread[u].attempt)'
  <2>1. Underway(thread[t].event, thread[t].child, thread[t].attempt)'
    OBVIOUS
  <2> QED
    BY <2>1, OthersKeep
<1>2. \A d \in Events : InDispatch(d)' \/ Finished(d)'
  <2>1. InDispatch(e)'
    BY DEF InDispatch
  <2> QED
    BY <2>1, OthersKeep
<1>3. Events' = Events /\ children' = children /\ (FanOut \/ failed = {})'
  BY OthersKeep DEF TouchesOnly
<1>4. \A d \in Events, c \in 1 .. children : Fits(d, c, Limit)'
  BY OthersKeep
<1> QED
  BY <1>1, <1>2, <1>3, <1>4 DEF AccountInv

LEMMA DispatchEnds ==
  ASSUME TypeInv, AccountInv, NEW t \in Threads, NEW e \in Events, Owns(t, e), TouchesOnly(t, e),
         thread'[t].pc \notin Dispatching,
         \A c \in 1 .. children : Fits(e, c, Limit)',
         Finished(e)'
  PROVE  AccountInv'
<1>1. \A u \in Threads : thread'[u].pc \in Dispatching =>
        /\ InOrder(thread[u])'
        /\ Underway(thread[u].event, thread[u].child, thread[u].attempt)'
  BY OthersKeep
<1>2. \A d \in Events : InDispatch(d)' \/ Finished(d)'
  BY OthersKeep
<1>3. Events' = Events /\ children' = children /\ (FanOut \/ failed = {})'
  BY OthersKeep DEF TouchesOnly
<1>4. \A d \in Events, c \in 1 .. children : Fits(d, c, Limit)'
  BY OthersKeep
<1> QED
  BY <1>1, <1>2, <1>3, <1>4 DEF AccountInv

\* What a thread in a dispatch has to do with its event.
LEMMA InHand ==
  ASSUME TypeInv, AccountInv, NEW t \in Threads, thread[t].pc \in Dispatching
  PROVE  \E e \in Events, k \in 1 .. children, a \in 0 .. MaxRetries :
           /\ Owns(t, e) /\ thread[t].child = k /\ thread[t].attempt = a /\ Underway(e, k, a)
           /\ thread[t].pc \in Exporting \/ (k = 1 /\ a = 0)
           /\ a = 0 \/ ~FanOut
<1>1. thread[t] \in ThreadState /\ Len(links) \in Nat
  BY DEF TypeInv, TypeOK
<1>2. /\ thread[t].event \in Events /\ thread[t].child \in 1 .. children
      /\ thread[t].attempt \in 0 .. MaxRetries
  BY <1>1 DEF TypeInv, OwnEvent, ThreadState, Events
<1>3. PICK e \in Events, k \in 1 .. children, a \in 0 .. MaxRetries :
        e = thread[t].event /\ k = thread[t].child /\ a = thread[t].attempt
  BY <1>2
<1>4. InOrder(thread[t]) /\ Underway(e, k, a)
  BY <1>3 DEF AccountInv
<1> QED
  BY <1>3, <1>4 DEF Owns, InOrder

LEMMA AccountGet ==
  ASSUME TypeInv, AccountInv, NEW t \in Threads, TestCache(t) \/ Build(t) \/ ReadCache(t)
  PROVE  AccountInv'
<1>0. /\ thread \in [Threads -> ThreadState] /\ via \in [Events -> 0 .. made]
      /\ children \in Nat
  BY DispatchAssumption DEF DispatchAssumption, TypeInv, TypeOK
<1>1. thread[t].pc \in {"get", "build", "return"} /\ UNCHANGED <<links, children, failed, file>>
  BY DEF TestCache, Build, ReadCache, At, exporterVars, outputVars, chainVars
<1>2. PICK e \in Events : /\ Owns(t, e) /\ thread[t].child = 1 /\ thread[t].attempt = 0
                          /\ Underway(e, 1, 0)
  BY <1>1, InHand DEF Dispatching, Exporting
<1>3. e \notin refused /\ \A c \in 1 .. children : Fits(e, c, 0)
  BY <1>0, <1>2 DEF Underway
<1>4. /\ \A d, c : Places(d, c)' = Places(d, c)
      /\ \A d, c, n : Fits(d, c, n)' <=> Fits(d, c, n)
      /\ FanOut \/ failed' = {}
  BY <1>1 DEF Places, Fits, AccountInv
<1>5. \A d \in Events \ {e} : via'[d] = via[d]
  BY <1>0, <1>2 DEF TestCache, Build, ReadCache, Owns
<1>6. \A c \in 1 .. children : Fits(e, c, Limit)'
  <2>1. \A c \in 1 .. children : Fits(e, c, Limit) /\ Limit' = Limit
    BY <1>1 DEF AccountInv, Limit, FanOut
  <2> QED
    BY <2>1, <1>1 DEF Fits, Places
<1>7. CASE \E p \in {"return", "build", "export"} : Goto(t, p) /\ UNCHANGED refused
  <2>1. PICK p \in {"return", "build", "export"} : Goto(t, p) /\ UNCHANGED refused
    BY <1>7
  <2>2. PICK r \in ThreadState : /\ Moves(t, r) /\ r.pc = p
                                 /\ r.event = thread[t].event /\ r.child = thread[t].child
                                 /\ r.attempt = thread[t].attempt
    BY <1>0, <2>1, GotoMoves DEF Locations
  <2>3. /\ Others(t) /\ thread'[t].pc \in Dispatching /\ thread'[t].event = e
        /\ thread'[t].child = 1 /\ thread'[t].attempt = 0
    BY <1>0, <1>2, <2>2 DEF Moves, Others, Owns, Dispatching
  <2>4. TouchesOnly(t, e)
    BY <1>1, <1>4, <1>5, <2>1, <2>3 DEF TouchesOnly
  <2>5. Underway(e, 1, 0)'
    BY <1>0, <1>1, <1>3, <1>4, <2>1 DEF Underway
  <2>6. InOrder(thread[t])'
    BY <2>3 DEF InOrder
  <2> QED
    BY <1>2, <1>6, <2>3, <2>4, <2>5, <2>6, DispatchGoesOn
<1>8. CASE thread' = [thread EXCEPT ![t] = Idle] /\ refused' = refused \cup {thread[t].event}
  <2>1. Others(t) /\ thread'[t].pc \notin Dispatching
    BY <1>0, <1>8 DEF Others, Idle, Dispatching
  <2>2. refused' = refused \cup {e}
    BY <1>2, <1>8 DEF Owns
  <2>3. TouchesOnly(t, e)
    BY <1>1, <1>4, <1>5, <2>1, <2>2 DEF TouchesOnly
  <2>4. Finished(e)'
    BY <2>2 DEF Finished
  <2> QED
    BY <1>2, <1>6, <2>1, <2>3, <2>4, DispatchEnds
<1> QED
  BY <1>7, <1>8 DEF TestCache, Build, ReadCache, outputVars

\* A child that is done with gives way to the next, or ends the dispatch.
LEMMA ChildDone ==
  ASSUME TypeInv, AccountInv, NEW t \in Threads, NEW e \in Events, NEW k \in 1 .. children,
         NEW a \in Nat, thread[t].pc \in Exporting, Owns(t, e), thread[t].child = k,
         thread[t].attempt = a, a = 0 \/ ~FanOut, Underway(e, k, a),
         thread' = NextChild(t), TouchesOnly(t, e), via'[e] = via[e],
         \A c \in 1 .. children : c # k => Places(e, c)' = Places(e, c),
         Fits(e, k, Limit)', Settled(e, k)' \/ e \in refused', e \in refused' => k = children
  PROVE  AccountInv'
<1>0. /\ thread \in [Threads -> ThreadState] /\ thread[t] \in ThreadState
      /\ children \in Nat /\ children' = children /\ failed \subseteq failed' /\ k \in Nat
      /\ Limit' = Limit /\ (FanOut' <=> FanOut)
  BY DispatchAssumption DEF DispatchAssumption, TypeInv, TypeOK, TouchesOnly, Limit, FanOut
<1>1. ASSUME NEW c \in 1 .. children, c # k
      PROVE  /\ \A n : Fits(e, c, n)' <=> Fits(e, c, n)
             /\ Settled(e, c) => Settled(e, c)'
  <2>1. Places(e, c)' = Places(e, c)
    BY <1>1
  <2>2. \A n : Fits(e, c, n)' <=> Fits(e, c, n)
    BY <2>1 DEF Fits
  <2> QED
    BY <2>1, <2>2, <1>0 DEF Settled, FanOut
<1>2. \A c \in 1 .. children : Fits(e, c, Limit)'
  <2> SUFFICES ASSUME NEW c \in 1 .. children, c # k PROVE Fits(e, c, Limit)'
    OBVIOUS
  <2>1. Fits(e, c, Limit) /\ Places(e, c)' = Places(e, c)
    BY DEF AccountInv
  <2> QED
    BY <2>1, <1>0 DEF Fits
<1>3. CASE k < children
  <2>1. /\ Others(t) /\ thread'[t].pc = "export" /\ thread'[t].event = e
        /\ thread'[t].child = k + 1 /\ thread'[t].attempt = a
    BY <1>0, <1>3 DEF NextChild, Others, ThreadState, Owns
  <2>2. Underway(e, k + 1, a)'
    <3>1. \A c \in 1 .. children : IF c < k + 1 THEN Settled(e, c)' ELSE Fits(e, c, a)'
      BY <1>0, <1>1, <1>3 DEF Underway
    <3> QED
      BY <3>1, <1>0, <1>3 DEF Underway
  <2>3. InOrder(thread[t])'
    BY <1>0, <2>1 DEF InOrder, Exporting
  <2> QED
    BY <1>0, <1>2, <2>1, <2>2, <2>3, DispatchGoesOn DEF Dispatching, Exporting
<1>4. CASE ~(k < children)
  <2>1. thread'[t].pc \notin Dispatching
    BY <1>0, <1>4 DEF NextChild, Idle, Dispatching
  <2>2. Finished(e)'
    <3>1. CASE e \in refused'
      BY <3>1 DEF Finished
    <3>2. CASE Settled(e, k)'
      <4>1. \A c \in 1 .. children : Settled(e, c)'
        BY <1>0, <1>1, <1>4, <3>2 DEF Underway
      <4> QED
        BY <4>1, <1>0 DEF Finished
    <3> QED
      BY <3>1, <3>2
  <2> QED
    BY <1>2, <2>1, <2>2, DispatchEnds
<1> QED
  BY <1>3, <1>4

\* A file that gets an event gets one place for it, and none for another.
LEMMA WrittenOnce ==
  ASSUME TypeInv, NEW e \in Events, NEW k \in 1 .. children,
         file' = [file EXCEPT ![k] = Append(@, e)]
  PROVE  /\ \A d : \A c \in 1 .. children : d # e \/ c # k => Places(d, c)' = Places(d, c)
         /\ Places(e, k)' # {}
         /\ \A a \in Nat : Fits(e, k, a) => Fits(e, k, a + 1)'
<1>1. /\ file \in [1 .. children -> Seq(Events)] /\ file[k] \in Seq(Events)
      /\ file'[k] = Append(file[k], e)
      /\ \A c \in 1 .. children : c # k => file'[c] = file[c]
  BY DEF TypeInv, TypeOK
<1> DEFINE n == Len(file[k])
<1>2. /\ n \in Nat /\ DOMAIN file[k] = 1 .. n /\ DOMAIN file'[k] = 1 .. n + 1
      /\ file'[k][n + 1] = e /\ \A i \in 1 .. n : file'[k][i] = file[k][i]
  BY <1>1
<1>3. \A i \in 1 .. n + 1 : i \in 1 .. n \/ i = n + 1
  BY <1>2
<1>4. \A d : d # e => Places(d, k)' = Places(d, k)
  BY <1>2, <1>3 DEF Places
<1>5. Places(e, k)' = Places(e, k) \cup {n + 1} /\ n + 1 \notin Places(e, k)
  BY <1>2, <1>3 DEF Places
<1>6. ASSUME NEW a \in Nat, Fits(e, k, a) PROVE Fits(e, k, a + 1)'
  <2>1. IsFiniteSet(Places(e, k)) /\ Cardinality(Places(e, k)) <= a
    BY <1>6 DEF Fits
  <2>2. Cardinality(Places(e, k)) \in Nat
    BY <2>1, FS_CardinalityType
  <2>3. /\ IsFiniteSet(Places(e, k) \cup {n + 1})
        /\ Cardinality(Places(e, k) \cup {n + 1}) = Cardinality(Places(e, k)) + 1
    BY <1>5, <2>1, FS_AddElement
  <2> QED
    BY <1>5, <2>1, <2>2, <2>3 DEF Fits
<1>7. \A d : \A c \in 1 .. children : c # k => Places(d, c)' = Places(d, c)
  BY <1>1 DEF Places
<1> QED
  BY <1>4, <1>5, <1>6, <1>7

\* An attempt at a child leaves the event behind or does not: either way the
\* event fits in one place more than before.
LEMMA AttemptFits ==
  ASSUME TypeInv, NEW e \in Events, NEW k \in 1 .. children, NEW a \in Nat, Fits(e, k, a),
         UNCHANGED file \/ file' = [file EXCEPT ![k] = Append(@, e)]
  PROVE  /\ \A d : \A c \in 1 .. children : d # e \/ c # k => Places(d, c)' = Places(d, c)
         /\ Fits(e, k, a + 1)'
<1>1. CASE UNCHANGED file
  <2>1. \A d, c : Places(d, c)' = Places(d, c)
    BY <1>1 DEF Places
  <2>2. Cardinality(Places(e, k)) \in Nat
    BY FS_CardinalityType DEF Fits
  <2> QED
    BY <2>1, <2>2 DEF Fits
<1>2. CASE file' = [file EXCEPT ![k] = Append(@, e)]
  BY <1>2, WrittenOnce
<1> QED
  BY <1>1, <1>2

LEMMA AccountExport ==
  ASSUME TypeInv, AccountInv, NEW t \in Threads,
         TestClosed(t) \/ Write(t) \/ WriteFails(t) \/ Retry(t)
  PROVE  AccountInv'
<1>0. /\ thread \in [Threads -> ThreadState] /\ TypeOK /\ children \in Nat \ {0}
      /\ MaxRetries \in Nat
  BY DispatchAssumption DEF DispatchAssumption, TypeInv, TypeOK
<1>1. thread[t].pc \in Exporting /\ UNCHANGED <<links, children, via>>
  BY DEF TestClosed, Write, WriteFails, Retry, At, Exporting, exporterVars, chainVars
<1>2. PICK e \in Events, k \in 1 .. children, a \in 0 .. MaxRetries :
          /\ Owns(t, e) /\ thread[t].child = k /\ thread[t].attempt = a /\ Underway(e, k, a)
          /\ a = 0 \/ ~FanOut
  BY <1>1, InHand DEF Dispatching, Exporting
<1>3. /\ e \notin refused /\ Fits(e, k, a) /\ thread[t].event = e
      /\ thread[t].pc \in Dispatching /\ a \in Nat /\ k \in Nat
  BY <1>0, <1>2 DEF Underway, Owns
<1>4. ASSUME thread' = NextChild(t)
      PROVE  Others(t)
  <2>1. PICK r \in ThreadState : Moves(t, r)
    BY <1>0, <1>4, NextChildMoves
  <2> QED
    BY <2>1, <1>0 DEF Moves, Others
<1>5. Limit' = Limit /\ (FanOut' <=> FanOut)
  BY <1>1 DEF Limit, FanOut
\* The thread goes on with the same child.
<1>6. CASE UNCHANGED <<failed, refused, file>> /\ Goto(t, "write")
  <2>1. /\ Others(t) /\ thread'[t].pc = "write" /\ thread'[t].event = e
        /\ thread'[t].child = k /\ thread'[t].attempt = a
    <3>1. PICK r \in ThreadState : /\ Moves(t, r) /\ r.pc = "write"
                                   /\ r.event = thread[t].event /\ r.child = thread[t].child
                                   /\ r.attempt = thread[t].attempt
      BY <1>0, <1>6, GotoMoves DEF Locations
    <3> QED
      BY <3>1, <1>0, <1>2, <1>3 DEF Moves, Others
  <2>2. /\ \A d, c : Places(d, c)' = Places(d, c)
        /\ \A d, c, n : Fits(d, c, n)' <=> Fits(d, c, n)
        /\ \A d, c : Settled(d, c)' <=> Settled(d, c)
    BY <1>1, <1>6 DEF Places, Fits, Settled, FanOut
  <2>3. TouchesOnly(t, e)
    BY <1>1, <1>6, <2>1, <2>2 DEF TouchesOnly, AccountInv
  <2>4. Underway(e, k, a)'
    BY <1>1, <1>2, <1>6, <2>2 DEF Underway
  <2>5. \A c \in 1 .. children : Fits(e, c, Limit)'
    <3>1. \A c \in 1 .. children : Fits(e, c, Limit)
      BY DEF AccountInv
    <3> QED
      BY <3>1, <2>2, <1>5 DEF Fits
  <2>6. InOrder(thread[t])'
    BY <1>2, <1>5, <2>1 DEF InOrder, Exporting
  <2> QED
    BY <1>2, <1>3, <2>1, <2>3, <2>4, <2>5, <2>6, DispatchGoesOn DEF Dispatching
\* What the attempt may leave behind.
<1>7. ASSUME UNCHANGED file \/ file' = [file EXCEPT ![k] = Append(@, e)],
             Others(t), failed \subseteq failed', FanOut \/ failed' = {},
             \A d \in Events \ {e} : d \in refused' <=> d \in refused
      PROVE  /\ TouchesOnly(t, e) /\ Fits(e, k, a + 1)'
             /\ \A c \in 1 .. children : c # k => Places(e, c)' = Places(e, c)
  <2>1. /\ \A d : \A c \in 1 .. children : d # e \/ c # k => Places(d, c)' = Places(d, c)
        /\ Fits(e, k, a + 1)'
    BY <1>3, <1>7, AttemptFits
  <2> QED
    BY <1>1, <1>7, <2>1 DEF TouchesOnly
\* It is tried once more.
<1>8. CASE Retry(t)
  <2>1. /\ ~FanOut /\ a < MaxRetries /\ UNCHANGED <<failed, refused>>
        /\ UNCHANGED file \/ file' = [file EXCEPT ![k] = Append(@, e)]
    BY <1>2, <1>3, <1>8 DEF Retry, Appended, exporterVars
  <2>2. /\ Others(t) /\ thread'[t].pc = "export" /\ thread'[t].event = e
        /\ thread'[t].child = k /\ thread'[t].attempt = a + 1
    <3>1. thread[t] \in ThreadState
      BY <1>0
    <3> QED
      BY <3>1, <1>8, <1>0, <1>2, <1>3 DEF Retry, Others, ThreadState
  <2>3. TouchesOnly(t, e) /\ Fits(e, k, a + 1)'
    BY <1>7, <2>1, <2>2 DEF AccountInv
  <2>4. children = 1 /\ k = 1 /\ children' = 1
    BY <1>0, <1>1, <2>1 DEF FanOut
  <2>5. Underway(e, k, a + 1)'
    BY <1>3, <2>1, <2>3, <2>4 DEF Underway
  <2>6. \A c \in 1 .. children : Fits(e, c, Limit)'
    <3>1. Fits(e, k, Limit)'
      <4>1. IsFiniteSet(Places(e, k)') /\ Cardinality(Places(e, k)') <= a + 1
        BY <2>3 DEF Fits
      <4>2. Cardinality(Places(e, k)') \in Nat
        BY <4>1, FS_CardinalityType
      <4>3. Limit = 1 + MaxRetries
        BY <2>1 DEF Limit
      <4> QED
        BY <4>1, <4>2, <4>3, <2>1, <1>0, <1>3, <1>5 DEF Fits
    <3> QED
      BY <3>1, <2>4
  <2>7. InOrder(thread[t])'
    BY <2>1, <2>2, <1>5 DEF InOrder, Exporting
  <2> QED
    BY <1>2, <1>3, <2>2, <2>3, <2>5, <2>6, <2>7, DispatchGoesOn DEF Dispatching
\* The thread is done with the child: it was disabled before, or fails, or has
\* written the event.
<1>9. CASE /\ thread' = NextChild(t)
           /\ \/ UNCHANGED <<failed, file>> /\ <<via[e], k>> \in failed /\ Records(t)
              \/ Fails(t) /\ (UNCHANGED file \/ Appended(t))
              \/ UNCHANGED failed /\ Appended(t) /\ Records(t)
  <2>1. UNCHANGED file \/ file' = [file EXCEPT ![k] = Append(@, e)]
    BY <1>2, <1>3, <1>9 DEF Appended
  <2>2. /\ failed' = failed \/ (FanOut /\ failed' = failed \cup {<<via[e], k>>})
        /\ refused' = refused \/ (k = children /\ refused' = refused \cup {e})
    <3>1. ~FanOut => k = children
      BY <1>0 DEF FanOut
    <3> QED
      BY <1>2, <1>3, <1>9, <3>1 DEF Fails, Records
  <2>3. /\ failed \subseteq failed' /\ (FanOut \/ failed' = {})
        /\ \A d \in Events \ {e} : d \in refused' <=> d \in refused
        /\ e \in refused' => k = children
    BY <2>2, <1>3 DEF AccountInv
  <2>4. /\ TouchesOnly(t, e) /\ Fits(e, k, a + 1)'
        /\ \A c \in 1 .. children : c # k => Places(e, c)' = Places(e, c)
    BY <1>4, <1>7, <1>9, <2>1, <2>3
  <2>5. Fits(e, k, Limit)'
    <3>1. IsFiniteSet(Places(e, k)') /\ Cardinality(Places(e, k)') <= a + 1
      BY <2>4 DEF Fits
    <3>2. Cardinality(Places(e, k)') \in Nat
      BY <3>1, FS_CardinalityType
    <3>3. a + 1 <= Limit /\ Limit \in Nat
      BY <1>0, <1>2 DEF Limit
    <3> QED
      BY <3>1, <3>2, <3>3, <1>3, <1>5 DEF Fits
  <2>6. Settled(e, k)' \/ e \in refused'
    <3>1. CASE <<via[e], k>> \in failed /\ UNCHANGED failed
      BY <3>1, <1>1, <1>5 DEF Settled, AccountInv
    <3>2. CASE Fails(t)
      <4>1. CASE FanOut
        <5>1. <<via[e], k>> \in failed'
          BY <1>2, <1>3, <3>2, <4>1 DEF Fails
        <5> QED
          BY <5>1, <4>1, <1>1, <1>5 DEF Settled
      <4>2. CASE ~FanOut
        BY <1>3, <3>2, <4>2 DEF Fails
      <4> QED
        BY <4>1, <4>2
    <3>3. CASE Appended(t)
      <4>1. file' = [file EXCEPT ![k] = Append(@, e)]
        BY <1>2, <1>3, <3>3 DEF Appended
      <4> QED
        BY <4>1, WrittenOnce DEF Settled
    <3> QED
      BY <1>9, <3>1, <3>2, <3>3
  <2> QED
    BY <1>1, <1>2, <1>3, <1>9, <2>3, <2>4, <2>5, <2>6, ChildDone
<1>10. CASE TestClosed(t)
  BY <1>2, <1>3, <1>6, <1>9, <1>10 DEF TestClosed, chainVars
<1>11. CASE Write(t) \/ WriteFails(t)
  BY <1>9, <1>11 DEF Write, WriteFails, exporterVars
<1> QED
  BY <1>8, <1>10, <1>11

\* A reset touches no event.
LEMMA AccountAside ==
  ASSUME TypeInv, AccountInv, NEW t \in Threads,
         \/ Configure(t) \/ Shutdown(t) \/ TakeLock(t)
         \/ CloseChild(t) \/ Discard(t) \/ ResetChain(t)
  PROVE  AccountInv'
<1>0. thread \in [Threads -> ThreadState]
  BY DEF TypeInv
<1>1. UNCHANGED <<links, children, via, failed, file, refused>>
  BY DEF Configure, Shutdown, TakeLock, CloseChild, Discard, ResetChain,
         exporterVars, outputVars, chainVars
<1>2. Others(t) /\ thread[t].pc \notin Dispatching /\ thread'[t].pc \notin Dispatching
  <2>1. CASE \E p \in Resetting : Goto(t, p) /\ thread[t].pc \in {"idle", "lock", "close"}
    BY <2>1, GotoFrom DEF Locations, Resetting, Dispatching
  <2>2. CASE CloseChild(t)
    <3>1. thread[t] \in ThreadState
      BY <1>0
    <3> QED
      BY <3>1, <2>2, <1>0 DEF CloseChild, Others, ThreadState, At, Dispatching
  <2>3. CASE ResetChain(t)
    BY <2>3, <1>0 DEF ResetChain, Others, Idle, At, Dispatching
  <2> QED
    BY <2>1, <2>2, <2>3 DEF Configure, Shutdown, TakeLock, Discard, Resetting, At
<1>3. /\ Events' = Events
      /\ \A e, c, n : Fits(e, c, n)' <=> Fits(e, c, n)
      /\ \A e, c : Settled(e, c)' <=> Settled(e, c)
  BY <1>1 DEF Events, Fits, Settled, Places, FanOut
<1>4. /\ \A e, k, a : Underway(e, k, a)' <=> Underway(e, k, a)
      /\ \A e : Finished(e)' <=> Finished(e)
  BY <1>1, <1>3 DEF Underway, Finished
<1>5. \A u \in Threads : thread'[u].pc \in Dispatching => thread'[u] = thread[u]
  BY <1>2 DEF Others
<1>6. \A e \in Events : InDispatch(e) => InDispatch(e)'
  BY <1>2 DEF InDispatch, Others
<1>7. \A u \in Threads : thread'[u].pc \in Dispatching =>
        /\ InOrder(thread[u])'
        /\ Underway(thread[u].event, thread[u].child, thread[u].attempt)'
  <2> SUFFICES ASSUME NEW u \in Threads, thread'[u].pc \in Dispatching
               PROVE  /\ InOrder(thread[u])'
                      /\ Underway(thread[u].event, thread[u].child, thread[u].attempt)'
    OBVIOUS
  <2>1. thread'[u] = thread[u]
    BY <1>5
  <2>2. PICK e, k, a : e = thread[u].event /\ k = thread[u].child /\ a = thread[u].attempt
    OBVIOUS
  <2>3. InOrder(thread[u]) /\ Underway(e, k, a)'
    BY <2>1, <2>2, <1>4 DEF AccountInv
  <2>4. Underway(thread[u].event, thread[u].child, thread[u].attempt)'
    BY <2>1, <2>2, <2>3
  <2> QED
    BY <2>1, <2>3, <2>4, <1>1 DEF InOrder, FanOut
<1>8. (FanOut \/ failed = {})'
  BY <1>1 DEF AccountInv, FanOut
<1>9. \A e \in Events, c \in 1 .. children : Fits(e, c, Limit)'
  <2>1. Limit' = Limit /\ \A e \in Events, c \in 1 .. children : Fits(e, c, Limit)
    BY <1>1 DEF AccountInv, Limit, FanOut
  <2> QED
    BY <2>1, <1>1 DEF Fits, Places
<1>10. \A e \in Events : InDispatch(e)' \/ Finished(e)'
  BY <1>4, <1>6 DEF AccountInv
<1> QED
  BY <1>1, <1>3, <1>7, <1>8, <1>9, <1>10 DEF AccountInv

\* A new event is in no file and was not refused.
LEMMA AccountSign ==
  ASSUME TypeInv, AccountInv, NEW t \in Threads, Sign(t)
  PROVE  AccountInv'
<1>0. /\ thread \in [Threads -> ThreadState] /\ Len(links) \in Nat /\ links \in Seq(Nat)
      /\ file \in [1 .. children -> Seq(Events)] /\ refused \subseteq Events
      /\ via \in [Events -> 0 .. made] /\ children \in Nat
      /\ prevSigned \in Nat /\ made \in Nat /\ MaxRetries \in Nat
  BY DispatchAssumption DEF DispatchAssumption, TypeInv, TypeOK
<1> PICK n \in Nat : n = Len(links) + 1
  BY <1>0
<1>1. /\ links' = Append(links, prevSigned) /\ via' = Append(via, 0)
      /\ thread' = [thread EXCEPT ![t] = [Idle EXCEPT !.pc = "get", !.event = n]]
      /\ thread[t].pc = "idle"
      /\ UNCHANGED <<children, failed, file, refused>>
  BY DEF Sign, At, exporterVars, outputVars
<1>2. Len(links') = n /\ Events' = Events \cup {n} /\ n \notin Events
  BY <1>0, <1>1 DEF Events
<1>3. \A e \in Events : via'[e] = via[e]
  <2>1. via \in Seq(0 .. made) /\ Len(via) = Len(links)
    <3>1. via \in [1 .. Len(links) -> 0 .. made] /\ Len(links) \in Nat
      BY <1>0 DEF Events
    <3>2. via \in Seq(0 .. made)
      BY <3>1, SeqDef
    <3>3. 1 .. Len(via) = 1 .. Len(links) /\ Len(via) \in Nat
      BY <3>1, <3>2, LenProperties
    <3> QED
      BY <3>1, <3>2, <3>3
  <2>2. 0 \in 0 .. made
    BY <1>0
  <2>3. \A i \in 1 .. Len(via) : Append(via, 0)[i] = via[i]
    BY <2>1, <2>2, AppendProperties
  <2> QED
    BY <2>1, <2>3, <1>1 DEF Events
<1>4. /\ thread'[t].pc = "get" /\ thread'[t].event = n /\ thread'[t].child = 1
      /\ thread'[t].attempt = 0
      /\ \A u \in Threads : u # t => thread'[u] = thread[u]
  <2>1. /\ [Idle EXCEPT !.pc = "get", !.event = n].pc = "get"
        /\ [Idle EXCEPT !.pc = "get", !.event = n].event = n
        /\ [Idle EXCEPT !.pc = "get", !.event = n].child = 1
        /\ [Idle EXCEPT !.pc = "get", !.event = n].attempt = 0
    BY DEF Idle
  <2> QED
    BY <2>1, <1>0, <1>1
<1>5. /\ \A e, c, m : Fits(e, c, m)' <=> Fits(e, c, m)
      /\ \A e \in Events : \A c : Settled(e, c)' <=> Settled(e, c)
      /\ Limit' = Limit
  BY <1>1, <1>3 DEF Fits, Settled, Places, FanOut, Limit
<1>6. /\ \A e \in Events : \A k, a : Underway(e, k, a)' <=> Underway(e, k, a)
      /\ \A e \in Events : Finished(e)' <=> Finished(e)
  BY <1>1, <1>5 DEF Underway, Finished
<1>7. \A c \in 1 .. children : Fits(n, c, 0)' /\ Fits(n, c, Limit)'
  <2>1. \A c \in 1 .. children : \A i \in DOMAIN file[c] : file[c][i] \in Events
    BY <1>0
  <2>2. \A c \in 1 .. children : Places(n, c) = {} /\ Places(n, c)' = Places(n, c)
    BY <2>1, <1>1, <1>2 DEF Places
  <2>3. Limit \in Nat /\ Limit' = Limit
    BY <1>0, <1>5 DEF Limit
  <2>4. IsFiniteSet({}) /\ Cardinality({}) = 0
    BY FS_EmptySet
  <2> SUFFICES ASSUME NEW c \in 1 .. children PROVE Fits(n, c, 0)' /\ Fits(n, c, Limit)'
    OBVIOUS
  <2>5. IsFiniteSet(Places(n, c)') /\ Cardinality(Places(n, c)') = 0
    BY <2>2, <2>4
  <2> QED
    BY <2>3, <2>5 DEF Fits
<1>8. Underway(n, 1, 0)'
  BY <1>0, <1>1, <1>2, <1>7 DEF Underway
<1>9. \A u \in Threads : thread'[u].pc \in Dispatching =>
        /\ InOrder(thread[u])'
        /\ Underway(thread[u].event, thread[u].child, thread[u].attempt)'
  <2> SUFFICES ASSUME NEW u \in Threads, thread'[u].pc \in Dispatching
               PROVE  /\ InOrder(thread[u])'
                      /\ Underway(thread[u].event, thread[u].child, thread[u].attempt)'
    OBVIOUS
  <2>1. CASE u = t
    <3>1. Underway(thread[t].event, thread[t].child, thread[t].attempt)'
      BY <1>4, <1>8
    <3>2. InOrder(thread[t])'
      BY <1>4 DEF InOrder
    <3> QED
      BY <3>1, <3>2, <2>1
  <2>2. CASE u # t
    <3>1. thread'[u] = thread[u] /\ thread[u] \in ThreadState
      BY <1>0, <1>4, <2>2
    <3>2. thread[u].event \in Events
      <4>1. thread[u].event # 0
        BY <2>2, <3>1 DEF TypeInv, OwnEvent
      <4> QED
        BY <4>1, <3>1, <1>0 DEF ThreadState, Events
    <3>3. PICK e, k, a :
            /\ e \in Events /\ e = thread[u].event
            /\ k = thread[u].child /\ a = thread[u].attempt
      BY <3>2
    <3>4. InOrder(thread[u]) /\ Underway(e, k, a)'
      BY <3>1, <3>3, <1>6 DEF AccountInv
    <3>5. Underway(thread[u].event, thread[u].child, thread[u].attempt)'
      BY <3>1, <3>3, <3>4
    <3> QED
      BY <3>1, <3>4, <3>5, <1>1 DEF InOrder, FanOut
  <2> QED
    BY <2>1, <2>2
<1>10. \A e \in Events' : InDispatch(e)' \/ Finished(e)'
  <2>1. InDispatch(n)'
    BY <1>4 DEF InDispatch, Dispatching
  <2>2. \A e \in Events : InDispatch(e) => InDispatch(e)'
    BY <1>1, <1>4 DEF InDispatch, Dispatching
  <2> QED
    BY <1>2, <1>6, <2>1, <2>2 DEF AccountInv
<1>11. \A e \in Events', c \in 1 .. children : Fits(e, c, Limit)'
  <2>1. \A e \in Events, c \in 1 .. children : Fits(e, c, Limit)
    BY DEF AccountInv
  <2>2. \A e \in Events, c \in 1 .. children : Fits(e, c, Limit)'
    BY <2>1, <1>1, <1>5 DEF Fits, Places
  <2> QED
    BY <2>2, <1>2, <1>7
<1>12. (FanOut \/ failed = {})'
  BY <1>1 DEF AccountInv, FanOut
<1> QED
  BY <1>1, <1>9, <1>10, <1>11, <1>12 DEF AccountInv

THEOREM AccountStep == TypeInv /\ AccountInv /\ [Next]_vars => AccountInv'
<1> SUFFICES ASSUME TypeInv, AccountInv, [Next]_vars PROVE AccountInv'
  OBVIOUS
<1>1. CASE UNCHANGED vars
  <2>1. UNCHANGED <<children, failed, file, refused, links, via, thread>>
    BY <1>1 DEF vars, exporterVars, outputVars, chainVars
  <2> QED
    BY <2>1 DEF AccountInv, FanOut, Events, Fits, Limit, Settled, Places, Underway, Finished,
                InDispatch, InOrder
<1>2. ASSUME NEW t \in Threads, Sign(t) \/ Configure(t) \/ Shutdown(t) \/ Continue(t)
      PROVE  AccountInv'
  BY <1>2, AccountSign, AccountGet, AccountExport, AccountAside DEF Continue
<1> QED
  BY <1>1, <1>2 DEF Next

\* However often exporters are replaced, closed or disabled under the threads
\* that use them, _dispatch writes an event once per attempt at most, and when
\* it is over the event was written, or an error counted for it, or the children
\* that miss it were disabled; also when an export that fails, or the trace
\* store, leaves the event behind.
THEOREM AccountCorrect == Spec => []EveryEventIsAccountedFor
<1>1. Init => TypeInv /\ AccountInv
  BY TypeInit, AccountInit
<1>2. TypeInv /\ AccountInv /\ [Next]_vars => (TypeInv /\ AccountInv)'
  BY TypeStep, AccountStep
<1>3. TypeInv /\ AccountInv => EveryEventIsAccountedFor
  <2> SUFFICES ASSUME TypeInv, AccountInv PROVE EveryEventIsAccountedFor
    OBVIOUS
  <2>1. \A e, c : Times(e, c) = Cardinality(Places(e, c))
    BY DEF Times, Places
  <2>2. \A e \in Events, c \in 1 .. children :
          IsFiniteSet(Places(e, c)) /\ Times(e, c) <= Limit
    BY <2>1 DEF AccountInv, Fits
  <2>3. \A e \in Events, c \in 1 .. children : Places(e, c) # {} => Times(e, c) >= 1
    <3> SUFFICES ASSUME NEW e \in Events, NEW c \in 1 .. children, Places(e, c) # {}
                 PROVE  Times(e, c) >= 1
      OBVIOUS
    <3>1. Times(e, c) \in Nat /\ (Times(e, c) = 0 => Places(e, c) = {})
      BY <2>1, <2>2, FS_CardinalityType, FS_EmptySet
    <3> QED
      BY <3>1
  <2>4. \A e \in Dispatched : e \in Events /\ Finished(e)
    BY DEF AccountInv, InDispatch, Dispatched, Dispatching, At
  <2>5. \A e \in Dispatched \ refused, c \in 1 .. children :
          Times(e, c) >= 1 \/ (FanOut /\ <<via[e], c>> \in failed)
    BY <2>3, <2>4 DEF Finished, Settled
  <2> QED
    BY <2>2, <2>5 DEF EveryEventIsAccountedFor, Limit
<1> QED
  BY <1>1, <1>2, <1>3, PTL DEF Spec
=============================================================================
