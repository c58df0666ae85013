--------------------------- MODULE StreamDispatch ---------------------------
(***************************************************************************)
(* spanforge/_stream.py: application threads emit events through one       *)
(* module-wide signing chain and one cached exporter, which configure()    *)
(* and shutdown() close and discard.  The exporter is a file exporter      *)
(* (exporters/jsonl.py, exporters/sqlite.py), or a fan-out to several of   *)
(* them.                                                                   *)
(*                                                                         *)
(* An event is its number in signing order (every event is of a namespace  *)
(* that is always signed), and an exporter is its number in building order.*)
(* Sampled-out events change nothing and are left out.  An export that     *)
(* fails may have written the event all the same: write() before flush()   *)
(* raises, execute() before commit() does.                                 *)
(***************************************************************************)
EXTENDS Naturals, Sequences, FiniteSets

CONSTANTS
  Threads,      \* application threads
  Children,     \* how many children an exporter may have: 1, or a fan-out
  MaxRetries,   \* export_max_retries
  MaxEvents,    \* bound on the events emitted
  MaxResets     \* bound on the calls of configure()

ASSUME DispatchAssumption ==
  /\ Children \subseteq Nat \ {0} /\ [none |-> TRUE] \notin Threads
  /\ MaxRetries \in Nat /\ MaxEvents \in Nat /\ MaxResets \in Nat

VARIABLES
  children,        \* the number of children that the configuration asks for
  cached,          \* _cached_exporter, 0 for None
  lock,            \* the thread that holds _exporter_lock, or None
  prevSigned,      \* _prev_signed_event, 0 for None
  shutdownCalled,  \* _shutdown_called
  made,            \* history: how many exporters were built
  resets,          \* history: how often configure() was called
  links,           \* history: the predecessor each event was signed with
  via,             \* history: the exporter each event was handed to
  closed,          \* the children that were closed, as <<exporter, child>>
  failed,          \* the children in _FanOutExporter._failed, likewise
  file,            \* what each child's file holds, whichever exporter wrote it
  refused,         \* the events for which _handle_export_error was called
  thread           \* where each thread is

exporterVars == <<children, cached, lock, made, closed, failed>>
outputVars == <<file, refused>>
chainVars == <<prevSigned, links>>
lifeVars == <<shutdownCalled, resets>>
vars == <<exporterVars, outputVars, chainVars, lifeVars, via, thread>>

None == [none |-> TRUE]
Events == 1 .. Len(links)
FanOut == children > 1

Locations == {"idle", "get", "build", "return", "export", "write", "lock", "close", "chain"}

TypeOK ==
  /\ children \in Children
  /\ made \in Nat /\ cached \in 0 .. made
  /\ lock \in Threads \cup {None}
  /\ links \in Seq(Nat) /\ Len(links) <= MaxEvents
  /\ prevSigned \in 0 .. Len(links)
  /\ shutdownCalled \in BOOLEAN /\ resets \in 0 .. MaxResets
  /\ via \in [Events -> 0 .. made]
  /\ closed \subseteq (1 .. made) \X (1 .. children)
  /\ failed \subseteq (1 .. made) \X (1 .. children)
  /\ file \in [1 .. children -> Seq(Events)]
  /\ refused \subseteq Events
  /\ \A t \in Threads :
       /\ thread[t].pc \in Locations
       /\ thread[t].event \in 0 .. Len(links)
       /\ thread[t].child \in 1 .. children
       /\ thread[t].attempt \in 0 .. MaxRetries

Idle == [pc |-> "idle", event |-> 0, child |-> 1, attempt |-> 0]

Init ==
  /\ children \in Children
  /\ cached = 0 /\ lock = None /\ made = 0 /\ closed = {} /\ failed = {}
  /\ prevSigned = 0 /\ links = <<>>
  /\ shutdownCalled = FALSE /\ resets = 0
  /\ via = <<>>
  /\ file = [c \in 1 .. children |-> <<>>]
  /\ refused = {}
  /\ thread = [t \in Threads |-> Idle]

At(t, pc) == thread[t].pc = pc
Goto(t, pc) == thread' = [thread EXCEPT ![t].pc = pc]

----------------------------------------------------------------------------
(* Emitting an event: _dispatch.                                            *)

\* Mutant: the event signed last is not remembered.
SignForgets(t) ==
  /\ At(t, "idle") /\ Len(links) < MaxEvents
  /\ links' = Append(links, prevSigned)
  /\ via' = Append(via, 0)
  /\ thread' = [thread EXCEPT ![t] = [Idle EXCEPT !.pc = "get", !.event = Len(links) + 1]]
  /\ UNCHANGED <<prevSigned, exporterVars, outputVars, lifeVars>>

\* Under _sign_lock.
Sign(t) ==
  /\ At(t, "idle") /\ Len(links) < MaxEvents
  /\ links' = Append(links, prevSigned)
  /\ prevSigned' = Len(links) + 1
  /\ via' = Append(via, 0)
  /\ thread' = [thread EXCEPT ![t] = [Idle EXCEPT !.pc = "get", !.event = Len(links) + 1]]
  /\ UNCHANGED <<exporterVars, outputVars, lifeVars>>

\* _active_exporter tests the cache without the lock ...
TestCache(t) ==
  /\ At(t, "get")
  /\ Goto(t, IF cached # 0 THEN "return" ELSE "build")
  /\ UNCHANGED <<exporterVars, outputVars, chainVars, lifeVars, via>>

\* Mutant: the cache is not tested again under the lock.
BuildAnyway(t) ==
  /\ At(t, "build") /\ lock = None
  /\ made' = made + 1 /\ cached' = made + 1
  /\ Goto(t, "return")
  /\ UNCHANGED <<children, lock, closed, failed, outputVars, chainVars, lifeVars, via>>

\* ... tests it again under the lock, and either has an exporter or builds one ...
Build(t) ==
  /\ At(t, "build") /\ lock = None
  /\ IF cached = 0
     THEN /\ made' = made + 1 /\ cached' = made + 1
          /\ Goto(t, "return")
          /\ UNCHANGED via
     ELSE /\ via' = [via EXCEPT ![thread[t].event] = cached]
          /\ Goto(t, "export")
          /\ UNCHANGED <<made, cached>>
  /\ UNCHANGED <<children, lock, closed, failed, outputVars, chainVars, lifeVars>>

\* get_store().record(event), once the exporter is done with the event: the
\* trace store may raise, and the event is counted although it was exported.
Records(t) ==
  \/ UNCHANGED refused
  \/ thread[t].child = children /\ refused' = refused \cup {thread[t].event}

\* Mutant: an event that could not be exported is not counted.
FailsUncounted(t) ==
  IF FanOut
  THEN /\ failed' = failed \cup {<<via[thread[t].event], thread[t].child>>}
       /\ Records(t)
  ELSE UNCHANGED <<failed, refused>>

\* A child of a fan-out is disabled; otherwise _handle_export_error counts.
Fails(t) ==
  IF FanOut
  THEN /\ failed' = failed \cup {<<via[thread[t].event], thread[t].child>>}
       /\ Records(t)
  ELSE /\ refused' = refused \cup {thread[t].event}
       /\ UNCHANGED failed

\* ... and reads it once more without the lock, which may give None: then
\* export() does not exist.
ReadCache(t) ==
  /\ At(t, "return")
  /\ via' = [via EXCEPT ![thread[t].event] = cached]
  /\ IF cached = 0 THEN refused' = refused \cup {thread[t].event}
                        /\ thread' = [thread EXCEPT ![t] = Idle]
                   ELSE UNCHANGED refused /\ Goto(t, "export")
  /\ UNCHANGED <<exporterVars, file, chainVars, lifeVars>>

\* Mutant: the loop over the children runs once too often.
NextChildToo(t) ==
  IF thread[t].child <= children
  THEN [thread EXCEPT ![t].pc = "export", ![t].child = @ + 1]
  ELSE [thread EXCEPT ![t] = Idle]

\* The next child of a fan-out, or the end of the dispatch.
NextChild(t) ==
  IF thread[t].child < children
  THEN [thread EXCEPT ![t].pc = "export", ![t].child = @ + 1]
  ELSE [thread EXCEPT ![t] = Idle]

\* export() tests _closed without the exporter's lock.
TestClosed(t) ==
  /\ At(t, "export")
  /\ LET target == <<via[thread[t].event], thread[t].child>> IN
       \/ /\ target \in failed
          /\ Records(t)
          /\ thread' = NextChild(t)
          /\ UNCHANGED failed
       \/ /\ target \notin failed /\ target \in closed
          /\ Fails(t)
          /\ thread' = NextChild(t)
       \/ /\ target \notin failed \cup closed
          /\ Goto(t, "write")
          /\ UNCHANGED <<failed, refused>>
  /\ UNCHANGED <<children, cached, lock, made, closed, file, chainVars, lifeVars, via>>

Appended(t) == file' = [file EXCEPT ![thread[t].child] = Append(@, thread[t].event)]

\* A file that was closed in between is opened again (jsonl), or the write
\* fails (sqlite).
Write(t) ==
  /\ At(t, "write")
  /\ Appended(t)
  /\ Records(t)
  /\ thread' = NextChild(t)
  /\ UNCHANGED <<exporterVars, chainVars, lifeVars, via>>

WriteFails(t) ==
  /\ At(t, "write")
  /\ UNCHANGED file \/ Appended(t)
  /\ Fails(t)
  /\ thread' = NextChild(t)
  /\ UNCHANGED <<children, cached, lock, made, closed, chainVars, lifeVars, via>>

\* Mutant: the attempts are not counted.
RetryForever(t) ==
  /\ At(t, "write")
  /\ ~FanOut /\ thread[t].attempt < MaxRetries
  /\ Goto(t, "export")
  /\ UNCHANGED <<exporterVars, outputVars, chainVars, lifeVars, via>>

\* An ExportError is retried with the exporter that was read before, whether
\* or not the failed attempt has left the event behind.
Retry(t) ==
  /\ At(t, "write")
  /\ ~FanOut /\ thread[t].attempt < MaxRetries
  /\ UNCHANGED file \/ Appended(t)
  /\ thread' = [thread EXCEPT ![t].pc = "export", ![t].attempt = @ + 1]
  /\ UNCHANGED <<exporterVars, refused, chainVars, lifeVars, via>>

----------------------------------------------------------------------------
(* configure() and shutdown(): _reset_exporter.                             *)

Configure(t) ==
  /\ At(t, "idle") /\ resets < MaxResets
  /\ resets' = resets + 1
  /\ Goto(t, "lock")
  /\ UNCHANGED <<exporterVars, outputVars, chainVars, shutdownCalled, via>>

\* Only the first call does anything.
Shutdown(t) ==
  /\ At(t, "idle") /\ ~shutdownCalled
  /\ shutdownCalled' = TRUE
  /\ Goto(t, "lock")
  /\ UNCHANGED <<exporterVars, outputVars, chainVars, resets, via>>

TakeLock(t) ==
  /\ At(t, "lock") /\ lock = None
  /\ lock' = t
  /\ Goto(t, "close")
  /\ UNCHANGED <<children, cached, made, closed, failed, outputVars, chainVars, lifeVars, via>>

CloseChild(t) ==
  /\ At(t, "close") /\ cached # 0
  /\ <<cached, thread[t].child>> \notin closed
  /\ closed' = closed \cup {<<cached, thread[t].child>>}
  /\ thread' = IF thread[t].child < children
               THEN [thread EXCEPT ![t].child = @ + 1] ELSE thread
  /\ UNCHANGED <<children, cached, lock, made, failed, outputVars, chainVars, lifeVars, via>>

Discard(t) ==
  /\ At(t, "close")
  /\ cached = 0 \/ <<cached, children>> \in closed
  /\ cached' = 0 /\ lock' = None
  /\ Goto(t, "chain")
  /\ UNCHANGED <<children, made, closed, failed, outputVars, chainVars, lifeVars, via>>

\* The chain starts anew, after the lock of the exporter is given back.
ResetChain(t) ==
  /\ At(t, "chain")
  /\ prevSigned' = 0
  /\ thread' = [thread EXCEPT ![t] = Idle]
  /\ UNCHANGED <<exporterVars, outputVars, links, lifeVars, via>>

\* What a thread does in a call that it has begun.
Continue(t) ==
  \/ TestCache(t) \/ Build(t) \/ ReadCache(t)
  \/ TestClosed(t) \/ Write(t) \/ WriteFails(t) \/ Retry(t)
  \/ TakeLock(t) \/ CloseChild(t) \/ Discard(t) \/ ResetChain(t)

Next == \E t \in Threads : Sign(t) \/ Configure(t) \/ Shutdown(t) \/ Continue(t)

\* A thread is scheduled again and again; whether it calls is its own affair.
Spec == Init /\ [][Next]_vars /\ \A t \in Threads : WF_vars(Continue(t))

----------------------------------------------------------------------------
(* Properties.                                                              *)

Times(event, child) == Cardinality({i \in DOMAIN file[child] : file[child][i] = event})
Dispatched == Events \ {thread[t].event : t \in {u \in Threads : ~At(u, "idle")}}

\* However often exporters are replaced under the threads that use them, no
\* event is lost in silence: once its dispatch is over it was written, or an
\* error was counted for it, or, in a fan-out, it is missing only from children
\* that were disabled.  (The error is no proof of a loss: the event may have
\* been written before the flush, or the trace store, raised.)  And it is
\* written once per attempt at most, which in a fan-out is once.
EveryEventIsAccountedFor ==
  /\ \A e \in Events, c \in 1 .. children :
       Times(e, c) <= IF FanOut THEN 1 ELSE 1 + MaxRetries
  /\ \A e \in Dispatched \ refused, c \in 1 .. children :
       Times(e, c) >= 1 \/ (FanOut /\ <<via[e], c>> \in failed)

\* The chain never forks: two events signed by racing threads never have the
\* same predecessor, and only a reset starts a new chain.
ChainIsLinear ==
  /\ \A e \in Events : links[e] \in {0, e - 1}
  /\ Cardinality({e \in Events : links[e] = 0})
       <= 1 + resets + (IF shutdownCalled THEN 1 ELSE 0)

\* However many threads find no exporter, one is built: every exporter but the
\* cached one has been closed entirely.
OneLiveExporter ==
  \A x \in 1 .. made : x # cached => \A c \in 1 .. children : <<x, c>> \in closed

\* Every call returns: nobody waits for the lock for ever, and an export is
\* not retried for ever.
EveryCallReturns == \A t \in Threads : ~At(t, "idle") ~> At(t, "idle")

----------------------------------------------------------------------------
(* What the documentation says and the code does not do.                    *)

\* The exported events, in the order they were written, are a chain: each was
\* signed with the one before it as its predecessor.
ExportedChainVerifies ==
  \A c \in 1 .. children : \A i \in 2 .. Len(file[c]) : links[file[c][i]] = file[c][i - 1]
=============================================================================
