--------------------------- MODULE AppendOnlyLog ----------------------------
(***************************************************************************)
(* spanforge/export/append_only.py: AppendOnlyJSONLExporter, the files it  *)
(* appends to, and the write-once store (external) its sealed files are    *)
(* uploaded to.                                                            *)
(*                                                                         *)
(* Every method runs under one lock, so one call runs at a time; it is cut *)
(* into steps because the process may crash between any two of them, or in *)
(* the middle of a line, which leaves a torn line.  A new process starts   *)
(* with the base file again.  Every line counts as one byte, and file i is *)
(* the one with rotation index i (0 is the base file).                     *)
(***************************************************************************)
EXTENDS Naturals, Sequences, FiniteSets

CONSTANTS
  MaxBytes,    \* _max_bytes; 0 means that no file is ever full
  MaxBatch,    \* bound on the length of a batch
  MaxEvents,   \* bound on the events appended
  MaxIndex,    \* bound on the rotation index
  MaxLines,    \* bound on the lines of a file whose rotation is forced
  MaxCrashes   \* bound on the crashes

ASSUME LogAssumption ==
  MaxBytes \in Nat /\ MaxBatch \in Nat /\ MaxEvents \in Nat /\ MaxIndex \in Nat /\ MaxCrashes \in Nat

VARIABLES
  file,           \* on disk: the lines of each file
  store,          \* in the write-once store: the copies, by key
  rotationIndex,  \* _rotation_index; _current_path is the file of this index
  handle,         \* whether _fh is open
  written,        \* _written_bytes
  pc,             \* where the call is
  todo,           \* how many events of the batch are still to be written
  logPending,     \* the events written by this call
  next,           \* history: the next event
  run,            \* history: the process each event was written by
  logAcked,       \* history: the events whose append returned
  crashes         \* history: how many processes have crashed

diskVars == <<file, store>>
processVars == <<rotationIndex, handle, written, pc, todo, logPending>>
historyVars == <<next, run, logAcked, crashes>>
logVars == <<diskVars, processVars, historyVars>>

Index == 0 .. MaxIndex
Event == 1 .. MaxEvents
Marker == [kind |-> "rotation", id |-> 0]
Torn == [kind |-> "torn", id |-> 0]
Line == [kind : {"event"}, id : Event] \cup {Marker, Torn}

LogTypeOK ==
  /\ file \in [Index -> Seq(Line)]
  /\ store \in [Index -> Seq(Line)]
  /\ rotationIndex \in Index
  /\ handle \in BOOLEAN /\ written \in Nat
  /\ pc \in {"idle", "line", "marker", "upload", "advance"}
  /\ todo \in 0 .. MaxBatch
  /\ next \in 1 .. MaxEvents + 1
  /\ logPending \subseteq 1 .. next - 1 /\ logAcked \subseteq 1 .. next - 1
  /\ run \in [1 .. next - 1 -> 0 .. crashes]
  /\ crashes \in 0 .. MaxCrashes

\* No copy under a key is an empty sequence.
LogInit ==
  /\ file = [i \in Index |-> <<>>] /\ store = [i \in Index |-> <<>>]
  /\ rotationIndex = 0 /\ handle = FALSE /\ written = 0
  /\ pc = "idle" /\ todo = 0 /\ logPending = {}
  /\ next = 1 /\ run = <<>> /\ logAcked = {} /\ crashes = 0

----------------------------------------------------------------------------
(* Writing a line: _ensure_open, _write_line.                               *)

SizeAfterOpen == IF handle THEN written ELSE Len(file[rotationIndex])

\* Mutant: a file that is opened is emptied.
PutTruncating(line) ==
  /\ file' = [file EXCEPT ![rotationIndex] = Append(IF handle THEN @ ELSE <<>>, line)]
  /\ written' = SizeAfterOpen + 1

PutLine(line) ==
  /\ file' = [file EXCEPT ![rotationIndex] = Append(@, line)]
  /\ written' = SizeAfterOpen + 1

IsFull(size) == MaxBytes > 0 /\ size >= MaxBytes

\* append(event) and append_batch(events): n is the number of events.
Call(n) ==
  /\ pc = "idle"
  /\ next + n - 1 <= MaxEvents
  /\ pc' = "line" /\ todo' = n /\ logPending' = {}
  /\ UNCHANGED <<diskVars, rotationIndex, handle, written, historyVars>>

WriteLine ==
  /\ pc = "line" /\ todo > 0
  /\ PutLine([kind |-> "event", id |-> next])
  /\ handle' = TRUE
  /\ todo' = todo - 1 /\ logPending' = logPending \cup {next}
  /\ next' = next + 1 /\ run' = Append(run, crashes)
  /\ pc' = IF IsFull(written') THEN "marker" ELSE "line"
  /\ UNCHANGED <<store, rotationIndex, logAcked, crashes>>

Return ==
  /\ pc = "line" /\ todo = 0
  /\ pc' = "idle" /\ logPending' = {}
  /\ logAcked' = logAcked \cup logPending
  /\ UNCHANGED <<diskVars, rotationIndex, handle, written, todo, next, run, crashes>>

\* rotate(): a threshold that what was written reaches.
ForceRotation ==
  /\ pc = "idle"
  /\ rotationIndex < MaxIndex /\ Len(file[rotationIndex]) < MaxLines
  /\ pc' = "marker" /\ todo' = 0 /\ logPending' = {}
  /\ UNCHANGED <<diskVars, rotationIndex, handle, written, historyVars>>

\* close()
Close ==
  /\ pc = "idle"
  /\ handle' = FALSE
  /\ UNCHANGED <<diskVars, rotationIndex, written, pc, todo, logPending, historyVars>>

----------------------------------------------------------------------------
(* _rotate.                                                                 *)

\* Mutant: an empty file gets no rotation event.
WriteMarkerUnlessEmpty ==
  /\ pc = "marker"
  /\ IF file[rotationIndex] = <<>> THEN UNCHANGED <<file, written>> ELSE PutLine(Marker)
  /\ handle' = FALSE
  /\ pc' = "upload"
  /\ UNCHANGED <<store, rotationIndex, todo, logPending, historyVars>>

\* The rotation event is the last line of the old file, which is closed.
WriteMarker ==
  /\ pc = "marker"
  /\ PutLine(Marker)
  /\ handle' = FALSE
  /\ pc' = "upload"
  /\ UNCHANGED <<store, rotationIndex, todo, logPending, historyVars>>

\* Mutant: the file is uploaded before its last line is written.
UploadBeforeMarker ==
  /\ pc = "marker"
  /\ store[rotationIndex] = <<>>
  /\ store' = [store EXCEPT ![rotationIndex] = file[rotationIndex]]
  /\ UNCHANGED <<file, processVars, historyVars>>

\* The store keeps what it has under a key for ever.
UploadStores ==
  /\ pc = "upload"
  /\ store[rotationIndex] = <<>>
  /\ store' = [store EXCEPT ![rotationIndex] = file[rotationIndex]]
  /\ pc' = "advance"
  /\ UNCHANGED <<file, rotationIndex, handle, written, todo, logPending, historyVars>>

\* There is no store, or it reports a failure: the result is not looked at.
UploadIgnored ==
  /\ pc = "upload"
  /\ pc' = "advance"
  /\ UNCHANGED <<diskVars, rotationIndex, handle, written, todo, logPending, historyVars>>

\* The exception leaves the call; nothing has advanced.
UploadRaises ==
  /\ pc = "upload"
  /\ pc' = "idle" /\ todo' = 0 /\ logPending' = {}
  /\ UNCHANGED <<diskVars, rotationIndex, handle, written, historyVars>>

\* Mutant: two files are used in turn.
AdvanceInTurn ==
  /\ pc = "advance" /\ rotationIndex < MaxIndex
  /\ rotationIndex' = 1 - rotationIndex /\ written' = 0
  /\ pc' = "line"
  /\ UNCHANGED <<diskVars, handle, todo, logPending, historyVars>>

Advance ==
  /\ pc = "advance" /\ rotationIndex < MaxIndex
  /\ rotationIndex' = rotationIndex + 1 /\ written' = 0
  /\ pc' = "line"
  /\ UNCHANGED <<diskVars, handle, todo, logPending, historyVars>>

----------------------------------------------------------------------------
(* A crash, and the next process.                                           *)

Crash ==
  /\ crashes < MaxCrashes
  /\ crashes' = crashes + 1
  /\ \/ UNCHANGED file
     \/ /\ (pc = "line" /\ todo > 0) \/ pc = "marker"
        /\ file' = [file EXCEPT ![rotationIndex] = Append(@, Torn)]
  /\ rotationIndex' = 0 /\ handle' = FALSE /\ written' = 0
  /\ pc' = "idle" /\ todo' = 0 /\ logPending' = {}
  /\ UNCHANGED <<store, next, run, logAcked>>

LogNext ==
  \/ \E n \in 1 .. MaxBatch : Call(n)
  \/ WriteLine \/ Return \/ ForceRotation \/ Close
  \/ WriteMarker \/ UploadStores \/ UploadIgnored \/ UploadRaises \/ Advance
  \/ Crash

LogSpec == LogInit /\ [][LogNext]_logVars

----------------------------------------------------------------------------
(* Properties.                                                              *)

Positions == UNION {{i} \X DOMAIN file[i] : i \in Index}
Copies(e) == {p \in Positions : file[p[1]][p[2]] = [kind |-> "event", id |-> e]}

\* The acknowledged events that follow a torn line and cannot be parsed.
Garbled == {e \in logAcked : \E p \in Copies(e) : p[2] > 1 /\ file[p[1]][p[2] - 1] = Torn}

\* An event whose append returned is on disk exactly once, whatever crashes,
\* reopened files and failed uploads follow, and a crash makes at most one of
\* them unreadable, by tearing the line before it.
AcknowledgedEventsAreStored ==
  /\ \A e \in logAcked : Cardinality(Copies(e)) = 1
  /\ Cardinality(Garbled) <= crashes

\* Read in the order of their rotation indexes, the files hold the events of
\* any one process in the order it appended them.
FilesKeepTheOrderOfAProcess ==
  \A d, e \in 1 .. next - 1 :
    d < e /\ run[d] = run[e] =>
      \A p \in Copies(d), q \in Copies(e) :
        p[1] < q[1] \/ (p[1] = q[1] /\ p[2] < q[2])

\* A file that the process has rotated away from ends with the rotation event.
RotatedFilesAreMarked ==
  \A i \in 0 .. rotationIndex - 1 : file[i] # <<>> /\ file[i][Len(file[i])] = Marker

\* What the store keeps was sealed: it ends with the rotation event, and the
\* local file still begins with it.
StoredCopiesAreSealed ==
  \A i \in Index :
    store[i] # <<>> =>
      /\ store[i][Len(store[i])] = Marker
      /\ store[i] = SubSeq(file[i], 1, Len(store[i]))
=============================================================================
