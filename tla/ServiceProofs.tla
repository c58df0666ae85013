---------------------------- MODULE ServiceProofs ----------------------------
(***************************************************************************)
(* What the components of MCServices keep, for every value of their        *)
(* constants: the append-only log, the alert router, the review queue and  *)
(* the consent records (PeopleAreHeard), the registries                    *)
(* (RegistriesResolve), and the credentials and the directory of the       *)
(* identity service (IdentitiesAreKept).  Each component has an inductive  *)
(* invariant of its own, which its steps preserve and the steps of the     *)
(* others leave alone.                                                     *)
(***************************************************************************)
EXTENDS MCServices, FiniteSetTheorems, SequenceTheorems, WellFoundedInduction, TLAPS


-----------------------------------------------------------------------------
(***************************************************************************)
(* The append-only log                                                     *)
(***************************************************************************)
(* For any size at which a file is full, any batches and any number of       *)
(* events, rotations and crashes.                                            *)

----------------------------------------------------------------------------
(* What a line that is appended changes.                                    *)

\* One line more at the end of the current file; every other line stays.
Grown(line) ==
  /\ file' \in [Index -> Seq(Line)]
  /\ \A i \in Index \ {rotationIndex} : file'[i] = file[i]
  /\ Len(file'[rotationIndex]) = Len(file[rotationIndex]) + 1
  /\ \A j \in 1 .. Len(file[rotationIndex]) :
       file'[rotationIndex][j] = file[rotationIndex][j]
  /\ file'[rotationIndex][Len(file[rotationIndex]) + 1] = line

\* What _write_line and a torn write do to the files.
LEMMA AppendGrows ==
  ASSUME LogTypeOK, NEW line \in Line,
         file' = [file EXCEPT ![rotationIndex] = Append(@, line)]
  PROVE  Grown(line)
<1>1. file \in [Index -> Seq(Line)] /\ rotationIndex \in Index
  BY DEF LogTypeOK
<1>2. file[rotationIndex] \in Seq(Line)
  BY <1>1
<1>3. file'[rotationIndex] = Append(file[rotationIndex], line)
  BY <1>1
<1>4. \A i \in Index \ {rotationIndex} : file'[i] = file[i]
  BY <1>1
<1>5. /\ Append(file[rotationIndex], line) \in Seq(Line)
      /\ Len(Append(file[rotationIndex], line)) = Len(file[rotationIndex]) + 1
      /\ \A j \in 1 .. Len(file[rotationIndex]) :
           Append(file[rotationIndex], line)[j] = file[rotationIndex][j]
      /\ Append(file[rotationIndex], line)[Len(file[rotationIndex]) + 1] = line
  BY <1>2, AppendProperties
<1>6. file' \in [Index -> Seq(Line)]
  BY <1>1, <1>5
<1> QED
  BY <1>3, <1>4, <1>5, <1>6 DEF Grown

\* The lengths of the files are numbers, and their lines are lines.
LEMMA FileFacts ==
  ASSUME LogTypeOK
  PROVE  /\ rotationIndex \in Index
         /\ \A i \in Index : Len(file[i]) \in Nat /\ DOMAIN file[i] = 1 .. Len(file[i])
         /\ \A i \in Index : \A j \in 1 .. Len(file[i]) : file[i][j] \in Line
<1>1. file \in [Index -> Seq(Line)] /\ rotationIndex \in Index
  BY DEF LogTypeOK
<1>2. ASSUME NEW i \in Index
      PROVE  /\ Len(file[i]) \in Nat
             /\ DOMAIN file[i] = 1 .. Len(file[i])
             /\ \A j \in 1 .. Len(file[i]) : file[i][j] \in Line
  <2>1. file[i] \in Seq(Line)
    BY <1>1
  <2> QED
    BY <2>1, LenProperties, ElementOfSeq
<1> QED
  BY <1>1, <1>2

----------------------------------------------------------------------------
(* Types.                                                                   *)

\* The batch in hand still fits among the events.
BatchFits == next + todo <= MaxEvents + 1

TypeInv == LogTypeOK /\ BatchFits

LEMMA TypeInit == LogInit => TypeInv
<1> SUFFICES ASSUME LogInit
             PROVE  TypeInv
  OBVIOUS
<1>0. MaxBytes \in Nat /\ MaxBatch \in Nat /\ MaxEvents \in Nat /\ MaxIndex \in Nat
      /\ MaxCrashes \in Nat
  BY LogAssumption DEF LogAssumption
<1>1. <<>> \in Seq(Line) /\ <<>> \in [1 .. 0 -> 0 .. 0]
  <2>1. <<>> \in Seq(0 .. 0) /\ Len(<<>>) = 0
    BY EmptySeq
  <2>2. <<>> \in [1 .. Len(<<>>) -> 0 .. 0]
    BY <2>1, LenProperties
  <2> QED
    BY <2>1, <2>2, EmptySeq
<1>2. file \in [Index -> Seq(Line)] /\ store \in [Index -> Seq(Line)]
  BY <1>1 DEF LogInit
<1>3. rotationIndex \in Index
  BY <1>0 DEF LogInit, Index
<1>4. next = 1 /\ crashes = 0 /\ run = <<>>
  BY DEF LogInit
<1>5. run \in [1 .. next - 1 -> 0 .. crashes]
  BY <1>1, <1>4
<1>6. /\ logPending \subseteq 1 .. next - 1 /\ logAcked \subseteq 1 .. next - 1
      /\ written \in Nat /\ todo \in 0 .. MaxBatch
      /\ pc = "idle" /\ todo = 0
  BY <1>0 DEF LogInit
<1>7. handle \in BOOLEAN
  BY Zenon DEF LogInit
<1> QED
  BY <1>0, <1>2, <1>3, <1>4, <1>5, <1>6, <1>7 DEF TypeInv, LogTypeOK, BatchFits

\* Writing a line leaves the size of the file in a number.
LEMMA SizeIsNat ==
  ASSUME LogTypeOK
  PROVE  SizeAfterOpen \in Nat
BY FileFacts DEF SizeAfterOpen, LogTypeOK

\* Every step keeps the types and the room for the batch.
LEMMA TypeStep == TypeInv /\ [LogNext]_logVars => TypeInv'
<1> SUFFICES ASSUME TypeInv, [LogNext]_logVars
             PROVE  TypeInv'
  OBVIOUS
<1>0. MaxBytes \in Nat /\ MaxBatch \in Nat /\ MaxEvents \in Nat /\ MaxIndex \in Nat
      /\ MaxCrashes \in Nat
  BY LogAssumption DEF LogAssumption
<1>a. LogTypeOK /\ BatchFits
  BY DEF TypeInv
<1>b. /\ next \in 1 .. MaxEvents + 1 /\ todo \in 0 .. MaxBatch /\ crashes \in 0 .. MaxCrashes
      /\ rotationIndex \in 0 .. MaxIndex
      /\ logPending \subseteq 1 .. next - 1 /\ logAcked \subseteq 1 .. next - 1
      /\ next + todo <= MaxEvents + 1
      /\ file \in [Index -> Seq(Line)] /\ store \in [Index -> Seq(Line)]
      /\ run \in [1 .. next - 1 -> 0 .. crashes]
      /\ SizeAfterOpen \in Nat
  BY <1>a, SizeIsNat DEF LogTypeOK, BatchFits, Index
<1>c. Marker \in Line /\ Torn \in Line
  BY DEF Line
<1>1. ASSUME NEW n \in 1 .. MaxBatch, Call(n) PROVE TypeInv'
  BY <1>0, <1>a, <1>b, <1>1 DEF TypeInv, LogTypeOK, BatchFits, Call, diskVars, historyVars
<1>2. ASSUME WriteLine PROVE TypeInv'
  <2>1. next \in Event
    BY <1>0, <1>b, <1>2 DEF WriteLine, Event
  <2>2. [kind |-> "event", id |-> next] \in Line
    BY <2>1 DEF Line
  <2>3. file' \in [Index -> Seq(Line)]
    BY <1>a, <1>2, <2>2, AppendGrows DEF WriteLine, PutLine, Grown
  <2>4. written' \in Nat
    BY <1>0, <1>b, <1>2 DEF WriteLine, PutLine
  <2>5. run' \in [1 .. next' - 1 -> 0 .. crashes']
    <3>1. run \in Seq(0 .. crashes) /\ Len(run) = next - 1
      <4>1. PICK n \in Nat : n = next - 1
        BY <1>b
      <4>2. run \in [1 .. n -> 0 .. crashes]
        BY <1>b, <4>1
      <4>3. run \in Seq(0 .. crashes)
        BY <4>2, SeqDef
      <4>4. Len(run) \in Nat /\ 1 .. Len(run) = 1 .. n
        BY <4>2, <4>3, LenProperties
      <4> QED
        BY <4>1, <4>3, <4>4
    <3>2. crashes \in 0 .. crashes
      BY <1>b
    <3>3. Append(run, crashes) \in Seq(0 .. crashes) /\ Len(Append(run, crashes)) = Len(run) + 1
      BY <3>1, <3>2, AppendProperties
    <3>4. Append(run, crashes) \in [1 .. Len(Append(run, crashes)) -> 0 .. crashes]
      BY <3>3, LenProperties
    <3>5. Len(Append(run, crashes)) = next' - 1
      BY <1>b, <1>2, <3>1, <3>3 DEF WriteLine
    <3> QED
      BY <1>2, <3>4, <3>5 DEF WriteLine
  <2>6. /\ next' \in 1 .. MaxEvents + 1
        /\ todo' \in 0 .. MaxBatch
        /\ logPending' \subseteq 1 .. next' - 1 /\ logAcked' \subseteq 1 .. next' - 1
        /\ next' + todo' <= MaxEvents + 1
        /\ pc' \in {"line", "marker"}
    BY <1>0, <1>b, <1>2 DEF WriteLine
  <2>7. /\ store' \in [Index -> Seq(Line)] /\ rotationIndex' \in Index
        /\ crashes' \in 0 .. MaxCrashes /\ handle' \in BOOLEAN
    BY <1>a, <1>2 DEF WriteLine, LogTypeOK
  <2> QED
    BY <2>3, <2>4, <2>5, <2>6, <2>7 DEF TypeInv, LogTypeOK, BatchFits
<1>3. ASSUME Return PROVE TypeInv'
  BY <1>0, <1>a, <1>b, <1>3 DEF TypeInv, LogTypeOK, BatchFits, Return, diskVars
<1>4. ASSUME ForceRotation PROVE TypeInv'
  BY <1>0, <1>a, <1>b, <1>4 DEF TypeInv, LogTypeOK, BatchFits, ForceRotation, diskVars, historyVars
<1>5. ASSUME Close PROVE TypeInv'
  BY <1>0, <1>a, <1>b, <1>5 DEF TypeInv, LogTypeOK, BatchFits, Close, diskVars, historyVars
<1>6. ASSUME WriteMarker PROVE TypeInv'
  <2>1. file' \in [Index -> Seq(Line)]
    BY <1>a, <1>c, <1>6, AppendGrows DEF WriteMarker, PutLine, Grown
  <2>2. written' \in Nat
    BY <1>b, <1>6 DEF WriteMarker, PutLine
  <2> QED
    BY <1>0, <1>a, <1>b, <1>6, <2>1, <2>2 DEF TypeInv, LogTypeOK, BatchFits, WriteMarker, historyVars
<1>7. ASSUME UploadStores PROVE TypeInv'
  <2>1. store' \in [Index -> Seq(Line)]
    BY <1>b, <1>7 DEF UploadStores, Index
  <2> QED
    BY <1>0, <1>a, <1>b, <1>7, <2>1 DEF TypeInv, LogTypeOK, BatchFits, UploadStores, historyVars
<1>8. ASSUME UploadIgnored PROVE TypeInv'
  BY <1>0, <1>a, <1>b, <1>8 DEF TypeInv, LogTypeOK, BatchFits, UploadIgnored, diskVars, historyVars
<1>9. ASSUME UploadRaises PROVE TypeInv'
  BY <1>0, <1>a, <1>b, <1>9 DEF TypeInv, LogTypeOK, BatchFits, UploadRaises, diskVars, historyVars
<1>10. ASSUME Advance PROVE TypeInv'
  <2>1. rotationIndex' \in Index
    BY <1>0, <1>b, <1>10 DEF Advance, Index
  <2> QED
    BY <1>0, <1>a, <1>b, <1>10, <2>1 DEF TypeInv, LogTypeOK, BatchFits, Advance, diskVars, historyVars
<1>11. ASSUME Crash PROVE TypeInv'
  <2>1. file' \in [Index -> Seq(Line)]
    <3>1. CASE UNCHANGED file
      BY <1>b, <3>1
    <3>2. CASE file' = [file EXCEPT ![rotationIndex] = Append(@, Torn)]
      BY <1>a, <1>c, <3>2, AppendGrows DEF Grown
    <3> QED
      BY <1>11, <3>1, <3>2 DEF Crash
  <2>2. /\ store' \in [Index -> Seq(Line)] /\ rotationIndex' \in Index
        /\ written' \in Nat
        /\ pc' = "idle" /\ todo' \in 0 .. MaxBatch
        /\ next' \in 1 .. MaxEvents + 1
        /\ logPending' \subseteq 1 .. next' - 1 /\ logAcked' \subseteq 1 .. next' - 1
        /\ crashes' \in 0 .. MaxCrashes
        /\ next' + todo' <= MaxEvents + 1
    BY <1>0, <1>b, <1>11 DEF Crash, Index
  <2>3. handle' \in BOOLEAN
    BY <1>11, Zenon DEF Crash
  <2>4. run' \in [1 .. next' - 1 -> 0 .. crashes']
    <3>1. run' = run /\ next' = next /\ 0 .. crashes \subseteq 0 .. crashes'
      BY <1>0, <1>b, <1>11 DEF Crash
    <3> QED
      BY <1>b, <3>1
  <2> QED
    BY <2>1, <2>2, <2>3, <2>4 DEF TypeInv, LogTypeOK, BatchFits
<1>12. CASE UNCHANGED logVars
  BY <1>a, <1>12 DEF TypeInv, LogTypeOK, BatchFits, logVars, diskVars, processVars, historyVars
<1> QED
  BY <1>1, <1>2, <1>3, <1>4, <1>5, <1>6, <1>7, <1>8, <1>9, <1>10, <1>11, <1>12 DEF LogNext

\* The log's variables keep their types, and no batch outgrows its bound.
THEOREM LogTypeCorrect == LogSpec => []LogTypeOK
<1>1. TypeInv => LogTypeOK
  BY DEF TypeInv
<1> QED
  BY TypeInit, TypeStep, <1>1, PTL DEF LogSpec

----------------------------------------------------------------------------
(* What a step does to the files.                                           *)

EventLine(e) == [kind |-> "event", id |-> e]

LEMMA WriteLineGrows ==
  ASSUME TypeInv, WriteLine
  PROVE  next \in Event /\ Grown(EventLine(next))
<1>1. next \in Event
  BY LogAssumption DEF WriteLine, Event, TypeInv, LogTypeOK, BatchFits, LogAssumption
<1>2. EventLine(next) \in Line
  BY <1>1 DEF Line, EventLine
<1>3. LogTypeOK
  BY DEF TypeInv
<1> QED
  BY <1>1, <1>2, <1>3, AppendGrows DEF WriteLine, PutLine, EventLine

\* Only three steps write to a file, and each of them adds one line to the
\* current one.
LEMMA StepWrites ==
  ASSUME TypeInv, [LogNext]_logVars
  PROVE  \/ UNCHANGED <<file, next, run>>
         \/ WriteLine /\ Grown(EventLine(next)) /\ next \in Event
         \/ WriteMarker /\ Grown(Marker) /\ UNCHANGED <<next, run>>
         \/ Crash /\ Grown(Torn) /\ UNCHANGED <<next, run>>
<1>a. LogTypeOK /\ BatchFits
  BY DEF TypeInv
<1>b. Marker \in Line /\ Torn \in Line
  BY DEF Line
<1>1. CASE WriteLine
  BY <1>1, WriteLineGrows
<1>2. CASE WriteMarker
  BY <1>a, <1>b, <1>2, AppendGrows DEF WriteMarker, PutLine, historyVars
<1>3. CASE Crash
  BY <1>a, <1>b, <1>3, AppendGrows DEF Crash
<1>4. ASSUME NEW n \in 1 .. MaxBatch, Call(n) PROVE UNCHANGED <<file, next, run>>
  BY <1>4 DEF Call, diskVars, historyVars
<1>5. CASE Return \/ ForceRotation \/ Close
  BY <1>5 DEF Return, ForceRotation, Close, diskVars, historyVars
<1>6. CASE UploadStores \/ UploadIgnored \/ UploadRaises \/ Advance
  BY <1>6 DEF UploadStores, UploadIgnored, UploadRaises, Advance, diskVars, historyVars
<1>7. CASE UNCHANGED logVars
  BY <1>7 DEF logVars, diskVars, historyVars
<1> QED
  BY <1>1, <1>2, <1>3, <1>4, <1>5, <1>6, <1>7 DEF LogNext

----------------------------------------------------------------------------
(* Sealed files and stored copies.                                          *)

Sealed(lines) == Len(lines) >= 1 /\ lines[Len(lines)] = Marker

\* The rotation event stays last while the old file is uploaded.
SealedForUpload == pc \in {"upload", "advance"} => Sealed(file[rotationIndex])

RotatedAreSealed == \A i \in 0 .. rotationIndex - 1 : Sealed(file[i])

\* A stored copy is sealed, and line by line the beginning of the local file.
CopyIsBeginning(i) ==
  /\ Sealed(store[i])
  /\ Len(store[i]) <= Len(file[i])
  /\ \A j \in 1 .. Len(store[i]) : store[i][j] = file[i][j]

StoredAreSealed == \A i \in Index : store[i] # <<>> => CopyIsBeginning(i)

SealInv == SealedForUpload /\ RotatedAreSealed /\ StoredAreSealed

LEMMA SealInit == LogInit => SealInv
BY DEF LogInit, SealInv, SealedForUpload, RotatedAreSealed, StoredAreSealed

\* A line more at the end of a local file takes nothing from a stored copy.
LEMMA StoredStaysSealed ==
  ASSUME LogTypeOK, StoredAreSealed, store' = store,
         NEW line, file' = file \/ Grown(line)
  PROVE  StoredAreSealed'
<1> SUFFICES ASSUME NEW i \in Index, store[i] # <<>>
             PROVE  CopyIsBeginning(i)'
  BY DEF StoredAreSealed
<1>1. CopyIsBeginning(i)
  BY DEF StoredAreSealed
<1>2. Len(store[i]) \in Nat
  <2>1. store[i] \in Seq(Line)
    BY DEF LogTypeOK
  <2> QED
    BY <2>1, LenProperties
<1>3. Len(file[i]) \in Nat
  BY FileFacts
<1>4. CASE file' = file
  BY <1>1, <1>4 DEF CopyIsBeginning, Sealed
<1>5. CASE Grown(line) /\ i # rotationIndex
  <2>1. file'[i] = file[i]
    BY <1>5 DEF Grown
  <2> QED
    BY <1>1, <2>1 DEF CopyIsBeginning, Sealed
<1>6. CASE Grown(line) /\ i = rotationIndex
  <2>1. /\ Len(file'[i]) = Len(file[i]) + 1
        /\ \A j \in 1 .. Len(file[i]) : file'[i][j] = file[i][j]
    BY <1>6 DEF Grown
  <2> QED
    BY SMTT(30), <1>1, <1>2, <1>3, <2>1 DEF CopyIsBeginning, Sealed
<1> QED
  BY <1>4, <1>5, <1>6

\* Every step keeps the seals.
LEMMA SealStep == TypeInv /\ SealInv /\ [LogNext]_logVars => SealInv'
<1> SUFFICES ASSUME TypeInv, SealInv, [LogNext]_logVars
             PROVE  SealInv'
  OBVIOUS
<1>a. LogTypeOK /\ rotationIndex \in 0 .. MaxIndex /\ MaxIndex \in Nat
  BY LogAssumption DEF TypeInv, LogTypeOK, Index, LogAssumption
<1>b. SealedForUpload /\ RotatedAreSealed /\ StoredAreSealed
  BY DEF SealInv
<1>c. \A i \in 0 .. rotationIndex - 1 : i \in Index /\ i # rotationIndex
  BY <1>a DEF Index
<1>1. ASSUME NEW n \in 1 .. MaxBatch, Call(n) PROVE SealInv'
  BY <1>b, <1>1 DEF SealInv, SealedForUpload, RotatedAreSealed, StoredAreSealed, CopyIsBeginning,
                    Call, diskVars
<1>2. ASSUME Return \/ ForceRotation \/ Close PROVE SealInv'
  BY <1>b, <1>2 DEF SealInv, SealedForUpload, RotatedAreSealed, StoredAreSealed, CopyIsBeginning,
                    Return, ForceRotation, Close, diskVars
<1>3. ASSUME WriteLine PROVE SealInv'
  <2>1. Grown(EventLine(next)) /\ store' = store /\ rotationIndex' = rotationIndex
    BY <1>3, WriteLineGrows DEF WriteLine
  <2>2. pc' \in {"line", "marker"}
    BY <1>3 DEF WriteLine
  <2>3. RotatedAreSealed'
    BY <1>b, <1>c, <2>1 DEF RotatedAreSealed, Sealed, Grown
  <2> QED
    BY <1>a, <1>b, <2>1, <2>2, <2>3, StoredStaysSealed DEF SealInv, SealedForUpload
<1>4. ASSUME WriteMarker PROVE SealInv'
  <2>1. Grown(Marker) /\ store' = store /\ rotationIndex' = rotationIndex
    BY <1>a, <1>4, AppendGrows DEF WriteMarker, PutLine, Line
  <2>2. SealedForUpload'
    <3>1. Len(file[rotationIndex]) \in Nat
      BY <1>a, FileFacts
    <3> QED
      BY <2>1, <3>1 DEF SealedForUpload, Sealed, Grown
  <2>3. RotatedAreSealed'
    BY <1>b, <1>c, <2>1 DEF RotatedAreSealed, Sealed, Grown
  <2> QED
    BY <1>a, <1>b, <2>1, <2>2, <2>3, StoredStaysSealed DEF SealInv
<1>5. ASSUME UploadStores PROVE SealInv'
  <2>1. /\ file' = file /\ rotationIndex' = rotationIndex
        /\ Sealed(file[rotationIndex])
        /\ store' = [store EXCEPT ![rotationIndex] = file[rotationIndex]]
    BY <1>b, <1>5 DEF UploadStores, SealedForUpload
  <2>2. StoredAreSealed'
    <3> SUFFICES ASSUME NEW i \in Index, store'[i] # <<>>
                 PROVE  CopyIsBeginning(i)'
      BY DEF StoredAreSealed
    <3>1. store \in [Index -> Seq(Line)] /\ Len(file[i]) \in Nat
      BY <1>a, FileFacts DEF LogTypeOK
    <3>2. CASE i = rotationIndex
      <4>1. store'[i] = file[i]
        BY <2>1, <3>1, <3>2
      <4> QED
        BY <2>1, <3>1, <3>2, <4>1 DEF CopyIsBeginning, Sealed
    <3>3. CASE i # rotationIndex
      <4>1. store'[i] = store[i]
        BY <2>1, <3>1, <3>3
      <4> QED
        BY <1>b, <2>1, <4>1 DEF CopyIsBeginning, StoredAreSealed, Sealed
    <3> QED
      BY <3>2, <3>3
  <2> QED
    BY <1>b, <2>1, <2>2 DEF SealInv, SealedForUpload, RotatedAreSealed
<1>6. ASSUME UploadIgnored \/ UploadRaises PROVE SealInv'
  BY <1>b, <1>6 DEF SealInv, SealedForUpload, RotatedAreSealed, StoredAreSealed, CopyIsBeginning,
                    UploadIgnored, UploadRaises, diskVars
<1>7. ASSUME Advance PROVE SealInv'
  <2>1. /\ file' = file /\ store' = store /\ rotationIndex' = rotationIndex + 1
        /\ pc' = "line" /\ Sealed(file[rotationIndex])
    BY <1>b, <1>7 DEF Advance, diskVars, SealedForUpload
  <2>2. RotatedAreSealed'
    BY <1>a, <1>b, <2>1 DEF RotatedAreSealed, Sealed
  <2> QED
    BY <1>b, <2>1, <2>2 DEF SealInv, SealedForUpload, StoredAreSealed, CopyIsBeginning
<1>8. ASSUME Crash PROVE SealInv'
  <2>1. /\ file' = file \/ Grown(Torn)
        /\ store' = store /\ rotationIndex' = 0 /\ pc' = "idle"
    BY <1>a, <1>8, AppendGrows DEF Crash, Line
  <2>2. StoredAreSealed'
    BY <1>a, <1>b, <2>1, StoredStaysSealed
  <2> QED
    BY <2>1, <2>2 DEF SealInv, SealedForUpload, RotatedAreSealed
<1>9. CASE UNCHANGED logVars
  BY <1>b, <1>9 DEF SealInv, SealedForUpload, RotatedAreSealed, StoredAreSealed, CopyIsBeginning,
                    logVars, diskVars, processVars
<1> QED
  BY <1>1, <1>2, <1>3, <1>4, <1>5, <1>6, <1>7, <1>8, <1>9 DEF LogNext

\* A file that the process has rotated away from ends with the rotation event:
\* _rotate writes it last, and nothing is written to that file any more.
THEOREM RotatedFilesStayMarked == LogSpec => []RotatedFilesAreMarked
<1>1. TypeInv /\ SealInv => RotatedFilesAreMarked
  BY EmptySeq DEF SealInv, RotatedAreSealed, Sealed, RotatedFilesAreMarked
<1> QED
  BY TypeInit, TypeStep, SealInit, SealStep, <1>1, PTL DEF LogSpec

\* What the store keeps for ever was sealed and is the beginning of the local
\* file, whatever is forced to rotate, fails to upload or crashes.
THEOREM StoredCopiesStaySealed == LogSpec => []StoredCopiesAreSealed
<1>1. TypeInv /\ SealInv => StoredCopiesAreSealed
  <2> SUFFICES ASSUME TypeInv, SealInv, NEW i \in Index, store[i] # <<>>
               PROVE  /\ store[i][Len(store[i])] = Marker
                      /\ store[i] = SubSeq(file[i], 1, Len(store[i]))
    BY DEF StoredCopiesAreSealed
  <2>1. CopyIsBeginning(i)
    BY DEF SealInv, StoredAreSealed
  <2>2. store[i] \in Seq(Line) /\ file[i] \in Seq(Line)
    BY DEF TypeInv, LogTypeOK
  <2>3. PICK n \in Nat : n = Len(store[i])
    BY <2>2, LenProperties
  <2>4. Len(file[i]) \in Nat /\ \A j \in 1 .. Len(file[i]) : file[i][j] \in Line
    BY <2>2, LenProperties, ElementOfSeq
  <2>5. \A j \in 1 .. n : file[i][j] \in Line
    BY <2>1, <2>3, <2>4 DEF CopyIsBeginning
  <2>6. /\ SubSeq(file[i], 1, n) \in Seq(Line)
        /\ Len(SubSeq(file[i], 1, n)) = n
        /\ \A j \in 1 .. n : SubSeq(file[i], 1, n)[j] = file[i][j]
    BY <2>3, <2>5, SubSeqProperties
  <2>7. store[i] = SubSeq(file[i], 1, n)
    BY <2>1, <2>2, <2>3, <2>6, SeqEqual DEF CopyIsBeginning
  <2> QED
    BY <2>1, <2>3, <2>7 DEF CopyIsBeginning, Sealed
<1> QED
  BY TypeInit, TypeStep, SealInit, SealStep, <1>1, PTL DEF LogSpec

----------------------------------------------------------------------------
(* The copies of the events.                                                *)

\* The event's line is line j of file i.
EventAt(i, j, e) == i \in Index /\ j \in 1 .. Len(file[i]) /\ file[i][j] = EventLine(e)

NoEarlyCopies == \A i \in Index, j \in Nat, e \in Nat : EventAt(i, j, e) => e \in 1 .. next - 1
EveryEventIsWritten == \A e \in 1 .. next - 1 : \E i \in Index, j \in Nat : EventAt(i, j, e)
WrittenOnce ==
  \A e \in Nat, i, k \in Index, j, l \in Nat :
    EventAt(i, j, e) /\ EventAt(k, l, e) => i = k /\ j = l

\* What this process wrote is not behind its current file.
BehindTheCurrentFile ==
  \A e \in 1 .. next - 1 : run[e] = crashes =>
    \A i \in Index, j \in Nat : EventAt(i, j, e) => i <= rotationIndex

InOrderOfProcess ==
  \A d, e \in 1 .. next - 1 : d < e /\ run[d] = run[e] =>
    \A i, k \in Index, j, l \in Nat :
      EventAt(i, j, d) /\ EventAt(k, l, e) => i < k \/ (i = k /\ j < l)

CopyInv ==
  /\ NoEarlyCopies /\ EveryEventIsWritten /\ WrittenOnce
  /\ BehindTheCurrentFile /\ InOrderOfProcess

LEMMA CopyInit == LogInit => CopyInv
<1> SUFFICES ASSUME LogInit
             PROVE  CopyInv
  OBVIOUS
<1>1. next = 1 /\ \A i \in Index : Len(file[i]) = 0
  BY EmptySeq DEF LogInit
<1>2. \A i \in Index, j \in Nat, e \in Nat : ~EventAt(i, j, e)
  BY <1>1 DEF EventAt
<1> QED
  BY <1>1, <1>2 DEF CopyInv, NoEarlyCopies, EveryEventIsWritten, WrittenOnce,
                    BehindTheCurrentFile, InOrderOfProcess

\* A line at the end of the current file is a copy of what it says, and the
\* copies there were stay where they were.
LEMMA GrownCopies ==
  ASSUME LogTypeOK, NEW line \in Line, Grown(line),
         NEW i \in Index, NEW j \in Nat, NEW e \in Nat
  PROVE  EventAt(i, j, e)' <=>
           \/ EventAt(i, j, e)
           \/ i = rotationIndex /\ j = Len(file[i]) + 1 /\ line = EventLine(e)
<1>1. Len(file[i]) \in Nat
  BY FileFacts
<1>2. CASE i # rotationIndex
  <2>1. file'[i] = file[i]
    BY <1>2 DEF Grown
  <2> QED
    BY <1>2, <2>1 DEF EventAt, EventLine
<1>3. CASE i = rotationIndex
  <2>1. /\ Len(file'[i]) = Len(file[i]) + 1
        /\ \A k \in 1 .. Len(file[i]) : file'[i][k] = file[i][k]
        /\ file'[i][Len(file[i]) + 1] = line
    BY <1>3 DEF Grown
  <2>2. j \in 1 .. Len(file'[i]) <=> j \in 1 .. Len(file[i]) \/ j = Len(file[i]) + 1
    BY <1>1, <2>1
  <2>3. j = Len(file[i]) + 1 => j \notin 1 .. Len(file[i])
    BY <1>1
  <2>4. CASE j = Len(file[i]) + 1
    BY <1>3, <2>1, <2>2, <2>3, <2>4 DEF EventAt, EventLine
  <2>5. CASE j # Len(file[i]) + 1
    BY <1>3, <2>1, <2>2, <2>5 DEF EventAt, EventLine
  <2> QED
    BY <2>4, <2>5
<1> QED
  BY <1>2, <1>3

\* Every step keeps the copies.
LEMMA CopyStep == TypeInv /\ CopyInv /\ [LogNext]_logVars => CopyInv'
<1> SUFFICES ASSUME TypeInv, CopyInv, [LogNext]_logVars
             PROVE  CopyInv'
  OBVIOUS
<1>a. /\ LogTypeOK
      /\ next \in Nat /\ next >= 1 /\ crashes \in Nat
      /\ run \in [1 .. next - 1 -> 0 .. crashes]
      /\ rotationIndex \in Index /\ rotationIndex \in Nat
      /\ Index \subseteq Nat
  BY SMTT(30), LogAssumption DEF TypeInv, LogTypeOK, Index, LogAssumption
<1>b. NoEarlyCopies /\ EveryEventIsWritten /\ WrittenOnce /\ BehindTheCurrentFile /\ InOrderOfProcess
  BY DEF CopyInv
<1>c. Marker \in Line /\ Torn \in Line /\ \A e : EventLine(e) # Marker /\ EventLine(e) # Torn
  BY DEF Line, Marker, Torn, EventLine
<1>1. CASE WriteLine
  <2>1. next \in Event /\ Grown(EventLine(next))
    BY <1>1, WriteLineGrows
  <2>2. EventLine(next) \in Line /\ \A e : EventLine(next) = EventLine(e) => e = next
    BY <2>1 DEF Line, EventLine
  <2>3. PICK r \in Index, n \in Nat : r = rotationIndex /\ n = Len(file[rotationIndex])
    BY <1>a, FileFacts
  <2>4. ASSUME NEW i \in Index, NEW j \in Nat, NEW e \in Nat
        PROVE  EventAt(i, j, e)' <=>
                 EventAt(i, j, e) \/ (i = r /\ j = n + 1 /\ e = next)
    BY <1>a, <2>1, <2>2, <2>3, GrownCopies
  <2>5. \A j \in Nat, e \in Nat : EventAt(r, j, e) => j <= n
    BY <2>3 DEF EventAt
  <2>6. next' = next + 1 /\ crashes' = crashes /\ rotationIndex' = rotationIndex
    BY <1>1 DEF WriteLine
  <2>7. \A e \in 1 .. next - 1 : run'[e] = run[e]
    BY <1>a, <1>1 DEF WriteLine
  <2>8. run'[next] = crashes
    BY <1>a, <1>1 DEF WriteLine
  <2>9. NoEarlyCopies' /\ WrittenOnce'
    <3>1. NoEarlyCopies'
      BY <1>a, <1>b, <2>4, <2>6 DEF NoEarlyCopies
    <3>2. WrittenOnce'
      BY SMTT(30), <1>a, <1>b, <2>4 DEF NoEarlyCopies, WrittenOnce
    <3> QED
      BY <3>1, <3>2
  <2>10. EveryEventIsWritten'
    <3> SUFFICES ASSUME NEW e \in 1 .. next
                 PROVE  \E i \in Index, j \in Nat : EventAt(i, j, e)'
      BY <1>a, <2>6 DEF EveryEventIsWritten
    <3>1. CASE e = next
      BY <1>a, <2>3, <2>4, <3>1
    <3>2. CASE e # next
      <4>1. e \in 1 .. next - 1
        BY <1>a, <3>2
      <4>2. PICK i \in Index, j \in Nat : EventAt(i, j, e)
        BY <1>b, <4>1 DEF EveryEventIsWritten
      <4> QED
        BY <2>4, <4>1, <4>2
    <3> QED
      BY <3>1, <3>2
  <2>11. BehindTheCurrentFile'
    BY <1>a, <1>b, <2>3, <2>4, <2>6, <2>7 DEF BehindTheCurrentFile, NoEarlyCopies
  <2>12. InOrderOfProcess'
    BY SMTT(30), <1>a, <1>b, <2>3, <2>4, <2>5, <2>6, <2>7, <2>8
       DEF InOrderOfProcess, BehindTheCurrentFile, NoEarlyCopies
  <2> QED
    BY <2>9, <2>10, <2>11, <2>12 DEF CopyInv
<1>2. CASE ~WriteLine
  <2>1. ASSUME NEW i \in Index, NEW j \in Nat, NEW e \in Nat
        PROVE  EventAt(i, j, e)' <=> EventAt(i, j, e)
    <3>1. CASE UNCHANGED file
      BY <3>1 DEF EventAt, EventLine
    <3>2. CASE Grown(Marker) \/ Grown(Torn)
      BY <1>a, <1>c, <3>2, GrownCopies
    <3> QED
      BY <1>2, <3>1, <3>2, StepWrites
  <2>2. next' = next /\ run' = run
    BY <1>2, StepWrites
  <2>3. \/ crashes' = crashes /\ rotationIndex' \in Nat /\ rotationIndex' >= rotationIndex
        \/ crashes' = crashes + 1
    <3>1. ASSUME NEW n \in 1 .. MaxBatch, Call(n)
          PROVE  crashes' = crashes /\ rotationIndex' = rotationIndex
      BY <3>1 DEF Call, historyVars
    <3>2. CASE Return \/ ForceRotation \/ Close \/ WriteMarker
      BY <1>a, <3>2 DEF Return, ForceRotation, Close, WriteMarker, historyVars
    <3>3. CASE UploadStores \/ UploadIgnored \/ UploadRaises \/ Advance
      BY <1>a, <3>3 DEF UploadStores, UploadIgnored, UploadRaises, Advance, historyVars
    <3>4. CASE Crash
      BY <3>4 DEF Crash
    <3>5. CASE UNCHANGED logVars
      BY <1>a, <3>5 DEF logVars, historyVars, processVars
    <3> QED
      BY <1>a, <1>2, <3>1, <3>2, <3>3, <3>4, <3>5 DEF LogNext
  <2>3a. \A e \in 1 .. next - 1 : run[e] \in Nat /\ run[e] <= crashes
    BY <1>a
  <2>4. NoEarlyCopies' /\ EveryEventIsWritten' /\ WrittenOnce'
    BY <1>b, <2>1, <2>2 DEF NoEarlyCopies, EveryEventIsWritten, WrittenOnce
  <2>5. BehindTheCurrentFile'
    BY <1>a, <1>b, <2>1, <2>2, <2>3, <2>3a DEF BehindTheCurrentFile
  <2>6. InOrderOfProcess'
    BY <1>b, <2>1, <2>2 DEF InOrderOfProcess
  <2> QED
    BY <2>4, <2>5, <2>6 DEF CopyInv
<1> QED
  BY <1>1, <1>2

\* Positions and Copies in terms of the lines of the files.
LEMMA CopiesAreEventAt ==
  ASSUME LogTypeOK, NEW e
  PROVE  /\ \A p \in Copies(e) :
              /\ p[1] \in Index /\ p[2] \in Nat /\ EventAt(p[1], p[2], e)
              /\ p = <<p[1], p[2]>>
         /\ \A i \in Index, j \in Nat : EventAt(i, j, e) => <<i, j>> \in Copies(e)
<1>1. \A i \in Index : DOMAIN file[i] = 1 .. Len(file[i]) /\ Len(file[i]) \in Nat
  BY FileFacts
<1>2. \A p \in Positions :
        /\ p[1] \in Index /\ p[2] \in Nat /\ p[2] \in 1 .. Len(file[p[1]])
        /\ p = <<p[1], p[2]>>
  BY <1>1 DEF Positions
<1>3. \A i \in Index : \A j \in 1 .. Len(file[i]) : <<i, j>> \in Positions
  BY <1>1 DEF Positions
<1> QED
  BY <1>2, <1>3 DEF Copies, EventAt, EventLine

\* Read in the order of their rotation indexes, the files hold the events of
\* any one process in the order it appended them.
THEOREM FilesStayInOrder == LogSpec => []FilesKeepTheOrderOfAProcess
<1>1. TypeInv /\ CopyInv => FilesKeepTheOrderOfAProcess
  <2> SUFFICES ASSUME TypeInv, CopyInv,
                      NEW d \in 1 .. next - 1, NEW e \in 1 .. next - 1,
                      d < e, run[d] = run[e],
                      NEW p \in Copies(d), NEW q \in Copies(e)
               PROVE  p[1] < q[1] \/ (p[1] = q[1] /\ p[2] < q[2])
    BY DEF FilesKeepTheOrderOfAProcess
  <2>1. /\ p[1] \in Index /\ p[2] \in Nat /\ EventAt(p[1], p[2], d)
        /\ q[1] \in Index /\ q[2] \in Nat /\ EventAt(q[1], q[2], e)
    BY CopiesAreEventAt DEF TypeInv
  <2> QED
    BY <2>1 DEF CopyInv, InOrderOfProcess
<1> QED
  BY TypeInit, TypeStep, CopyInit, CopyStep, <1>1, PTL DEF LogSpec

----------------------------------------------------------------------------
(* Torn lines.                                                              *)

TornLines == {p \in Index \X Nat : p[2] \in 1 .. Len(file[p[1]]) /\ file[p[1]][p[2]] = Torn}

\* No crash tears more than one line.
TornInv == IsFiniteSet(TornLines) /\ Cardinality(TornLines) <= crashes

LEMMA TornInit == LogInit => TornInv
<1> SUFFICES ASSUME LogInit
             PROVE  TornInv
  OBVIOUS
<1>1. crashes = 0 /\ \A i \in Index : Len(file[i]) = 0
  BY EmptySeq DEF LogInit
<1>2. TornLines = {}
  BY <1>1 DEF TornLines
<1> QED
  BY <1>1, <1>2, FS_EmptySet DEF TornInv

\* A line at the end of the current file is torn only if it is written so.
LEMMA GrownTorn ==
  ASSUME LogTypeOK, NEW line, Grown(line)
  PROVE  TornLines' = IF line = Torn
                      THEN TornLines \cup {<<rotationIndex, Len(file[rotationIndex]) + 1>>}
                      ELSE TornLines
<1>1. rotationIndex \in Index /\ \A i \in Index : Len(file[i]) \in Nat
  BY FileFacts
<1>2. ASSUME NEW i \in Index, NEW j \in Nat
      PROVE  <<i, j>> \in TornLines' <=>
               \/ <<i, j>> \in TornLines
               \/ line = Torn /\ i = rotationIndex /\ j = Len(file[rotationIndex]) + 1
  <2>1. CASE i # rotationIndex
    BY <2>1 DEF TornLines, Grown
  <2>2. CASE i = rotationIndex
    <3>1. /\ Len(file'[i]) = Len(file[i]) + 1
          /\ \A k \in 1 .. Len(file[i]) : file'[i][k] = file[i][k]
          /\ file'[i][Len(file[i]) + 1] = line
      BY <2>2 DEF Grown
    <3>2. j \in 1 .. Len(file'[i]) <=> j \in 1 .. Len(file[i]) \/ j = Len(file[i]) + 1
      BY <1>1, <3>1
    <3>3. j = Len(file[i]) + 1 => j \notin 1 .. Len(file[i])
      BY <1>1
    <3> QED
      BY <2>2, <3>1, <3>2, <3>3 DEF TornLines
  <2> QED
    BY <2>1, <2>2
<1>3. TornLines \subseteq Index \X Nat /\ TornLines' \subseteq Index \X Nat
  BY DEF TornLines
<1>4. PICK r \in Index, n \in Nat : r = rotationIndex /\ n = Len(file[rotationIndex]) + 1
  BY <1>1
<1>5. ASSUME NEW p \in Index \X Nat
      PROVE  p \in TornLines' <=> p \in TornLines \/ (line = Torn /\ p = <<r, n>>)
  <2>1. PICK i \in Index, j \in Nat : p = <<i, j>>
    OBVIOUS
  <2> QED
    BY <1>2, <1>4, <2>1
<1>6. <<r, n>> \in Index \X Nat
  OBVIOUS
<1>7. CASE line = Torn
  <2>1. TornLines' = TornLines \cup {<<r, n>>}
    BY <1>3, <1>5, <1>6, <1>7
  <2> QED
    BY <1>4, <1>7, <2>1
<1>8. CASE line # Torn
  <2>1. TornLines' = TornLines
    BY <1>3, <1>5, <1>8
  <2> QED
    BY <1>8, <2>1
<1> QED
  BY <1>7, <1>8

\* Every step keeps the count of the torn lines.
LEMMA TornStep == TypeInv /\ TornInv /\ [LogNext]_logVars => TornInv'
<1> SUFFICES ASSUME TypeInv, TornInv, [LogNext]_logVars
             PROVE  TornInv'
  OBVIOUS
<1>a. LogTypeOK /\ crashes \in Nat
  BY LogAssumption DEF TypeInv, LogTypeOK, LogAssumption
<1>b. IsFiniteSet(TornLines) /\ Cardinality(TornLines) <= crashes
  BY DEF TornInv
<1>c. Marker # Torn /\ \A e : EventLine(e) # Torn
  BY DEF Marker, Torn, EventLine
<1>1. crashes' \in {crashes, crashes + 1}
  <2>1. ASSUME NEW n \in 1 .. MaxBatch, Call(n) PROVE crashes' = crashes
    BY <2>1 DEF Call, historyVars
  <2>2. CASE WriteLine \/ Return \/ ForceRotation \/ Close \/ WriteMarker
    BY <2>2 DEF WriteLine, Return, ForceRotation, Close, WriteMarker, historyVars
  <2>3. CASE UploadStores \/ UploadIgnored \/ UploadRaises \/ Advance
    BY <2>3 DEF UploadStores, UploadIgnored, UploadRaises, Advance, historyVars
  <2>4. CASE Crash
    BY <2>4 DEF Crash
  <2>5. CASE UNCHANGED logVars
    BY <2>5 DEF logVars, historyVars
  <2> QED
    BY <2>1, <2>2, <2>3, <2>4, <2>5 DEF LogNext
<1>2. CASE TornLines' = TornLines
  BY <1>a, <1>b, <1>1, <1>2, FS_CardinalityType DEF TornInv
<1>3. CASE Crash /\ Grown(Torn)
  <2>1. PICK x : TornLines' = TornLines \cup {x}
    BY <1>a, <1>3, GrownTorn
  <2>2. /\ IsFiniteSet(TornLines \cup {x})
        /\ Cardinality(TornLines \cup {x}) \in {Cardinality(TornLines), Cardinality(TornLines) + 1}
    BY <1>b, FS_AddElement
  <2>3. Cardinality(TornLines) \in Nat
    BY <1>b, FS_CardinalityType
  <2>4. crashes' = crashes + 1
    BY <1>3 DEF Crash
  <2> QED
    BY <1>a, <1>b, <2>1, <2>2, <2>3, <2>4 DEF TornInv
<1>4. CASE UNCHANGED file
  <2>1. TornLines' = TornLines
    BY <1>4 DEF TornLines
  <2> QED
    BY <2>1, <1>2
<1> QED
  BY <1>a, <1>c, <1>2, <1>3, <1>4, StepWrites, GrownTorn

\* Every garbled event has a torn line of its own before it.
LEMMA GarbledAreFew ==
  ASSUME TypeInv, CopyInv, TornInv
  PROVE  Cardinality(Garbled) <= crashes
<1>a. LogTypeOK /\ logAcked \subseteq 1 .. next - 1 /\ next \in Nat /\ crashes \in Nat
  BY LogAssumption DEF TypeInv, LogTypeOK, LogAssumption
<1> DEFINE Before(e, t) == t \in TornLines /\ EventAt(t[1], t[2] + 1, e)
           f == [e \in Garbled |-> CHOOSE t \in TornLines : Before(e, t)]
<1>1. ASSUME NEW e \in Garbled
      PROVE  \E t \in TornLines : Before(e, t)
  <2>1. PICK p \in Copies(e) : p[2] > 1 /\ file[p[1]][p[2] - 1] = Torn
    BY DEF Garbled
  <2>2. p[1] \in Index /\ p[2] \in Nat /\ EventAt(p[1], p[2], e)
    BY <1>a, CopiesAreEventAt
  <2>3. Len(file[p[1]]) \in Nat
    BY <1>a, <2>2, FileFacts
  <2>4. PICK i \in Index, j \in Nat : i = p[1] /\ j = p[2] - 1
    BY <2>1, <2>2
  <2>5. j \in 1 .. Len(file[i]) /\ file[i][j] = Torn
    BY <2>1, <2>2, <2>3, <2>4 DEF EventAt
  <2>6. <<i, j>> \in TornLines
    BY <2>5 DEF TornLines
  <2>7. EventAt(i, j + 1, e)
    BY <2>2, <2>4
  <2> QED
    BY <2>6, <2>7
<1>2. ASSUME NEW e \in Garbled
      PROVE  f[e] \in TornLines /\ EventAt(f[e][1], f[e][2] + 1, e)
  BY <1>1
<1> HIDE DEF Before
<1>3. ASSUME NEW d \in Garbled, NEW e \in Garbled, f[d] = f[e]
      PROVE  d = e
  <2>1. PICK t : t = f[d] /\ t = f[e]
    BY <1>3
  <2>2. EventAt(t[1], t[2] + 1, d) /\ EventAt(t[1], t[2] + 1, e)
    BY <1>2, <2>1
  <2>3. EventLine(d) = EventLine(e)
    BY <2>2 DEF EventAt
  <2> QED
    BY <2>3 DEF EventLine
<1>4. f \in [Garbled -> TornLines]
  BY <1>2
<1>5. f \in Injection(Garbled, TornLines)
  BY <1>3, <1>4 DEF Injection, IsInjective
<1>6. Cardinality(Garbled) <= Cardinality(TornLines) /\ IsFiniteSet(Garbled)
  BY <1>5, FS_Injection DEF TornInv
<1>7. Cardinality(Garbled) \in Nat /\ Cardinality(TornLines) \in Nat
  BY <1>6, FS_CardinalityType DEF TornInv
<1> QED
  BY <1>a, <1>6, <1>7 DEF TornInv

\* An event whose append returned is on disk exactly once, whatever crashes,
\* reopened files and failed uploads follow, and the crashes garble at most one
\* acknowledged event each.
THEOREM AcknowledgedEventsStayStored == LogSpec => []AcknowledgedEventsAreStored
<1>1. TypeInv /\ CopyInv /\ TornInv => AcknowledgedEventsAreStored
  <2> SUFFICES ASSUME TypeInv, CopyInv, TornInv
               PROVE  AcknowledgedEventsAreStored
    OBVIOUS
  <2>1. ASSUME NEW e \in logAcked
        PROVE  Cardinality(Copies(e)) = 1
    <3>1. LogTypeOK /\ e \in 1 .. next - 1 /\ next \in Nat
      BY LogAssumption DEF TypeInv, LogTypeOK, LogAssumption
    <3>2. PICK i \in Index, j \in Nat : EventAt(i, j, e)
      BY <3>1 DEF CopyInv, EveryEventIsWritten
    <3>3. <<i, j>> \in Copies(e)
      BY <3>1, <3>2, CopiesAreEventAt
    <3>4. ASSUME NEW p \in Copies(e)
          PROVE  p = <<i, j>>
      <4>1. /\ p[1] \in Index /\ p[2] \in Nat /\ EventAt(p[1], p[2], e)
            /\ p = <<p[1], p[2]>>
        BY <3>1, CopiesAreEventAt
      <4> QED
        BY <3>1, <3>2, <4>1 DEF CopyInv, WrittenOnce
    <3>5. Copies(e) = {<<i, j>>}
      BY <3>3, <3>4
    <3> QED
      BY <3>5, FS_Singleton
  <2> QED
    BY <2>1, GarbledAreFew DEF AcknowledgedEventsAreStored
<1> QED
  BY TypeInit, TypeStep, CopyInit, CopyStep, TornInit, TornStep, <1>1, PTL DEF LogSpec

-----------------------------------------------------------------------------
(***************************************************************************)
(* The alert router                                                        *)
(***************************************************************************)
(* For any threads and groups, any bound of the queue and any number of      *)
(* alerts.  RouterTypeInv says besides the types that only published alerts  *)
(* are anywhere.  PlacesInv says that an alert, and an escalation, is in at  *)
(* most one of the places an item can be, and a published alert in one.      *)
(* EscalationInv relates, for each alert, the two tables, the timer, what    *)
(* the worker and the runners are at, and whether the alert was sent or      *)
(* escalated.  The three are inductive together: an escalation is new        *)
(* because its alert was pending, and an alert is scheduled once because it  *)
(* is sent once.                                                             *)

----------------------------------------------------------------------------
(* Types.  After n alerts were published:                                   *)

KnownAlerts(n) == [alert : 1 .. n, critical : BOOLEAN, escalation : BOOLEAN]
Plain(n) == {x \in KnownAlerts(n) : x.escalation = FALSE}
Queued(n) == KnownAlerts(n) \cup {Stop}
RunnerPc == Queueing \cup {"idle", "flush", "fire", "cancel", "cancelall", "flushall", "sentinel"}
RunnerState(n) ==
  [pc : RunnerPc, item : Queued(n), group : Groups, groups : SUBSET Groups,
   alerts : SUBSET (1 .. n), after : {"idle", "flushall"}]
WorkerState(n) ==
  [pc : {"get", "dispatch", "schedule", "start", "stopped"}, item : Queued(n)]

\* A runner on its way to the queue.
Carries(r) == runner[r].pc \in Queueing

GroupTypes ==
  /\ open \subseteq Groups
  /\ buffer \in [Groups -> Seq(Plain(published))]
  /\ groupTimer \in [Groups -> {"none", "armed", "fired"}]

QueueTypes == queue \in Seq(Queued(published)) /\ Len(queue) <= MaxQueue

EscalationTypes ==
  /\ timers \subseteq 1 .. published /\ pending \subseteq 1 .. published
  /\ acked \subseteq 1 .. published
  /\ timer \in [AnyAlert -> {"none", "created", "running", "fired", "cancelled"}]
  /\ \A a \in AnyAlert : timer[a] # "none" => a \in 1 .. published

RunnerTypes ==
  /\ runner \in [Runners -> RunnerState(published)]
  /\ \A r \in Runners : Carries(r) => runner[r].item \in KnownAlerts(published)

WorkerTypes ==
  /\ worker \in WorkerState(published)
  /\ worker.pc \in {"dispatch", "schedule", "start"} => worker.item \in KnownAlerts(published)

OutcomeTypes ==
  /\ shut \in BOOLEAN
  /\ sent \subseteq KnownAlerts(published) /\ dropped \subseteq Queued(published)
  /\ coalesced \subseteq 1 .. published

\* Everything anywhere is about an alert that was published.
RouterTypeInv ==
  /\ published \in 0 .. MaxAlerts
  /\ GroupTypes /\ QueueTypes /\ EscalationTypes /\ RunnerTypes /\ WorkerTypes /\ OutcomeTypes

LEMMA Constants == Groups # {} /\ MaxQueue \in Nat /\ MaxAlerts \in Nat
BY RouterAssumption DEF RouterAssumption

\* What was well typed stays so when more alerts are published.
LEMMA KnownGrows ==
  ASSUME NEW m \in Nat, NEW n \in Nat, m <= n
  PROVE  /\ 1 .. m \subseteq 1 .. n
         /\ KnownAlerts(m) \subseteq KnownAlerts(n)
         /\ Plain(m) \subseteq Plain(n)
         /\ Queued(m) \subseteq Queued(n)
         /\ RunnerState(m) \subseteq RunnerState(n)
         /\ WorkerState(m) \subseteq WorkerState(n)
<1>1. 1 .. m \subseteq 1 .. n
  OBVIOUS
<1>2. KnownAlerts(m) \subseteq KnownAlerts(n)
  BY <1>1 DEF KnownAlerts
<1>3. Plain(m) \subseteq Plain(n) /\ Queued(m) \subseteq Queued(n)
  BY <1>2 DEF Plain, Queued
<1>4. RunnerState(m) \subseteq RunnerState(n)
  BY <1>1, <1>3 DEF RunnerState
<1>5. WorkerState(m) \subseteq WorkerState(n)
  BY <1>3 DEF WorkerState
<1> QED
  BY <1>1, <1>2, <1>3, <1>4, <1>5

\* The states a runner is put into.
LEMMA IdleType ==
  ASSUME NEW n \in Nat
  PROVE  /\ Idle \in RunnerState(n)
         /\ Idle.pc = "idle" /\ Idle.item = Stop /\ Idle.alerts = {} /\ Idle.after = "idle"
<1>1. (CHOOSE g \in Groups : TRUE) \in Groups
  BY Constants
<1>2. Stop \in Queued(n)
  BY DEF Queued
<1> QED
  BY <1>1, <1>2 DEF Idle, RunnerState, RunnerPc

\* One runner moves, and the others stay where they are.
LEMMA RunnerMoves ==
  ASSUME RouterTypeInv, NEW r \in Runners, NEW s,
         runner' = [runner EXCEPT ![r] = s]
  PROVE  /\ runner'[r] = s
         /\ \A t \in Runners \ {r} : runner'[t] = runner[t]
         /\ /\ published' \in {published, published + 1}
            /\ s \in RunnerState(published')
            /\ s.pc \in Queueing => s.item \in KnownAlerts(published')
            => RunnerTypes'
<1>1. runner \in [Runners -> RunnerState(published)] /\ published \in Nat
  BY Constants DEF RouterTypeInv, RunnerTypes
<1>2. runner'[r] = s /\ \A t \in Runners \ {r} : runner'[t] = runner[t]
  BY <1>1
<1>3. ASSUME published' \in {published, published + 1},
             s \in RunnerState(published'),
             s.pc \in Queueing => s.item \in KnownAlerts(published')
      PROVE  RunnerTypes'
  <2>1. published' \in Nat /\ published <= published'
    BY <1>1, <1>3
  <2>2. RunnerState(published) \subseteq RunnerState(published')
    BY <1>1, <2>1, KnownGrows
  <2>2a. KnownAlerts(published) \subseteq KnownAlerts(published')
    BY <1>1, <2>1, KnownGrows
  <2>3. runner' \in [Runners -> RunnerState(published')]
    BY <1>1, <1>3, <2>2
  <2>4. ASSUME NEW t \in Runners, Carries(t)'
        PROVE  runner'[t].item \in KnownAlerts(published')
    <3>1. CASE t = r
      BY <1>2, <1>3, <2>4, <3>1 DEF Carries
    <3>2. CASE t # r
      BY <1>2, <2>2a, <2>4, <3>2 DEF Carries, RouterTypeInv, RunnerTypes
    <3> QED
      BY <3>1, <3>2
  <2> QED
    BY <2>3, <2>4 DEF RunnerTypes
<1> QED
  BY <1>2, <1>3

----------------------------------------------------------------------------
(* What the actions make of their runner.                                   *)

Others(r) == \A t \in Runners \ {r} : runner'[t] = runner[t]

\* The runner has nothing in hand afterwards, has this item, or goes on with its own.
Empty(r) == runner'[r].pc \notin Queueing \cup {"fire", "cancel", "cancelall"} /\ Others(r)
Loaded(r, x) == runner'[r].pc \in Queueing /\ runner'[r].item = x /\ Others(r)
StillLoaded(r) == Loaded(r, runner[r].item)
Escalating(r, place, as) == runner'[r].pc = place /\ runner'[r].alerts = as /\ Others(r)

NewItem(critical) == [alert |-> published + 1, critical |-> critical, escalation |-> FALSE]
Escalation(a) == [alert |-> a, critical |-> TRUE, escalation |-> TRUE]

LEMMA PublishedFacts ==
  ASSUME RouterTypeInv
  PROVE  /\ published \in Nat
         /\ runner \in [Runners -> RunnerState(published)]
         /\ Idle \in RunnerState(published)
         /\ \A r \in Runners : runner[r] \in RunnerState(published)
BY Constants, IdleType DEF RouterTypeInv, RunnerTypes

LEMMA LeaveMoves ==
  ASSUME RouterTypeInv, NEW r \in Runners, Leave(r), published' = published
  PROVE  Empty(r) /\ RunnerTypes'
<1>1. CASE runner[r].after = "flushall"
  <2>1. PICK s : s = [Idle EXCEPT !.pc = "flushall", !.groups = runner[r].groups]
    OBVIOUS
  <2>2. runner[r].groups \in SUBSET Groups /\ "flushall" \in RunnerPc
    BY PublishedFacts DEF RunnerState, RunnerPc
  <2>3. s \in RunnerState(published) /\ s.pc = "flushall"
    BY <2>1, <2>2, PublishedFacts DEF RunnerState
  <2>4. runner' = [runner EXCEPT ![r] = s]
    BY <1>1, <2>1, PublishedFacts DEF Leave
  <2> QED
    BY <2>3, <2>4, RunnerMoves DEF Empty, Others, Queueing
<1>2. CASE runner[r].after # "flushall"
  <2>1. runner' = [runner EXCEPT ![r] = Idle]
    BY <1>2, PublishedFacts DEF Leave
  <2> QED
    BY <2>1, PublishedFacts, IdleType, RunnerMoves DEF Empty, Others, Queueing
<1> QED
  BY <1>1, <1>2

LEMMA GotoMoves ==
  ASSUME RouterTypeInv, NEW r \in Runners, NEW place \in RunnerPc, Goto(r, place), published' = published
  PROVE  /\ runner'[r].pc = place /\ runner'[r].item = runner[r].item /\ Others(r)
         /\ (place \in Queueing => Carries(r)) => RunnerTypes'
<1>1. PICK s : s = [runner[r] EXCEPT !.pc = place]
  OBVIOUS
<1>2. s \in RunnerState(published) /\ s.pc = place /\ s.item = runner[r].item
  BY <1>1, PublishedFacts DEF RunnerState
<1>3. runner' = [runner EXCEPT ![r] = s]
  BY <1>1, PublishedFacts DEF Goto
<1>4. Carries(r) => runner[r].item \in KnownAlerts(published)
  BY DEF RouterTypeInv, RunnerTypes
<1> QED
  BY <1>2, <1>3, <1>4, RunnerMoves DEF Others

\* A runner that becomes idle, or turns to something of its own.
LEMMA IdleMoves ==
  ASSUME RouterTypeInv, NEW r \in Runners, runner' = [runner EXCEPT ![r] = Idle], published' = published
  PROVE  Empty(r) /\ RunnerTypes'
BY PublishedFacts, IdleType, RunnerMoves DEF Empty, Others, Queueing

LEMMA LoadMoves ==
  ASSUME RouterTypeInv, NEW r \in Runners, published' \in {published, published + 1},
         NEW x \in KnownAlerts(published'), NEW place \in Queueing,
         runner' = [runner EXCEPT ![r] = [Idle EXCEPT !.pc = place, !.item = x]]
  PROVE  Loaded(r, x) /\ RunnerTypes'
<1>1. PICK s : s = [Idle EXCEPT !.pc = place, !.item = x]
  OBVIOUS
<1>2. published' \in Nat /\ place \in RunnerPc /\ x \in Queued(published')
  BY PublishedFacts DEF RunnerPc, Queued
<1>3. s \in RunnerState(published') /\ s.pc = place /\ s.item = x
  BY <1>1, <1>2, IdleType DEF RunnerState
<1>4. runner' = [runner EXCEPT ![r] = s]
  BY <1>1, Zenon
<1> QED
  BY <1>3, <1>4, RunnerMoves DEF Loaded, Others

LEMMA AlertsMoves ==
  ASSUME RouterTypeInv, NEW r \in Runners, published' = published,
         NEW as \in SUBSET (1 .. published), NEW place \in {"fire", "cancel", "cancelall"},
         runner' = [runner EXCEPT ![r] = [Idle EXCEPT !.pc = place, !.alerts = as]]
  PROVE  Escalating(r, place, as) /\ RunnerTypes'
<1>1. PICK s : s = [Idle EXCEPT !.pc = place, !.alerts = as]
  OBVIOUS
<1>2. place \in RunnerPc /\ place \notin Queueing
  BY DEF RunnerPc, Queueing
<1>3. s \in RunnerState(published) /\ s.pc = place /\ s.alerts = as
  BY <1>1, <1>2, PublishedFacts DEF RunnerState
<1>4. runner' = [runner EXCEPT ![r] = s]
  BY <1>1, Zenon
<1> QED
  BY <1>2, <1>3, <1>4, RunnerMoves DEF Escalating, Others

LEMMA GroupMoves ==
  ASSUME RouterTypeInv, NEW r \in Runners, published' = published, NEW g \in Groups,
         \/ runner' = [runner EXCEPT ![r] = [Idle EXCEPT !.pc = "flush", !.group = g]]
         \/ \E gs \in SUBSET Groups :
              \/ runner' = [runner EXCEPT ![r] = [Idle EXCEPT !.pc = "flushall", !.groups = gs]]
              \/ runner' = [runner EXCEPT ![r] =
                             [Idle EXCEPT !.pc = "flush", !.group = g, !.after = "flushall",
                                          !.groups = gs]]
  PROVE  Empty(r) /\ RunnerTypes'
<1>1. {"flush", "flushall"} \subseteq RunnerPc
  BY DEF RunnerPc
<1>2. ASSUME NEW s, s \in RunnerState(published), s.pc \in {"flush", "flushall"},
             runner' = [runner EXCEPT ![r] = s]
      PROVE  Empty(r) /\ RunnerTypes'
  BY <1>2, RunnerMoves DEF Empty, Others, Queueing
<1>3. CASE runner' = [runner EXCEPT ![r] = [Idle EXCEPT !.pc = "flush", !.group = g]]
  <2>1. PICK s : s = [Idle EXCEPT !.pc = "flush", !.group = g]
    OBVIOUS
  <2>2. s \in RunnerState(published) /\ s.pc = "flush"
    BY <1>1, <2>1, PublishedFacts DEF RunnerState
  <2> QED
    BY <1>2, <1>3, <2>1, <2>2
<1>4. ASSUME NEW gs \in SUBSET Groups,
             runner' = [runner EXCEPT ![r] = [Idle EXCEPT !.pc = "flushall", !.groups = gs]]
      PROVE  Empty(r) /\ RunnerTypes'
  <2>1. PICK s : s = [Idle EXCEPT !.pc = "flushall", !.groups = gs]
    OBVIOUS
  <2>2. s \in RunnerState(published) /\ s.pc = "flushall"
    BY <1>1, <2>1, PublishedFacts DEF RunnerState
  <2> QED
    BY <1>2, <1>4, <2>1, <2>2
<1>5. ASSUME NEW gs \in SUBSET Groups,
             runner' = [runner EXCEPT ![r] =
                         [Idle EXCEPT !.pc = "flush", !.group = g, !.after = "flushall",
                                      !.groups = gs]]
      PROVE  Empty(r) /\ RunnerTypes'
  <2>1. PICK s : s = [Idle EXCEPT !.pc = "flush", !.group = g, !.after = "flushall", !.groups = gs]
    OBVIOUS
  <2>2. s \in RunnerState(published) /\ s.pc = "flush"
    BY <1>1, <2>1, PublishedFacts DEF RunnerState
  <2> QED
    BY <1>2, <1>5, <2>1, <2>2
<1> QED
  BY <1>3, <1>4, <1>5

\* A flush leaves with the first item of the group, in the name of all of them.
LEMMA CoalesceType ==
  ASSUME NEW n \in Nat, NEW items \in Seq(Plain(n)), items # <<>>
  PROVE  /\ Len(items) >= 1
         /\ Coalesce(items) \in Plain(n)
         /\ Coalesce(items).alert = items[1].alert
<1>1. Len(items) \in Nat \ {0}
  BY EmptySeq
<1>2. PICK x \in Plain(n) : x = items[1]
  BY <1>1, ElementOfSeq
<1>3. PICK b \in BOOLEAN : b = (\E i \in DOMAIN items : items[i].critical)
  OBVIOUS
<1>4. PICK y : y = [x EXCEPT !.critical = b]
  OBVIOUS
<1>5. y \in Plain(n) /\ y.alert = x.alert
  BY <1>4 DEF Plain, KnownAlerts
<1>6. Coalesce(items) = y
  BY <1>2, <1>3, <1>4, Zenon DEF Coalesce
<1> QED
  BY <1>1, <1>2, <1>5, <1>6

LEMMA FlushMoves ==
  ASSUME RouterTypeInv, NEW r \in Runners, published' = published, NEW x \in KnownAlerts(published),
         runner' = [runner EXCEPT ![r].pc = "put", ![r].item = x]
  PROVE  Loaded(r, x) /\ RunnerTypes'
<1>1. PICK s : s = [runner[r] EXCEPT !.pc = "put", !.item = x]
  OBVIOUS
<1>2. "put" \in RunnerPc /\ "put" \in Queueing /\ x \in Queued(published)
  BY DEF RunnerPc, Queueing, Queued
<1>3. s \in RunnerState(published) /\ s.pc = "put" /\ s.item = x
  BY <1>1, <1>2, PublishedFacts DEF RunnerState
<1>4. runner' = [runner EXCEPT ![r] = s]
  BY <1>1, PublishedFacts
<1> QED
  BY <1>2, <1>3, <1>4, RunnerMoves DEF Loaded, Others

LEMMA PublishEffect ==
  ASSUME RouterTypeInv, NEW r \in Runners, NEW g \in Groups, NEW critical \in BOOLEAN,
         Publish(r, g, critical)
  PROVE  /\ published' = published + 1 /\ published' \in 0 .. MaxAlerts
         /\ NewItem(critical) \in Plain(published')
         /\ RunnerTypes'
         /\ \/ g \in open /\ runner' = runner
            \/ g \notin open /\ Loaded(r, NewItem(critical))
<1>1. /\ published \in Nat /\ published' = published + 1 /\ published' \in 0 .. MaxAlerts
      /\ ~Carries(r)
  BY Constants DEF RouterTypeInv, Publish, Carries, At, Queueing
<1>2. NewItem(critical) \in Plain(published') /\ NewItem(critical) \in KnownAlerts(published')
  BY <1>1 DEF NewItem, Plain, KnownAlerts
<1>3. CASE g \in open /\ runner' = runner
  <2>1. RunnerState(published) \subseteq RunnerState(published') /\ KnownAlerts(published) \subseteq KnownAlerts(published')
    BY <1>1, KnownGrows
  <2>2. RunnerTypes'
    BY <1>3, <2>1 DEF RouterTypeInv, RunnerTypes, Carries
  <2> QED
    BY <1>1, <1>2, <1>3, <2>2
<1>4. CASE g \notin open /\ StartGroup(r, g, NewItem(critical))
  <2>1. runner' = [runner EXCEPT ![r] = [Idle EXCEPT !.pc = "put", !.item = NewItem(critical)]]
    BY <1>4 DEF StartGroup
  <2>2. "put" \in Queueing
    BY DEF Queueing
  <2>3. Loaded(r, NewItem(critical)) /\ RunnerTypes'
    BY <1>1, <1>2, <2>1, <2>2, LoadMoves
  <2> QED
    BY <1>1, <1>2, <1>4, <2>3
<1> QED
  BY <1>3, <1>4 DEF Publish, NewItem

LEMMA PutEffect ==
  ASSUME RouterTypeInv, NEW r \in Runners, Put(r)
  PROVE  /\ Carries(r) /\ RunnerTypes'
         /\ \/ Len(queue) < MaxQueue /\ queue' = Append(queue, runner[r].item) /\ Empty(r)
            \/ queue' = queue /\ StillLoaded(r)
<1>1. Carries(r) /\ published' = published
  BY DEF Put, At, Carries, Queueing
<1>2. CASE Leave(r)
  <2>1. Empty(r) /\ RunnerTypes'
    BY <1>1, <1>2, LeaveMoves
  <2>2. \/ Len(queue) < MaxQueue /\ queue' = Append(queue, runner[r].item)
        \/ Goto(r, "drop")
    BY DEF Put
  <2> QED
    BY <1>1, <2>1, <2>2, GotoMoves DEF Put, Empty, RunnerPc, Queueing
<1>3. CASE Goto(r, "drop") /\ UNCHANGED queue
  <2>1. "drop" \in RunnerPc /\ "drop" \in Queueing
    BY DEF RunnerPc, Queueing
  <2> QED
    BY <1>1, <1>3, <2>1, GotoMoves DEF StillLoaded, Loaded
<1> QED
  BY <1>2, <1>3 DEF Put

LEMMA DropOldestEffect ==
  ASSUME RouterTypeInv, NEW r \in Runners, DropOldest(r)
  PROVE  Carries(r) /\ RunnerTypes' /\ StillLoaded(r)
<1>1. Carries(r) /\ published' = published /\ Goto(r, "again")
  BY DEF DropOldest, At, Carries, Queueing
<1>2. "again" \in RunnerPc /\ "again" \in Queueing
  BY DEF RunnerPc, Queueing
<1> QED
  BY <1>1, <1>2, GotoMoves DEF StillLoaded, Loaded

LEMMA PutAgainEffect ==
  ASSUME RouterTypeInv, NEW r \in Runners, PutAgain(r) \/ PutEscalation(r)
  PROVE  Carries(r) /\ RunnerTypes' /\ Empty(r)
<1>1. Carries(r) /\ published' = published
  BY DEF PutAgain, PutEscalation, At, Carries, Queueing
<1>2. Leave(r) \/ runner' = [runner EXCEPT ![r] = Idle]
  BY DEF PutAgain, PutEscalation
<1> QED
  BY <1>1, <1>2, LeaveMoves, IdleMoves

LEMMA FlushEffect ==
  ASSUME RouterTypeInv, NEW r \in Runners, Flush(r), NEW g, g = runner[r].group
  PROVE  /\ g \in Groups /\ RunnerTypes' /\ ~Carries(r)
         /\ \/ /\ g \in open /\ buffer[g] # <<>>
               /\ coalesced' = coalesced \cup {buffer[g][i].alert : i \in 2 .. Len(buffer[g])}
               /\ Coalesce(buffer[g]) \in Plain(published)
               /\ Loaded(r, Coalesce(buffer[g]))
            \/ /\ g \notin open \/ buffer[g] = <<>>
               /\ coalesced' = coalesced
               /\ Empty(r)
<1>1. g \in Groups /\ published' = published /\ ~Carries(r)
  BY PublishedFacts DEF RunnerState, Flush, At, Carries, Queueing
<1>2. CASE /\ g \in open /\ buffer[g] # <<>>
           /\ coalesced' = coalesced \cup {buffer[g][i].alert : i \in 2 .. Len(buffer[g])}
           /\ runner' = [runner EXCEPT ![r].pc = "put", ![r].item = Coalesce(buffer[g])]
  <2>1. buffer[g] \in Seq(Plain(published)) /\ published \in Nat
    BY <1>1, PublishedFacts DEF RouterTypeInv, GroupTypes
  <2>2. Coalesce(buffer[g]) \in Plain(published)
    BY <1>2, <2>1, CoalesceType
  <2>3. Coalesce(buffer[g]) \in KnownAlerts(published)
    BY <2>2 DEF Plain
  <2>4. Loaded(r, Coalesce(buffer[g])) /\ RunnerTypes'
    BY <1>1, <1>2, <2>3, FlushMoves
  <2> QED
    BY <1>1, <1>2, <2>2, <2>4
<1>3. CASE (g \notin open \/ buffer[g] = <<>>) /\ Leave(r) /\ UNCHANGED coalesced
  BY <1>1, <1>3, LeaveMoves
<1> QED
  BY SMTT(30), <1>2, <1>3 DEF Flush

LEMMA ExpireEscalationEffect ==
  ASSUME RouterTypeInv, NEW r \in Runners, NEW a \in AnyAlert, ExpireEscalation(r, a)
  PROVE  ~Carries(r) /\ RunnerTypes' /\ Escalating(r, "fire", {a}) /\ a \in 1 .. published
<1>1. ~Carries(r) /\ published' = published /\ a \in 1 .. published
  BY DEF ExpireEscalation, At, Carries, Queueing, RouterTypeInv, EscalationTypes
<1>2. runner' = [runner EXCEPT ![r] = [Idle EXCEPT !.pc = "fire", !.alerts = {a}]]
  BY DEF ExpireEscalation
<1>3. {a} \in SUBSET (1 .. published)
  BY <1>1
<1> QED
  BY <1>1, <1>2, <1>3, AlertsMoves

LEMMA FireEffect ==
  ASSUME RouterTypeInv, NEW r \in Runners, Fire(r)
  PROVE  /\ ~Carries(r) /\ RunnerTypes' /\ runner[r].alerts \subseteq 1 .. published
         /\ \/ \E a \in runner[r].alerts \cap pending :
                 Escalation(a) \in KnownAlerts(published) /\ Loaded(r, Escalation(a))
            \/ runner[r].alerts \cap pending = {} /\ Empty(r)
<1>1. ~Carries(r) /\ published' = published /\ runner[r].alerts \subseteq 1 .. published
  BY PublishedFacts DEF Fire, At, Carries, Queueing, RunnerState
<1>2. CASE runner[r].alerts \cap pending = {} /\ runner' = [runner EXCEPT ![r] = Idle]
  BY <1>1, <1>2, IdleMoves
<1>3. ASSUME NEW a \in runner[r].alerts \cap pending,
             runner' = [runner EXCEPT ![r] = [Idle EXCEPT !.pc = "escalate", !.item = Escalation(a)]]
      PROVE  /\ Escalation(a) \in KnownAlerts(published) /\ Loaded(r, Escalation(a))
             /\ RunnerTypes'
  <2>1. Escalation(a) \in KnownAlerts(published) /\ "escalate" \in Queueing
    BY <1>1, <1>3 DEF KnownAlerts, Escalation, Queueing
  <2> QED
    BY <1>1, <1>3, <2>1, LoadMoves
<1> QED
  BY <1>1, <1>2, <1>3 DEF Fire, Escalation

LEMMA AcknowledgeEffect ==
  ASSUME RouterTypeInv, NEW r \in Runners, NEW a \in AnyAlert, Acknowledge(r, a)
  PROVE  /\ ~Carries(r) /\ RunnerTypes' /\ a \in 1 .. published
         /\ \/ a \in timers /\ acked' = acked \cup {a} /\ Escalating(r, "cancel", {a})
            \/ a \notin timers /\ acked' = acked /\ runner' = runner
<1>1. ~Carries(r) /\ published' = published /\ a \in 1 .. published
  BY DEF Acknowledge, At, Carries, Queueing, Alerts
<1>2. CASE a \notin timers /\ UNCHANGED <<acked, runner>>
  BY <1>1, <1>2 DEF RouterTypeInv, RunnerTypes, Carries
<1>3. CASE /\ a \in timers /\ acked' = acked \cup {a}
           /\ runner' = [runner EXCEPT ![r] = [Idle EXCEPT !.pc = "cancel", !.alerts = {a}]]
  <2>1. {a} \in SUBSET (1 .. published)
    BY <1>1
  <2> QED
    BY <1>1, <1>3, <2>1, AlertsMoves
<1> QED
  BY <1>2, <1>3 DEF Acknowledge

LEMMA ShutdownEffect ==
  ASSUME RouterTypeInv, NEW r \in Runners, Shutdown(r)
  PROVE  ~Carries(r) /\ RunnerTypes' /\ Escalating(r, "cancelall", timers)
<1>1. ~Carries(r) /\ published' = published
  BY DEF Shutdown, At, Carries, Queueing
<1>2. runner' = [runner EXCEPT ![r] = [Idle EXCEPT !.pc = "cancelall", !.alerts = timers]]
  BY DEF Shutdown
<1>3. timers \in SUBSET (1 .. published)
  BY DEF RouterTypeInv, EscalationTypes
<1> QED
  BY <1>1, <1>2, <1>3, AlertsMoves

\* The other actions of a runner put nothing into the queue but the sentinel.
LEMMA AsideEffect ==
  ASSUME RouterTypeInv, NEW r \in Runners, NEW g \in Groups,
         ExpireGroup(r, g) \/ Cancel(r) \/ CancelAll(r) \/ FlushAll(r) \/ PutSentinel(r)
  PROVE  ~Carries(r) /\ RunnerTypes' /\ Empty(r)
<1>1. ~Carries(r) /\ published' = published
  BY DEF ExpireGroup, Cancel, CancelAll, FlushAll, PutSentinel, At, Carries, Queueing
<1>2. CASE ExpireGroup(r, g)
  BY <1>1, <1>2, GroupMoves DEF ExpireGroup
<1>3. CASE Cancel(r) \/ PutSentinel(r)
  BY <1>1, <1>3, IdleMoves DEF Cancel, PutSentinel
<1>4. CASE CancelAll(r)
  <2>1. open \in SUBSET Groups
    BY DEF RouterTypeInv, GroupTypes
  <2> QED
    BY <1>1, <1>4, <2>1, GroupMoves DEF CancelAll
<1>5. CASE FlushAll(r)
  <2>1. ASSUME NEW h \in runner[r].groups,
               runner' = [runner EXCEPT ![r] =
                           [Idle EXCEPT !.pc = "flush", !.group = h, !.after = "flushall",
                                        !.groups = runner[r].groups \ {h}]]
        PROVE  RunnerTypes' /\ Empty(r)
    <3>1. h \in Groups /\ runner[r].groups \ {h} \in SUBSET Groups
      BY PublishedFacts DEF RunnerState
    <3> QED
      BY <1>1, <2>1, <3>1, GroupMoves
  <2>2. CASE Goto(r, "sentinel")
    BY <1>1, <2>2, GotoMoves DEF Empty, RunnerPc, Queueing
  <2> QED
    BY <1>1, <1>5, <2>1, <2>2 DEF FlushAll
<1> QED
  BY <1>2, <1>3, <1>4, <1>5

----------------------------------------------------------------------------
(* Types, continued.                                                        *)

LEMMA RouterTypeInit == RouterInit => RouterTypeInv
<1> SUFFICES ASSUME RouterInit
             PROVE  RouterTypeInv
  OBVIOUS
<1>1. published = 0 /\ published \in 0 .. MaxAlerts /\ published \in Nat
  BY Constants DEF RouterInit
<1>2. GroupTypes
  BY EmptySeq DEF RouterInit, GroupTypes
<1>3. QueueTypes
  BY Constants, EmptySeq DEF RouterInit, QueueTypes
<1>4. EscalationTypes
  BY DEF RouterInit, EscalationTypes
<1>5. RunnerTypes
  <2>1. Idle \in RunnerState(published) /\ Idle.pc \notin Queueing
    BY <1>1, IdleType DEF Queueing
  <2>2. runner = [r \in Runners |-> Idle]
    BY DEF RouterInit
  <2> QED
    BY <2>1, <2>2 DEF RunnerTypes, Carries
<1>6. WorkerTypes
  BY DEF RouterInit, WorkerTypes, WorkerState, Queued
<1>7. OutcomeTypes
  <2>1. shut \in BOOLEAN
    BY Zenon DEF RouterInit
  <2> QED
    BY <2>1 DEF RouterInit, OutcomeTypes
<1> QED
  BY <1>1, <1>2, <1>3, <1>4, <1>5, <1>6, <1>7 DEF RouterTypeInv

LEMMA QueueAppends ==
  ASSUME QueueTypes, NEW x \in Queued(published), Len(queue) < MaxQueue,
         queue' = Append(queue, x), published' = published
  PROVE  QueueTypes'
<1>1. /\ Append(queue, x) \in Seq(Queued(published))
      /\ Len(Append(queue, x)) = Len(queue) + 1
      /\ Len(queue) \in Nat
  BY AppendProperties, LenProperties DEF QueueTypes
<1> QED
  BY <1>1, Constants DEF QueueTypes

LEMMA QueueTails ==
  ASSUME QueueTypes, queue # <<>>, queue' = Tail(queue), published' = published
  PROVE  QueueTypes' /\ Head(queue) \in Queued(published)
<1>1. /\ Head(queue) \in Queued(published)
      /\ Tail(queue) \in Seq(Queued(published))
      /\ Len(Tail(queue)) = Len(queue) - 1
      /\ Len(queue) \in Nat
  BY HeadTailProperties, LenProperties DEF QueueTypes
<1> QED
  BY <1>1, Constants DEF QueueTypes

\* The item in a runner's hand can go to the queue or get lost.
LEMMA CarriedItem ==
  ASSUME RouterTypeInv, NEW r \in Runners, Carries(r)
  PROVE  runner[r].item \in KnownAlerts(published) /\ runner[r].item \in Queued(published)
BY DEF RouterTypeInv, RunnerTypes, Queued

\* Every step keeps the types.
LEMMA RouterTypeStep == RouterTypeInv /\ [RouterNext]_routerVars => RouterTypeInv'
<1> SUFFICES ASSUME RouterTypeInv, [RouterNext]_routerVars
             PROVE  RouterTypeInv'
  OBVIOUS
<1>a. /\ published \in 0 .. MaxAlerts /\ published \in Nat
      /\ GroupTypes /\ QueueTypes /\ EscalationTypes /\ RunnerTypes /\ WorkerTypes /\ OutcomeTypes
  BY Constants DEF RouterTypeInv
<1>b. Stop \in Queued(published) /\ KnownAlerts(published) \subseteq Queued(published)
  BY DEF Queued
<1>c. ASSUME UNCHANGED <<published, groupVars>> PROVE GroupTypes'
  BY <1>a, <1>c DEF GroupTypes, groupVars
<1>d. ASSUME UNCHANGED <<published, queue>> PROVE QueueTypes'
  BY <1>a, <1>d DEF QueueTypes
<1>e. ASSUME UNCHANGED <<published, escalationVars>> PROVE EscalationTypes'
  BY <1>a, <1>e DEF EscalationTypes, escalationVars
<1>f. ASSUME UNCHANGED <<published, worker>> PROVE WorkerTypes'
  BY <1>a, <1>f DEF WorkerTypes
<1>g. ASSUME UNCHANGED <<published, shut, sent, dropped, coalesced>> PROVE OutcomeTypes'
  BY <1>a, <1>g DEF OutcomeTypes
<1>h. ASSUME UNCHANGED <<published, runner>> PROVE RunnerTypes'
  BY <1>a, <1>h DEF RunnerTypes, Carries
<1>1. ASSUME NEW r \in Runners, NEW g \in Groups, NEW critical \in BOOLEAN, Publish(r, g, critical)
      PROVE  RouterTypeInv'
  <2>1. /\ published' = published + 1 /\ published' \in 0 .. MaxAlerts /\ published' \in Nat
        /\ NewItem(critical) \in Plain(published') /\ RunnerTypes'
    BY <1>a, <1>1, PublishEffect
  <2>2. /\ 1 .. published \subseteq 1 .. published'
        /\ KnownAlerts(published) \subseteq KnownAlerts(published')
        /\ Plain(published) \subseteq Plain(published')
        /\ Queued(published) \subseteq Queued(published')
        /\ WorkerState(published) \subseteq WorkerState(published')
    BY <1>a, <2>1, KnownGrows
  <2>3. /\ UNCHANGED <<queue, escalationVars, worker, shut, sent, dropped, coalesced>>
    BY <1>1 DEF Publish
  <2>4. GroupTypes'
    <3>1. \A h \in Groups : buffer[h] \in Seq(Plain(published'))
      BY <1>a, <2>2, SeqMonotonic DEF GroupTypes
    <3>2. Append(buffer[g], NewItem(critical)) \in Seq(Plain(published'))
      BY <2>1, <3>1, AppendProperties
    <3>3. <<>> \in Seq(Plain(published'))
      BY EmptySeq
    <3>4. \/ /\ buffer' = [buffer EXCEPT ![g] = Append(@, NewItem(critical))]
             /\ UNCHANGED <<open, groupTimer>>
          \/ /\ buffer' = [buffer EXCEPT ![g] = <<>>] /\ open' = open \cup {g}
             /\ groupTimer' = [groupTimer EXCEPT ![g] = "armed"]
      BY <1>1 DEF Publish, StartGroup, NewItem
    <3>5. buffer \in [Groups -> Seq(Plain(published))]
      BY <1>a DEF GroupTypes
    <3>6. buffer' \in [Groups -> Seq(Plain(published'))]
      <4>1. CASE buffer' = [buffer EXCEPT ![g] = Append(@, NewItem(critical))]
        BY <3>1, <3>2, <3>5, <4>1
      <4>2. CASE buffer' = [buffer EXCEPT ![g] = <<>>]
        BY <3>1, <3>3, <3>5, <4>2
      <4> QED
        BY <3>4, <4>1, <4>2
    <3> QED
      BY <1>a, <3>4, <3>6 DEF GroupTypes
  <2>5. QueueTypes'
    BY <1>a, <2>2, <2>3, SeqMonotonic DEF QueueTypes
  <2>6. EscalationTypes'
    BY <1>a, <2>2, <2>3 DEF EscalationTypes, escalationVars
  <2>7. WorkerTypes'
    BY <1>a, <2>2, <2>3 DEF WorkerTypes
  <2>8. OutcomeTypes'
    BY <1>a, <2>2, <2>3 DEF OutcomeTypes
  <2> QED
    BY <2>1, <2>4, <2>5, <2>6, <2>7, <2>8 DEF RouterTypeInv
<1>2. ASSUME NEW r \in Runners, Put(r) PROVE RouterTypeInv'
  <2>1. /\ RunnerTypes' /\ runner[r].item \in Queued(published)
        /\ \/ Len(queue) < MaxQueue /\ queue' = Append(queue, runner[r].item)
           \/ queue' = queue
    BY <1>2, PutEffect, CarriedItem
  <2>2. UNCHANGED <<published, groupVars, escalationVars, worker, shut, sent, dropped, coalesced>>
    BY <1>2 DEF Put
  <2>3. QueueTypes'
    BY <1>a, <1>d, <2>1, <2>2, QueueAppends
  <2> QED
    BY <1>a, <1>c, <1>e, <1>f, <1>g, <2>1, <2>2, <2>3 DEF RouterTypeInv
<1>3. ASSUME NEW r \in Runners, DropOldest(r) PROVE RouterTypeInv'
  <2>1. RunnerTypes'
    BY <1>3, DropOldestEffect
  <2>2. /\ UNCHANGED <<published, groupVars, escalationVars, worker, shut, sent, coalesced>>
        /\ \/ queue # <<>> /\ queue' = Tail(queue) /\ dropped' = dropped \cup {Head(queue)}
           \/ queue' = queue /\ dropped' = dropped
    BY <1>3 DEF DropOldest
  <2>3. QueueTypes' /\ dropped' \subseteq Queued(published)
    BY <1>a, <1>d, <2>2, QueueTails DEF OutcomeTypes
  <2>4. OutcomeTypes'
    BY <1>a, <2>2, <2>3 DEF OutcomeTypes
  <2> QED
    BY <1>a, <1>c, <1>e, <1>f, <2>1, <2>2, <2>3, <2>4 DEF RouterTypeInv
<1>4. ASSUME NEW r \in Runners, PutAgain(r) \/ PutEscalation(r) PROVE RouterTypeInv'
  <2>1. RunnerTypes' /\ runner[r].item \in Queued(published)
    BY <1>4, PutAgainEffect, CarriedItem
  <2>2. /\ UNCHANGED <<published, groupVars, escalationVars, worker, shut, sent, coalesced>>
        /\ \/ Len(queue) < MaxQueue /\ queue' = Append(queue, runner[r].item) /\ dropped' = dropped
           \/ queue' = queue /\ dropped' = dropped \cup {runner[r].item}
    BY <1>4 DEF PutAgain, PutEscalation
  <2>3. QueueTypes'
    BY <1>a, <1>d, <2>1, <2>2, QueueAppends
  <2>4. OutcomeTypes'
    BY <1>a, <2>1, <2>2 DEF OutcomeTypes
  <2> QED
    BY <1>a, <1>c, <1>e, <1>f, <2>1, <2>2, <2>3, <2>4 DEF RouterTypeInv
<1>5. ASSUME NEW r \in Runners, Flush(r) PROVE RouterTypeInv'
  <2>1. PICK g : g = runner[r].group
    OBVIOUS
  <2>2. /\ g \in Groups /\ RunnerTypes'
        /\ \/ /\ g \in open
              /\ coalesced' = coalesced \cup {buffer[g][i].alert : i \in 2 .. Len(buffer[g])}
           \/ coalesced' = coalesced
    BY <1>5, <2>1, FlushEffect
  <2>3. /\ UNCHANGED <<published, queue, escalationVars, worker, shut, sent, dropped>>
        /\ open' = open \ {g}
        /\ buffer' = [buffer EXCEPT ![g] = <<>>]
        /\ groupTimer' = [groupTimer EXCEPT ![g] = "none"]
    BY <1>5, <2>1 DEF Flush
  <2>4. GroupTypes'
    BY <1>a, <2>2, <2>3, EmptySeq DEF GroupTypes
  <2>5. \A i \in 2 .. Len(buffer[g]) : buffer[g][i].alert \in 1 .. published
    <3>1. buffer[g] \in Seq(Plain(published))
      BY <1>a, <2>2 DEF GroupTypes
    <3>2. Len(buffer[g]) \in Nat /\ \A i \in 1 .. Len(buffer[g]) : buffer[g][i] \in Plain(published)
      BY <3>1, LenProperties, ElementOfSeq
    <3>3. \A i \in 2 .. Len(buffer[g]) : i \in 1 .. Len(buffer[g])
      BY <3>2
    <3>4. \A x \in Plain(published) : x.alert \in 1 .. published
      BY DEF Plain, KnownAlerts
    <3> QED
      BY <3>2, <3>3, <3>4
  <2>6. OutcomeTypes'
    BY <1>a, <2>2, <2>3, <2>5 DEF OutcomeTypes
  <2> QED
    BY <1>a, <1>d, <1>e, <1>f, <2>2, <2>3, <2>4, <2>6 DEF RouterTypeInv
<1>6. ASSUME NEW r \in Runners, NEW g \in Groups,
             ExpireGroup(r, g) \/ Cancel(r) \/ CancelAll(r) \/ FlushAll(r) \/ PutSentinel(r)
      PROVE  RouterTypeInv'
  <2>1. RunnerTypes' /\ runner[r].alerts \subseteq 1 .. published
    BY <1>6, AsideEffect, PublishedFacts DEF RunnerState
  <2>2. UNCHANGED <<published, open, buffer, timers, pending, acked, worker, shut, sent, dropped,
                    coalesced>>
    BY <1>6 DEF ExpireGroup, Cancel, CancelAll, FlushAll, PutSentinel, groupVars, escalationVars
  <2>3. GroupTypes'
    <3>1. groupTimer' \in {groupTimer, [groupTimer EXCEPT ![g] = "fired"]}
      BY <1>6 DEF ExpireGroup, Cancel, CancelAll, FlushAll, PutSentinel, groupVars
    <3> QED
      BY <1>a, <2>2, <3>1 DEF GroupTypes
  <2>4. QueueTypes'
    <3>1. \/ queue' = queue
          \/ Len(queue) < MaxQueue /\ queue' = Append(queue, Stop)
      <4>1. CASE PutSentinel(r)
        BY <4>1 DEF PutSentinel
      <4>2. CASE ~PutSentinel(r)
        BY <1>6, <4>2 DEF ExpireGroup, Cancel, CancelAll, FlushAll
      <4> QED
        BY <4>1, <4>2
    <3> QED
      BY <1>a, <1>b, <1>d, <2>2, <3>1, QueueAppends
  <2>5. EscalationTypes'
    <3>1. timer' = timer \/ timer' = Cancelled(runner[r].alerts)
      BY <1>6 DEF ExpireGroup, Cancel, CancelAll, FlushAll, PutSentinel, escalationVars
    <3>2. CASE timer' = timer
      BY <1>a, <2>2, <3>2 DEF EscalationTypes
    <3>3. CASE timer' = Cancelled(runner[r].alerts)
      BY <1>a, <2>1, <2>2, <3>3 DEF EscalationTypes, Cancelled
    <3> QED
      BY <3>1, <3>2, <3>3
  <2> QED
    BY <1>a, <1>f, <1>g, <2>1, <2>2, <2>3, <2>4, <2>5 DEF RouterTypeInv
<1>7. ASSUME NEW r \in Runners, NEW a \in AnyAlert, ExpireEscalation(r, a) PROVE RouterTypeInv'
  <2>1. RunnerTypes' /\ a \in 1 .. published
    BY <1>7, ExpireEscalationEffect
  <2>2. /\ UNCHANGED <<published, groupVars, queue, timers, pending, acked, worker, shut, sent,
                        dropped, coalesced>>
        /\ timer' = [timer EXCEPT ![a] = "fired"]
    BY <1>7 DEF ExpireEscalation
  <2>3. EscalationTypes'
    BY <1>a, <2>1, <2>2 DEF EscalationTypes
  <2> QED
    BY <1>a, <1>c, <1>d, <1>f, <1>g, <2>1, <2>2, <2>3 DEF RouterTypeInv
<1>8. ASSUME NEW r \in Runners, Fire(r) PROVE RouterTypeInv'
  <2>1. RunnerTypes'
    BY <1>8, FireEffect
  <2>2. /\ UNCHANGED <<published, groupVars, queue, timer, acked, worker, shut, sent, dropped,
                        coalesced>>
        /\ pending' = pending \ runner[r].alerts /\ timers' = timers \ runner[r].alerts
    BY <1>8 DEF Fire
  <2>3. EscalationTypes'
    BY <1>a, <2>2 DEF EscalationTypes
  <2> QED
    BY <1>a, <1>c, <1>d, <1>f, <1>g, <2>1, <2>2, <2>3 DEF RouterTypeInv
<1>9. ASSUME NEW r \in Runners, NEW a \in AnyAlert, Acknowledge(r, a) PROVE RouterTypeInv'
  <2>1. RunnerTypes' /\ a \in 1 .. published /\ acked' \in {acked, acked \cup {a}}
    BY <1>9, AcknowledgeEffect
  <2>2. /\ UNCHANGED <<timer, published, groupVars, queue, worker, shut, sent, dropped, coalesced>>
        /\ timers' = timers \ {a} /\ pending' = pending \ {a}
    BY <1>9 DEF Acknowledge
  <2>3. EscalationTypes'
    BY <1>a, <2>1, <2>2 DEF EscalationTypes
  <2> QED
    BY <1>a, <1>c, <1>d, <1>f, <1>g, <2>1, <2>2, <2>3 DEF RouterTypeInv
<1>10. ASSUME NEW r \in Runners, Shutdown(r) PROVE RouterTypeInv'
  <2>1. RunnerTypes'
    BY <1>10, ShutdownEffect
  <2>2. /\ UNCHANGED <<published, groupVars, queue, pending, timer, acked, worker, sent, dropped,
                        coalesced>>
        /\ timers' = {}
    BY <1>10 DEF Shutdown
  <2>3. shut' \in BOOLEAN
    BY <1>10, Zenon DEF Shutdown
  <2>4. EscalationTypes'
    BY <1>a, <2>2 DEF EscalationTypes
  <2>5. OutcomeTypes'
    BY <1>a, <2>2, <2>3 DEF OutcomeTypes
  <2> QED
    BY <1>a, <1>c, <1>d, <1>f, <2>1, <2>2, <2>4, <2>5 DEF RouterTypeInv
<1>11. ASSUME Get PROVE RouterTypeInv'
  <2>1. /\ queue # <<>> /\ queue' = Tail(queue)
        /\ UNCHANGED <<published, groupVars, escalationVars, runner, shut, sent, dropped, coalesced>>
        /\ worker' = [pc |-> IF Head(queue) = Stop THEN "stopped" ELSE "dispatch",
                      item |-> Head(queue)]
    BY <1>11 DEF Get
  <2>2. QueueTypes' /\ Head(queue) \in Queued(published)
    BY <1>a, <2>1, QueueTails
  <2>3. WorkerTypes'
    BY <2>1, <2>2 DEF WorkerTypes, WorkerState, Queued
  <2> QED
    BY <1>a, <1>c, <1>e, <1>g, <1>h, <2>1, <2>2, <2>3 DEF RouterTypeInv
<1>12. ASSUME Dispatch PROVE RouterTypeInv'
  <2>1. /\ worker.pc = "dispatch" /\ sent' = sent \cup {worker.item}
        /\ UNCHANGED <<published, groupVars, queue, escalationVars, runner, shut, dropped, coalesced>>
        /\ \/ worker' = [worker EXCEPT !.pc = "schedule"]
           \/ worker' = [pc |-> "get", item |-> Stop]
    BY <1>12 DEF Dispatch
  <2>2. worker.item \in KnownAlerts(published)
    BY <1>a, <2>1 DEF WorkerTypes
  <2>3. WorkerTypes'
    BY <1>a, <1>b, <2>1, <2>2 DEF WorkerTypes, WorkerState
  <2>4. OutcomeTypes'
    BY <1>a, <2>1, <2>2 DEF OutcomeTypes
  <2> QED
    BY <1>a, <1>c, <1>d, <1>e, <1>h, <2>1, <2>3, <2>4 DEF RouterTypeInv
<1>13. ASSUME Schedule \/ StartTimer PROVE RouterTypeInv'
  <2>1. /\ worker.pc \in {"schedule", "start"}
        /\ UNCHANGED <<published, groupVars, queue, acked, runner, shut, sent, dropped, coalesced>>
        /\ timers' \in {timers, timers \cup {worker.item.alert}}
        /\ pending' \in {pending, pending \cup {worker.item.alert}}
        /\ \/ timer' = [timer EXCEPT ![worker.item.alert] = "created"]
           \/ timer' = [timer EXCEPT ![worker.item.alert] = IF @ = "created" THEN "running" ELSE @]
        /\ \/ worker' = [worker EXCEPT !.pc = "start"]
           \/ worker' = [pc |-> "get", item |-> Stop]
    BY <1>13 DEF Schedule, StartTimer
  <2>2. worker.item \in KnownAlerts(published)
    BY <1>a, <2>1 DEF WorkerTypes
  <2>3. PICK a \in 1 .. published : a = worker.item.alert
    BY <2>2 DEF KnownAlerts
  <2>4. WorkerTypes'
    BY <1>a, <1>b, <2>1, <2>2 DEF WorkerTypes, WorkerState
  <2>5. EscalationTypes'
    BY <1>a, <2>1, <2>3 DEF EscalationTypes
  <2> QED
    BY <1>a, <1>c, <1>d, <1>g, <1>h, <2>1, <2>4, <2>5 DEF RouterTypeInv
<1>14. CASE UNCHANGED routerVars
  BY <1>a, <1>c, <1>d, <1>e, <1>f, <1>g, <1>h, <1>14 DEF RouterTypeInv, routerVars
<1>15. ASSUME NEW r \in Runners, Cancel(r) \/ CancelAll(r) \/ FlushAll(r) \/ PutSentinel(r)
       PROVE  RouterTypeInv'
  <2>1. PICK g \in Groups : TRUE
    BY Constants
  <2> QED
    BY <1>6, <1>15, <2>1
<1> QED
  BY <1>1, <1>2, <1>3, <1>4, <1>5, <1>6, <1>7, <1>8, <1>9, <1>10, <1>11, <1>12, <1>13, <1>14, <1>15
     DEF RouterNext, Worker, Runner

\* The router's variables keep their types, and the queue its bound, however
\* many threads put into it.
THEOREM RouterTypeCorrect == RouterSpec => []RouterTypeOK
<1>1. RouterTypeInv => RouterTypeOK
  <2> SUFFICES ASSUME RouterTypeInv
               PROVE  RouterTypeOK
    OBVIOUS
  <2>1. published \in 0 .. MaxAlerts /\ published \in Nat /\ MaxAlerts \in Nat
    BY Constants DEF RouterTypeInv
  <2>2. KnownAlerts(published) \subseteq Item
    BY <2>1 DEF KnownAlerts, Item, AnyAlert
  <2>3. Plain(published) \subseteq Item /\ Queued(published) \subseteq Item \cup {Stop}
    BY <2>2 DEF Plain, Queued
  <2>4. buffer \in [Groups -> Seq(Item)]
    BY <2>3, SeqMonotonic DEF RouterTypeInv, GroupTypes
  <2>5. queue \in Seq(Item \cup {Stop})
    BY <2>3, SeqMonotonic DEF RouterTypeInv, QueueTypes
  <2>6. ASSUME NEW r \in Runners
        PROVE  /\ runner[r].pc \in Queueing \cup {"idle", "flush", "fire", "cancel", "cancelall",
                                                   "flushall", "sentinel"}
               /\ runner[r].item \in Item \cup {Stop}
               /\ runner[r].groups \subseteq Groups /\ runner[r].alerts \subseteq Alerts
               /\ runner[r].after \in {"idle", "flushall"}
    BY <2>3, PublishedFacts DEF RunnerState, RunnerPc, Alerts
  <2>7. /\ worker.pc \in {"get", "dispatch", "schedule", "start", "stopped"}
        /\ worker.item \in Item \cup {Stop}
    BY <2>3 DEF RouterTypeInv, WorkerTypes, WorkerState
  <2> QED
    BY <2>1, <2>2, <2>3, <2>4, <2>5, <2>6, <2>7
       DEF RouterTypeInv, GroupTypes, QueueTypes, EscalationTypes, OutcomeTypes, RouterTypeOK, Alerts
<1> QED
  BY RouterTypeInit, RouterTypeStep, <1>1, PTL DEF RouterSpec

----------------------------------------------------------------------------
(* Where the items of an alert are: the alert itself (e is FALSE) or its    *)
(* escalation (e is TRUE).                                                  *)

Is(x, a, e) == x.alert = a /\ x.escalation = e

InQueue(a, e) == \E i \in 1 .. Len(queue) : Is(queue[i], a, e)
InRunner(a, e) == \E r \in Runners : Carries(r) /\ Is(runner[r].item, a, e)
InWorker(a, e) == worker.pc = "dispatch" /\ Is(worker.item, a, e)
InSent(a, e) == \E x \in sent : Is(x, a, e)
InDropped(a, e) == \E x \in dropped : Is(x, a, e)
InBuffer(a, e) ==
  e = FALSE /\ \E g \in open : \E i \in 1 .. Len(buffer[g]) : buffer[g][i].alert = a
Mentioned(a, e) == e = FALSE /\ a \in coalesced

OneInQueue(a, e) ==
  \A i, j \in 1 .. Len(queue) : Is(queue[i], a, e) /\ Is(queue[j], a, e) => i = j
OneInRunner(a, e) ==
  \A r, s \in Runners :
    Carries(r) /\ Is(runner[r].item, a, e) /\ Carries(s) /\ Is(runner[s].item, a, e) => r = s
OneInSent(a, e) == \A x, y \in sent : Is(x, a, e) /\ Is(y, a, e) => x = y
OneInDropped(a, e) == \A x, y \in dropped : Is(x, a, e) /\ Is(y, a, e) => x = y
OneInBuffer(a) ==
  \A g, h \in open : \A i \in 1 .. Len(buffer[g]), j \in 1 .. Len(buffer[h]) :
    buffer[g][i].alert = a /\ buffer[h][j].alert = a => g = h /\ i = j

Somewhere(a, e) ==
  \/ InQueue(a, e) \/ InRunner(a, e) \/ InWorker(a, e) \/ InSent(a, e) \/ InDropped(a, e)
  \/ InBuffer(a, e) \/ Mentioned(a, e)

\* In no two of the seven kinds of places.
Exclusive(a, e) ==
  /\ ~(InQueue(a, e) /\ (InRunner(a, e) \/ InWorker(a, e) \/ InSent(a, e) \/ InDropped(a, e)
                            \/ InBuffer(a, e) \/ Mentioned(a, e)))
  /\ ~(InRunner(a, e) /\ (InWorker(a, e) \/ InSent(a, e) \/ InDropped(a, e) \/ InBuffer(a, e)
                             \/ Mentioned(a, e)))
  /\ ~(InWorker(a, e) /\ (InSent(a, e) \/ InDropped(a, e) \/ InBuffer(a, e) \/ Mentioned(a, e)))
  /\ ~(InSent(a, e) /\ (InDropped(a, e) \/ InBuffer(a, e) \/ Mentioned(a, e)))
  /\ ~(InDropped(a, e) /\ (InBuffer(a, e) \/ Mentioned(a, e)))
  /\ ~(InBuffer(a, e) /\ Mentioned(a, e))

Single(a, e) ==
  OneInQueue(a, e) /\ OneInRunner(a, e) /\ OneInSent(a, e) /\ OneInDropped(a, e) /\ OneInBuffer(a)

AtMostOnce(a, e) == Single(a, e) /\ Exclusive(a, e)

\* The step leaves the item somewhere, and nowhere else.
Kept(a, e) == AtMostOnce(a, e)' /\ (Somewhere(a, e)' <=> Somewhere(a, e))

LEMMA QueueFacts ==
  ASSUME RouterTypeInv
  PROVE  /\ Len(queue) \in Nat /\ DOMAIN queue = 1 .. Len(queue)
         /\ \A i \in 1 .. Len(queue) : queue[i] \in Queued(published)
BY LenProperties, ElementOfSeq DEF RouterTypeInv, QueueTypes

LEMMA AppendPlaces ==
  ASSUME RouterTypeInv, NEW x \in Queued(published), queue' = Append(queue, x), NEW a, NEW e
  PROVE  /\ InQueue(a, e)' <=> InQueue(a, e) \/ Is(x, a, e)
         /\ OneInQueue(a, e) /\ (Is(x, a, e) => ~InQueue(a, e)) => OneInQueue(a, e)'
<1>1. PICK n \in Nat : n = Len(queue)
  BY QueueFacts
<1>2. /\ Len(queue') = n + 1
      /\ \A i \in 1 .. n : queue'[i] = queue[i]
      /\ queue'[n + 1] = x
  BY <1>1, AppendProperties DEF RouterTypeInv, QueueTypes
<1>3. \A i \in 1 .. n + 1 : i \in 1 .. n \/ i = n + 1
  OBVIOUS
<1>4. n + 1 \in 1 .. n + 1 /\ \A i \in 1 .. n : i \in 1 .. n + 1
  OBVIOUS
<1>5. InQueue(a, e)' <=> InQueue(a, e) \/ Is(x, a, e)
  BY <1>1, <1>2, <1>3, <1>4 DEF InQueue, Is
<1>6. OneInQueue(a, e) /\ (Is(x, a, e) => ~InQueue(a, e)) => OneInQueue(a, e)'
  BY <1>1, <1>2, <1>3, <1>4 DEF InQueue, OneInQueue, Is
<1> QED
  BY <1>5, <1>6

LEMMA TailPlaces ==
  ASSUME RouterTypeInv, queue # <<>>, queue' = Tail(queue), NEW a, NEW e, OneInQueue(a, e)
  PROVE  /\ InQueue(a, e)' <=> InQueue(a, e) /\ ~Is(Head(queue), a, e)
         /\ Is(Head(queue), a, e) => InQueue(a, e)
         /\ OneInQueue(a, e)'
<1>1. PICK n \in Nat : n = Len(queue) /\ n >= 1
  <2>1. queue \in Seq(Queued(published))
    BY DEF RouterTypeInv, QueueTypes
  <2>2. Len(queue) \in Nat \ {0}
    BY <2>1, EmptySeq
  <2> QED
    BY <2>2
<1>2. Head(queue) = queue[1] /\ Len(queue') = n - 1 /\ \A i \in 1 .. n - 1 : queue'[i] = queue[i + 1]
  <2>1. queue \in Seq(Queued(published)) /\ Head(queue) = queue[1]
    BY <1>1 DEF RouterTypeInv, QueueTypes
  <2>2. Len(Tail(queue)) = Len(queue) - 1 /\ \A i \in 1 .. Len(Tail(queue)) : Tail(queue)[i] = queue[i + 1]
    BY <2>1, HeadTailProperties
  <2> QED
    BY <1>1, <2>1, <2>2
<1>3. \A i \in 1 .. n : i = 1 \/ (i - 1 \in 1 .. n - 1 /\ queue'[i - 1] = queue[i])
  <2>1. ASSUME NEW i \in 1 .. n, i # 1
        PROVE  i - 1 \in 1 .. n - 1 /\ (i - 1) + 1 = i
    BY <1>1, <2>1
  <2> QED
    BY <1>2, <2>1
<1>4. \A i \in 1 .. n - 1 : i + 1 \in 1 .. n /\ i + 1 # 1
  BY <1>1
<1>5. 1 \in 1 .. n
  BY <1>1
<1>6. Is(Head(queue), a, e) => InQueue(a, e)
  BY <1>1, <1>2, <1>5 DEF InQueue
<1>7. InQueue(a, e)' <=> InQueue(a, e) /\ ~Is(Head(queue), a, e)
  <2>1. ASSUME NEW i \in 1 .. n - 1, Is(queue'[i], a, e)
        PROVE  InQueue(a, e) /\ ~Is(Head(queue), a, e)
    <3>1. i + 1 \in 1 .. n /\ i + 1 # 1 /\ Is(queue[i + 1], a, e)
      BY <1>2, <1>4, <2>1
    <3> QED
      BY <1>1, <1>2, <1>5, <3>1 DEF InQueue, OneInQueue
  <2>2. ASSUME NEW i \in 1 .. n, Is(queue[i], a, e), ~Is(Head(queue), a, e)
        PROVE  \E j \in 1 .. n - 1 : Is(queue'[j], a, e)
    BY <1>2, <1>3, <2>2
  <2> QED
    BY <1>1, <1>2, <2>1, <2>2 DEF InQueue, Is
<1>8. OneInQueue(a, e)'
  <2> SUFFICES ASSUME NEW i \in 1 .. n - 1, NEW j \in 1 .. n - 1,
                      Is(queue'[i], a, e), Is(queue'[j], a, e)
               PROVE  i = j
    BY <1>2 DEF OneInQueue, Is
  <2>1. /\ i + 1 \in 1 .. n /\ Is(queue[i + 1], a, e)
        /\ j + 1 \in 1 .. n /\ Is(queue[j + 1], a, e)
    BY <1>2, <1>4
  <2>2. i + 1 = j + 1
    BY <1>1, <2>1 DEF OneInQueue
  <2> QED
    BY <2>2
<1> QED
  BY <1>6, <1>7, <1>8

LEMMA LoadPlaces ==
  ASSUME NEW r \in Runners, NEW x, ~Carries(r), Loaded(r, x), NEW a, NEW e
  PROVE  /\ InRunner(a, e)' <=> InRunner(a, e) \/ Is(x, a, e)
         /\ OneInRunner(a, e) /\ (Is(x, a, e) => ~InRunner(a, e)) => OneInRunner(a, e)'
<1>1. /\ Carries(r)' /\ runner'[r].item = x
      /\ \A t \in Runners \ {r} : runner'[t] = runner[t]
  BY DEF Loaded, Others, Carries
<1>2. InRunner(a, e)' <=> InRunner(a, e) \/ Is(x, a, e)
  BY <1>1 DEF InRunner, Carries, Is
<1>3. OneInRunner(a, e) /\ (Is(x, a, e) => ~InRunner(a, e)) => OneInRunner(a, e)'
  BY <1>1 DEF InRunner, OneInRunner, Carries, Is
<1> QED
  BY <1>2, <1>3

LEMMA EmptyPlaces ==
  ASSUME NEW r \in Runners, Carries(r), Empty(r), NEW a, NEW e, OneInRunner(a, e)
  PROVE  /\ InRunner(a, e)' <=> InRunner(a, e) /\ ~Is(runner[r].item, a, e)
         /\ Is(runner[r].item, a, e) => InRunner(a, e)
         /\ OneInRunner(a, e)'
<1>1. ~Carries(r)' /\ \A t \in Runners \ {r} : runner'[t] = runner[t]
  BY DEF Empty, Others, Carries
<1> QED
  BY <1>1 DEF InRunner, OneInRunner, Carries, Is

\* A step that neither takes an item in hand nor lays one down.
HandsKept(r) ==
  \/ runner' = runner
  \/ Carries(r) /\ StillLoaded(r)
  \/ ~Carries(r) /\ (Empty(r) \/ \E place \in {"fire", "cancel", "cancelall"} :
                                   \E as : Escalating(r, place, as))

LEMMA SamePlacesInHand ==
  ASSUME NEW r \in Runners, HandsKept(r), NEW a, NEW e
  PROVE  /\ InRunner(a, e)' <=> InRunner(a, e)
         /\ OneInRunner(a, e) => OneInRunner(a, e)'
<1>1. CASE runner' = runner
  BY <1>1 DEF InRunner, OneInRunner, Carries, Is
<1>2. CASE Carries(r) /\ StillLoaded(r)
  <2>1. /\ Carries(r)' /\ runner'[r].item = runner[r].item
        /\ \A t \in Runners \ {r} : runner'[t] = runner[t]
    BY <1>2 DEF StillLoaded, Loaded, Others, Carries
  <2>2. \A t \in Runners : (Carries(t)' <=> Carries(t)) /\ runner'[t].item = runner[t].item
    BY <1>2, <2>1 DEF Carries
  <2> QED
    BY <2>2 DEF InRunner, OneInRunner, Is
<1>3. CASE ~Carries(r) /\ ~Carries(r)' /\ Others(r)
  BY <1>3 DEF InRunner, OneInRunner, Carries, Is, Others
<1>4. ASSUME NEW place \in {"fire", "cancel", "cancelall"}, NEW as, Escalating(r, place, as)
      PROVE  ~Carries(r)' /\ Others(r)
  BY <1>4 DEF Escalating, Carries, Queueing
<1>5. Empty(r) => ~Carries(r)' /\ Others(r)
  BY DEF Empty, Carries
<1> QED
  BY <1>1, <1>2, <1>3, <1>4, <1>5 DEF HandsKept

\* The items that are not in a queue or in a hand.
LEMMA SamePlacesElsewhere ==
  ASSUME NEW a, NEW e
  PROVE  /\ UNCHANGED queue => /\ InQueue(a, e)' <=> InQueue(a, e)
                               /\ OneInQueue(a, e)' <=> OneInQueue(a, e)
         /\ UNCHANGED worker => (InWorker(a, e)' <=> InWorker(a, e))
         /\ UNCHANGED sent => /\ InSent(a, e)' <=> InSent(a, e)
                              /\ OneInSent(a, e)' <=> OneInSent(a, e)
         /\ UNCHANGED dropped => /\ InDropped(a, e)' <=> InDropped(a, e)
                                 /\ OneInDropped(a, e)' <=> OneInDropped(a, e)
         /\ UNCHANGED <<open, buffer>> => /\ InBuffer(a, e)' <=> InBuffer(a, e)
                                          /\ OneInBuffer(a)' <=> OneInBuffer(a)
         /\ UNCHANGED coalesced => (Mentioned(a, e)' <=> Mentioned(a, e))
BY SMTT(30) DEF InQueue, OneInQueue, InWorker, InSent, OneInSent, InDropped, OneInDropped, InBuffer,
       OneInBuffer, Mentioned, Is

LEMMA DroppedPlaces ==
  ASSUME NEW x, dropped' = dropped \cup {x}, NEW a, NEW e
  PROVE  /\ InDropped(a, e)' <=> InDropped(a, e) \/ Is(x, a, e)
         /\ OneInDropped(a, e) /\ (Is(x, a, e) => ~InDropped(a, e)) => OneInDropped(a, e)'
BY DEF InDropped, OneInDropped, Is

LEMMA SentPlaces ==
  ASSUME NEW x, sent' = sent \cup {x}, NEW a, NEW e
  PROVE  /\ InSent(a, e)' <=> InSent(a, e) \/ Is(x, a, e)
         /\ OneInSent(a, e) /\ (Is(x, a, e) => ~InSent(a, e)) => OneInSent(a, e)'
BY DEF InSent, OneInSent, Is

\* Nothing moved but a runner that has nothing to do with the queue.
LEMMA NothingMoves ==
  ASSUME NEW r \in Runners, HandsKept(r),
         UNCHANGED <<queue, worker, sent, dropped, open, buffer, coalesced>>,
         NEW a, NEW e, AtMostOnce(a, e)
  PROVE  Kept(a, e)
BY SamePlacesInHand, SamePlacesElsewhere DEF Kept, AtMostOnce, Single, Exclusive, Somewhere

\* A runner puts its item into the queue, or loses it.
LEMMA PutPlaces ==
  ASSUME RouterTypeInv, NEW r \in Runners, Put(r) \/ PutAgain(r) \/ PutEscalation(r),
         NEW a, NEW e, AtMostOnce(a, e)
  PROVE  Kept(a, e)
<1>1. Carries(r) /\ runner[r].item \in Queued(published)
  BY PutEffect, PutAgainEffect, CarriedItem
<1>2. UNCHANGED <<worker, sent, open, buffer, coalesced>>
  BY DEF Put, PutAgain, PutEscalation, groupVars
<1>3. CASE queue' = queue /\ dropped' = dropped /\ StillLoaded(r)
  BY <1>1, <1>2, <1>3, NothingMoves DEF HandsKept
<1>4. CASE queue' = Append(queue, runner[r].item) /\ dropped' = dropped /\ Empty(r)
  <2>1. /\ InQueue(a, e)' <=> InQueue(a, e) \/ Is(runner[r].item, a, e)
        /\ OneInQueue(a, e) /\ (Is(runner[r].item, a, e) => ~InQueue(a, e)) => OneInQueue(a, e)'
    BY <1>1, <1>4, AppendPlaces
  <2>2. /\ InRunner(a, e)' <=> InRunner(a, e) /\ ~Is(runner[r].item, a, e)
        /\ Is(runner[r].item, a, e) => InRunner(a, e)
        /\ OneInRunner(a, e)'
    BY <1>1, <1>4, EmptyPlaces DEF AtMostOnce, Single
  <2> QED
    BY <1>2, <1>4, <2>1, <2>2, SamePlacesElsewhere DEF Kept, AtMostOnce, Single, Exclusive, Somewhere
<1>5. CASE queue' = queue /\ dropped' = dropped \cup {runner[r].item} /\ Empty(r)
  <2>1. /\ InDropped(a, e)' <=> InDropped(a, e) \/ Is(runner[r].item, a, e)
        /\ OneInDropped(a, e) /\ (Is(runner[r].item, a, e) => ~InDropped(a, e)) => OneInDropped(a, e)'
    BY <1>5, DroppedPlaces
  <2>2. /\ InRunner(a, e)' <=> InRunner(a, e) /\ ~Is(runner[r].item, a, e)
        /\ Is(runner[r].item, a, e) => InRunner(a, e)
        /\ OneInRunner(a, e)'
    BY <1>1, <1>5, EmptyPlaces DEF AtMostOnce, Single
  <2> QED
    BY <1>2, <1>5, <2>1, <2>2, SamePlacesElsewhere DEF Kept, AtMostOnce, Single, Exclusive, Somewhere
<1>6. CASE Put(r)
  BY <1>3, <1>4, <1>6, PutEffect DEF Put
<1>7. CASE PutAgain(r) \/ PutEscalation(r)
  BY <1>4, <1>5, <1>7, PutAgainEffect DEF PutAgain, PutEscalation
<1> QED
  BY <1>6, <1>7

LEMMA DropOldestPlaces ==
  ASSUME RouterTypeInv, NEW r \in Runners, DropOldest(r), NEW a, NEW e, AtMostOnce(a, e)
  PROVE  Kept(a, e)
<1>1. HandsKept(r)
  BY DropOldestEffect DEF HandsKept
<1>2. UNCHANGED <<worker, sent, open, buffer, coalesced>>
  BY DEF DropOldest, groupVars
<1>3. CASE UNCHANGED <<queue, dropped>>
  BY <1>1, <1>2, <1>3, NothingMoves
<1>4. CASE queue # <<>> /\ queue' = Tail(queue) /\ dropped' = dropped \cup {Head(queue)}
  <2>1. /\ InQueue(a, e)' <=> InQueue(a, e) /\ ~Is(Head(queue), a, e)
        /\ Is(Head(queue), a, e) => InQueue(a, e)
        /\ OneInQueue(a, e)'
    BY <1>4, TailPlaces DEF AtMostOnce, Single
  <2>2. /\ InDropped(a, e)' <=> InDropped(a, e) \/ Is(Head(queue), a, e)
        /\ OneInDropped(a, e) /\ (Is(Head(queue), a, e) => ~InDropped(a, e)) => OneInDropped(a, e)'
    BY <1>4, DroppedPlaces
  <2> QED
    BY <1>1, <1>2, <2>1, <2>2, SamePlacesInHand, SamePlacesElsewhere
       DEF Kept, AtMostOnce, Single, Exclusive, Somewhere
<1> QED
  BY <1>3, <1>4 DEF DropOldest

LEMMA GetPlaces ==
  ASSUME RouterTypeInv, Get, NEW a \in AnyAlert, NEW e, AtMostOnce(a, e)
  PROVE  Kept(a, e)
<1>1. /\ queue # <<>> /\ queue' = Tail(queue) /\ worker.pc = "get"
      /\ worker' = [pc |-> IF Head(queue) = Stop THEN "stopped" ELSE "dispatch",
                    item |-> Head(queue)]
      /\ UNCHANGED <<open, buffer, runner, sent, dropped, coalesced>>
  BY DEF Get, groupVars
<1>2. /\ InQueue(a, e)' <=> InQueue(a, e) /\ ~Is(Head(queue), a, e)
      /\ Is(Head(queue), a, e) => InQueue(a, e)
      /\ OneInQueue(a, e)'
  BY <1>1, TailPlaces DEF AtMostOnce, Single
<1>3. InWorker(a, e)' <=> Is(Head(queue), a, e)
  <2>1. Is(Head(queue), a, e) => Head(queue) # Stop
    BY DEF Is, Stop, AnyAlert
  <2> QED
    BY <1>1, <2>1 DEF InWorker, Is
<1>4. ~InWorker(a, e)
  BY <1>1 DEF InWorker
<1>5. (InRunner(a, e)' <=> InRunner(a, e)) /\ (OneInRunner(a, e)' <=> OneInRunner(a, e))
  BY <1>1 DEF InRunner, OneInRunner, Carries, Is
<1> QED
  BY <1>1, <1>2, <1>3, <1>4, <1>5, SamePlacesElsewhere
     DEF Kept, AtMostOnce, Single, Exclusive, Somewhere

LEMMA DispatchPlaces ==
  ASSUME RouterTypeInv, Dispatch, NEW a, NEW e, AtMostOnce(a, e)
  PROVE  Kept(a, e)
<1>1. /\ worker.pc = "dispatch" /\ sent' = sent \cup {worker.item}
      /\ UNCHANGED <<open, buffer, queue, runner, dropped, coalesced>>
  BY DEF Dispatch, groupVars
<1>2. worker'.pc # "dispatch"
  BY DEF Dispatch, RouterTypeInv, WorkerTypes, WorkerState
<1>3. (InWorker(a, e) <=> Is(worker.item, a, e)) /\ ~InWorker(a, e)'
  BY <1>1, <1>2 DEF InWorker
<1>4. /\ InSent(a, e)' <=> InSent(a, e) \/ Is(worker.item, a, e)
      /\ OneInSent(a, e) /\ (Is(worker.item, a, e) => ~InSent(a, e)) => OneInSent(a, e)'
  BY <1>1, SentPlaces
<1>5. (InRunner(a, e)' <=> InRunner(a, e)) /\ (OneInRunner(a, e)' <=> OneInRunner(a, e))
  BY <1>1 DEF InRunner, OneInRunner, Carries, Is
<1> QED
  BY <1>1, <1>3, <1>4, <1>5, SamePlacesElsewhere
     DEF Kept, AtMostOnce, Single, Exclusive, Somewhere

----------------------------------------------------------------------------
(* Items that come to be, and groups.                                       *)

LEMMA BufferFacts ==
  ASSUME RouterTypeInv, NEW g \in Groups
  PROVE  /\ buffer[g] \in Seq(Plain(published))
         /\ Len(buffer[g]) \in Nat
         /\ \A i \in 1 .. Len(buffer[g]) :
              buffer[g][i] \in Plain(published) /\ buffer[g][i].alert \in 1 .. published
<1>1. buffer[g] \in Seq(Plain(published))
  BY DEF RouterTypeInv, GroupTypes
<1>2. \A x \in Plain(published) : x.alert \in 1 .. published
  BY DEF Plain, KnownAlerts
<1> QED
  BY <1>1, <1>2, LenProperties, ElementOfSeq

\* Nothing is anywhere about an alert that was not published.
LEMMA KnownPlaces ==
  ASSUME RouterTypeInv, NEW a \in AnyAlert, NEW e \in BOOLEAN, Somewhere(a, e)
  PROVE  a \in 1 .. published
<1>1. ASSUME NEW x \in Queued(published), Is(x, a, e) PROVE a \in 1 .. published
  BY <1>1 DEF Queued, KnownAlerts, Is, Stop, AnyAlert
<1>2. KnownAlerts(published) \subseteq Queued(published)
  BY DEF Queued
<1>3. InQueue(a, e) => a \in 1 .. published
  BY <1>1, QueueFacts DEF InQueue
<1>4. InRunner(a, e) => a \in 1 .. published
  BY <1>1, CarriedItem DEF InRunner
<1>5. InWorker(a, e) => a \in 1 .. published
  BY <1>1, <1>2 DEF InWorker, RouterTypeInv, WorkerTypes
<1>6. InSent(a, e) \/ InDropped(a, e) \/ Mentioned(a, e) => a \in 1 .. published
  BY <1>1, <1>2 DEF InSent, InDropped, Mentioned, RouterTypeInv, OutcomeTypes
<1>7. InBuffer(a, e) => a \in 1 .. published
  BY BufferFacts DEF InBuffer, RouterTypeInv, GroupTypes
<1> QED
  BY <1>3, <1>4, <1>5, <1>6, <1>7 DEF Somewhere

LEMMA NowhereIsSingle ==
  ASSUME RouterTypeInv, NEW a, NEW e \in BOOLEAN, ~Somewhere(a, e), ~Somewhere(a, FALSE)
  PROVE  AtMostOnce(a, e)
<1>1. OneInQueue(a, e)
  BY DEF Somewhere, InQueue, OneInQueue
<1>2. OneInRunner(a, e) /\ OneInSent(a, e) /\ OneInDropped(a, e)
  BY DEF Somewhere, InRunner, OneInRunner, InSent, OneInSent, InDropped, OneInDropped
<1>3. OneInBuffer(a)
  BY DEF Somewhere, InBuffer, OneInBuffer
<1> QED
  BY <1>1, <1>2, <1>3 DEF AtMostOnce, Single, Exclusive, Somewhere

LEMMA BufferPlaces ==
  ASSUME RouterTypeInv, NEW g \in open, NEW S, NEW x \in S, buffer[g] \in Seq(S), open' = open,
         buffer' = [buffer EXCEPT ![g] = Append(@, x)], NEW a, NEW e
  PROVE  /\ InBuffer(a, e)' <=> InBuffer(a, e) \/ (e = FALSE /\ x.alert = a)
         /\ OneInBuffer(a) /\ (x.alert = a => ~InBuffer(a, FALSE)) => OneInBuffer(a)'
<1>1. open \subseteq Groups /\ buffer \in [Groups -> Seq(Plain(published))]
  BY DEF RouterTypeInv, GroupTypes
<1>2. PICK n \in Nat : n = Len(buffer[g])
  BY LenProperties
<1>3. /\ Len(Append(buffer[g], x)) = n + 1
      /\ \A i \in 1 .. n : Append(buffer[g], x)[i] = buffer[g][i]
      /\ Append(buffer[g], x)[n + 1] = x
  BY <1>2, AppendProperties
<1>4. buffer'[g] = Append(buffer[g], x) /\ \A h \in open \ {g} : buffer'[h] = buffer[h]
  BY <1>1
<1>5. \A i \in 1 .. n + 1 : i \in 1 .. n \/ i = n + 1
  OBVIOUS
<1>6. n + 1 \in 1 .. n + 1 /\ \A i \in 1 .. n : i \in 1 .. n + 1
  OBVIOUS
<1>7. InBuffer(a, e)' <=> InBuffer(a, e) \/ (e = FALSE /\ x.alert = a)
  <2>1. ASSUME NEW h \in open, NEW i \in 1 .. Len(buffer'[h]), buffer'[h][i].alert = a, e = FALSE
        PROVE  InBuffer(a, e) \/ x.alert = a
    <3>1. CASE h = g
      BY <1>2, <1>3, <1>4, <1>5, <2>1, <3>1 DEF InBuffer
    <3>2. CASE h # g
      BY <1>4, <2>1, <3>2 DEF InBuffer
    <3> QED
      BY <3>1, <3>2
  <2>2. ASSUME NEW h \in open, NEW i \in 1 .. Len(buffer[h]), buffer[h][i].alert = a
        PROVE  \E k \in open : \E j \in 1 .. Len(buffer'[k]) : buffer'[k][j].alert = a
    <3>1. CASE h = g
      BY <1>2, <1>3, <1>4, <1>6, <2>2, <3>1
    <3>2. CASE h # g
      BY <1>4, <2>2, <3>2
    <3> QED
      BY <3>1, <3>2
  <2>3. ASSUME x.alert = a
        PROVE  \E k \in open : \E j \in 1 .. Len(buffer'[k]) : buffer'[k][j].alert = a
    BY <1>3, <1>4, <1>6, <2>3
  <2> QED
    BY <2>1, <2>2, <2>3 DEF InBuffer
<1>8. ASSUME OneInBuffer(a), x.alert = a => ~InBuffer(a, FALSE)
      PROVE  OneInBuffer(a)'
  <2> DEFINE Old(h, i) == h \in open /\ i \in 1 .. Len(buffer[h]) /\ buffer[h][i].alert = a
  <2>1. ASSUME NEW h \in open, NEW i \in 1 .. Len(buffer'[h]), buffer'[h][i].alert = a
        PROVE  Old(h, i) \/ (h = g /\ i = n + 1 /\ x.alert = a)
    <3>1. CASE h = g
      BY <1>2, <1>3, <1>4, <1>5, <2>1, <3>1
    <3>2. CASE h # g
      BY <1>4, <2>1, <3>2
    <3> QED
      BY <3>1, <3>2
  <2>2. \A h, i : Old(h, i) => InBuffer(a, FALSE)
    BY DEF InBuffer
  <2>3. \A h, k, i, j : Old(h, i) /\ Old(k, j) => h = k /\ i = j
    BY <1>8 DEF OneInBuffer
  <2> HIDE DEF Old
  <2>4. \A h, k \in open : \A i \in 1 .. Len(buffer'[h]), j \in 1 .. Len(buffer'[k]) :
          buffer'[h][i].alert = a /\ buffer'[k][j].alert = a => h = k /\ i = j
    <3> SUFFICES ASSUME NEW h \in open, NEW k \in open,
                        NEW i \in 1 .. Len(buffer'[h]), NEW j \in 1 .. Len(buffer'[k]),
                        buffer'[h][i].alert = a, buffer'[k][j].alert = a
                 PROVE  h = k /\ i = j
      OBVIOUS
    <3>1. Old(h, i) \/ (h = g /\ i = n + 1 /\ x.alert = a)
      BY <2>1
    <3>2. Old(k, j) \/ (k = g /\ j = n + 1 /\ x.alert = a)
      BY <2>1
    <3> QED
      BY <1>8, <2>2, <2>3, <3>1, <3>2
  <2> QED
    BY <2>4 DEF OneInBuffer
<1> QED
  BY <1>7, <1>8

LEMMA OpenPlaces ==
  ASSUME RouterTypeInv, NEW g \in Groups, g \notin open, open' = open \cup {g},
         buffer' = [buffer EXCEPT ![g] = <<>>], NEW a, NEW e
  PROVE  (InBuffer(a, e)' <=> InBuffer(a, e)) /\ (OneInBuffer(a)' <=> OneInBuffer(a))
<1>1. open \subseteq Groups /\ buffer \in [Groups -> Seq(Plain(published))]
  BY DEF RouterTypeInv, GroupTypes
<1>2. \A h \in open : buffer'[h] = buffer[h]
  BY <1>1
<1>3. Len(buffer'[g]) = 0
  BY <1>1, EmptySeq
<1>4. \A i : i \notin 1 .. Len(buffer'[g])
  BY <1>3
<1> QED
  BY <1>2, <1>4 DEF InBuffer, OneInBuffer

LEMMA PublishPlaces ==
  ASSUME RouterTypeInv, NEW r \in Runners, NEW g \in Groups, NEW critical \in BOOLEAN,
         Publish(r, g, critical), NEW a \in AnyAlert, NEW e \in BOOLEAN, AtMostOnce(a, e)
  PROVE  /\ AtMostOnce(a, e)'
         /\ Somewhere(a, e)' <=> Somewhere(a, e) \/ (a = published + 1 /\ e = FALSE)
<1>1. PICK x : x = NewItem(critical)
  OBVIOUS
<1>2. /\ x \in Plain(published') /\ published' = published + 1 /\ published \in Nat
      /\ \/ g \in open /\ runner' = runner
         \/ g \notin open /\ Loaded(r, x)
  BY <1>1, PublishEffect, PublishedFacts
<1>3. Is(x, a, e) <=> a = published + 1 /\ e = FALSE
  BY <1>1 DEF Is, NewItem
<1>4. a = published + 1 => ~Somewhere(a, e)
  BY <1>2, KnownPlaces
<1>5. UNCHANGED <<queue, worker, sent, dropped, coalesced>> /\ ~Carries(r)
  BY DEF Publish, At, Carries, Queueing
<1>6. CASE g \in open
  <2>1. buffer' = [buffer EXCEPT ![g] = Append(@, x)] /\ open' = open /\ runner' = runner
    BY <1>1, <1>6 DEF Publish, NewItem, StartGroup
  <2>2. buffer[g] \in Seq(Plain(published'))
    <3>1. Plain(published) \subseteq Plain(published')
      BY <1>2, KnownGrows
    <3> QED
      BY <3>1, BufferFacts, SeqMonotonic
  <2>3. x.alert = published + 1
    BY <1>1 DEF NewItem
  <2>4. a = published + 1 => ~InBuffer(a, FALSE)
    <3>1. Somewhere(a, FALSE) => a \in 1 .. published
      BY KnownPlaces
    <3>2. InBuffer(a, FALSE) => Somewhere(a, FALSE)
      BY DEF Somewhere
    <3>3. a = published + 1 => a \notin 1 .. published
      BY <1>2
    <3> QED
      BY <3>1, <3>2, <3>3, Zenon
  <2>5. InBuffer(a, e)' <=> InBuffer(a, e) \/ (e = FALSE /\ a = published + 1)
    BY <1>2, <1>6, <2>1, <2>2, <2>3, BufferPlaces
  <2>6. OneInBuffer(a)'
    BY <1>2, <1>6, <2>1, <2>2, <2>3, <2>4, BufferPlaces DEF AtMostOnce, Single
  <2>7. HandsKept(r)
    BY <2>1 DEF HandsKept
  <2> QED
    BY <1>4, <1>5, <2>5, <2>6, <2>7, SamePlacesInHand, SamePlacesElsewhere
       DEF AtMostOnce, Single, Exclusive, Somewhere
<1>7. CASE g \notin open
  <2>1. buffer' = [buffer EXCEPT ![g] = <<>>] /\ open' = open \cup {g} /\ Loaded(r, x)
    BY <1>2, <1>7 DEF Publish, StartGroup
  <2>2. (InBuffer(a, e)' <=> InBuffer(a, e)) /\ (OneInBuffer(a)' <=> OneInBuffer(a))
    BY <1>7, <2>1, OpenPlaces
  <2>3. /\ InRunner(a, e)' <=> InRunner(a, e) \/ Is(x, a, e)
        /\ OneInRunner(a, e) /\ (Is(x, a, e) => ~InRunner(a, e)) => OneInRunner(a, e)'
    BY <1>5, <2>1, LoadPlaces
  <2> QED
    BY <1>3, <1>4, <1>5, <2>2, <2>3, SamePlacesElsewhere
       DEF AtMostOnce, Single, Exclusive, Somewhere
<1> QED
  BY <1>6, <1>7

\* The item of alert a is in the buffer of group g.
InGroup(g, a) == g \in open /\ \E i \in 1 .. Len(buffer[g]) : buffer[g][i].alert = a

LEMMA CloseGroupPlaces ==
  ASSUME RouterTypeInv, NEW g \in Groups, open' = open \ {g}, buffer' = [buffer EXCEPT ![g] = <<>>],
         NEW a, NEW e, OneInBuffer(a)
  PROVE  /\ InBuffer(a, e)' <=> InBuffer(a, e) /\ ~InGroup(g, a)
         /\ InGroup(g, a) => InBuffer(a, FALSE)
         /\ OneInBuffer(a)'
<1>1. open \subseteq Groups /\ buffer \in [Groups -> Seq(Plain(published))]
  BY DEF RouterTypeInv, GroupTypes
<1>2. \A h \in open' : h \in open /\ h # g /\ buffer'[h] = buffer[h]
  BY <1>1
<1>3. InGroup(g, a) => InBuffer(a, FALSE)
  BY DEF InGroup, InBuffer
<1>4. InBuffer(a, e)' <=> InBuffer(a, e) /\ ~InGroup(g, a)
  BY <1>2 DEF InBuffer, InGroup, OneInBuffer
<1>5. OneInBuffer(a)'
  BY <1>2 DEF OneInBuffer
<1> QED
  BY <1>3, <1>4, <1>5

LEMMA FlushPlaces ==
  ASSUME RouterTypeInv, NEW r \in Runners, Flush(r),
         NEW a \in AnyAlert, NEW e \in BOOLEAN, AtMostOnce(a, e)
  PROVE  Kept(a, e)
<1>1. PICK g : g = runner[r].group
  OBVIOUS
<1>2. /\ g \in Groups /\ ~Carries(r)
      /\ \/ /\ g \in open /\ buffer[g] # <<>>
            /\ coalesced' = coalesced \cup {buffer[g][i].alert : i \in 2 .. Len(buffer[g])}
            /\ Coalesce(buffer[g]) \in Plain(published)
            /\ Loaded(r, Coalesce(buffer[g]))
         \/ /\ g \notin open \/ buffer[g] = <<>>
            /\ coalesced' = coalesced
            /\ Empty(r)
  BY <1>1, FlushEffect
<1>3. /\ UNCHANGED <<queue, worker, sent, dropped>>
      /\ open' = open \ {g} /\ buffer' = [buffer EXCEPT ![g] = <<>>]
  BY <1>1 DEF Flush
<1>4. /\ InBuffer(a, e)' <=> InBuffer(a, e) /\ ~InGroup(g, a)
      /\ InGroup(g, a) => InBuffer(a, FALSE)
      /\ OneInBuffer(a)'
  BY <1>2, <1>3, CloseGroupPlaces DEF AtMostOnce, Single
<1>5. CASE (g \notin open \/ buffer[g] = <<>>) /\ coalesced' = coalesced /\ Empty(r)
  <2>1. ~InGroup(g, a)
    <3>1. CASE g \notin open
      BY <3>1 DEF InGroup
    <3>2. CASE buffer[g] = <<>>
      <4>1. Len(buffer[g]) = 0
        BY <3>2, EmptySeq
      <4> QED
        BY <4>1 DEF InGroup
    <3> QED
      BY <1>5, <3>1, <3>2
  <2>2. HandsKept(r)
    BY <1>2, <1>5 DEF HandsKept
  <2> QED
    BY <1>3, <1>4, <1>5, <2>1, <2>2, SamePlacesInHand, SamePlacesElsewhere
       DEF Kept, AtMostOnce, Single, Exclusive, Somewhere
<1>6. CASE /\ g \in open /\ buffer[g] # <<>>
           /\ coalesced' = coalesced \cup {buffer[g][i].alert : i \in 2 .. Len(buffer[g])}
           /\ Coalesce(buffer[g]) \in Plain(published)
           /\ Loaded(r, Coalesce(buffer[g]))
  <2>1. PICK x \in Plain(published) : x = Coalesce(buffer[g])
    BY <1>6
  <2>2. PICK n \in Nat : n = Len(buffer[g]) /\ n >= 1
    <3>1. buffer[g] \in Seq(Plain(published))
      BY <1>2, BufferFacts
    <3>2. Len(buffer[g]) \in Nat \ {0}
      BY <1>6, <3>1, EmptySeq
    <3> QED
      BY <3>2
  <2>3. x.alert = buffer[g][1].alert /\ x.escalation = FALSE
    BY <1>2, <1>6, <2>1, BufferFacts, CoalesceType, PublishedFacts DEF Plain
  <2> DEFINE First == buffer[g][1].alert = a
             Rest == \E i \in 2 .. n : buffer[g][i].alert = a
  <2>4. Is(x, a, e) <=> e = FALSE /\ First
    BY <2>3 DEF Is
  <2>5. Mentioned(a, e)' <=> Mentioned(a, e) \/ (e = FALSE /\ Rest)
    BY <1>6, <2>2 DEF Mentioned
  <2>6. InGroup(g, a) <=> First \/ Rest
    BY <1>6, <2>2 DEF InGroup
  <2>7. ~(First /\ Rest)
    <3> SUFFICES ASSUME First, NEW i \in 2 .. n, buffer[g][i].alert = a
                 PROVE  FALSE
      OBVIOUS
    <3>1. 1 \in 1 .. n /\ i \in 1 .. n /\ i # 1
      BY <2>2
    <3>2. OneInBuffer(a)
      BY DEF AtMostOnce, Single
    <3> QED
      BY <1>6, <2>2, <3>1, <3>2 DEF OneInBuffer
  <2>8. /\ InRunner(a, e)' <=> InRunner(a, e) \/ Is(x, a, e)
        /\ OneInRunner(a, e) /\ (Is(x, a, e) => ~InRunner(a, e)) => OneInRunner(a, e)'
    BY <1>2, <1>6, <2>1, LoadPlaces
  <2> HIDE DEF First, Rest
  <2>9. e = TRUE => ~InBuffer(a, e)
    BY DEF InBuffer
  <2>10. CASE e = FALSE
    BY <1>3, <1>4, <2>4, <2>5, <2>6, <2>7, <2>8, <2>10, SamePlacesElsewhere
       DEF Kept, AtMostOnce, Single, Exclusive, Somewhere
  <2>11. CASE e = TRUE
    BY <1>3, <1>4, <2>4, <2>5, <2>8, <2>9, <2>11, SamePlacesElsewhere
       DEF Kept, AtMostOnce, Single, Exclusive, Somewhere
  <2> QED
    BY <2>10, <2>11
<1> QED
  BY <1>2, <1>5, <1>6

\* _fire_escalation makes the escalation of an alert that is pending.
LEMMA FirePlaces ==
  ASSUME RouterTypeInv, NEW r \in Runners, Fire(r), NEW a \in AnyAlert, NEW e \in BOOLEAN,
         AtMostOnce(a, e), a \in pending => ~Somewhere(a, TRUE)
  PROVE  /\ AtMostOnce(a, e)'
         /\ Somewhere(a, e) => Somewhere(a, e)'
         /\ Somewhere(a, e)' => \/ Somewhere(a, e)
                                \/ e = TRUE /\ a \in runner[r].alerts \cap pending
         /\ runner[r].alerts \cap pending = {a} => Somewhere(a, TRUE)'
<1>1. UNCHANGED <<queue, worker, sent, dropped, open, buffer, coalesced>>
  BY DEF Fire, groupVars
<1>2. CASE runner[r].alerts \cap pending = {} /\ Empty(r)
  <2>1. Kept(a, e)
    BY <1>1, <1>2, FireEffect, NothingMoves DEF HandsKept
  <2> QED
    BY <1>2, <2>1 DEF Kept
<1>3. ASSUME NEW b \in runner[r].alerts \cap pending, Loaded(r, Escalation(b))
      PROVE  /\ AtMostOnce(a, e)'
             /\ Somewhere(a, e) => Somewhere(a, e)'
             /\ Somewhere(a, e)' => \/ Somewhere(a, e)
                                    \/ e = TRUE /\ a \in runner[r].alerts \cap pending
             /\ runner[r].alerts \cap pending = {a} => Somewhere(a, TRUE)'
  <2>1. /\ InRunner(a, e)' <=> InRunner(a, e) \/ Is(Escalation(b), a, e)
        /\ OneInRunner(a, e) /\ (Is(Escalation(b), a, e) => ~InRunner(a, e)) => OneInRunner(a, e)'
    BY <1>3, FireEffect, LoadPlaces
  <2>2. Is(Escalation(b), a, e) <=> a = b /\ e = TRUE
    BY DEF Is, Escalation
  <2>3. a = b /\ e = TRUE => ~Somewhere(a, e)
    BY <1>3
  <2>4. a = b => InRunner(a, TRUE)'
    <3>1. Is(runner'[r].item, b, TRUE) /\ Carries(r)'
      BY <1>3 DEF Loaded, Carries, Is, Escalation
    <3> QED
      BY <3>1 DEF InRunner, Is
  <2>5. runner[r].alerts \cap pending = {a} => Somewhere(a, TRUE)'
    BY <1>3, <2>4 DEF Somewhere
  <2> QED
    BY <1>1, <1>3, <2>1, <2>2, <2>3, <2>5, SamePlacesElsewhere
       DEF AtMostOnce, Single, Exclusive, Somewhere
<1> QED
  BY <1>2, <1>3, FireEffect

LEMMA WorkerPlaces ==
  ASSUME RouterTypeInv, Schedule \/ StartTimer, NEW a, NEW e, AtMostOnce(a, e)
  PROVE  Kept(a, e)
<1>1. UNCHANGED <<queue, runner, sent, dropped, open, buffer, coalesced>>
  BY DEF Schedule, StartTimer, groupVars
<1>2. worker.pc # "dispatch" /\ worker'.pc # "dispatch"
  BY DEF Schedule, StartTimer, RouterTypeInv, WorkerTypes, WorkerState
<1>3. ~InWorker(a, e) /\ ~InWorker(a, e)'
  BY <1>2 DEF InWorker
<1>4. (InRunner(a, e)' <=> InRunner(a, e)) /\ (OneInRunner(a, e)' <=> OneInRunner(a, e))
  BY <1>1 DEF InRunner, OneInRunner, Carries, Is
<1> QED
  BY <1>1, <1>3, <1>4, SamePlacesElsewhere DEF Kept, AtMostOnce, Single, Exclusive, Somewhere

LEMMA SentinelPlaces ==
  ASSUME RouterTypeInv, NEW r \in Runners, PutSentinel(r), NEW a \in AnyAlert, NEW e, AtMostOnce(a, e)
  PROVE  Kept(a, e)
<1>1. UNCHANGED <<worker, sent, dropped, open, buffer, coalesced>>
  BY DEF PutSentinel, groupVars
<1>2. HandsKept(r)
  <2>1. PICK g \in Groups : TRUE
    BY Constants
  <2> QED
    BY <2>1, AsideEffect DEF HandsKept
<1>3. ~Is(Stop, a, e) /\ Stop \in Queued(published)
  <2>1. a # 0
    BY Constants DEF AnyAlert
  <2>2. ~Is(Stop, a, e)
    BY <2>1 DEF Is, Stop
  <2>3. Stop \in Queued(published)
    BY DEF Queued
  <2> QED
    BY <2>2, <2>3
<1>4. CASE queue' = queue
  BY <1>1, <1>2, <1>4, NothingMoves
<1>5. CASE queue' = Append(queue, Stop)
  <2>1. /\ InQueue(a, e)' <=> InQueue(a, e)
        /\ OneInQueue(a, e) => OneInQueue(a, e)'
    BY <1>3, <1>5, AppendPlaces
  <2> QED
    BY <1>1, <1>2, <2>1, SamePlacesInHand, SamePlacesElsewhere
       DEF Kept, AtMostOnce, Single, Exclusive, Somewhere
<1> QED
  BY <1>4, <1>5 DEF PutSentinel

LEMMA AsidePlaces ==
  ASSUME RouterTypeInv, NEW r \in Runners, NEW g \in Groups, NEW b \in AnyAlert,
         \/ ExpireGroup(r, g) \/ Cancel(r) \/ CancelAll(r) \/ FlushAll(r)
         \/ ExpireEscalation(r, b) \/ Acknowledge(r, b) \/ Shutdown(r),
         NEW a, NEW e, AtMostOnce(a, e)
  PROVE  Kept(a, e)
<1>1. UNCHANGED <<queue, worker, sent, dropped, open, buffer, coalesced>>
  BY DEF ExpireGroup, Cancel, CancelAll, FlushAll, ExpireEscalation, Acknowledge, Shutdown, groupVars
<1>2. HandsKept(r)
  BY AsideEffect, ExpireEscalationEffect, AcknowledgeEffect, ShutdownEffect DEF HandsKept
<1> QED
  BY <1>1, <1>2, NothingMoves

\* What a step can do to the places of an item.
LEMMA StepPlaces ==
  ASSUME RouterTypeInv, [RouterNext]_routerVars, NEW a \in AnyAlert, NEW e \in BOOLEAN,
         AtMostOnce(a, e), a \in pending => ~Somewhere(a, TRUE)
  PROVE  /\ AtMostOnce(a, e)'
         /\ Somewhere(a, e) => Somewhere(a, e)'
         /\ Somewhere(a, e)' =>
              \/ Somewhere(a, e)
              \/ e = FALSE /\ a = published + 1 /\ published' = published + 1
              \/ e = TRUE /\ \E r \in Runners : Fire(r) /\ a \in runner[r].alerts \cap pending
<1>1. ASSUME Kept(a, e)
      PROVE  AtMostOnce(a, e)' /\ (Somewhere(a, e)' <=> Somewhere(a, e))
  BY <1>1 DEF Kept
<1>2. ASSUME NEW r \in Runners, NEW g \in Groups, NEW critical \in BOOLEAN, Publish(r, g, critical)
      PROVE  /\ AtMostOnce(a, e)'
             /\ Somewhere(a, e)' <=> Somewhere(a, e) \/ (a = published + 1 /\ e = FALSE)
             /\ published' = published + 1
  BY <1>2, PublishPlaces DEF Publish
<1>3. ASSUME NEW r \in Runners, Fire(r)
      PROVE  /\ AtMostOnce(a, e)'
             /\ Somewhere(a, e) => Somewhere(a, e)'
             /\ Somewhere(a, e)' => \/ Somewhere(a, e)
                                    \/ e = TRUE /\ a \in runner[r].alerts \cap pending
  BY <1>3, FirePlaces
<1>4. ASSUME NEW r \in Runners,
             \/ Put(r) \/ PutAgain(r) \/ PutEscalation(r) \/ DropOldest(r) \/ Flush(r) \/ PutSentinel(r)
      PROVE  Kept(a, e)
  BY <1>4, PutPlaces, DropOldestPlaces, FlushPlaces, SentinelPlaces
<1>5. ASSUME NEW r \in Runners, NEW g \in Groups, NEW b \in AnyAlert,
             \/ ExpireGroup(r, g) \/ Cancel(r) \/ CancelAll(r) \/ FlushAll(r)
             \/ ExpireEscalation(r, b) \/ Acknowledge(r, b) \/ Shutdown(r)
      PROVE  Kept(a, e)
  BY <1>5, AsidePlaces
<1>6. (\E g \in Groups : TRUE) /\ (\E b \in AnyAlert : TRUE)
  BY Constants
<1>7. CASE Get \/ Dispatch \/ Schedule \/ StartTimer
  BY <1>1, <1>7, GetPlaces, DispatchPlaces, WorkerPlaces
<1>8. CASE UNCHANGED routerVars
  <2>1. /\ UNCHANGED <<queue, worker, sent, dropped, open, buffer, coalesced, runner>>
    BY <1>8 DEF routerVars, groupVars
  <2>2. (InRunner(a, e)' <=> InRunner(a, e)) /\ (OneInRunner(a, e)' <=> OneInRunner(a, e))
    BY <2>1 DEF InRunner, OneInRunner, Carries, Is
  <2>3. Kept(a, e)
    BY <2>1, <2>2, SamePlacesElsewhere DEF Kept, AtMostOnce, Single, Exclusive, Somewhere
  <2> QED
    BY <1>1, <2>3
<1>9. ASSUME NEW r \in Runners, Runner(r)
      PROVE  \/ Kept(a, e)
             \/ \E g \in Groups, critical \in BOOLEAN : Publish(r, g, critical)
             \/ Fire(r)
  BY <1>4, <1>5, <1>6, <1>9 DEF Runner
<1>10. ASSUME NEW r \in Runners, Runner(r)
       PROVE  /\ AtMostOnce(a, e)'
              /\ Somewhere(a, e) => Somewhere(a, e)'
              /\ Somewhere(a, e)' =>
                   \/ Somewhere(a, e)
                   \/ e = FALSE /\ a = published + 1 /\ published' = published + 1
                   \/ e = TRUE /\ \E s \in Runners : Fire(s) /\ a \in runner[s].alerts \cap pending
  BY <1>1, <1>2, <1>3, <1>9, <1>10
<1> QED
  BY <1>7, <1>8, <1>10 DEF RouterNext, Worker

----------------------------------------------------------------------------
(* Escalation.                                                              *)

Critical(a) == [alert |-> a, critical |-> TRUE, escalation |-> FALSE]
Escalated(a) == Somewhere(a, TRUE)

\* A timer thread of the alert runs, a caller of acknowledge() cancels its timer.
Firing(a) == \E r \in Runners : At(r, "fire") /\ a \in runner[r].alerts
Cancelling(a) == \E r \in Runners : At(r, "cancel") /\ a \in runner[r].alerts
WorksOn(place, a) == worker.pc = place /\ worker.item = Critical(a)

\* The two tables have the same alerts, until shutdown() empties one of them.
TimerIsPending(a) ==
  /\ a \in timers => a \in pending
  /\ ~shut /\ a \in pending => a \in timers
PendingIsUndecided(a) == a \in pending => Critical(a) \in sent /\ ~Escalated(a) /\ a \notin acked
AckedIsQuiet(a) == a \in acked => Critical(a) \in sent /\ ~Escalated(a)
WasSent(a) == Escalated(a) \/ timer[a] # "none" => Critical(a) \in sent
\* The worker comes to an alert once, right after it was sent.
SchedulesOnce(a) ==
  WorksOn("schedule", a) =>
    /\ Critical(a) \in sent /\ a \notin pending /\ a \notin acked
    /\ timer[a] = "none" /\ ~Escalated(a)
StartsPending(a) ==
  WorksOn("start", a) =>
    /\ Critical(a) \in sent
    /\ ~shut /\ a \notin acked => timer[a] = "created" /\ a \in pending
FiresOnce(a) == Firing(a) => timer[a] = "fired"
CancelsAcked(a) == Cancelling(a) => a \in acked
WillEscalate(a) ==
  Critical(a) \in sent /\ ~shut /\ a \notin acked =>
    \/ timer[a] = "running" /\ a \in pending
    \/ WorksOn("schedule", a) \/ WorksOn("start", a)
    \/ Firing(a) /\ a \in pending
    \/ Escalated(a)

EscalationOf(a) ==
  /\ TimerIsPending(a) /\ PendingIsUndecided(a) /\ AckedIsQuiet(a) /\ WasSent(a)
  /\ SchedulesOnce(a) /\ StartsPending(a) /\ FiresOnce(a) /\ CancelsAcked(a) /\ WillEscalate(a)

\* What the worker and the runners are at.
WorkerAtCritical ==
  worker.pc \in {"schedule", "start"} => \E a \in AnyAlert : worker.item = Critical(a)
RunnersAtOne ==
  \A r \in Runners :
    /\ At(r, "fire") => \E a \in AnyAlert : runner[r].alerts = {a}
    /\ At(r, "cancelall") => shut

EscalationInv == WorkerAtCritical /\ RunnersAtOne /\ \A a \in AnyAlert : EscalationOf(a)

LEMMA CriticalFacts ==
  /\ \A a : Critical(a).alert = a /\ Critical(a).critical = TRUE /\ Critical(a).escalation = FALSE
  /\ \A a, b : Critical(a) = Critical(b) => a = b
  /\ \A a : Is(Critical(a), a, FALSE)
<1>1. \A a : Critical(a).alert = a /\ Critical(a).critical = TRUE /\ Critical(a).escalation = FALSE
  BY DEF Critical
<1>2. \A a, b : Critical(a) = Critical(b) => a = b
  BY <1>1
<1> QED
  BY <1>1, <1>2 DEF Is

\* The runner neither fires nor cancels: before, or after.
Elsewhere(r) == runner[r].pc \notin {"fire", "cancel", "cancelall"}
Off(r) == Others(r) /\ Elsewhere(r)'

LEMMA HandsOff ==
  ASSUME NEW r \in Runners, runner' = runner \/ Empty(r) \/ \E x : Loaded(r, x)
  PROVE  runner' = runner \/ Off(r)
BY DEF Empty, Loaded, Off, Elsewhere, Queueing

\* A runner that does not fire leaves to the others what they are at.
LEMMA OffKeeps ==
  ASSUME RunnersAtOne, NEW r \in Runners, ~At(r, "fire"), runner' = runner \/ Off(r), shut => shut'
  PROVE  /\ RunnersAtOne'
         /\ \A a : (Firing(a)' <=> Firing(a)) /\ (Cancelling(a)' => Cancelling(a))
<1>1. CASE runner' = runner
  BY <1>1 DEF RunnersAtOne, Firing, Cancelling, At
<1>2. CASE Off(r)
  <2>1. /\ \A t \in Runners \ {r} : runner'[t] = runner[t]
        /\ runner'[r].pc \notin {"fire", "cancel", "cancelall"}
    BY <1>2 DEF Off, Others, Elsewhere
  <2> QED
    BY <2>1 DEF RunnersAtOne, Firing, Cancelling, At
<1> QED
  BY <1>1, <1>2

SameEscalated == \A a \in AnyAlert : Escalated(a)' <=> Escalated(a)
SameRunners ==
  /\ RunnersAtOne'
  /\ \A a : (Firing(a)' <=> Firing(a)) /\ (Cancelling(a)' => Cancelling(a))
NotScheduling == worker.pc \notin {"schedule", "start"}

\* Most steps do not touch the tables, and find the worker elsewhere.
LEMMA QuietStep ==
  ASSUME EscalationInv, SameEscalated, SameRunners,
         UNCHANGED <<timers, pending, timer, acked, sent, shut>>,
         worker' = worker \/ (NotScheduling /\ NotScheduling')
  PROVE  EscalationInv'
<1>1. WorkerAtCritical'
  BY DEF EscalationInv, WorkerAtCritical, NotScheduling
<1>2. ASSUME NEW a \in AnyAlert
      PROVE  EscalationOf(a)'
  <2>1. EscalationOf(a) /\ (Escalated(a)' <=> Escalated(a))
    BY DEF EscalationInv, SameEscalated
  <2>2. (Firing(a)' <=> Firing(a)) /\ (Cancelling(a)' => Cancelling(a))
    BY DEF SameRunners
  <2>3. WorksOn("schedule", a)' <=> WorksOn("schedule", a)
    BY DEF WorksOn, NotScheduling
  <2>4. WorksOn("start", a)' <=> WorksOn("start", a)
    BY DEF WorksOn, NotScheduling
  <2> QED
    BY <2>1, <2>2, <2>3, <2>4
       DEF EscalationOf, TimerIsPending, PendingIsUndecided, AckedIsQuiet, WasSent, SchedulesOnce,
           StartsPending, FiresOnce, CancelsAcked, WillEscalate
<1> QED
  BY <1>1, <1>2 DEF EscalationInv, SameRunners

LEMMA DispatchStep ==
  ASSUME RouterTypeInv, EscalationInv, SameEscalated, Dispatch,
         \A a \in AnyAlert : AtMostOnce(a, FALSE)
  PROVE  EscalationInv'
<1>1. /\ worker.pc = "dispatch" /\ worker.item \in KnownAlerts(published)
      /\ sent' = sent \cup {worker.item}
      /\ worker' = IF worker.item.critical /\ ~worker.item.escalation
                   THEN [worker EXCEPT !.pc = "schedule"] ELSE [pc |-> "get", item |-> Stop]
      /\ UNCHANGED <<timers, pending, timer, acked, runner, shut>>
  BY DEF Dispatch, escalationVars, RouterTypeInv, WorkerTypes
<1>2. SameRunners
  BY <1>1 DEF SameRunners, RunnersAtOne, Firing, Cancelling, At, EscalationInv
<1>3. PICK x \in KnownAlerts(published) : x = worker.item
  BY <1>1
<1>4. x.alert \in AnyAlert /\ x.critical \in BOOLEAN /\ x.escalation \in BOOLEAN
  <2>1. 1 .. published \subseteq AnyAlert
    BY Constants DEF AnyAlert, RouterTypeInv
  <2> QED
    BY <2>1 DEF KnownAlerts
<1>5. CASE x.critical /\ ~x.escalation
  <2>1. x = Critical(x.alert)
    <3>1. x = [alert |-> x.alert, critical |-> x.critical, escalation |-> x.escalation]
      BY DEF KnownAlerts
    <3>2. x.critical = TRUE /\ x.escalation = FALSE
      BY <1>4, <1>5
    <3> QED
      BY <3>1, <3>2 DEF Critical
  <2>2. worker'.pc = "schedule" /\ worker'.item = x
    BY <1>1, <1>3, <1>5 DEF RouterTypeInv, WorkerTypes, WorkerState
  <2>3. WorkerAtCritical'
    BY <1>4, <2>1, <2>2 DEF WorkerAtCritical
  <2>4. Critical(x.alert) \notin sent
    <3>1. InWorker(x.alert, FALSE)
      BY <1>1, <1>3, <2>1, CriticalFacts DEF InWorker
    <3>2. ~InSent(x.alert, FALSE)
      BY <1>4, <3>1 DEF AtMostOnce, Exclusive
    <3> QED
      BY <3>2, CriticalFacts DEF InSent
  <2>5. ASSUME NEW a \in AnyAlert
        PROVE  EscalationOf(a)'
    <3>1. EscalationOf(a) /\ (Escalated(a)' <=> Escalated(a))
      BY DEF EscalationInv, SameEscalated
    <3>2. (Firing(a)' <=> Firing(a)) /\ (Cancelling(a)' => Cancelling(a))
      BY <1>2 DEF SameRunners
    <3>3. ~WorksOn("schedule", a) /\ ~WorksOn("start", a) /\ ~WorksOn("start", a)'
      BY <1>1, <2>2 DEF WorksOn
    <3>4. CASE a = x.alert
      <4>1. Critical(a) \in sent' /\ WorksOn("schedule", a)' /\ Critical(a) \notin sent
        BY <1>1, <1>3, <2>1, <2>2, <2>4, <3>4 DEF WorksOn
      <4> QED
        BY <1>1, <3>1, <3>2, <3>3, <4>1
           DEF EscalationOf, TimerIsPending, PendingIsUndecided, AckedIsQuiet, WasSent,
               SchedulesOnce, StartsPending, FiresOnce, CancelsAcked, WillEscalate
    <3>5. CASE a # x.alert
      <4>1. (Critical(a) \in sent' <=> Critical(a) \in sent) /\ ~WorksOn("schedule", a)'
        BY <1>1, <1>3, <2>1, <2>2, <3>5, CriticalFacts DEF WorksOn
      <4> QED
        BY <1>1, <3>1, <3>2, <3>3, <4>1
           DEF EscalationOf, TimerIsPending, PendingIsUndecided, AckedIsQuiet, WasSent,
               SchedulesOnce, StartsPending, FiresOnce, CancelsAcked, WillEscalate
    <3> QED
      BY <3>4, <3>5
  <2> QED
    BY <1>2, <2>3, <2>5 DEF EscalationInv, SameRunners
<1>6. CASE ~(x.critical /\ ~x.escalation)
  <2>1. worker'.pc = "get"
    BY <1>1, <1>3, <1>6
  <2>2. WorkerAtCritical'
    BY <2>1 DEF WorkerAtCritical
  <2>3. ASSUME NEW a \in AnyAlert
        PROVE  EscalationOf(a)'
    <3>1. EscalationOf(a) /\ (Escalated(a)' <=> Escalated(a))
      BY DEF EscalationInv, SameEscalated
    <3>2. (Firing(a)' <=> Firing(a)) /\ (Cancelling(a)' => Cancelling(a))
      BY <1>2 DEF SameRunners
    <3>3. ~WorksOn("schedule", a) /\ ~WorksOn("start", a)
      BY <1>1 DEF WorksOn
    <3>4. ~WorksOn("schedule", a)' /\ ~WorksOn("start", a)'
      BY <2>1 DEF WorksOn
    <3>5. Critical(a) \in sent' <=> Critical(a) \in sent
      <4>1. x # Critical(a)
        BY <1>6, CriticalFacts
      <4> QED
        BY <1>1, <1>3, <4>1
    <3> QED
      BY <1>1, <3>1, <3>2, <3>3, <3>4, <3>5
         DEF EscalationOf, TimerIsPending, PendingIsUndecided, AckedIsQuiet, WasSent,
             SchedulesOnce, StartsPending, FiresOnce, CancelsAcked, WillEscalate
  <2> QED
    BY <1>2, <2>2, <2>3 DEF EscalationInv, SameRunners
<1> QED
  BY <1>5, <1>6

LEMMA ScheduleStep ==
  ASSUME RouterTypeInv, EscalationInv, SameEscalated, Schedule
  PROVE  EscalationInv'
<1>1. PICK b \in AnyAlert : worker.item = Critical(b)
  BY DEF EscalationInv, WorkerAtCritical, Schedule
<1>2. /\ worker.pc = "schedule" /\ worker'.pc = "start" /\ worker'.item = worker.item
      /\ timers' = timers \cup {b} /\ pending' = pending \cup {b}
      /\ timer' = [timer EXCEPT ![b] = "created"]
      /\ UNCHANGED <<acked, runner, shut, sent>>
  <2>1. worker.item.alert = b
    BY <1>1, CriticalFacts
  <2> QED
    BY <2>1 DEF Schedule, RouterTypeInv, WorkerTypes, WorkerState
<1>3. SameRunners
  BY <1>2 DEF SameRunners, RunnersAtOne, Firing, Cancelling, At, EscalationInv
<1>4. WorkerAtCritical'
  BY <1>1, <1>2 DEF WorkerAtCritical
<1>5. timer \in [AnyAlert -> {"none", "created", "running", "fired", "cancelled"}]
  BY DEF RouterTypeInv, EscalationTypes
<1>6. ASSUME NEW a \in AnyAlert
      PROVE  EscalationOf(a)'
  <2>1. EscalationOf(a) /\ (Escalated(a)' <=> Escalated(a))
    BY DEF EscalationInv, SameEscalated
  <2>2. (Firing(a)' <=> Firing(a)) /\ (Cancelling(a)' => Cancelling(a))
    BY <1>3 DEF SameRunners
  <2>3. /\ WorksOn("schedule", a) <=> a = b
        /\ WorksOn("start", a)' <=> a = b
        /\ ~WorksOn("start", a) /\ ~WorksOn("schedule", a)'
    BY <1>1, <1>2, CriticalFacts DEF WorksOn
  <2>4. timer'[a] = IF a = b THEN "created" ELSE timer[a]
    BY <1>2, <1>5
  <2> QED
    BY <1>2, <2>1, <2>2, <2>3, <2>4
       DEF EscalationOf, TimerIsPending, PendingIsUndecided, AckedIsQuiet, WasSent,
           SchedulesOnce, StartsPending, FiresOnce, CancelsAcked, WillEscalate
<1> QED
  BY <1>3, <1>4, <1>6 DEF EscalationInv, SameRunners

LEMMA StartTimerStep ==
  ASSUME RouterTypeInv, EscalationInv, SameEscalated, StartTimer
  PROVE  EscalationInv'
<1>1. PICK b \in AnyAlert : worker.item = Critical(b)
  BY DEF EscalationInv, WorkerAtCritical, StartTimer
<1>2. /\ worker.pc = "start" /\ worker'.pc = "get"
      /\ timer' = [timer EXCEPT ![b] = IF @ = "created" THEN "running" ELSE @]
      /\ UNCHANGED <<timers, pending, acked, runner, shut, sent>>
  <2>1. worker.item.alert = b
    BY <1>1, CriticalFacts
  <2> QED
    BY <2>1 DEF StartTimer
<1>3. SameRunners
  BY <1>2 DEF SameRunners, RunnersAtOne, Firing, Cancelling, At, EscalationInv
<1>4. WorkerAtCritical'
  BY <1>2 DEF WorkerAtCritical
<1>5. timer \in [AnyAlert -> {"none", "created", "running", "fired", "cancelled"}]
  BY DEF RouterTypeInv, EscalationTypes
<1>6. ASSUME NEW a \in AnyAlert
      PROVE  EscalationOf(a)'
  <2>1. EscalationOf(a) /\ (Escalated(a)' <=> Escalated(a))
    BY DEF EscalationInv, SameEscalated
  <2>2. (Firing(a)' <=> Firing(a)) /\ (Cancelling(a)' => Cancelling(a))
    BY <1>3 DEF SameRunners
  <2>3. /\ WorksOn("start", a) <=> a = b
        /\ ~WorksOn("schedule", a) /\ ~WorksOn("schedule", a)' /\ ~WorksOn("start", a)'
    BY <1>1, <1>2, CriticalFacts DEF WorksOn
  <2>4. timer'[a] = IF a = b /\ timer[a] = "created" THEN "running" ELSE timer[a]
    BY <1>2, <1>5
  <2> QED
    BY <1>2, <2>1, <2>2, <2>3, <2>4
       DEF EscalationOf, TimerIsPending, PendingIsUndecided, AckedIsQuiet, WasSent,
           SchedulesOnce, StartsPending, FiresOnce, CancelsAcked, WillEscalate
<1> QED
  BY <1>3, <1>4, <1>6 DEF EscalationInv, SameRunners

LEMMA ExpireEscalationStep ==
  ASSUME RouterTypeInv, EscalationInv, SameEscalated, NEW r \in Runners, NEW b \in AnyAlert,
         ExpireEscalation(r, b)
  PROVE  EscalationInv'
<1>1. /\ At(r, "idle") /\ timer[b] = "running" /\ timer' = [timer EXCEPT ![b] = "fired"]
      /\ UNCHANGED <<timers, pending, acked, worker, shut, sent>>
  BY DEF ExpireEscalation
<1>2. /\ runner'[r].pc = "fire" /\ runner'[r].alerts = {b}
      /\ \A t \in Runners \ {r} : runner'[t] = runner[t]
  BY ExpireEscalationEffect DEF Escalating, Others
<1>3. RunnersAtOne'
  BY <1>1, <1>2 DEF EscalationInv, RunnersAtOne, At
<1>4. WorkerAtCritical'
  BY <1>1 DEF EscalationInv, WorkerAtCritical
<1>5. timer \in [AnyAlert -> {"none", "created", "running", "fired", "cancelled"}]
  BY DEF RouterTypeInv, EscalationTypes
<1>6. ASSUME NEW a \in AnyAlert
      PROVE  EscalationOf(a)'
  <2>1. EscalationOf(a) /\ (Escalated(a)' <=> Escalated(a))
    BY DEF EscalationInv, SameEscalated
  <2>2. (Firing(a)' <=> Firing(a) \/ a = b) /\ (Cancelling(a)' => Cancelling(a))
    BY <1>1, <1>2 DEF Firing, Cancelling, At
  <2>3. /\ WorksOn("schedule", a)' <=> WorksOn("schedule", a)
        /\ WorksOn("start", a)' <=> WorksOn("start", a)
    BY <1>1 DEF WorksOn
  <2>4. timer'[a] = IF a = b THEN "fired" ELSE timer[a]
    BY <1>1, <1>5
  <2> QED
    BY <1>1, <2>1, <2>2, <2>3, <2>4
       DEF EscalationOf, TimerIsPending, PendingIsUndecided, AckedIsQuiet, WasSent,
           SchedulesOnce, StartsPending, FiresOnce, CancelsAcked, WillEscalate
<1> QED
  BY <1>3, <1>4, <1>6 DEF EscalationInv

\* _fire_escalation: the alert it decides about is no longer pending, and is
\* escalated if it was.
LEMMA FireStep ==
  ASSUME RouterTypeInv, EscalationInv, NEW r \in Runners, Fire(r),
         \A a \in AnyAlert :
           /\ Escalated(a) => Escalated(a)'
           /\ Escalated(a)' => Escalated(a) \/ a \in runner[r].alerts \cap pending
           /\ runner[r].alerts \cap pending = {a} => Escalated(a)'
  PROVE  EscalationInv'
<1>1. PICK b \in AnyAlert : runner[r].alerts = {b}
  BY DEF Fire, EscalationInv, RunnersAtOne
<1>2. /\ At(r, "fire") /\ pending' = pending \ {b} /\ timers' = timers \ {b}
      /\ UNCHANGED <<timer, acked, worker, shut, sent>>
  BY <1>1 DEF Fire
<1>3. /\ runner'[r].pc \notin {"fire", "cancel", "cancelall"}
      /\ \A t \in Runners \ {r} : runner'[t] = runner[t]
  BY FireEffect DEF Empty, Loaded, Others, Queueing
<1>4. RunnersAtOne'
  BY <1>2, <1>3 DEF EscalationInv, RunnersAtOne, At
<1>5. WorkerAtCritical'
  BY <1>2 DEF EscalationInv, WorkerAtCritical
<1>6. Firing(b)
  BY <1>1, <1>2 DEF Firing
<1>7. ASSUME NEW a \in AnyAlert
      PROVE  EscalationOf(a)'
  <2>1. /\ EscalationOf(a) /\ (Escalated(a) => Escalated(a)')
        /\ Escalated(a)' => Escalated(a) \/ (a = b /\ a \in pending)
        /\ a = b /\ a \in pending => Escalated(a)'
    BY <1>1 DEF EscalationInv
  <2>2. /\ Firing(a)' => Firing(a)
        /\ Firing(a) /\ a # b => Firing(a)'
        /\ Cancelling(a)' => Cancelling(a)
    BY <1>1, <1>2, <1>3 DEF Firing, Cancelling, At
  <2>3. /\ WorksOn("schedule", a)' <=> WorksOn("schedule", a)
        /\ WorksOn("start", a)' <=> WorksOn("start", a)
    BY <1>2 DEF WorksOn
  <2>4. a = b => timer[a] = "fired"
    BY <1>6, <2>1 DEF EscalationOf, FiresOnce
  <2> QED
    BY <1>2, <2>1, <2>2, <2>3, <2>4
       DEF EscalationOf, TimerIsPending, PendingIsUndecided, AckedIsQuiet, WasSent,
           SchedulesOnce, StartsPending, FiresOnce, CancelsAcked, WillEscalate
<1> QED
  BY <1>4, <1>5, <1>7 DEF EscalationInv

LEMMA AcknowledgeStep ==
  ASSUME RouterTypeInv, EscalationInv, SameEscalated, NEW r \in Runners, NEW b \in AnyAlert,
         Acknowledge(r, b)
  PROVE  EscalationInv'
<1>1. /\ At(r, "idle") /\ timers' = timers \ {b} /\ pending' = pending \ {b}
      /\ acked' = acked \cup (timers \cap {b})
      /\ UNCHANGED <<timer, worker, shut, sent>>
  <2>1. acked' = acked \cup (timers \cap {b})
    BY DEF Acknowledge
  <2> QED
    BY <2>1 DEF Acknowledge
<1>2. \/ b \notin timers /\ runner' = runner
      \/ /\ b \in timers /\ runner'[r].pc = "cancel" /\ runner'[r].alerts = {b}
         /\ \A t \in Runners \ {r} : runner'[t] = runner[t]
  BY AcknowledgeEffect DEF Escalating, Others
<1>3. RunnersAtOne'
  BY <1>1, <1>2 DEF EscalationInv, RunnersAtOne, At
<1>4. WorkerAtCritical'
  BY <1>1 DEF EscalationInv, WorkerAtCritical
<1>5. ASSUME NEW a \in AnyAlert
      PROVE  EscalationOf(a)'
  <2>1. EscalationOf(a) /\ (Escalated(a)' <=> Escalated(a))
    BY DEF EscalationInv, SameEscalated
  <2>2. (Firing(a)' <=> Firing(a)) /\ (Cancelling(a)' => Cancelling(a) \/ (a = b /\ b \in timers))
    BY <1>1, <1>2 DEF Firing, Cancelling, At
  <2>3. /\ WorksOn("schedule", a)' <=> WorksOn("schedule", a)
        /\ WorksOn("start", a)' <=> WorksOn("start", a)
    BY <1>1 DEF WorksOn
  <2>4. /\ a \in timers' <=> a \in timers /\ a # b
        /\ a \in pending' <=> a \in pending /\ a # b
        /\ a \in acked' <=> a \in acked \/ (a = b /\ b \in timers)
    BY <1>1
  <2> QED
    BY <1>1, <2>1, <2>2, <2>3, <2>4
       DEF EscalationOf, TimerIsPending, PendingIsUndecided, AckedIsQuiet, WasSent,
           SchedulesOnce, StartsPending, FiresOnce, CancelsAcked, WillEscalate
<1> QED
  BY <1>3, <1>4, <1>5 DEF EscalationInv

\* The timers of acknowledged alerts are cancelled, and all of them by shutdown().
LEMMA CancelStep ==
  ASSUME RouterTypeInv, EscalationInv, SameEscalated, NEW r \in Runners, Cancel(r) \/ CancelAll(r)
  PROVE  EscalationInv'
<1>1. /\ At(r, "cancel") \/ (At(r, "cancelall") /\ shut)
      /\ timer' = Cancelled(runner[r].alerts)
      /\ UNCHANGED <<timers, pending, acked, worker, shut, sent>>
  <2>1. At(r, "cancelall") => shut
    BY DEF EscalationInv, RunnersAtOne
  <2> QED
    BY <2>1 DEF Cancel, CancelAll
<1>2. Empty(r)
  <2>1. PICK g \in Groups : TRUE
    BY Constants
  <2> QED
    BY <2>1, AsideEffect
<1>3. SameRunners
  <2>1. ~At(r, "fire") /\ (runner' = runner \/ Off(r))
    BY <1>1, <1>2, HandsOff DEF At
  <2> QED
    BY <1>1, <2>1, OffKeeps DEF SameRunners, EscalationInv
<1>4. WorkerAtCritical'
  BY <1>1 DEF EscalationInv, WorkerAtCritical
<1>5. ASSUME NEW a \in AnyAlert
      PROVE  EscalationOf(a)'
  <2>1. EscalationOf(a) /\ (Escalated(a)' <=> Escalated(a))
    BY DEF EscalationInv, SameEscalated
  <2>2. (Firing(a)' <=> Firing(a)) /\ (Cancelling(a)' => Cancelling(a))
    BY <1>3 DEF SameRunners
  <2>3. /\ WorksOn("schedule", a)' <=> WorksOn("schedule", a)
        /\ WorksOn("start", a)' <=> WorksOn("start", a)
    BY <1>1 DEF WorksOn
  <2>4. a \in runner[r].alerts => a \in acked \/ shut
    BY <1>1, <2>1 DEF Cancelling, EscalationOf, CancelsAcked
  <2>5. timer'[a] = timer[a] \/ (/\ a \in acked \/ shut
                                 /\ timer[a] \in {"created", "running"} /\ timer'[a] = "cancelled")
    BY <1>1, <2>4 DEF Cancelled
  <2> QED
    BY <1>1, <2>1, <2>2, <2>3, <2>5
       DEF EscalationOf, TimerIsPending, PendingIsUndecided, AckedIsQuiet, WasSent,
           SchedulesOnce, StartsPending, FiresOnce, CancelsAcked, WillEscalate
<1> QED
  BY <1>3, <1>4, <1>5 DEF EscalationInv, SameRunners

LEMMA ShutdownStep ==
  ASSUME RouterTypeInv, EscalationInv, SameEscalated, NEW r \in Runners, Shutdown(r)
  PROVE  EscalationInv'
<1>1. /\ At(r, "idle") /\ shut' = TRUE /\ timers' = {}
      /\ UNCHANGED <<pending, timer, acked, worker, sent>>
  BY DEF Shutdown
<1>2. /\ runner'[r].pc = "cancelall"
      /\ \A t \in Runners \ {r} : runner'[t] = runner[t]
  BY ShutdownEffect DEF Escalating, Others
<1>3. RunnersAtOne'
  BY <1>1, <1>2 DEF EscalationInv, RunnersAtOne, At
<1>4. WorkerAtCritical'
  BY <1>1 DEF EscalationInv, WorkerAtCritical
<1>5. ASSUME NEW a \in AnyAlert
      PROVE  EscalationOf(a)'
  <2>1. EscalationOf(a) /\ (Escalated(a)' <=> Escalated(a))
    BY DEF EscalationInv, SameEscalated
  <2>2. (Firing(a)' => Firing(a)) /\ (Cancelling(a)' => Cancelling(a))
    BY <1>1, <1>2 DEF Firing, Cancelling, At
  <2>3. /\ WorksOn("schedule", a)' <=> WorksOn("schedule", a)
        /\ WorksOn("start", a)' <=> WorksOn("start", a)
    BY <1>1 DEF WorksOn
  <2> QED
    BY <1>1, <2>1, <2>2, <2>3
       DEF EscalationOf, TimerIsPending, PendingIsUndecided, AckedIsQuiet, WasSent,
           SchedulesOnce, StartsPending, FiresOnce, CancelsAcked, WillEscalate
<1> QED
  BY <1>3, <1>4, <1>5 DEF EscalationInv

----------------------------------------------------------------------------
(* The invariant.                                                           *)

\* Nothing is in two places, and what was published is somewhere.
PlacesInv ==
  /\ \A a \in AnyAlert, e \in BOOLEAN : AtMostOnce(a, e)
  /\ \A a \in 1 .. published : Somewhere(a, FALSE)

RouterInv == RouterTypeInv /\ PlacesInv /\ EscalationInv

LEMMA InvInit == RouterInit => RouterInv
<1> SUFFICES ASSUME RouterInit
             PROVE  RouterInv
  OBVIOUS
<1>1. RouterTypeInv
  BY RouterTypeInit
<1>2. /\ published = 0 /\ open = {} /\ queue = <<>> /\ sent = {} /\ dropped = {} /\ coalesced = {}
      /\ timers = {} /\ pending = {} /\ acked = {} /\ timer = [a \in AnyAlert |-> "none"]
      /\ worker.pc = "get"
  BY DEF RouterInit
<1>3. \A r \in Runners : runner[r].pc = "idle"
  BY PublishedFacts, IdleType, <1>1 DEF RouterInit
<1>4. ASSUME NEW a, NEW e
      PROVE  ~Somewhere(a, e)
  <2>1. Len(queue) = 0
    BY <1>2, EmptySeq
  <2>2. ~InQueue(a, e)
    BY <2>1 DEF InQueue
  <2>3. ~InRunner(a, e) /\ ~InWorker(a, e)
    BY <1>2, <1>3 DEF InRunner, InWorker, Carries, Queueing
  <2>4. ~InSent(a, e) /\ ~InDropped(a, e) /\ ~InBuffer(a, e) /\ ~Mentioned(a, e)
    BY <1>2 DEF InSent, InDropped, InBuffer, Mentioned
  <2> QED
    BY <2>2, <2>3, <2>4 DEF Somewhere
<1>5. PlacesInv
  <2>1. \A a \in AnyAlert, e \in BOOLEAN : AtMostOnce(a, e)
    BY <1>1, <1>4, NowhereIsSingle
  <2>2. 1 .. published = {}
    BY <1>2
  <2> QED
    BY <2>1, <2>2 DEF PlacesInv
<1>6. WorkerAtCritical /\ RunnersAtOne
  BY <1>2, <1>3 DEF WorkerAtCritical, RunnersAtOne, At
<1>7. ASSUME NEW a \in AnyAlert
      PROVE  EscalationOf(a)
  <2>1. ~Escalated(a)
    BY <1>4 DEF Escalated
  <2>2. ~Firing(a) /\ ~Cancelling(a) /\ ~WorksOn("schedule", a) /\ ~WorksOn("start", a)
    BY <1>2, <1>3 DEF Firing, Cancelling, WorksOn, At
  <2> QED
    BY <1>2, <2>1, <2>2
       DEF EscalationOf, TimerIsPending, PendingIsUndecided, AckedIsQuiet, WasSent,
           SchedulesOnce, StartsPending, FiresOnce, CancelsAcked, WillEscalate
<1>8. EscalationInv
  BY <1>6, <1>7 DEF EscalationInv
<1> QED
  BY <1>1, <1>5, <1>8 DEF RouterInv

LEMMA OnlyPublishCounts ==
  ASSUME [RouterNext]_routerVars
  PROVE  \/ published' = published
         \/ \E r \in Runners, g \in Groups, critical \in BOOLEAN : Publish(r, g, critical)
<1>1. ASSUME NEW r \in Runners, Runner(r)
      PROVE  \/ published' = published
             \/ \E g \in Groups, critical \in BOOLEAN : Publish(r, g, critical)
  <2>1. CASE Put(r) \/ DropOldest(r) \/ PutAgain(r) \/ Flush(r) \/ Fire(r) \/ PutEscalation(r)
    BY <2>1 DEF Put, DropOldest, PutAgain, Flush, Fire, PutEscalation
  <2>2. CASE Cancel(r) \/ Shutdown(r) \/ CancelAll(r) \/ FlushAll(r) \/ PutSentinel(r)
    BY <2>2 DEF Cancel, Shutdown, CancelAll, FlushAll, PutSentinel
  <2>3. CASE \/ \E g \in Groups : ExpireGroup(r, g)
             \/ \E a \in AnyAlert : ExpireEscalation(r, a) \/ Acknowledge(r, a)
    BY <2>3 DEF ExpireGroup, ExpireEscalation, Acknowledge
  <2> QED
    BY <1>1, <2>1, <2>2, <2>3 DEF Runner
<1>2. ASSUME Worker
      PROVE  published' = published
  BY <1>2 DEF Worker, Get, Dispatch, Schedule, StartTimer
<1>3. UNCHANGED routerVars => published' = published
  BY DEF routerVars
<1> QED
  BY <1>1, <1>2, <1>3 DEF RouterNext

LEMMA PlacesStep ==
  ASSUME RouterInv, [RouterNext]_routerVars
  PROVE  PlacesInv'
<1>1. ASSUME NEW a \in AnyAlert, NEW e \in BOOLEAN
      PROVE  /\ AtMostOnce(a, e)'
             /\ Somewhere(a, e) => Somewhere(a, e)'
  <2>1. AtMostOnce(a, e)
    BY DEF RouterInv, PlacesInv
  <2>2. a \in pending => ~Somewhere(a, TRUE)
    BY DEF RouterInv, EscalationInv, EscalationOf, PendingIsUndecided, Escalated
  <2> QED
    BY <2>1, <2>2, StepPlaces DEF RouterInv
<1>2. published \in 0 .. MaxAlerts /\ published \in Nat
  BY Constants DEF RouterInv, RouterTypeInv
<1>3. ASSUME NEW a \in 1 .. published
      PROVE  Somewhere(a, FALSE)'
  <2>1. a \in AnyAlert
    BY <1>2, Constants DEF AnyAlert
  <2>2. Somewhere(a, FALSE)
    BY DEF RouterInv, PlacesInv
  <2> QED
    BY <1>1, <2>1, <2>2, Zenon
<1>4. ASSUME NEW r \in Runners, NEW g \in Groups, NEW critical \in BOOLEAN, Publish(r, g, critical),
             NEW a \in AnyAlert, a = published + 1
      PROVE  Somewhere(a, FALSE)'
  <2>1. PICK e \in BOOLEAN : e = FALSE
    OBVIOUS
  <2>2. AtMostOnce(a, e)
    BY DEF RouterInv, PlacesInv
  <2>3. Somewhere(a, e)'
    BY <1>4, <2>1, <2>2, PublishPlaces DEF RouterInv
  <2>4. e = FALSE
    BY <2>1
  <2> QED
    BY <2>3, <2>4, Zenon
<1>5. ASSUME NEW a \in 1 .. published'
      PROVE  Somewhere(a, FALSE)'
  <2>1. CASE published' = published
    <3>1. a \in 1 .. published
      BY <2>1
    <3> QED
      BY <1>3, <3>1, Zenon
  <2>2. ASSUME NEW r \in Runners, NEW g \in Groups, NEW critical \in BOOLEAN, Publish(r, g, critical)
        PROVE  Somewhere(a, FALSE)'
    <3>1. published' = published + 1 /\ published + 1 <= MaxAlerts
      BY <1>2, <2>2, Constants DEF Publish
    <3>2. a \in 1 .. published \/ (a = published + 1 /\ a \in AnyAlert)
      BY <1>2, <3>1, Constants DEF AnyAlert
    <3> QED
      BY <1>3, <1>4, <2>2, <3>2, Zenon
  <2> QED
    BY <2>1, <2>2, OnlyPublishCounts, Zenon
<1> QED
  BY <1>1, <1>5 DEF PlacesInv

LEMMA EscalationStep ==
  ASSUME RouterInv, [RouterNext]_routerVars
  PROVE  EscalationInv'
<1>1. /\ RouterTypeInv /\ EscalationInv
      /\ \A a \in AnyAlert : /\ AtMostOnce(a, FALSE) /\ AtMostOnce(a, TRUE)
                             /\ a \in pending => ~Somewhere(a, TRUE)
  <2>1. \A a \in AnyAlert : AtMostOnce(a, FALSE) /\ AtMostOnce(a, TRUE)
    BY Zenon DEF RouterInv, PlacesInv
  <2>2. \A a \in AnyAlert : a \in pending => ~Somewhere(a, TRUE)
    BY DEF RouterInv, EscalationInv, EscalationOf, PendingIsUndecided, Escalated
  <2> QED
    BY <2>1, <2>2 DEF RouterInv
<1>2. (\E g \in Groups : TRUE) /\ RunnersAtOne
  BY <1>1, Constants DEF EscalationInv
<1>3. ASSUME \A a \in AnyAlert : Kept(a, TRUE)
      PROVE  SameEscalated
  BY <1>3 DEF Kept, SameEscalated, Escalated
<1>4. ASSUME NEW r \in Runners, ~At(r, "fire"), runner' = runner \/ Off(r), SameEscalated,
             UNCHANGED <<escalationVars, sent, shut, worker>>
      PROVE  EscalationInv'
  <2>1. SameRunners
    BY <1>2, <1>4, OffKeeps DEF SameRunners
  <2> QED
    BY <1>1, <1>4, <2>1, QuietStep DEF escalationVars
<1>5. ASSUME NEW r \in Runners, NEW g \in Groups, NEW critical \in BOOLEAN, Publish(r, g, critical)
      PROVE  EscalationInv'
  <2>1. SameEscalated
    <3>1. ASSUME NEW a \in AnyAlert
          PROVE  Escalated(a)' <=> Escalated(a)
      <4>1. PICK e \in BOOLEAN : e = TRUE
        OBVIOUS
      <4>2. AtMostOnce(a, e)
        BY DEF RouterInv, PlacesInv
      <4>3. Somewhere(a, e)' <=> Somewhere(a, e)
        BY <1>1, <1>5, <4>1, <4>2, PublishPlaces
      <4>4. e = TRUE
        BY <4>1
      <4> QED
        BY <4>3, <4>4, Zenon DEF Escalated
    <3> QED
      BY <3>1 DEF SameEscalated
  <2>2. runner' = runner \/ Off(r)
    BY <1>1, <1>5, PublishEffect, HandsOff
  <2> QED
    BY <1>4, <1>5, <2>1, <2>2 DEF Publish, At
<1>6. ASSUME NEW r \in Runners,
             \/ Put(r) \/ PutAgain(r) \/ PutEscalation(r) \/ DropOldest(r) \/ Flush(r) \/ PutSentinel(r)
             \/ FlushAll(r) \/ \E g \in Groups : ExpireGroup(r, g)
      PROVE  EscalationInv'
  <2>1. SameEscalated
    BY <1>1, <1>2, <1>3, <1>6, PutPlaces, DropOldestPlaces, FlushPlaces, SentinelPlaces, AsidePlaces
  <2>2. runner' = runner \/ Off(r)
    BY <1>1, <1>2, <1>6, PutEffect, PutAgainEffect, DropOldestEffect, FlushEffect, AsideEffect, HandsOff
       DEF StillLoaded
  <2>3. ~At(r, "fire") /\ UNCHANGED <<escalationVars, sent, shut, worker>>
    BY <1>6 DEF Put, PutAgain, PutEscalation, DropOldest, Flush, PutSentinel, FlushAll, ExpireGroup, At
  <2> QED
    BY <1>4, <2>1, <2>2, <2>3
<1>7. ASSUME NEW r \in Runners, NEW a \in AnyAlert,
             ExpireEscalation(r, a) \/ Acknowledge(r, a)
      PROVE  EscalationInv'
  <2>1. SameEscalated
    BY <1>1, <1>2, <1>3, <1>7, AsidePlaces
  <2> QED
    BY <1>1, <1>7, <2>1, ExpireEscalationStep, AcknowledgeStep
<1>8. ASSUME NEW r \in Runners, Cancel(r) \/ CancelAll(r) \/ Shutdown(r)
      PROVE  EscalationInv'
  <2>1. SameEscalated
    BY <1>1, <1>2, <1>3, <1>8, AsidePlaces DEF SameEscalated
  <2> QED
    BY <1>1, <1>8, <2>1, CancelStep, ShutdownStep
<1>9. ASSUME NEW r \in Runners, Fire(r)
      PROVE  EscalationInv'
  BY <1>1, <1>9, FirePlaces, FireStep DEF Escalated
<1>10. CASE Get
  <2>1. SameEscalated
    BY <1>1, <1>3, <1>10, GetPlaces
  <2>2. SameRunners
    BY <1>2, <1>10 DEF Get, SameRunners, RunnersAtOne, Firing, Cancelling, At
  <2>3. NotScheduling /\ NotScheduling'
    BY <1>10 DEF Get, NotScheduling
  <2> QED
    BY <1>1, <1>10, <2>1, <2>2, <2>3, QuietStep DEF Get, escalationVars
<1>11. CASE Dispatch
  BY <1>1, <1>3, <1>11, DispatchPlaces, DispatchStep
<1>12. CASE Schedule \/ StartTimer
  BY <1>1, <1>3, <1>12, WorkerPlaces, ScheduleStep, StartTimerStep
<1>13. CASE UNCHANGED routerVars
  <2>1. UNCHANGED <<queue, runner, worker, sent, dropped, open, buffer, coalesced, shut,
                    timers, pending, timer, acked>>
    BY <1>13 DEF routerVars, groupVars, escalationVars
  <2>2. SameEscalated
    BY <2>1, SamePlacesElsewhere DEF SameEscalated, Escalated, Somewhere, InRunner, Carries, Is
  <2>3. SameRunners
    BY <1>2, <2>1 DEF SameRunners, RunnersAtOne, Firing, Cancelling, At
  <2> QED
    BY <1>1, <2>1, <2>2, <2>3, QuietStep
<1> QED
  BY <1>5, <1>6, <1>7, <1>8, <1>9, <1>10, <1>11, <1>12, <1>13 DEF RouterNext, Worker, Runner

LEMMA InvHolds == RouterSpec => []RouterInv
<1>1. RouterInv /\ [RouterNext]_routerVars => RouterInv'
  BY RouterTypeStep, PlacesStep, EscalationStep DEF RouterInv
<1> QED
  BY InvInit, <1>1, PTL DEF RouterSpec

----------------------------------------------------------------------------
(* The properties.                                                          *)

LEMMA PlacesMembers ==
  ASSUME RouterTypeInv, NEW a, NEW e, NEW p
  PROVE  p \in Places(a, e) <=>
           \/ \E i \in 1 .. Len(queue) : Is(queue[i], a, e) /\ p = <<"queue", i>>
           \/ \E r \in Runners : Carries(r) /\ Is(runner[r].item, a, e) /\ p = <<"runner", r>>
           \/ InWorker(a, e) /\ p = <<"worker", 1>>
           \/ \E x \in sent : Is(x, a, e) /\ p = <<"sent", x>>
           \/ \E x \in dropped : Is(x, a, e) /\ p = <<"dropped", x>>
<1>1. DOMAIN queue = 1 .. Len(queue)
  BY QueueFacts
<1> QED
  BY <1>1 DEF Places, Is, Carries, InWorker

\* The alert or escalation is in one place outside the groups, or in none.
LEMMA PlacesOne ==
  ASSUME RouterTypeInv, NEW a, NEW e, AtMostOnce(a, e)
  PROVE  \/ /\ Places(a, e) = {}
            /\ ~InQueue(a, e) /\ ~InRunner(a, e) /\ ~InWorker(a, e) /\ ~InSent(a, e) /\ ~InDropped(a, e)
         \/ /\ \E p : Places(a, e) = {p}
            /\ Somewhere(a, e) /\ ~InBuffer(a, e) /\ ~Mentioned(a, e)
<1> USE DEF AtMostOnce, Exclusive, Somewhere
<1>1. CASE InQueue(a, e)
  <2>1. PICK i \in 1 .. Len(queue) : Is(queue[i], a, e)
    BY <1>1 DEF InQueue
  <2>2. \A j \in 1 .. Len(queue) : Is(queue[j], a, e) => j = i
    BY <2>1 DEF Single, OneInQueue
  <2>3. \A p : p \in Places(a, e) <=> p = <<"queue", i>>
    BY <1>1, <2>1, <2>2, PlacesMembers DEF InRunner, InSent, InDropped
  <2>4. Places(a, e) = {<<"queue", i>>}
    BY <2>3
  <2> QED
    BY <1>1, <2>4
<1>2. CASE InRunner(a, e)
  <2>1. PICK r \in Runners : Carries(r) /\ Is(runner[r].item, a, e)
    BY <1>2 DEF InRunner
  <2>2. \A s \in Runners : Carries(s) /\ Is(runner[s].item, a, e) => s = r
    BY <2>1 DEF Single, OneInRunner
  <2>3. \A p : p \in Places(a, e) <=> p = <<"runner", r>>
    BY <1>2, <2>1, <2>2, PlacesMembers DEF InQueue, InSent, InDropped
  <2>4. Places(a, e) = {<<"runner", r>>}
    BY <2>3
  <2> QED
    BY <1>2, <2>4
<1>3. CASE InWorker(a, e)
  <2>1. \A p : p \in Places(a, e) <=> p = <<"worker", 1>>
    BY <1>3, PlacesMembers DEF InQueue, InRunner, InSent, InDropped
  <2>4. Places(a, e) = {<<"worker", 1>>}
    BY <2>1
  <2> QED
    BY <1>3, <2>4
<1>4. CASE InSent(a, e)
  <2>1. PICK x \in sent : Is(x, a, e)
    BY <1>4 DEF InSent
  <2>2. \A y \in sent : Is(y, a, e) => y = x
    BY <2>1 DEF Single, OneInSent
  <2>3. \A p : p \in Places(a, e) <=> p = <<"sent", x>>
    BY <1>4, <2>1, <2>2, PlacesMembers DEF InQueue, InRunner, InDropped
  <2>4. Places(a, e) = {<<"sent", x>>}
    BY <2>3
  <2> QED
    BY <1>4, <2>4
<1>5. CASE InDropped(a, e)
  <2>1. PICK x \in dropped : Is(x, a, e)
    BY <1>5 DEF InDropped
  <2>2. \A y \in dropped : Is(y, a, e) => y = x
    BY <2>1 DEF Single, OneInDropped
  <2>3. \A p : p \in Places(a, e) <=> p = <<"dropped", x>>
    BY <1>5, <2>1, <2>2, PlacesMembers DEF InQueue, InRunner, InSent
  <2>4. Places(a, e) = {<<"dropped", x>>}
    BY <2>3
  <2> QED
    BY <1>5, <2>4
<1>6. CASE ~InQueue(a, e) /\ ~InRunner(a, e) /\ ~InWorker(a, e) /\ ~InSent(a, e) /\ ~InDropped(a, e)
  <2>1. \A p : p \notin Places(a, e)
    BY <1>6, PlacesMembers DEF InQueue, InRunner, InSent, InDropped
  <2> QED
    BY <1>6, <2>1
<1> QED
  BY <1>1, <1>2, <1>3, <1>4, <1>5, <1>6

LEMMA BufferedOne ==
  ASSUME RouterTypeInv, NEW a, NEW e, e = FALSE, OneInBuffer(a)
  PROVE  \/ Buffered(a) = {} /\ ~InBuffer(a, e)
         \/ (\E p : Buffered(a) = {p}) /\ InBuffer(a, e)
<1>1. \A g \in open : g \in Groups /\ DOMAIN buffer[g] = 1 .. Len(buffer[g])
  BY BufferFacts DEF RouterTypeInv, GroupTypes
<1>2. ASSUME NEW p
      PROVE  p \in Buffered(a) <=>
               \E g \in open : \E i \in 1 .. Len(buffer[g]) : buffer[g][i].alert = a /\ p = <<g, i>>
  <2>1. p \in UNION {{g} \X DOMAIN buffer[g] : g \in open} <=>
          \E g \in open : \E i \in 1 .. Len(buffer[g]) : p = <<g, i>>
    BY <1>1
  <2> QED
    BY <2>1 DEF Buffered
<1>3. CASE InBuffer(a, e)
  <2>1. PICK g \in open : \E i \in 1 .. Len(buffer[g]) : buffer[g][i].alert = a
    BY <1>3 DEF InBuffer
  <2>2. PICK i \in 1 .. Len(buffer[g]) : buffer[g][i].alert = a
    BY <2>1
  <2>3. \A p : p \in Buffered(a) <=> p = <<g, i>>
    BY <1>2, <2>1, <2>2 DEF OneInBuffer
  <2>4. Buffered(a) = {<<g, i>>}
    BY <2>3
  <2> QED
    BY <1>3, <2>4
<1>4. CASE ~InBuffer(a, e)
  <2>1. ASSUME NEW g \in open, NEW i \in 1 .. Len(buffer[g]), buffer[g][i].alert = a
        PROVE  FALSE
    BY <1>4, <2>1 DEF InBuffer
  <2>2. \A p : p \notin Buffered(a)
    BY <1>2, <2>1
  <2> QED
    BY <1>4, <2>2
<1> QED
  BY <1>3, <1>4

LEMMA OnePlace ==
  ASSUME RouterTypeInv, NEW a, NEW e, e = FALSE, AtMostOnce(a, e), Somewhere(a, e)
  PROVE  Cardinality(Places(a, e)) + Cardinality(Buffered(a))
           + (IF a \in coalesced THEN 1 ELSE 0) = 1
<1>1. Cardinality({}) = 0 /\ \A p : Cardinality({p}) = 1
  BY FS_EmptySet, FS_Singleton
<1>2. \/ Cardinality(Places(a, e)) = 0 /\ (InBuffer(a, e) \/ Mentioned(a, e))
      \/ Cardinality(Places(a, e)) = 1 /\ ~InBuffer(a, e) /\ ~Mentioned(a, e)
  BY <1>1, PlacesOne, Zenon DEF Somewhere
<1>3. \/ Cardinality(Buffered(a)) = 0 /\ ~InBuffer(a, e)
      \/ Cardinality(Buffered(a)) = 1 /\ InBuffer(a, e)
  BY <1>1, BufferedOne, Zenon DEF AtMostOnce, Single
<1>4. (Mentioned(a, e) <=> a \in coalesced) /\ ~(InBuffer(a, e) /\ Mentioned(a, e))
  BY DEF Mentioned, AtMostOnce, Exclusive
<1> QED
  BY <1>2, <1>3, <1>4

\* However publishers, timers, the worker and shutdown() race for groups and
\* for the queue, every published alert is in exactly one place.
THEOREM AlertsKeepOnePlace == RouterSpec => []EveryAlertIsInOnePlace
<1>1. ASSUME RouterInv, NEW a \in Alerts
      PROVE  Cardinality(Places(a, FALSE)) + Cardinality(Buffered(a))
               + (IF a \in coalesced THEN 1 ELSE 0) = 1
  <2>1. a \in AnyAlert /\ a \in 1 .. published
    BY <1>1, Constants DEF Alerts, AnyAlert, RouterInv, RouterTypeInv
  <2>2. PICK e \in BOOLEAN : e = FALSE
    OBVIOUS
  <2>3. Somewhere(a, FALSE)
    BY <1>1, <2>1 DEF RouterInv, PlacesInv
  <2>4. e = FALSE
    BY <2>2
  <2>5. RouterTypeInv /\ AtMostOnce(a, e) /\ Somewhere(a, e)
    BY <1>1, <2>1, <2>3, <2>4, Zenon DEF RouterInv, PlacesInv
  <2>6. Cardinality(Places(a, e)) + Cardinality(Buffered(a))
          + (IF a \in coalesced THEN 1 ELSE 0) = 1
    BY <2>4, <2>5, OnePlace
  <2> QED
    BY <2>4, <2>6, Zenon
<1>2. RouterInv => EveryAlertIsInOnePlace
  BY <1>1 DEF EveryAlertIsInOnePlace
<1> QED
  BY InvHolds, <1>2, PTL

\* An escalation that is anywhere is Escalated.
LEMMA EscalatedPlaces ==
  ASSUME RouterInv, NEW a \in AnyAlert
  PROVE  \/ Places(a, TRUE) = {} /\ ~Escalated(a)
         \/ (\E p : Places(a, TRUE) = {p}) /\ Escalated(a)
<1>1. RouterTypeInv /\ AtMostOnce(a, TRUE)
  BY Zenon DEF RouterInv, PlacesInv
<1>2. ~InBuffer(a, TRUE) /\ ~Mentioned(a, TRUE)
  BY DEF InBuffer, Mentioned
<1> QED
  BY <1>1, <1>2, PlacesOne, Zenon DEF Escalated, Somewhere

\* An escalation follows a critical notification that was sent, and there is
\* at most one of it.
THEOREM EscalationsFollowTheirAlert == RouterSpec => []EscalatedOnceAfterSending
<1>1. ASSUME RouterInv, NEW a \in Alerts, Places(a, TRUE) # {}
      PROVE  Cardinality(Places(a, TRUE)) = 1 /\ Critical(a) \in sent
  <2>1. a \in AnyAlert
    BY <1>1, Constants DEF Alerts, AnyAlert, RouterInv, RouterTypeInv
  <2>2. (\E p : Places(a, TRUE) = {p}) /\ Escalated(a)
    BY <1>1, <2>1, EscalatedPlaces
  <2>3. Cardinality(Places(a, TRUE)) = 1
    BY <2>2, FS_Singleton
  <2> QED
    BY <1>1, <2>1, <2>2, <2>3 DEF RouterInv, EscalationInv, EscalationOf, WasSent
<1>2. RouterInv => EscalatedOnceAfterSending
  BY <1>1 DEF EscalatedOnceAfterSending, Critical
<1> QED
  BY InvHolds, <1>2, PTL

\* When acknowledge() has returned True for an alert, its escalation is neither
\* on its way nor ever sent.
THEOREM AcknowledgedStayQuiet == RouterSpec => []AcknowledgedAlertsStayQuiet
<1>1. ASSUME RouterInv, NEW a \in acked
      PROVE  Places(a, TRUE) = {}
  <2>1. a \in AnyAlert
    BY <1>1, Constants DEF AnyAlert, RouterInv, RouterTypeInv, EscalationTypes
  <2> QED
    BY <1>1, <2>1, EscalatedPlaces DEF RouterInv, EscalationInv, EscalationOf, AckedIsQuiet
<1>2. RouterInv => AcknowledgedAlertsStayQuiet
  BY <1>1 DEF AcknowledgedAlertsStayQuiet
<1> QED
  BY InvHolds, <1>2, PTL

\* An escalation that is in some place, and was not lost, is ahead or was sent.
LEMMA EscalationPlaced ==
  ASSUME RouterInv, NEW a \in AnyAlert, Escalated(a), ~EscalationLost(a)
  PROVE  EscalationAhead(a) \/ \E x \in sent : x.alert = a /\ x.escalation
<1>1. /\ \A i \in 1 .. Len(queue) : queue[i].escalation \in BOOLEAN
      /\ DOMAIN queue = 1 .. Len(queue)
  <2>1. queue \in Seq(Queued(published))
    BY DEF RouterInv, RouterTypeInv, QueueTypes
  <2>2. ASSUME NEW x \in Queued(published) PROVE x.escalation \in BOOLEAN
    <3>1. CASE x \in KnownAlerts(published)
      BY <3>1 DEF KnownAlerts
    <3>2. CASE x = Stop
      <4>1. Stop.escalation = FALSE
        BY DEF Stop
      <4> QED
        BY <3>2, <4>1
    <3> QED
      BY <3>1, <3>2 DEF Queued
  <2> QED
    BY <2>1, <2>2
<1>2. \/ InQueue(a, TRUE) \/ InRunner(a, TRUE) \/ InWorker(a, TRUE) \/ InSent(a, TRUE)
      \/ InDropped(a, TRUE)
  BY DEF Escalated, Somewhere, InBuffer, Mentioned
<1>3. CASE InQueue(a, TRUE)
  BY <1>1, <1>3 DEF InQueue, Is, EscalationAhead
<1>4. CASE InRunner(a, TRUE)
  BY <1>4 DEF InRunner, Carries, Is, EscalationAhead
<1>5. CASE InWorker(a, TRUE)
  BY <1>5 DEF InWorker, Is, EscalationAhead
<1>6. CASE InSent(a, TRUE)
  BY <1>6 DEF InSent, Is
<1>7. CASE InDropped(a, TRUE)
  BY <1>7 DEF InDropped, Is, EscalationLost
<1> QED
  BY <1>2, <1>3, <1>4, <1>5, <1>6, <1>7

\* Until shutdown() a critical alert that was sent, was not acknowledged and
\* whose escalation no full queue lost is being timed, or its escalation is on
\* its way or was sent (_schedule_escalation, _fire_escalation, acknowledge()).
THEOREM UnacknowledgedStayDue == RouterSpec => []OnlyAFullQueueStopsAnEscalation
<1>1. ASSUME RouterInv, NEW item \in sent,
             item.critical, ~item.escalation, ~shut, item.alert \notin acked,
             ~EscalationLost(item.alert)
      PROVE  \/ timer[item.alert] = "running" /\ item.alert \in pending
             \/ worker.pc \in {"schedule", "start"} /\ worker.item = item
             \/ \E r \in Runners : At(r, "fire") /\ item.alert \in runner[r].alerts \cap pending
             \/ EscalationAhead(item.alert)
             \/ \E x \in sent : x.alert = item.alert /\ x.escalation
  <2>1. item \in KnownAlerts(published)
    BY <1>1 DEF RouterInv, RouterTypeInv, OutcomeTypes
  <2>2. PICK a \in AnyAlert : a = item.alert
    BY <1>1, <2>1, Constants DEF KnownAlerts, AnyAlert, RouterInv, RouterTypeInv
  <2>3. item = Critical(a)
    <3>1. item = [alert |-> item.alert, critical |-> item.critical, escalation |-> item.escalation]
      BY <2>1 DEF KnownAlerts
    <3>2. item.critical = TRUE /\ item.escalation = FALSE
      BY <1>1, <2>1 DEF KnownAlerts
    <3> QED
      BY <2>2, <3>1, <3>2 DEF Critical
  <2>4. \/ timer[a] = "running" /\ a \in pending
        \/ WorksOn("schedule", a) \/ WorksOn("start", a)
        \/ Firing(a) /\ a \in pending
        \/ Escalated(a)
    BY <1>1, <2>2, <2>3 DEF RouterInv, EscalationInv, EscalationOf, WillEscalate
  <2>5. Escalated(a) => EscalationAhead(a) \/ \E x \in sent : x.alert = a /\ x.escalation
    BY <1>1, <2>2, EscalationPlaced
  <2> QED
    BY <2>2, <2>3, <2>4, <2>5 DEF WorksOn, Firing
<1>2. RouterInv => OnlyAFullQueueStopsAnEscalation
  BY <1>1 DEF OnlyAFullQueueStopsAnEscalation
<1> QED
  BY InvHolds, <1>2, PTL

-----------------------------------------------------------------------------
(***************************************************************************)
(* The services                                                            *)
(***************************************************************************)
(* The review queue, the consent records, the registries and the identity    *)
(* service.                                                                  *)

(* A number that is not above another is at most that. *)
LEMMA NotAbove == \A i, j \in Nat : ~ (j < i) => i <= j
OBVIOUS

(* Numbers have a least one. *)
LEMMA LeastExists ==
  ASSUME NEW S, S \subseteq Nat, S # {}
  PROVE  \E i \in S : \A j \in S : i <= j
<1> PICK R : R = OpToRel(<, Nat)
  OBVIOUS
<1>1. PICK i \in S : \A j \in S : ~ (<<j, i>> \in R)
  BY NatLessThanWellFounded, WFMin
<1>2. \A j \in Nat, k \in Nat : j < k => <<j, k>> \in R
  BY DEF OpToRel
<1>3. ASSUME NEW j \in S PROVE i <= j
  <2>1. j \in Nat /\ i \in Nat /\ ~ (j < i)
    BY <1>1, <1>2
  <2> QED
    BY <2>1, NotAbove, Zenon
<1> QED
  BY <1>3

(***************************************************************************)
(* Counting threads                                                        *)
(***************************************************************************)

(* The threads of T at x, in number. *)
CountAt(T, f, x) == Cardinality({u \in T : f[u] = x})

(* When one thread moves, the number at x changes by that thread only. *)
LEMMA CountChanges ==
  ASSUME NEW T, IsFiniteSet(T), NEW f, NEW g, NEW t \in T,
         \A u \in T \ {t} : g[u] = f[u],
         NEW x
  PROVE  CountAt(T, g, x)
           = CountAt(T, f, x) - (IF f[t] = x THEN 1 ELSE 0) + (IF g[t] = x THEN 1 ELSE 0)
<1> DEFINE A == {u \in T : f[u] = x}
           B == {u \in T : g[u] = x}
<1>1. A \subseteq T /\ (t \in A <=> f[t] = x)
  OBVIOUS
<1>2. B = IF g[t] = x THEN (A \ {t}) \cup {t} ELSE A \ {t}
  OBVIOUS
<1> HIDE DEF A, B
<1>3. IsFiniteSet(A) /\ Cardinality(A) \in Nat
  BY <1>1, FS_Subset, FS_CardinalityType
<1>4. /\ IsFiniteSet(A \ {t})
      /\ Cardinality(A \ {t}) = Cardinality(A) - (IF f[t] = x THEN 1 ELSE 0)
  BY SMTT(30), <1>1, <1>3, FS_RemoveElement
<1>5. Cardinality((A \ {t}) \cup {t}) = Cardinality(A \ {t}) + 1
  BY <1>4, FS_AddElement
<1>6. Cardinality(B) = Cardinality(A \ {t}) + (IF g[t] = x THEN 1 ELSE 0)
  BY <1>2, <1>3, <1>4, <1>5
<1>7. Cardinality(B) = Cardinality(A) - (IF f[t] = x THEN 1 ELSE 0) + (IF g[t] = x THEN 1 ELSE 0)
  BY <1>4, <1>6
<1> QED
  BY <1>7 DEF A, B, CountAt

LEMMA CountIsNat ==
  ASSUME NEW T, IsFiniteSet(T), NEW f, NEW x
  PROVE  CountAt(T, f, x) \in Nat
BY FS_Subset, FS_CardinalityType DEF CountAt

LEMMA CountOfNone ==
  ASSUME NEW T, NEW f, NEW x, \A u \in T : f[u] # x
  PROVE  CountAt(T, f, x) = 0
<1>1. {u \in T : f[u] = x} = {}
  OBVIOUS
<1> QED
  BY <1>1, FS_EmptySet DEF CountAt

(***************************************************************************)
(* Recursion over a bounded range of numbers                               *)
(***************************************************************************)

(* A set that holds 0 and the successor of each of its members holds every  *)
(* number: < is well-founded.                                               *)
LEMMA SetInduction ==
  ASSUME NEW S, 0 \in S, \A n \in Nat : n \in S => n + 1 \in S
  PROVE  Nat \subseteq S
<1> SUFFICES ASSUME NEW m \in Nat, m \notin S PROVE FALSE
  OBVIOUS
<1>1. PICK missing : missing = {n \in Nat : n \notin S}
  OBVIOUS
<1>2. PICK R : R = OpToRel(<, Nat)
  OBVIOUS
<1>3. missing \subseteq Nat /\ missing # {}
  BY <1>1
<1>4. PICK x \in missing : \A y \in missing : ~ (<<y, x>> \in R)
  BY <1>2, <1>3, NatLessThanWellFounded, WFMin
<1>5. \A y \in Nat, z \in Nat : y < z => <<y, z>> \in R
  BY <1>2 DEF OpToRel
<1>6. x \in Nat /\ x \notin S /\ x # 0
  BY <1>1
<1>7. x - 1 \in Nat /\ x - 1 < x /\ (x - 1) + 1 = x
  BY <1>6
<1>8. x - 1 \in S
  BY <1>1, <1>4, <1>5, <1>6, <1>7
<1> QED
  BY <1>6, <1>7, <1>8

(* The states that the steps G lead through from a. *)
Steps(F, a, G, n) == F[0] = a /\ \A i \in 1..n : F[i] = G[i][F[i - 1]]

LEMMA StepsExist ==
  ASSUME NEW N \in Nat, NEW S, NEW a \in S, NEW G \in [1..N -> [S -> S]]
  PROVE  \E F \in [0..N -> S] : Steps(F, a, G, N)
<1> DEFINE Good(n) == \E F \in [0..n -> S] : Steps(F, a, G, n)
           U == {n \in Nat : n <= N => Good(n)}
<1>1. 0 \in U
  <2>1. PICK F : F = [i \in 0..0 |-> a]
    OBVIOUS
  <2>2. F \in [0..0 -> S] /\ Steps(F, a, G, 0)
    BY <2>1 DEF Steps
  <2> QED
    BY <2>2
<1>2. ASSUME NEW n \in Nat, n \in U PROVE n + 1 \in U
  <2> SUFFICES ASSUME n + 1 <= N PROVE Good(n + 1)
    OBVIOUS
  <2>1. PICK F \in [0..n -> S] : Steps(F, a, G, n)
    BY <1>2
  <2>2. PICK new : new = G[n + 1][F[n]]
    OBVIOUS
  <2>3. new \in S
    <3>1. n + 1 \in 1..N /\ F[n] \in S
      BY <2>1
    <3>2. G[n + 1] \in [S -> S]
      BY <3>1
    <3> QED
      BY <2>2, <3>1, <3>2
  <2>4. PICK H : H = [i \in 0..(n + 1) |-> IF i = n + 1 THEN new ELSE F[i]]
    OBVIOUS
  <2>5. H[n + 1] = new /\ \A i \in 0..n : H[i] = F[i]
    BY <2>4
  <2>6. H \in [0..(n + 1) -> S]
    BY <2>1, <2>3, <2>4
  <2>7. Steps(H, a, G, n + 1)
    <3>1. H[0] = a
      BY <2>1, <2>5 DEF Steps
    <3>2. ASSUME NEW i \in 1..(n + 1) PROVE H[i] = G[i][H[i - 1]]
      <4>1. CASE i = n + 1
        BY <2>2, <2>5, <4>1
      <4>2. CASE i # n + 1
        <5>1. i \in 1..n /\ i \in 0..n /\ i - 1 \in 0..n
          BY <4>2
        <5>2. H[i] = F[i] /\ H[i - 1] = F[i - 1] /\ F[i] = G[i][F[i - 1]]
          BY <2>1, <2>5, <5>1 DEF Steps
        <5> QED
          BY <5>2
      <4> QED
        BY <4>1, <4>2
    <3> QED
      BY <3>1, <3>2 DEF Steps
  <2> QED
    BY <2>6, <2>7
<1> HIDE DEF U
<1>3. Nat \subseteq U
  BY <1>1, <1>2, SetInduction
<1> QED
  BY <1>3 DEF U

(***************************************************************************)
(* Consent records                                                         *)
(***************************************************************************)
ConsentTypes ==
  /\ consentRecords \in SUBSET ConsentPairs
  /\ consentEmits \in [ConsentThreads -> {ConsentIdle} \cup (ConsentPairs \X ConsentKinds)]
  /\ consentEvents \in [ConsentPairs \X ConsentKinds -> 0..ConsentEventCap]
  /\ consentLost \in [ConsentPairs \X ConsentKinds -> 0..ConsentEventCap]

(* Events of a kind that calls still have to emit. *)
Unsent(pair, kind) == CountAt(ConsentThreads, consentEmits, <<pair, kind>>)

(* Emitted, lost or to come, a revocation has a grant of its own, and the record that *)
(* is there has one more.                                                   *)
GrantsCoverRevocations ==
  \A pair \in ConsentPairs :
    Told(pair, "revoked") + Unsent(pair, "revoked")
        + (IF pair \in consentRecords THEN 1 ELSE 0)
      <= Told(pair, "granted") + Unsent(pair, "granted")

ConsentInv == ConsentTypes /\ GrantsCoverRevocations

LEMMA UnsentIsNat == ASSUME NEW pair, NEW kind PROVE Unsent(pair, kind) \in Nat
BY CallerAssumption, CountIsNat DEF Unsent

LEMMA UnsentChanges ==
  ASSUME NEW t \in ConsentThreads, NEW pair, NEW kind,
         \A u \in ConsentThreads \ {t} : consentEmits'[u] = consentEmits[u]
  PROVE  Unsent(pair, kind)'
           = Unsent(pair, kind) - (IF consentEmits[t] = <<pair, kind>> THEN 1 ELSE 0)
               + (IF consentEmits'[t] = <<pair, kind>> THEN 1 ELSE 0)
<1> DEFINE f == consentEmits
           g == consentEmits'
           x == <<pair, kind>>
<1>1. \A u \in ConsentThreads \ {t} : g[u] = f[u]
  OBVIOUS
<1>2. Unsent(pair, kind) = CountAt(ConsentThreads, f, x)
  BY DEF Unsent
<1>3. Unsent(pair, kind)' = CountAt(ConsentThreads, g, x)
  BY DEF Unsent
<1>4. IsFiniteSet(ConsentThreads)
  BY CallerAssumption
<1> HIDE DEF f, g, x
<1>5. CountAt(ConsentThreads, g, x)
        = CountAt(ConsentThreads, f, x) - (IF f[t] = x THEN 1 ELSE 0) + (IF g[t] = x THEN 1 ELSE 0)
  BY <1>1, <1>4, CountChanges
<1> QED
  BY <1>2, <1>3, <1>5, Zenon DEF f, g, x

LEMMA ConsentEventsAreNat ==
  ASSUME ConsentTypes
  PROVE  \A pair \in ConsentPairs, kind \in ConsentKinds :
           /\ consentEvents[<<pair, kind>>] \in Nat /\ consentLost[<<pair, kind>>] \in Nat
           /\ Told(pair, kind) \in Nat
BY CallerAssumption DEF ConsentTypes, Told

LEMMA ConsentStart == ASSUME ConsentInit PROVE ConsentInv
<1>1. ConsentTypes
  BY CallerAssumption DEF ConsentInit, ConsentTypes
<1>2. ASSUME NEW pair \in ConsentPairs, NEW kind \in {"granted", "revoked"}
      PROVE  Unsent(pair, kind) = 0 /\ Told(pair, kind) = 0
  <2>1. \A t \in ConsentThreads : consentEmits[t] # <<pair, kind>>
    BY <1>2 DEF ConsentInit, ConsentIdle
  <2>2. Told(pair, kind) = 0
    BY <1>2 DEF ConsentInit, ConsentKinds, Told
  <2> QED
    BY <2>1, <2>2, CountOfNone DEF Unsent
<1>3. consentRecords = {}
  BY DEF ConsentInit
<1> QED
  BY <1>1, <1>2, <1>3 DEF ConsentInv, GrantsCoverRevocations

(* A call that looked at the records leaves its event to be emitted. *)
LEMMA PostCounts ==
  ASSUME ConsentInv, NEW t \in ConsentThreads, NEW pair \in ConsentPairs,
         NEW kind \in ConsentKinds, Post(t, pair, kind),
         consentRecords' \in SUBSET ConsentPairs
  PROVE  /\ ConsentTypes' /\ consentEvents' = consentEvents /\ consentLost' = consentLost
         /\ \A q \in ConsentPairs, k \in ConsentKinds :
              Unsent(q, k)' = Unsent(q, k) + (IF q = pair /\ k = kind THEN 1 ELSE 0)
<1>1. /\ consentEmits[t] = ConsentIdle
      /\ consentEmits' = [consentEmits EXCEPT ![t] = <<pair, kind>>]
      /\ consentEvents' = consentEvents /\ consentLost' = consentLost
  BY DEF Post
<1>2. ConsentTypes'
  BY <1>1 DEF ConsentInv, ConsentTypes
<1>3. ASSUME NEW q \in ConsentPairs, NEW k \in ConsentKinds
      PROVE  Unsent(q, k)' = Unsent(q, k) + (IF q = pair /\ k = kind THEN 1 ELSE 0)
  <2>1. /\ consentEmits'[t] = <<pair, kind>>
        /\ \A u \in ConsentThreads \ {t} : consentEmits'[u] = consentEmits[u]
    BY <1>1 DEF ConsentInv, ConsentTypes
  <2>2. Unsent(q, k)' = Unsent(q, k) - (IF consentEmits[t] = <<q, k>> THEN 1 ELSE 0)
                          + (IF consentEmits'[t] = <<q, k>> THEN 1 ELSE 0)
    BY <2>1, UnsentChanges
  <2>3. consentEmits[t] # <<q, k>>
    BY <1>1 DEF ConsentIdle, ConsentKinds
  <2> QED
    BY <2>1, <2>2, <2>3, UnsentIsNat
<1> QED
  BY <1>1, <1>2, <1>3

LEMMA ConsentKeeps == ASSUME ConsentInv, ConsentNext PROVE ConsentInv'
<1> USE DEF ConsentInv
<1>1. CASE clear_records
  <2>1. /\ consentRecords' = {} /\ consentEmits' = consentEmits
        /\ consentEvents' = consentEvents /\ consentLost' = consentLost
    BY <1>1 DEF clear_records
  <2>2. ConsentTypes'
    BY <2>1 DEF ConsentTypes
  <2>3. ASSUME NEW q \in ConsentPairs
        PROVE  (Told(q, "revoked") + Unsent(q, "revoked")
                    + (IF q \in consentRecords THEN 1 ELSE 0)
                  <= Told(q, "granted") + Unsent(q, "granted"))'
    <3>1. Unsent(q, "revoked")' = Unsent(q, "revoked") /\ Unsent(q, "granted")' = Unsent(q, "granted")
      BY <2>1 DEF Unsent
    <3>2. /\ Told(q, "revoked") \in Nat /\ Told(q, "granted") \in Nat
          /\ Unsent(q, "revoked") \in Nat /\ Unsent(q, "granted") \in Nat
      BY UnsentIsNat, ConsentEventsAreNat DEF ConsentKinds
    <3>3. Told(q, "revoked") + Unsent(q, "revoked")
              + (IF q \in consentRecords THEN 1 ELSE 0)
            <= Told(q, "granted") + Unsent(q, "granted")
      BY DEF GrantsCoverRevocations
    <3>4. Told(q, "revoked")' = Told(q, "revoked") /\ Told(q, "granted")' = Told(q, "granted")
      BY <2>1 DEF Told
    <3> QED
      BY <2>1, <3>1, <3>2, <3>3, <3>4
  <2> QED
    BY <2>2, <2>3 DEF GrantsCoverRevocations
<1>2. ASSUME NEW t \in ConsentThreads, NEW pair \in ConsentPairs,
             grant(t, pair) \/ revoke(t, pair) \/ check(t, pair)
      PROVE  ConsentInv'
  <2>1. PICK kind \in ConsentKinds :
               /\ Post(t, pair, kind)
               /\ kind = "granted" => consentRecords' = consentRecords \cup {pair}
               /\ kind = "revoked" => /\ pair \in consentRecords
                                      /\ consentRecords' = consentRecords \ {pair}
               /\ kind = "violation" => consentRecords' = consentRecords
    BY <1>2 DEF grant, revoke, check, ConsentKinds
  <2>a. kind \in {"granted", "revoked", "violation"}
    BY DEF ConsentKinds
  <2>b. consentRecords' \in SUBSET ConsentPairs
    BY <2>1, <2>a DEF ConsentTypes
  <2>2. /\ ConsentTypes' /\ consentEvents' = consentEvents /\ consentLost' = consentLost
        /\ \A q \in ConsentPairs, k \in ConsentKinds :
              Unsent(q, k)' = Unsent(q, k) + (IF q = pair /\ k = kind THEN 1 ELSE 0)
    BY <2>1, <2>b, PostCounts
  <2>3. ASSUME NEW q \in ConsentPairs
        PROVE  (Told(q, "revoked") + Unsent(q, "revoked")
                    + (IF q \in consentRecords THEN 1 ELSE 0)
                  <= Told(q, "granted") + Unsent(q, "granted"))'
    <3>1. /\ Unsent(q, "revoked")' = Unsent(q, "revoked") + (IF q = pair /\ "revoked" = kind THEN 1 ELSE 0)
          /\ Unsent(q, "granted")' = Unsent(q, "granted") + (IF q = pair /\ "granted" = kind THEN 1 ELSE 0)
      BY <2>2 DEF ConsentKinds
    <3>2. /\ Told(q, "revoked") \in Nat /\ Told(q, "granted") \in Nat
          /\ Unsent(q, "revoked") \in Nat /\ Unsent(q, "granted") \in Nat
      BY UnsentIsNat, ConsentEventsAreNat DEF ConsentKinds
    <3>3. Told(q, "revoked") + Unsent(q, "revoked")
              + (IF q \in consentRecords THEN 1 ELSE 0)
            <= Told(q, "granted") + Unsent(q, "granted")
      BY DEF GrantsCoverRevocations
    <3>4. Told(q, "revoked")' = Told(q, "revoked") /\ Told(q, "granted")' = Told(q, "granted")
      BY <2>2 DEF Told
    <3> QED
      BY <2>1, <2>a, <3>1, <3>2, <3>3, <3>4
  <2> QED
    BY <2>2, <2>3 DEF GrantsCoverRevocations
<1>3. ASSUME NEW t \in ConsentThreads, emit_consent(t) PROVE ConsentInv'
  <2>1. /\ consentEmits[t] \in ConsentPairs \X ConsentKinds
        /\ consentEmits' = [consentEmits EXCEPT ![t] = ConsentIdle]
        /\ consentRecords' = consentRecords
        /\ consentEvents[consentEmits[t]] + consentLost[consentEmits[t]] < ConsentEventCap
        /\ \/ /\ consentEvents' = [consentEvents EXCEPT ![consentEmits[t]] = @ + 1]
              /\ consentLost' = consentLost
           \/ /\ consentLost' = [consentLost EXCEPT ![consentEmits[t]] = @ + 1]
              /\ consentEvents' = consentEvents
    BY <1>3 DEF emit_consent, ConsentTypes
  <2>2. ConsentTypes'
    <3> PICK e \in ConsentPairs \X ConsentKinds : e = consentEmits[t]
      BY <2>1
    <3>1. /\ consentEvents[e] \in 0..ConsentEventCap /\ consentLost[e] \in 0..ConsentEventCap
          /\ consentEvents[e] + consentLost[e] < ConsentEventCap
      BY <2>1 DEF ConsentTypes
    <3>2. consentEvents[e] + 1 \in 0..ConsentEventCap /\ consentLost[e] + 1 \in 0..ConsentEventCap
      BY <3>1, CallerAssumption
    <3> QED
      BY <2>1, <3>2 DEF ConsentTypes
  <2>3. ASSUME NEW q \in ConsentPairs, NEW k \in ConsentKinds
        PROVE  Told(q, k)' + Unsent(q, k)' = Told(q, k) + Unsent(q, k)
    <3>1. /\ consentEmits'[t] = ConsentIdle
          /\ \A u \in ConsentThreads \ {t} : consentEmits'[u] = consentEmits[u]
      BY <2>1 DEF ConsentTypes
    <3>2. Unsent(q, k)' = Unsent(q, k) - (IF consentEmits[t] = <<q, k>> THEN 1 ELSE 0)
                            + (IF consentEmits'[t] = <<q, k>> THEN 1 ELSE 0)
      BY <3>1, UnsentChanges
    <3>3. ConsentIdle # <<q, k>>
      BY DEF ConsentIdle, ConsentKinds
    <3>4. Unsent(q, k)' = Unsent(q, k) - (IF consentEmits[t] = <<q, k>> THEN 1 ELSE 0)
      BY <3>1, <3>2, <3>3, UnsentIsNat
    <3>5. /\ Told(q, k)' = Told(q, k) + (IF consentEmits[t] = <<q, k>> THEN 1 ELSE 0)
          /\ Told(q, k) \in Nat
      BY <2>1, ConsentEventsAreNat DEF ConsentTypes, Told
    <3> QED
      BY <3>4, <3>5, UnsentIsNat
  <2>4. ASSUME NEW q \in ConsentPairs
        PROVE  (Told(q, "revoked") + Unsent(q, "revoked")
                    + (IF q \in consentRecords THEN 1 ELSE 0)
                  <= Told(q, "granted") + Unsent(q, "granted"))'
    <3>1. /\ Told(q, "revoked")' + Unsent(q, "revoked")'
               = Told(q, "revoked") + Unsent(q, "revoked")
          /\ Told(q, "granted")' + Unsent(q, "granted")'
               = Told(q, "granted") + Unsent(q, "granted")
      BY <2>3 DEF ConsentKinds
    <3>2. Told(q, "revoked") + Unsent(q, "revoked")
              + (IF q \in consentRecords THEN 1 ELSE 0)
            <= Told(q, "granted") + Unsent(q, "granted")
      BY DEF GrantsCoverRevocations
    <3> QED
      BY <2>1, <3>1, <3>2
  <2> QED
    BY <2>2, <2>4 DEF GrantsCoverRevocations
<1> QED
  BY <1>1, <1>2, <1>3 DEF ConsentNext

LEMMA ConsentBalances == ConsentInv => ConsentTrailBalances /\ ConsentTypeOK
<1> SUFFICES ASSUME ConsentInv PROVE ConsentTrailBalances /\ ConsentTypeOK
  OBVIOUS
<1>1. ASSUME \A t \in ConsentThreads : consentEmits[t] = ConsentIdle, NEW pair \in ConsentPairs
      PROVE  /\ consentEvents[<<pair, "revoked">>] <= Told(pair, "granted")
             /\ pair \in consentRecords =>
                  Told(pair, "revoked") < Told(pair, "granted")
  <2>1. ASSUME NEW kind \in {"granted", "revoked"} PROVE Unsent(pair, kind) = 0
    <3>1. \A t \in ConsentThreads : consentEmits[t] # <<pair, kind>>
      BY <1>1, <2>1 DEF ConsentIdle
    <3> QED
      BY <3>1, CountOfNone DEF Unsent
  <2>2. /\ Told(pair, "revoked") \in Nat /\ Told(pair, "granted") \in Nat
        /\ consentEvents[<<pair, "revoked">>] <= Told(pair, "revoked")
        /\ consentEvents[<<pair, "revoked">>] \in Nat
    <3>1. \A k \in {"revoked", "granted"} : Told(pair, k) \in Nat
      BY ConsentEventsAreNat DEF ConsentInv, ConsentKinds
    <3>2. /\ consentEvents[<<pair, "revoked">>] \in Nat /\ consentLost[<<pair, "revoked">>] \in Nat
      BY ConsentEventsAreNat DEF ConsentInv, ConsentKinds
    <3> QED
      BY <3>1, <3>2 DEF Told
  <2>3. Told(pair, "revoked") + Unsent(pair, "revoked")
            + (IF pair \in consentRecords THEN 1 ELSE 0)
          <= Told(pair, "granted") + Unsent(pair, "granted")
    BY DEF ConsentInv, GrantsCoverRevocations
  <2> QED
    BY <2>1, <2>2, <2>3
<1>2. ConsentTypeOK
  BY DEF ConsentInv, ConsentTypes, ConsentTypeOK
<1> QED
  BY <1>1, <1>2 DEF ConsentTrailBalances

(***************************************************************************)
(* The review queue                                                        *)
(***************************************************************************)
HitlTypes ==
  /\ hitlObjects \in Seq(HITLItem) /\ Len(hitlObjects) <= HitlItemCap
  /\ hitlItems \in [HitlIds -> 0..Len(hitlObjects)]
  /\ hitlEmits \in [HitlThreads -> {HitlIdle} \cup Emission]
  /\ \A t \in HitlThreads :
       hitlEmits[t] \in Emission => hitlEmits[t].index \in 1..Len(hitlObjects)

(* What an item still shows of the decision e was made with. *)
Shows(e, item) ==
  /\ ~e.raced => item = e.decided
  /\ item.id = e.decided.id
  /\ e.decided.reviewer # {} => item.reviewer # {}
  /\ e.decided.resolved => item.resolved
  /\ e.decided.tier <= item.tier

(* An item that others changed since. *)
Later(item, after) ==
  /\ after.id = item.id
  /\ item.reviewer # {} => after.reviewer # {}
  /\ item.resolved => after.resolved
  /\ item.tier <= after.tier

(* The items that calls hold show what the calls have yet to report. *)
HeldItemsShow ==
  \A t \in HitlThreads :
    hitlEmits[t] \in Emission => Shows(hitlEmits[t], hitlObjects[hitlEmits[t].index])

LastEvent == hitlEvent = NoEvent \/
  /\ hitlEvent \in [action : HitlActions, item : HITLItem, decided : HITLItem, raced : BOOLEAN]
  /\ Shows(hitlEvent, hitlEvent.item)

HitlInv == HitlTypes /\ HeldItemsShow /\ LastEvent

LEMMA IdleIsNoEmission == HitlIdle \notin Emission /\ HitlIdle.index = 0
<1>1. \A e \in Emission : e.index # 0
  BY TierAssumption DEF Emission
<1> QED
  BY <1>1 DEF HitlIdle

LEMMA LaterShows ==
  ASSUME NEW e \in Emission, NEW item \in HITLItem, NEW after \in HITLItem,
         Shows(e, item), Later(item, after)
  PROVE  Shows([e EXCEPT !.raced = TRUE], after)
<1>1. PICK d \in HITLItem : d = e.decided
  BY DEF Emission
<1>2. [e EXCEPT !.raced = TRUE].raced = TRUE /\ [e EXCEPT !.raced = TRUE].decided = d
  BY <1>1 DEF Emission
<1>3. d.tier \in Nat /\ item.tier \in Nat /\ after.tier \in Nat
  BY TierAssumption DEF HITLItem
<1> QED
  BY <1>1, <1>2, <1>3 DEF Later, Shows

LEMMA HitlStart == ASSUME HitlInit PROVE HitlInv
<1>1. \A t \in HitlThreads : hitlEmits[t] = HitlIdle /\ hitlEmits[t] \notin Emission
  BY IdleIsNoEmission DEF HitlInit
<1> QED
  BY <1>1, TierAssumption DEF HitlInit, HitlInv, HitlTypes, HeldItemsShow, LastEvent

(* What the call of t leaves to be emitted, and what it does to the others. *)
Holds(u, t, i, action, item) ==
  IF u = t THEN [index |-> i, action |-> action, decided |-> item, raced |-> FALSE]
  ELSE IF hitlEmits[u].index = i THEN [hitlEmits[u] EXCEPT !.raced = TRUE]
  ELSE hitlEmits[u]

(* One call takes one item further, or adds it. *)
LEMMA ItemsGrow ==
  ASSUME HitlInv, NEW t \in HitlThreads, NEW i \in 1..Len(hitlObjects'), NEW action \in HitlActions,
         NEW item \in HITLItem, hitlObjects'[i] = item,
         hitlObjects' \in Seq(HITLItem), Len(hitlObjects') \in Len(hitlObjects)..HitlItemCap,
         \A j \in 1..Len(hitlObjects) : j # i => hitlObjects'[j] = hitlObjects[j],
         i \in 1..Len(hitlObjects) => Later(hitlObjects[i], item),
         hitlItems' \in [HitlIds -> 0..Len(hitlObjects')],
         hitlEmits' = [u \in HitlThreads |-> Holds(u, t, i, action, item)],
         hitlEvent' = NoEvent
  PROVE  HitlInv'
<1>1. /\ Len(hitlObjects) \in Nat /\ Len(hitlObjects') \in Nat
      /\ 1..Len(hitlObjects) \subseteq 1..Len(hitlObjects')
      /\ i \in 1..HitlItemCap /\ i # 0
  BY TierAssumption DEF HitlInv, HitlTypes
<1>2. ASSUME NEW u \in HitlThreads
      PROVE  /\ hitlEmits'[u] \in {HitlIdle} \cup Emission
             /\ hitlEmits'[u] \in Emission =>
                  /\ hitlEmits'[u].index \in 1..Len(hitlObjects')
                  /\ Shows(hitlEmits'[u], hitlObjects'[hitlEmits'[u].index])
  <2>1. CASE u = t
    <3>1. hitlEmits'[u] = [index |-> i, action |-> action, decided |-> item, raced |-> FALSE]
      BY <2>1 DEF Holds
    <3>2. hitlEmits'[u] \in Emission
      <4>1. PICK k \in 1..HitlItemCap : k = i
        BY <1>1
      <4>2. [index |-> k, action |-> action, decided |-> item, raced |-> FALSE] \in Emission
        BY DEF Emission
      <4> QED
        BY <3>1, <4>1, <4>2
    <3>3. /\ hitlEmits'[u].index = i /\ hitlEmits'[u].decided = item
          /\ hitlEmits'[u].raced = FALSE
      BY <3>1
    <3>4. item.tier \in Nat
      BY TierAssumption DEF HITLItem
    <3> QED
      BY <3>2, <3>3, <3>4 DEF Shows
  <2>2. CASE u # t /\ hitlEmits[u] = HitlIdle
    <3>1. hitlEmits[u].index = 0
      BY <2>2, IdleIsNoEmission
    <3>2. hitlEmits'[u] = HitlIdle
      BY <1>1, <2>2, <3>1 DEF Holds
    <3> QED
      BY <3>2, IdleIsNoEmission
  <2>3. CASE u # t /\ hitlEmits[u] \in Emission
    <3>1. PICK e \in Emission : e = hitlEmits[u]
      BY <2>3
    <3>2. PICK j \in 1..Len(hitlObjects) : j = e.index
      BY <2>3, <3>1 DEF HitlInv, HitlTypes
    <3>3. Shows(e, hitlObjects[j])
      BY <2>3, <3>1, <3>2 DEF HitlInv, HeldItemsShow
    <3>4. hitlObjects[j] \in HITLItem
      BY DEF HitlInv, HitlTypes
    <3>5. CASE j = i
      <4>1. hitlEmits'[u] = [e EXCEPT !.raced = TRUE]
        BY <2>3, <3>1, <3>2, <3>5 DEF Holds
      <4>2. Shows(hitlEmits'[u], item)
        BY <3>3, <3>4, <3>5, <4>1, LaterShows
      <4>3. hitlEmits'[u] \in Emission /\ hitlEmits'[u].index = j
        BY <3>2, <4>1 DEF Emission
      <4> QED
        BY <3>5, <4>2, <4>3
    <3>6. CASE j # i
      <4>1. hitlEmits'[u] = e
        BY <2>3, <3>1, <3>2, <3>6 DEF Holds
      <4>2. hitlObjects'[j] = hitlObjects[j] /\ j \in 1..Len(hitlObjects')
        BY <1>1, <3>6
      <4> QED
        BY <3>2, <3>3, <4>1, <4>2
    <3> QED
      BY <3>5, <3>6
  <2> QED
    BY <2>1, <2>2, <2>3 DEF HitlInv, HitlTypes
<1>3. hitlEmits' \in [HitlThreads -> {HitlIdle} \cup Emission]
  BY <1>2
<1>4. HitlTypes'
  BY <1>1, <1>2, <1>3 DEF HitlTypes
<1> QED
  BY <1>2, <1>4 DEF HitlInv, HeldItemsShow, LastEvent

LEMMA ItemChanges ==
  ASSUME HitlInv, NEW t \in HitlThreads, NEW d \in HitlIds, Known(d),
         NEW item \in HITLItem, NEW action \in HitlActions, Change(t, d, item, action),
         Later(Current(d), item)
  PROVE  HitlInv'
<1>1. hitlItems[d] \in 1..Len(hitlObjects) /\ Len(hitlObjects) <= HitlItemCap
  BY DEF Known, HitlInv, HitlTypes
<1> PICK i \in 1..Len(hitlObjects) : i = hitlItems[d]
  BY <1>1
<1>2. /\ hitlObjects' = [hitlObjects EXCEPT ![i] = item]
      /\ hitlEmits' = [u \in HitlThreads |-> Holds(u, t, i, action, item)]
      /\ hitlItems' = hitlItems /\ hitlEvent' = NoEvent
  BY DEF Change, Holds
<1>3. /\ hitlObjects' \in Seq(HITLItem) /\ Len(hitlObjects') = Len(hitlObjects)
      /\ \A j \in 1..Len(hitlObjects) : hitlObjects'[j] = IF j = i THEN item ELSE hitlObjects[j]
  BY <1>2 DEF HitlInv, HitlTypes
<1>4. /\ i \in 1..Len(hitlObjects') /\ hitlObjects'[i] = item
      /\ Len(hitlObjects') \in Len(hitlObjects)..HitlItemCap
      /\ hitlItems' \in [HitlIds -> 0..Len(hitlObjects')]
      /\ Later(hitlObjects[i], item)
  BY <1>1, <1>2, <1>3, TierAssumption DEF HitlInv, HitlTypes, Current
<1>5. \A j \in 1..Len(hitlObjects) : j # i => hitlObjects'[j] = hitlObjects[j]
  BY <1>3
<1> QED
  BY <1>2, <1>3, <1>4, <1>5, ItemsGrow

LEMMA HitlKeeps == ASSUME HitlInv, HitlNext PROVE HitlInv'
<1>1. CASE clear_items
  <2>1. /\ hitlObjects' = hitlObjects /\ hitlEmits' = hitlEmits /\ hitlEvent' = NoEvent
        /\ hitlItems' = [d \in HitlIds |-> 0]
    BY <1>1 DEF clear_items
  <2>2. hitlItems' \in [HitlIds -> 0..Len(hitlObjects)]
    BY <2>1 DEF HitlInv, HitlTypes
  <2> QED
    BY <2>1, <2>2 DEF HitlInv, HitlTypes, HeldItemsShow, LastEvent
<1>2. ASSUME NEW t \in HitlThreads, emit_event(t) PROVE HitlInv'
  <2>1. hitlEmits[t] \in Emission
    BY <1>2 DEF emit_event, HitlInv, HitlTypes
  <2>2. PICK e \in Emission : e = hitlEmits[t]
    BY <2>1
  <2>3. PICK i \in 1..Len(hitlObjects) : i = e.index
    BY <2>1, <2>2 DEF HitlInv, HitlTypes
  <2>4. PICK item \in HITLItem : item = hitlObjects[i]
    BY DEF HitlInv, HitlTypes
  <2>5. /\ hitlEvent' = NoEvent \/ hitlEvent' = Emitted(e, item)
        /\ hitlObjects' = hitlObjects /\ hitlItems' = hitlItems
        /\ hitlEmits' = [hitlEmits EXCEPT ![t] = HitlIdle]
    BY <1>2, <2>2, <2>3, <2>4 DEF emit_event
  <2>6. \A u \in HitlThreads : hitlEmits'[u] \in Emission => hitlEmits'[u] = hitlEmits[u]
    BY <2>5, IdleIsNoEmission DEF HitlInv, HitlTypes
  <2>7. HitlTypes' /\ HeldItemsShow'
    BY <2>5, <2>6 DEF HitlInv, HitlTypes, HeldItemsShow
  <2>8. Shows(e, item)
    BY <2>1, <2>2, <2>3, <2>4 DEF HitlInv, HeldItemsShow
  <2>9. LastEvent'
    <3>1. CASE hitlEvent' = NoEvent
      BY <3>1 DEF LastEvent
    <3>2. CASE hitlEvent' = Emitted(e, item)
      <4>1. /\ hitlEvent' \in [action : HitlActions, item : HITLItem, decided : HITLItem,
                                raced : BOOLEAN]
            /\ hitlEvent'.item = item /\ hitlEvent'.decided = e.decided
            /\ hitlEvent'.raced = e.raced
        BY <3>2 DEF Emitted, Emission
      <4>2. Shows(hitlEvent', hitlEvent'.item)
        BY <2>8, <4>1 DEF Shows
      <4> QED
        BY <4>1, <4>2 DEF LastEvent
    <3> QED
      BY <2>5, <3>1, <3>2
  <2> QED
    BY <2>7, <2>9 DEF HitlInv
<1>3. ASSUME NEW t \in HitlThreads, NEW d \in HitlIds, enqueue(t, d) PROVE HitlInv'
  <2> DEFINE i == Len(hitlObjects) + 1
  <2>0. Fresh(d) \in HITLItem
    <3>1. "queued" \in HitlStatus /\ {} \in SUBSET HitlThreads /\ 0 \in 0..HitlTierCap
      BY TierAssumption DEF HitlStatus
    <3> QED
      BY <3>1 DEF HITLItem, Fresh
  <2>1. PICK item \in HITLItem : item = Fresh(d)
    BY <2>0
  <2>2. /\ hitlObjects' = Append(hitlObjects, item) /\ Len(hitlObjects) < HitlItemCap
        /\ hitlItems' = [hitlItems EXCEPT ![d] = i] /\ hitlEvent' = NoEvent
        /\ hitlEmits' = [hitlEmits EXCEPT ![t] =
             [index |-> i, action |-> "queued", decided |-> item, raced |-> FALSE]]
    BY <1>3, <2>1 DEF enqueue
  <2>3. /\ hitlObjects' \in Seq(HITLItem) /\ Len(hitlObjects') = i
        /\ hitlObjects'[i] = item /\ i \in 1..Len(hitlObjects')
        /\ \A j \in 1..Len(hitlObjects) : hitlObjects'[j] = hitlObjects[j]
        /\ i \notin 1..Len(hitlObjects) /\ Len(hitlObjects) \in Nat
    BY <2>2 DEF HitlInv, HitlTypes
  <2>4. \A u \in HitlThreads : hitlEmits[u].index # i
    <3>1. SUFFICES ASSUME NEW u \in HitlThreads PROVE hitlEmits[u].index # i
      OBVIOUS
    <3>2. CASE hitlEmits[u] = HitlIdle
      BY <2>3, <3>2, IdleIsNoEmission
    <3>3. CASE hitlEmits[u] \in Emission
      BY <2>3, <3>3 DEF HitlInv, HitlTypes
    <3> QED
      BY <3>2, <3>3 DEF HitlInv, HitlTypes
  <2>5. /\ Len(hitlObjects') \in Len(hitlObjects)..HitlItemCap
        /\ hitlItems' \in [HitlIds -> 0..Len(hitlObjects')]
    BY <2>2, <2>3, TierAssumption DEF HitlInv, HitlTypes
  <2> HIDE DEF i
  <2>6. hitlEmits' = [u \in HitlThreads |-> Holds(u, t, i, "queued", item)]
    BY <2>2, <2>4 DEF Holds, HitlInv, HitlTypes
  <2>7. "queued" \in HitlActions
    BY DEF HitlActions
  <2>8. /\ hitlObjects' \in Seq(HITLItem) /\ i \in 1..Len(hitlObjects') /\ hitlObjects'[i] = item
        /\ hitlEvent' = NoEvent
    BY <2>2, <2>3
  <2>9. /\ \A j \in 1..Len(hitlObjects) : j # i => hitlObjects'[j] = hitlObjects[j]
        /\ i \in 1..Len(hitlObjects) => Later(hitlObjects[i], item)
    BY <2>3
  <2> QED
    BY <2>5, <2>6, <2>7, <2>8, <2>9, ItemsGrow
<1>4. ASSUME NEW t \in HitlThreads, NEW d \in HitlIds, NEW o \in {"approved", "rejected"},
             review(t, d, o)
      PROVE  HitlInv'
  <2> DEFINE item == [Current(d) EXCEPT !.status = o, !.reviewer = {t}, !.resolved = TRUE]
  <2>1. Known(d) /\ Change(t, d, item, "reviewed")
    BY <1>4 DEF review
  <2>2. Current(d) \in HITLItem
    BY <2>1 DEF Known, Current, HitlInv, HitlTypes
  <2> PICK was \in HITLItem : was = Current(d)
    BY <2>2
  <2>3. item \in HITLItem /\ Later(Current(d), item)
    <3>1. item = [was EXCEPT !.status = o, !.reviewer = {t}, !.resolved = TRUE]
      OBVIOUS
    <3> HIDE DEF item
    <3>2. item \in HITLItem
      BY <3>1 DEF HITLItem, HitlStatus
    <3>3. item.reviewer = {t} /\ item.resolved /\ item.tier = was.tier /\ item.id = was.id
      BY <3>1 DEF HITLItem
    <3>4. was.tier \in Nat
      BY TierAssumption DEF HITLItem
    <3> QED
      BY <3>2, <3>3, <3>4 DEF Later
  <2> QED
    BY <2>1, <2>3, ItemChanges DEF HitlActions
<1>5. ASSUME NEW t \in HitlThreads, NEW d \in HitlIds, escalate(t, d) PROVE HitlInv'
  <2> DEFINE item == [Current(d) EXCEPT !.status = "escalated", !.tier = @ + 1]
  <2>1. Known(d) /\ Current(d).tier < HitlTierCap /\ Change(t, d, item, "escalated")
    BY <1>5 DEF escalate
  <2>2. Current(d) \in HITLItem
    BY <2>1 DEF Known, Current, HitlInv, HitlTypes
  <2> PICK was \in HITLItem : was = Current(d)
    BY <2>2
  <2>3. item \in HITLItem /\ Later(Current(d), item)
    <3>1. item = [was EXCEPT !.status = "escalated", !.tier = @ + 1]
      OBVIOUS
    <3> HIDE DEF item
    <3>5. was.tier + 1 \in 0..HitlTierCap
      BY <2>1, TierAssumption DEF HITLItem
    <3>2. item \in HITLItem
      BY <3>1, <3>5 DEF HITLItem, HitlStatus
    <3>3. /\ item.reviewer = was.reviewer /\ item.resolved = was.resolved
          /\ item.tier = was.tier + 1 /\ item.id = was.id
      BY <3>1 DEF HITLItem
    <3>4. was.tier \in Nat
      BY TierAssumption DEF HITLItem
    <3> QED
      BY <3>2, <3>3, <3>4 DEF Later
  <2> QED
    BY <2>1, <2>3, ItemChanges DEF HitlActions
<1>6. ASSUME NEW t \in HitlThreads, NEW d \in HitlIds, timeout(t, d) PROVE HitlInv'
  <2> DEFINE item == [Current(d) EXCEPT !.status = "timeout", !.resolved = TRUE]
  <2>1. Known(d) /\ Change(t, d, item, "timeout")
    BY <1>6 DEF timeout
  <2>2. Current(d) \in HITLItem
    BY <2>1 DEF Known, Current, HitlInv, HitlTypes
  <2> PICK was \in HITLItem : was = Current(d)
    BY <2>2
  <2>3. item \in HITLItem /\ Later(Current(d), item)
    <3>1. item = [was EXCEPT !.status = "timeout", !.resolved = TRUE]
      OBVIOUS
    <3> HIDE DEF item
    <3>2. item \in HITLItem
      BY <3>1 DEF HITLItem, HitlStatus
    <3>3. item.reviewer = was.reviewer /\ item.resolved /\ item.tier = was.tier /\ item.id = was.id
      BY <3>1 DEF HITLItem
    <3>4. was.tier \in Nat
      BY TierAssumption DEF HITLItem
    <3> QED
      BY <3>2, <3>3, <3>4 DEF Later
  <2> QED
    BY <2>1, <2>3, ItemChanges DEF HitlActions
<1> QED
  BY <1>1, <1>2, <1>3, <1>4, <1>5, <1>6 DEF HitlNext

LEMMA HitlReports == HitlInv => HitlEventsCarryTheDecision /\ HitlTypeOK
<1> SUFFICES ASSUME HitlInv PROVE HitlEventsCarryTheDecision /\ HitlTypeOK
  OBVIOUS
<1>1. HitlTypeOK
  BY DEF HitlInv, HitlTypes, HitlTypeOK, LastEvent
<1> QED
  BY <1>1 DEF HitlInv, LastEvent, Shows, HitlEventsCarryTheDecision

(***************************************************************************)
(* The registries                                                          *)
(***************************************************************************)

(* A map of models in which the retired ones, and only they, are dated. *)
Dated(map) ==
  /\ map \in [ModelIds -> ModelRegistryEntry]
  /\ \A m \in ModelIds : map[m].decommissioned <=> map[m].status = "retired"

ModelsInv ==
  /\ Dated(models) /\ Dated(modelFile)
  /\ modelSave = <<>> \/ \E map : modelSave = <<map>> /\ Dated(map)

PromptsInv ==
  /\ promptStore \in Seq(PromptVersions) /\ IsInjective(promptStore)
  /\ promptExport \in Seq(PromptVersions)
  /\ promptLatest = "none" \/ promptLatest \in Range(promptStore)

ConsumersInv ==
  /\ consumers \in Seq([tool : ConsumerTools, version : ConsumerVersions])
  /\ startup \in {"not asked", "compatible", "IncompatibleSchemaError"}

RegistriesInv ==
  /\ rgPart \in {"none", "models", "prompts", "consumers"}
  /\ ModelsInv /\ PromptsInv /\ ConsumersInv

LEMMA RegistriesStart == ASSUME RegistriesInit PROVE RegistriesInv
<1>1. Dated(NoModels)
  BY DEF Dated, NoModels, NoEntry, ModelRegistryEntry
<1>2. ModelsInv
  BY <1>1 DEF RegistriesInit, InitModels, ModelsInv
<1>3. PromptsInv
  BY DEF RegistriesInit, InitPrompts, PromptsInv, IsInjective
<1>4. ConsumersInv
  <2>1. ASSUME NEW S PROVE <<>> \in Seq(S)
    OBVIOUS
  <2> QED
    BY <2>1, Zenon DEF RegistriesInit, InitConsumers, ConsumersInv
<1> QED
  BY <1>2, <1>3, <1>4 DEF RegistriesInit, RegistriesInv

LEMMA EntryDated ==
  ASSUME NEW map, Dated(map), NEW m \in ModelIds, NEW entry \in ModelRegistryEntry,
         entry.decommissioned <=> entry.status = "retired"
  PROVE  Dated([map EXCEPT ![m] = entry])
BY DEF Dated

LEMMA ModelsKeep == ASSUME ModelsInv, UseModels PROVE ModelsInv'
<1>1. ASSUME NEW m \in ModelIds, register_model(m) \/ retire_model(m)
      PROVE  ModelsInv'
  <2>1. PICK entry \in ModelRegistryEntry :
          /\ entry.decommissioned <=> entry.status = "retired"
          /\ models' = [models EXCEPT ![m] = entry]
    BY <1>1 DEF register_model, retire_model, ModelRegistryEntry
  <2>2. Dated(models')
    BY <2>1, EntryDated DEF ModelsInv
  <2> QED
    BY <1>1, <2>2 DEF register_model, retire_model, ModelsInv
<1>2. ASSUME NEW m \in ModelIds, deprecate_model(m) PROVE ModelsInv'
  <2>1. models[m] \in ModelRegistryEntry /\ models[m].status # "retired" /\ ~models[m].decommissioned
    BY <1>2 DEF deprecate_model, ModelsInv, Dated
  <2> PICK entry : entry = [models[m] EXCEPT !.status = "deprecated"]
    OBVIOUS
  <2>2. entry \in ModelRegistryEntry /\ entry.status = "deprecated" /\ ~entry.decommissioned
    BY <2>1 DEF ModelRegistryEntry
  <2>3. models' = [models EXCEPT ![m] = entry]
    BY <1>2 DEF deprecate_model
  <2>4. Dated(models')
    BY <2>2, <2>3, EntryDated DEF ModelsInv
  <2> QED
    BY <1>2, <2>4 DEF deprecate_model, ModelsInv
<1>3. CASE save_models
  <2>1. CASE modelSave = <<>>
    BY <1>3, <2>1 DEF save_models, ModelsInv
  <2>2. CASE modelSave # <<>>
    <3> PICK map : modelSave = <<map>> /\ Dated(map)
      BY <2>2 DEF ModelsInv
    <3>1. modelSave[1] = map
      OBVIOUS
    <3> QED
      BY <1>3, <2>2, <3>1 DEF save_models, ModelsInv
  <2> QED
    BY <2>1, <2>2
<1>4. CASE load_models
  BY <1>4 DEF load_models, ModelsInv
<1>5. CASE clear_models
  <2>1. Dated(NoModels)
    BY DEF Dated, NoModels, NoEntry, ModelRegistryEntry
  <2> QED
    BY <1>5, <2>1 DEF clear_models, ModelsInv
<1> QED
  BY <1>1, <1>2, <1>3, <1>4, <1>5 DEF UseModels

(* Setting a key leaves the keys apart and in the dictionary. *)
LEMMA InsertedKeeps ==
  ASSUME NEW kept \in Seq(PromptVersions), IsInjective(kept), NEW v \in PromptVersions
  PROVE  /\ Inserted(kept, v) \in Seq(PromptVersions) /\ IsInjective(Inserted(kept, v))
         /\ v \in Range(Inserted(kept, v))
<1>1. CASE v \in Range(kept)
  BY <1>1 DEF Inserted
<1>2. CASE v \notin Range(kept)
  <2> PICK longer : longer = Append(kept, v)
    OBVIOUS
  <2>1. /\ longer \in Seq(PromptVersions) /\ Len(longer) = Len(kept) + 1 /\ Len(kept) \in Nat
        /\ longer[Len(kept) + 1] = v
        /\ \A i \in 1..Len(kept) : longer[i] = kept[i]
    OBVIOUS
  <2>2. \A i \in 1..Len(kept) : kept[i] # v
    BY <1>2 DEF Range
  <2>3. IsInjective(longer)
    <3> SUFFICES ASSUME NEW i \in 1..Len(longer), NEW j \in 1..Len(longer), longer[i] = longer[j]
                 PROVE  i = j
      BY <2>1 DEF IsInjective
    <3>1. i \in 1..Len(kept) \/ i = Len(kept) + 1
      BY <2>1
    <3>2. j \in 1..Len(kept) \/ j = Len(kept) + 1
      BY <2>1
    <3>3. \A k, l \in 1..Len(kept) : kept[k] = kept[l] => k = l
      BY DEF IsInjective
    <3> QED
      BY <2>1, <2>2, <3>1, <3>2, <3>3
  <2>4. v \in Range(longer)
    BY <2>1 DEF Range
  <2> QED
    BY <1>2, <2>1, <2>3, <2>4 DEF Inserted
<1> QED
  BY <1>1, <1>2

(* Importing the records one by one does so too, and the last is there. *)
LEMMA ImportedKeeps ==
  ASSUME PromptsInv, promptExport # <<>>
  PROVE  /\ Imported \in Seq(PromptVersions) /\ IsInjective(Imported)
         /\ Last(promptExport) \in Range(Imported)
<1> PICK N : N = Len(promptExport)
  OBVIOUS
<1> PICK S : S = {kept \in Seq(PromptVersions) : IsInjective(kept)}
  OBVIOUS
<1>1. N \in Nat \ {0} /\ \A i \in 1..N : promptExport[i] \in PromptVersions
  BY DEF PromptsInv
<1>2. promptStore \in S
  BY DEF PromptsInv
<1>3. \A kept \in S, v \in PromptVersions : Inserted(kept, v) \in S /\ v \in Range(Inserted(kept, v))
  BY InsertedKeeps
<1>4. PICK C : C = CHOOSE f : f = [n \in 0..N |->
          IF n = 0 THEN promptStore ELSE Inserted(f[n - 1], promptExport[n])]
  OBVIOUS
<1>5. Imported = C[N]
  BY <1>4 DEF Imported
<1>6. C = [n \in 0..N |-> IF n = 0 THEN promptStore ELSE Inserted(C[n - 1], promptExport[n])]
  <2> PICK G : G = [i \in 1..N |-> [kept \in S |-> Inserted(kept, promptExport[i])]]
    OBVIOUS
  <2>1. G \in [1..N -> [S -> S]]
    BY <1>1, <1>3
  <2>2. PICK F \in [0..N -> S] : Steps(F, promptStore, G, N)
    BY <1>1, <1>2, <2>1, StepsExist
  <2>3. F = [n \in 0..N |-> IF n = 0 THEN promptStore ELSE Inserted(F[n - 1], promptExport[n])]
    <3>1. ASSUME NEW n \in 0..N
          PROVE  F[n] = IF n = 0 THEN promptStore ELSE Inserted(F[n - 1], promptExport[n])
      <4>1. CASE n = 0
        BY <2>2, <4>1 DEF Steps
      <4>2. CASE n # 0
        <5>1. n \in 1..N /\ n - 1 \in 0..N
          BY <1>1, <4>2
        <5>2. F[n] = G[n][F[n - 1]] /\ F[n - 1] \in S
          BY <2>2, <5>1 DEF Steps
        <5>3. G[n] = [kept \in S |-> Inserted(kept, promptExport[n])]
          BY <5>1
        <5> QED
          BY <4>2, <5>2, <5>3
      <4> QED
        BY <4>1, <4>2
    <3> QED
      BY <3>1
  <2> QED
    BY <1>4, <2>3
<1>7. /\ C[0] = promptStore
      /\ \A n \in 1..N : C[n] = Inserted(C[n - 1], promptExport[n])
  <2>1. 0 \in 0..N /\ \A n \in 1..N : n \in 0..N /\ n # 0
    BY <1>1
  <2> QED
    BY <1>6, <2>1
<1>8. ASSUME NEW n \in 0..N PROVE C[n] \in S
  <2> DEFINE U == {k \in Nat : k <= N => C[k] \in S}
  <2>1. 0 \in U
    BY <1>2, <1>7
  <2>2. ASSUME NEW k \in Nat, k \in U PROVE k + 1 \in U
    <3> SUFFICES ASSUME k + 1 <= N PROVE C[k + 1] \in S
      OBVIOUS
    <3>1. k + 1 \in 1..N /\ (k + 1) - 1 = k /\ C[k] \in S
      BY <1>1, <2>2
    <3> QED
      BY <1>1, <1>3, <1>7, <3>1
  <2> HIDE DEF U
  <2>3. Nat \subseteq U
    BY <2>1, <2>2, SetInduction
  <2> QED
    BY <1>1, <2>3 DEF U
<1>9. Last(promptExport) = promptExport[N] /\ N \in 1..N /\ N - 1 \in 0..N
  BY <1>1 DEF Last
<1> QED
  BY ZenonT(30), <1>1, <1>3, <1>5, <1>7, <1>8, <1>9

LEMMA PromptsKeep == ASSUME PromptsInv, UsePrompts PROVE PromptsInv'
<1>1. ASSUME NEW v \in PromptVersions, register_prompt(v) PROVE PromptsInv'
  <2>1. /\ promptStore' = Inserted(promptStore, v) /\ promptLatest' = v
        /\ promptExport' = promptExport
    BY <1>1 DEF register_prompt
  <2> QED
    BY <2>1, InsertedKeeps DEF PromptsInv
<1>2. CASE export_prompts
  BY <1>2 DEF export_prompts, PromptsInv
<1>3. CASE import_prompts
  BY <1>3, ImportedKeeps DEF import_prompts, PromptsInv
<1> QED
  BY <1>1, <1>2, <1>3 DEF UsePrompts

LEMMA ConsumersKeep == ASSUME ConsumersInv, UseConsumers PROVE ConsumersInv'
<1> DEFINE Records == [tool : ConsumerTools, version : ConsumerVersions]
<1>1. ASSUME NEW t \in ConsumerTools, NEW v \in ConsumerVersions, register_consumer(t, v)
      PROVE  ConsumersInv'
  <2> PICK r \in Records : r = [tool |-> t, version |-> v]
    OBVIOUS
  <2>1. consumers \in Seq(Records) /\ consumers' = Append(consumers, r) /\ startup' = startup
    BY <1>1 DEF register_consumer, ConsumersInv
  <2> HIDE DEF Records
  <2>2. consumers' \in Seq(Records)
    BY <2>1
  <2> QED
    BY <2>1, <2>2 DEF ConsumersInv, Records
<1>2. CASE clear_consumers
  <2>1. ASSUME NEW S PROVE <<>> \in Seq(S)
    OBVIOUS
  <2>2. consumers' = <<>> /\ startup' = startup
    BY <1>2 DEF clear_consumers
  <2> QED
    BY <2>1, <2>2, Zenon DEF ConsumersInv
<1>3. ASSUME NEW v \in ConsumerVersions, assert_compatible(v) PROVE ConsumersInv'
  BY <1>3 DEF assert_compatible, ConsumersInv
<1> QED
  BY <1>1, <1>2, <1>3 DEF UseConsumers

LEMMA RegistriesKeep == ASSUME RegistriesInv, RegistriesNext PROVE RegistriesInv'
<1>1. CASE InUse("models") /\ UseModels /\ UNCHANGED <<promptVars, consumerVars>>
  <2>1. PromptsInv' /\ ConsumersInv'
    BY <1>1 DEF RegistriesInv, promptVars, consumerVars, PromptsInv, ConsumersInv
  <2> QED
    BY <1>1, <2>1, ModelsKeep DEF RegistriesInv, InUse
<1>2. CASE InUse("prompts") /\ UsePrompts /\ UNCHANGED <<modelVars, consumerVars>>
  <2>1. ModelsInv' /\ ConsumersInv'
    BY <1>2 DEF RegistriesInv, modelVars, consumerVars, ModelsInv, ConsumersInv
  <2> QED
    BY <1>2, <2>1, PromptsKeep DEF RegistriesInv, InUse
<1>3. CASE InUse("consumers") /\ UseConsumers /\ UNCHANGED <<modelVars, promptVars>>
  <2>1. ModelsInv' /\ PromptsInv'
    BY <1>3 DEF RegistriesInv, modelVars, promptVars, ModelsInv, PromptsInv
  <2> QED
    BY <1>3, <2>1, ConsumersKeep DEF RegistriesInv, InUse
<1> QED
  BY <1>1, <1>2, <1>3 DEF RegistriesNext

(* The records are numbered from 1 and have their fields. *)
LEMMA ConsumersDomain ==
  ASSUME ConsumersInv
  PROVE  /\ DOMAIN consumers \subseteq Nat
         /\ consumers # <<>> => 1 \in DOMAIN consumers
         /\ \A i \in DOMAIN consumers : /\ consumers[i].tool \in ConsumerTools
                                       /\ consumers[i].version \in ConsumerVersions
<1> DEFINE Records == [tool : ConsumerTools, version : ConsumerVersions]
<1>1. consumers \in Seq(Records)
  BY DEF ConsumersInv
<1>2. \A r \in Records : r.tool \in ConsumerTools /\ r.version \in ConsumerVersions
  OBVIOUS
<1> HIDE DEF Records
<1>3. \A i \in DOMAIN consumers : consumers[i] \in Records
  BY <1>1
<1>4. DOMAIN consumers \subseteq Nat /\ (consumers # <<>> => 1 \in DOMAIN consumers)
  BY <1>1
<1> QED
  BY <1>2, <1>3, <1>4

(* by_tool gives the version of a registered record of the tool. *)
LEMMA ByToolRegistered ==
  ASSUME ConsumersInv, NEW t, by_tool(t) # <<>>
  PROVE  \E r \in Range(consumers) : by_tool(t) = <<r.version>>
<1> DEFINE mine == {i \in DOMAIN consumers : consumers[i].tool = t}
           first == CHOOSE i \in mine : \A j \in mine : i <= j
<1>1. mine # {} /\ by_tool(t) = <<consumers[first].version>>
  BY DEF by_tool
<1>2. mine \subseteq Nat /\ mine \subseteq DOMAIN consumers
  BY ConsumersDomain
<1> HIDE DEF mine
<1>3. \E i \in mine : \A j \in mine : i <= j
  BY <1>1, <1>2, LeastExists
<1>4. first \in DOMAIN consumers
  BY <1>2, <1>3
<1> QED
  BY <1>1, <1>4 DEF Range

LEMMA RegistriesAgree == RegistriesInv => RegistriesResolve /\ RegistriesTypeOK
<1> SUFFICES ASSUME RegistriesInv PROVE RegistriesResolve /\ RegistriesTypeOK
  OBVIOUS
<1>1. RetiredModelsAreDated
  BY DEF RegistriesInv, ModelsInv, Dated, RetiredModelsAreDated
<1>2. LatestVersionResolves
  BY DEF RegistriesInv, PromptsInv, LatestVersionResolves, get_prompt
<1>3. OneMajorServesAll
  <2>1. ASSUME NEW v \in ConsumerVersions, check_compatible(v) = {}, NEW r \in Range(consumers)
        PROVE  r.version[1] = v[1] /\ r.version[2] <= v[2]
    <3>1. r.version \in ConsumerVersions
      BY ConsumersDomain DEF RegistriesInv, Range
    <3>2. r.version \in Nat \X Nat /\ v \in Nat \X Nat
      BY <3>1, VersionAssumption
    <3>3. ~ (r.version[1] # v[1] \/ r.version[2] > v[2])
      BY <2>1 DEF check_compatible
    <3> QED
      BY <3>2, <3>3
  <2>2. ASSUME NEW v \in ConsumerVersions, NEW w \in ConsumerVersions, consumers # <<>>,
               check_compatible(v) = {}, check_compatible(w) = {}
        PROVE  v[1] = w[1]
    <3>1. consumers[1] \in Range(consumers)
      <4>1. 1 \in DOMAIN consumers
        BY <2>2, ConsumersDomain DEF RegistriesInv
      <4> QED
        BY <4>1 DEF Range
    <3> QED
      BY <2>1, <2>2, <3>1
  <2>3. ASSUME NEW v \in ConsumerVersions, NEW t \in ConsumerTools,
               check_compatible(v) = {}, by_tool(t) # <<>>
        PROVE  by_tool(t)[1][1] = v[1] /\ by_tool(t)[1][2] <= v[2]
    <3>1. PICK r \in Range(consumers) : by_tool(t) = <<r.version>>
      BY <2>3, ByToolRegistered DEF RegistriesInv
    <3>2. by_tool(t)[1] = r.version
      BY <3>1
    <3> QED
      BY <2>1, <2>3, <3>2
  <2>4. ASSUME NEW b \in BOOLEAN, NEW d \in BOOLEAN, NEW r \in BOOLEAN, NEW k \in BOOLEAN
        PROVE  check_event(b, d, r, TRUE, k)
                 \in {check_event(b, d, r, FALSE, k), "GovernanceViolationError"}
    BY DEF check_event
  <2> QED
    BY <2>2, <2>3, <2>4 DEF OneMajorServesAll
<1>4. RegistriesTypeOK
  <2>1. Len(modelSave) < 2
    <3>1. CASE modelSave = <<>>
      BY <3>1
    <3>2. CASE modelSave # <<>>
      <4> PICK map : modelSave = <<map>>
        BY <3>2 DEF RegistriesInv, ModelsInv
      <4> HIDE DEF Dated
      <4>1. Len(<<map>>) = 1
        OBVIOUS
      <4> QED
        BY <4>1
    <3> QED
      BY <3>1, <3>2
  <2>2. Range(promptStore) \cup Range(promptExport) \subseteq PromptVersions
    BY DEF RegistriesInv, PromptsInv, Range
  <2>3. promptLatest \in PromptVersions \cup {"none"}
    BY <2>2 DEF RegistriesInv, PromptsInv
  <2> QED
    BY <2>1, <2>2, <2>3 DEF RegistriesInv, ModelsInv, Dated, ConsumersInv, RegistriesTypeOK
<1> QED
  BY <1>1, <1>2, <1>3, <1>4 DEF RegistriesResolve

(***************************************************************************)
(* Keys and links                                                          *)
(***************************************************************************)
KeyTypes ==
  /\ ikKeys \in Seq(KeyRecord) /\ Len(ikKeys) <= IkKeyCap
  /\ \A k \in Ids : ikKeys[k].parent \in Ids \cup {0}
  /\ ikLink \in [issued : BOOLEAN, used : BOOLEAN, expired : BOOLEAN]
  /\ ikMfa \in BOOLEAN

KeySteps == {"idle", "link", "marked", "issue", "rotate", "replace"}

(* A rotation names the key it replaces, and then the key that replaces it. *)
CallsFit ==
  /\ ikCalls \in [IkThreads -> KeySteps \X (0..IkKeyCap) \X (0..IkKeyCap)]
  /\ \A t \in IkThreads :
       /\ ikCalls[t][1] \in {"rotate", "replace"} => ikCalls[t][2] \in Ids
       /\ ikCalls[t][1] = "replace" => /\ ikCalls[t][3] \in Ids
                                       /\ ikKeys[ikCalls[t][3]].parent = ikCalls[t][2]

(* A key that has a successor is revoked and names one. *)
Replaced == {p \in Ids : /\ ikKeys[p].revoked /\ ikKeys[p].rotated_to \in Ids
                         /\ ikKeys[ikKeys[p].rotated_to].parent = p}

(* It is, unless the rotation that made the successor is under way. *)
RotationsEnd ==
  \A k \in Ids : ikKeys[k].parent # 0 =>
    \/ \E t \in IkThreads : ikCalls[t] = <<"replace", ikKeys[k].parent, k>>
    \/ ikKeys[k].parent \in Replaced

(* Nobody is past the marking of a link that is not marked; a link's keys    *)
(* and the threads that may still get one are as many as threads, at most.   *)
LinkUnmarked == /\ LinkKeys = {}
                /\ \A t \in IkThreads : ikCalls[t][1] \notin {"marked", "issue"}
LinkKeysFit ==
  /\ ~ikLink.used => LinkUnmarked
  /\ Cardinality(LinkKeys) + Cardinality(Exchanging) <= Cardinality(IkThreads)

KeysInv == KeyTypes /\ CallsFit /\ RotationsEnd /\ LinkKeysFit

LEMMA KeysStart == ASSUME InitKeys PROVE KeysInv
<1>1. ikKeys = <<>> /\ Ids = {}
  BY DEF InitKeys, Ids
<1>2. KeyTypes
  <2>1. ASSUME NEW S PROVE <<>> \in Seq(S) /\ Len(<<>>) = 0
    OBVIOUS
  <2>2. ikKeys \in Seq(KeyRecord) /\ Len(ikKeys) <= IkKeyCap
    BY <1>1, <2>1, CredentialsAssumption
  <2> QED
    BY <1>1, <2>2 DEF InitKeys, KeyTypes
<1>3. CallsFit
  BY CredentialsAssumption DEF InitKeys, CallsFit, NoStep, KeySteps
<1>4. RotationsEnd
  BY <1>1 DEF RotationsEnd
<1>5. LinkKeysFit
  <2>1. LinkKeys = {} /\ Exchanging = {}
    BY <1>1 DEF InitKeys, LinkKeys, Exchanging, NoStep
  <2>2. Cardinality(IkThreads) \in Nat
    BY CredentialsAssumption, FS_CardinalityType
  <2>3. \A t \in IkThreads : ikCalls[t][1] \notin {"marked", "issue"}
    BY DEF InitKeys, NoStep
  <2> QED
    BY <2>1, <2>2, <2>3, FS_EmptySet DEF LinkKeysFit, LinkUnmarked
<1> QED
  BY <1>2, <1>3, <1>4, <1>5 DEF KeysInv

(* The keys are numbered, finitely many, and so are a link's. *)
LEMMA KeysCounted ==
  ASSUME KeyTypes
  PROVE  /\ Len(ikKeys) \in Nat /\ Ids \subseteq Nat \ {0} /\ IsFiniteSet(Ids)
         /\ \A k \in Ids : ikKeys[k] \in KeyRecord
         /\ IsFiniteSet(LinkKeys) /\ Cardinality(LinkKeys) \in Nat
         /\ IsFiniteSet(Exchanging) /\ Cardinality(Exchanging) \in Nat
         /\ Cardinality(Exchanging) <= Cardinality(IkThreads)
         /\ Cardinality(IkThreads) \in Nat
<1>1. Len(ikKeys) \in Nat /\ Ids \subseteq Nat \ {0} /\ \A k \in Ids : ikKeys[k] \in KeyRecord
  BY DEF KeyTypes, Ids
<1>2. IsFiniteSet(Ids)
  BY <1>1, FS_Interval DEF Ids
<1>3. LinkKeys \subseteq Ids /\ Exchanging \subseteq IkThreads
  BY DEF LinkKeys, Exchanging
<1>4. IsFiniteSet(LinkKeys) /\ IsFiniteSet(Exchanging)
      /\ Cardinality(Exchanging) <= Cardinality(IkThreads)
  BY <1>2, <1>3, CredentialsAssumption, FS_Subset
<1> QED
  BY <1>1, <1>2, <1>4, CredentialsAssumption, FS_CardinalityType

LEMMA KeyIssued ==
  ASSUME KeyTypes, NEW scope \in {"caller", "magic_link"}, NEW parent \in Ids \cup {0},
         NewKey(scope, parent), UNCHANGED <<ikLink, ikMfa>>
  PROVE  /\ KeyTypes' /\ Ids' = Ids \cup {Len(ikKeys) + 1} /\ Len(ikKeys) + 1 \notin Ids
         /\ \A k \in Ids : ikKeys'[k] = ikKeys[k]
         /\ ikKeys'[Len(ikKeys) + 1].scope = scope /\ ikKeys'[Len(ikKeys) + 1].parent = parent
         /\ Len(ikKeys) + 1 \in 0..IkKeyCap
<1> PICK rec : rec = [revoked |-> FALSE, rotated_to |-> 0, scope |-> scope, parent |-> parent]
  OBVIOUS
<1>1. Len(ikKeys) \in Nat /\ Len(ikKeys) < IkKeyCap /\ ikKeys' = Append(ikKeys, rec)
  BY DEF NewKey, KeyTypes
<1>2. parent \in 0..IkKeyCap
  BY <1>1, CredentialsAssumption DEF Ids
<1>3. rec \in KeyRecord /\ rec.scope = scope /\ rec.parent = parent
  BY <1>2, CredentialsAssumption DEF KeyRecord
<1>4. /\ ikKeys' \in Seq(KeyRecord) /\ Len(ikKeys') = Len(ikKeys) + 1
      /\ ikKeys'[Len(ikKeys) + 1] = rec
      /\ \A k \in 1..Len(ikKeys) : ikKeys'[k] = ikKeys[k]
  BY <1>1, <1>3 DEF KeyTypes
<1>5. Ids' = Ids \cup {Len(ikKeys) + 1} /\ Len(ikKeys) + 1 \notin Ids
  BY <1>1, <1>4 DEF Ids
<1>6. Len(ikKeys') <= IkKeyCap /\ Len(ikKeys) + 1 \in 0..IkKeyCap
  BY <1>1, <1>4, CredentialsAssumption
<1>7. \A k \in Ids : ikKeys'[k] = ikKeys[k]
  BY <1>4 DEF Ids
<1>8. KeyTypes'
  BY <1>3, <1>4, <1>5, <1>6, <1>7 DEF KeyTypes
<1> QED
  BY <1>3, <1>4, <1>5, <1>6, <1>7, <1>8

(* A key is revoked, and names a successor or does not. *)
LEMMA KeyRevoked ==
  ASSUME KeyTypes, NEW p \in Ids, NEW rec \in KeyRecord,
         ikKeys' = [ikKeys EXCEPT ![p] = rec],
         rec.parent = ikKeys[p].parent, UNCHANGED <<ikLink, ikMfa>>
  PROVE  /\ KeyTypes' /\ Ids' = Ids /\ ikKeys'[p] = rec
         /\ \A k \in Ids \ {p} : ikKeys'[k] = ikKeys[k]
<1>1. Len(ikKeys) \in Nat /\ p \in 1..Len(ikKeys)
  BY DEF KeyTypes, Ids
<1>2. /\ ikKeys' \in Seq(KeyRecord) /\ Len(ikKeys') = Len(ikKeys) /\ ikKeys'[p] = rec
      /\ \A k \in 1..Len(ikKeys) : k # p => ikKeys'[k] = ikKeys[k]
  BY <1>1 DEF KeyTypes
<1>3. Ids' = Ids /\ \A k \in Ids \ {p} : ikKeys'[k] = ikKeys[k]
  BY <1>2 DEF Ids
<1> QED
  BY <1>2, <1>3 DEF KeyTypes

(* One thread's call moves on. *)
LEMMA CallMoves ==
  ASSUME CallsFit, NEW t \in IkThreads, NEW w \in KeySteps, NEW a \in 0..IkKeyCap,
         NEW b \in 0..IkKeyCap, MoveTo(t, <<w, a, b>>)
  PROVE  /\ ikCalls' \in [IkThreads -> KeySteps \X (0..IkKeyCap) \X (0..IkKeyCap)]
         /\ ikCalls'[t] = <<w, a, b>>
         /\ \A u \in IkThreads \ {t} : ikCalls'[u] = ikCalls[u]
         /\ Exchanging' = IF w \in {"link", "marked", "issue"}
                          THEN Exchanging \cup {t} ELSE Exchanging \ {t}
<1>1. /\ ikCalls' \in [IkThreads -> KeySteps \X (0..IkKeyCap) \X (0..IkKeyCap)]
      /\ ikCalls'[t] = <<w, a, b>>
      /\ \A u \in IkThreads \ {t} : ikCalls'[u] = ikCalls[u]
  BY DEF CallsFit, MoveTo
<1>2. ikCalls'[t][1] = w
  BY <1>1
<1> QED
  BY <1>1, <1>2 DEF Exchanging

(* The calls still fit the keys when keys stay or are added and one call,    *)
(* at most, moves to a step that fits.                                       *)
LEMMA CallsKeep ==
  ASSUME CallsFit, NEW t \in IkThreads,
         ikCalls' \in [IkThreads -> KeySteps \X (0..IkKeyCap) \X (0..IkKeyCap)],
         \A u \in IkThreads \ {t} : ikCalls'[u] = ikCalls[u],
         Ids \subseteq Ids', \A k \in Ids : ikKeys'[k].parent = ikKeys[k].parent,
         \/ ikCalls'[t] = ikCalls[t]
         \/ /\ ikCalls'[t][1] \in {"rotate", "replace"} => ikCalls'[t][2] \in Ids'
            /\ ikCalls'[t][1] = "replace" =>
                 /\ ikCalls'[t][3] \in Ids'
                 /\ ikKeys'[ikCalls'[t][3]].parent = ikCalls'[t][2]
  PROVE  CallsFit'
<1> SUFFICES ASSUME NEW u \in IkThreads
             PROVE  /\ ikCalls'[u][1] \in {"rotate", "replace"} => ikCalls'[u][2] \in Ids'
                    /\ ikCalls'[u][1] = "replace" =>
                         /\ ikCalls'[u][3] \in Ids'
                         /\ ikKeys'[ikCalls'[u][3]].parent = ikCalls'[u][2]
  BY DEF CallsFit
<1>1. /\ ikCalls[u][1] \in {"rotate", "replace"} => ikCalls[u][2] \in Ids
      /\ ikCalls[u][1] = "replace" => /\ ikCalls[u][3] \in Ids
                                      /\ ikKeys[ikCalls[u][3]].parent = ikCalls[u][2]
  BY DEF CallsFit
<1>2. CASE ikCalls'[u] = ikCalls[u]
  <2> PICK c : c = ikCalls[u]
    OBVIOUS
  <2> QED
    BY <1>1, <1>2
<1>3. CASE ikCalls'[u] # ikCalls[u]
  BY <1>3
<1> QED
  BY <1>2, <1>3

(* Rotations end well when keys keep what was replaced, a new key with a     *)
(* parent is the one its rotation names, and that rotation's last step       *)
(* replaces the parent.                                                      *)
LEMMA RotationsKeep ==
  ASSUME KeyTypes, RotationsEnd, NEW t \in IkThreads,
         \A u \in IkThreads \ {t} : ikCalls'[u] = ikCalls[u],
         Ids \subseteq Ids', \A k \in Ids : ikKeys'[k].parent = ikKeys[k].parent,
         Replaced \subseteq Replaced',
         \A k \in Ids' \ Ids : ikKeys'[k].parent # 0 =>
             ikCalls'[t] = <<"replace", ikKeys'[k].parent, k>>,
         \A p, k \in Ids : ikCalls[t] = <<"replace", p, k>> =>
             ikCalls'[t] = ikCalls[t] \/ p \in Replaced'
  PROVE  RotationsEnd'
<1> SUFFICES ASSUME NEW k \in Ids', ikKeys'[k].parent # 0
             PROVE  \/ \E u \in IkThreads : ikCalls'[u] = <<"replace", ikKeys'[k].parent, k>>
                    \/ ikKeys'[k].parent \in Replaced'
  BY DEF RotationsEnd
<1>1. CASE k \notin Ids
  BY <1>1
<1>2. CASE k \in Ids
  <2> PICK p : p = ikKeys[k].parent
    OBVIOUS
  <2>1. ikKeys'[k].parent = p /\ p # 0 /\ p \in Ids
    BY <1>2 DEF KeyTypes
  <2>2. (\E u \in IkThreads : ikCalls[u] = <<"replace", p, k>>) \/ p \in Replaced
    BY <1>2, <2>1 DEF RotationsEnd
  <2>3. (\E u \in IkThreads : ikCalls'[u] = <<"replace", p, k>>) \/ p \in Replaced'
    <3>1. ASSUME NEW u \in IkThreads, ikCalls[u] = <<"replace", p, k>>
          PROVE  ikCalls'[u] = <<"replace", p, k>> \/ p \in Replaced'
      BY <1>2, <2>1, <3>1
    <3> QED
      BY <2>1, <2>2, <3>1
  <2> QED
    BY <2>1, <2>3
<1> QED
  BY <1>1, <1>2

(* What was replaced stays so as long as keys keep their entries. *)
LEMMA ReplacedKeeps ==
  ASSUME Ids \subseteq Ids', \A k \in Ids : ikKeys'[k] = ikKeys[k]
  PROVE  Replaced \subseteq Replaced'
BY DEF Replaced

(* Steps of the links and the second factor keep the keys as they are. *)
LEMMA LinkCallsKeep ==
  ASSUME KeysInv, NEW t \in IkThreads,
         (\E otp \in BOOLEAN : exchange_check(t, otp)) \/ exchange_mark(t) \/ exchange_mfa(t)
           \/ \E k \in Ids : rotate_fetch(t, k)
  PROVE  KeysInv'
<1> USE DEF KeysInv
<1>1. PICK w \in KeySteps \ {"replace"}, a \in 0..IkKeyCap, b \in 0..IkKeyCap :
         /\ MoveTo(t, <<w, a, b>>) /\ ikCalls[t][1] \in KeySteps \ {"replace"}
         /\ w \in {"marked", "issue"} => ikLink'.used
         /\ w \in {"link", "marked", "issue"} => t \in Exchanging \/ ~ikLink.used
         /\ w = "rotate" => a \in Ids
  <2>1. CASE \E otp \in BOOLEAN : exchange_check(t, otp)
    <3>1. PICK b \in {0, 1} : MoveTo(t, <<"link", 0, b>>)
      BY <2>1 DEF exchange_check
    <3>2. b \in 0..IkKeyCap /\ 0 \in 0..IkKeyCap
      BY CredentialsAssumption
    <3> QED
      BY <2>1, <3>1, <3>2 DEF exchange_check, IsAt, KeySteps
  <2>2. CASE exchange_mark(t)
    <3>1. ikCalls[t][3] \in 0..IkKeyCap /\ 0 \in 0..IkKeyCap
      BY CredentialsAssumption DEF CallsFit
    <3>2. ikLink'.used /\ t \in Exchanging /\ ikCalls[t][1] = "link"
      BY <2>2 DEF exchange_mark, IsAt, Exchanging, KeyTypes
    <3>3. PICK b : b = ikCalls[t][3]
      OBVIOUS
    <3>4. MoveTo(t, <<"marked", 0, b>>) /\ b \in 0..IkKeyCap
      BY <2>2, <3>1, <3>3 DEF exchange_mark
    <3> PICK w : w = "marked"
      OBVIOUS
    <3>5. /\ w \in KeySteps \ {"replace"} /\ ikCalls[t][1] \in KeySteps \ {"replace"}
          /\ w # "rotate" /\ MoveTo(t, <<w, 0, b>>)
      BY <3>2, <3>4 DEF KeySteps
    <3> QED
      BY <3>1, <3>2, <3>4, <3>5
  <2>3. CASE exchange_mfa(t)
    <3>1. 0 \in 0..IkKeyCap /\ ikCalls[t][1] = "marked" /\ ikLink' = ikLink
      BY <2>3, CredentialsAssumption DEF exchange_mfa, IsAt
    <3>2. ikLink.used /\ t \in Exchanging
      BY <3>1 DEF LinkKeysFit, LinkUnmarked, Exchanging
    <3>3. \E w \in {"idle", "issue"} : MoveTo(t, <<w, 0, 0>>)
      BY <2>3 DEF exchange_mfa, NoStep
    <3> QED
      BY <3>1, <3>2, <3>3 DEF KeySteps
  <2>4. CASE \E k \in Ids : rotate_fetch(t, k)
    <3>1. PICK k \in Ids : rotate_fetch(t, k)
      BY <2>4
    <3>2. k \in 0..IkKeyCap /\ 0 \in 0..IkKeyCap
      BY CredentialsAssumption, KeysCounted DEF KeyTypes, Ids
    <3> QED
      BY <3>1, <3>2 DEF rotate_fetch, IsAt, KeySteps
  <2> QED
    BY <2>1, <2>2, <2>3, <2>4
<1>2. /\ ikKeys' = ikKeys /\ Ids' = Ids /\ ikMfa' = ikMfa
      /\ ikLink' \in [issued : BOOLEAN, used : BOOLEAN, expired : BOOLEAN]
      /\ ikLink'.used = ikLink.used \/ ikLink'.used
  BY DEF exchange_check, exchange_mark, exchange_mfa, rotate_fetch, Ids, KeyTypes
<1>3. KeyTypes'
  BY <1>2 DEF KeyTypes
<1>4. /\ ikCalls' \in [IkThreads -> KeySteps \X (0..IkKeyCap) \X (0..IkKeyCap)]
      /\ ikCalls'[t] = <<w, a, b>>
      /\ \A u \in IkThreads \ {t} : ikCalls'[u] = ikCalls[u]
      /\ Exchanging' = IF w \in {"link", "marked", "issue"}
                       THEN Exchanging \cup {t} ELSE Exchanging \ {t}
  BY <1>1, CallMoves
<1>5. CallsFit'
  BY <1>1, <1>2, <1>4, CallsKeep
<1>6. RotationsEnd'
  <2>1. \A p, k \in Ids : ikCalls[t] # <<"replace", p, k>>
    BY <1>1
  <2>2. Replaced \subseteq Replaced'
    BY <1>2, ReplacedKeeps
  <2> QED
    BY <1>2, <1>4, <2>1, <2>2, RotationsKeep
<1>7. LinkKeysFit'
  <2>1. LinkKeys' = LinkKeys
    BY <1>2 DEF LinkKeys
  <2>2. ~ikLink'.used => LinkUnmarked'
    BY <1>1, <1>2, <1>4, <2>1 DEF LinkKeysFit, LinkUnmarked
  <2>3. Cardinality(LinkKeys') + Cardinality(Exchanging') <= Cardinality(IkThreads)
    <3>1. CASE ~ikLink.used
      <4>1. Cardinality(LinkKeys') = 0
        BY <2>1, <3>1, FS_EmptySet DEF LinkKeysFit, LinkUnmarked
      <4>2. Cardinality(Exchanging') \in Nat /\ Cardinality(Exchanging') <= Cardinality(IkThreads)
        <5>1. Exchanging' \subseteq IkThreads
          BY DEF Exchanging
        <5> QED
          BY <5>1, CredentialsAssumption, FS_Subset, FS_CardinalityType
      <4>3. Cardinality(IkThreads) \in Nat
        BY KeysCounted
      <4> QED
        BY <4>1, <4>2, <4>3
    <3>2. CASE ikLink.used
      <4>1. Exchanging' \subseteq Exchanging
        BY <1>1, <1>4, <3>2
      <4>2. Cardinality(Exchanging') \in Nat /\ Cardinality(Exchanging') <= Cardinality(Exchanging)
        BY <4>1, KeysCounted, FS_Subset, FS_CardinalityType
      <4> QED
        BY <2>1, <4>2, KeysCounted DEF LinkKeysFit
    <3> QED
      BY <3>1, <3>2
  <2> QED
    BY <2>2, <2>3 DEF LinkKeysFit
<1> QED
  BY <1>3, <1>5, <1>6, <1>7

(* A new key without a parent, or one that its rotation names. *)
LEMMA IssuesKeep ==
  ASSUME KeysInv, NEW t \in IkThreads, issue_api_key(t) \/ exchange_issue(t) \/ rotate_issue(t)
  PROVE  KeysInv'
<1> USE DEF KeysInv
<1> PICK new : new = Len(ikKeys) + 1
  OBVIOUS
<1>1. PICK scope \in {"caller", "magic_link"}, parent \in Ids \cup {0} :
         /\ NewKey(scope, parent) /\ UNCHANGED <<ikLink, ikMfa>>
         /\ ikCalls[t][1] # "replace"
         /\ \/ /\ parent = 0 /\ scope = "caller" /\ ikCalls' = ikCalls /\ ikCalls[t][1] = "idle"
            \/ /\ parent = 0 /\ ikCalls[t][1] = "issue" /\ MoveTo(t, <<"idle", 0, 0>>)
            \/ /\ parent # 0 /\ ikCalls[t][1] = "rotate"
               /\ MoveTo(t, <<"replace", parent, new>>)
  <2>1. CASE issue_api_key(t)
    BY <2>1 DEF issue_api_key, IsAt
  <2>2. CASE exchange_issue(t)
    BY <2>2 DEF exchange_issue, IsAt, NoStep
  <2>3. CASE rotate_issue(t)
    <3> PICK p : p = ikCalls[t][2]
      OBVIOUS
    <3>1. p \in Ids /\ ikCalls[t][1] = "rotate"
      BY <2>3 DEF rotate_issue, IsAt, CallsFit
    <3>2. ikKeys[p].scope \in {"caller", "magic_link"} /\ p # 0
      BY <3>1, KeysCounted DEF KeyRecord
    <3>3. /\ NewKey(ikKeys[p].scope, p) /\ UNCHANGED <<ikLink, ikMfa>>
          /\ MoveTo(t, <<"replace", p, new>>)
      BY <2>3 DEF rotate_issue
    <3> QED
      BY <3>1, <3>2, <3>3
  <2> QED
    BY <2>1, <2>2, <2>3
<1>2. /\ KeyTypes' /\ Ids' = Ids \cup {new} /\ new \notin Ids
      /\ \A k \in Ids : ikKeys'[k] = ikKeys[k]
      /\ ikKeys'[new].scope = scope /\ ikKeys'[new].parent = parent
      /\ new \in 0..IkKeyCap
  BY <1>1, KeyIssued
<1>3. parent \in 0..IkKeyCap /\ 0 \in 0..IkKeyCap
  BY CredentialsAssumption, KeysCounted DEF KeyTypes, Ids
<1>4. /\ ikCalls' \in [IkThreads -> KeySteps \X (0..IkKeyCap) \X (0..IkKeyCap)]
      /\ \A u \in IkThreads \ {t} : ikCalls'[u] = ikCalls[u]
      /\ \/ /\ parent = 0 /\ scope = "caller" /\ ikCalls' = ikCalls /\ Exchanging' = Exchanging
            /\ ikCalls[t][1] = "idle"
         \/ /\ parent = 0 /\ ikCalls[t][1] = "issue" /\ ikCalls'[t] = <<"idle", 0, 0>>
            /\ Exchanging' = Exchanging \ {t}
         \/ /\ parent # 0 /\ ikCalls[t][1] = "rotate" /\ ikCalls'[t] = <<"replace", parent, new>>
            /\ Exchanging' = Exchanging \ {t}
  <2>1. CASE parent = 0 /\ scope = "caller" /\ ikCalls' = ikCalls /\ ikCalls[t][1] = "idle"
    BY <2>1 DEF Exchanging, CallsFit
  <2>2. CASE parent = 0 /\ ikCalls[t][1] = "issue" /\ MoveTo(t, <<"idle", 0, 0>>)
    BY <1>3, <2>2, CallMoves DEF KeySteps
  <2>3. CASE parent # 0 /\ ikCalls[t][1] = "rotate" /\ MoveTo(t, <<"replace", parent, new>>)
    BY <1>2, <1>3, <2>3, CallMoves DEF KeySteps
  <2> QED
    BY <1>1, <2>1, <2>2, <2>3
<1>5. CallsFit'
  BY <1>2, <1>4, CallsKeep
<1>6. RotationsEnd'
  <2>1. \A p, k \in Ids : ikCalls[t] # <<"replace", p, k>>
    BY <1>1
  <2>2. Replaced \subseteq Replaced'
    BY <1>2, ReplacedKeeps
  <2>3. \A k \in Ids' \ Ids : ikKeys'[k].parent # 0 =>
            ikCalls'[t] = <<"replace", ikKeys'[k].parent, k>>
    BY <1>2, <1>4
  <2> QED
    BY <1>2, <1>4, <2>1, <2>2, <2>3, RotationsKeep
<1>7. LinkKeysFit'
  <2>1. LinkKeys' = IF parent = 0 /\ scope = "magic_link" THEN LinkKeys \cup {new} ELSE LinkKeys
    BY <1>2 DEF LinkKeys
  <2>2. ikLink' = ikLink /\ Exchanging' \subseteq Exchanging
    BY <1>1, <1>4
  <2>3. CASE ikCalls[t][1] = "issue"
    <3>1. t \in Exchanging /\ ikLink.used /\ Exchanging' = Exchanging \ {t}
      BY <1>4, <2>3 DEF Exchanging, LinkKeysFit, LinkUnmarked
    <3>2. Cardinality(Exchanging') = Cardinality(Exchanging) - 1
      BY <3>1, KeysCounted, FS_RemoveElement
    <3>3. Cardinality(LinkKeys') \in Nat /\ Cardinality(LinkKeys') <= Cardinality(LinkKeys) + 1
      <4>1. LinkKeys' = LinkKeys \/ LinkKeys' = LinkKeys \cup {new}
        BY <2>1
      <4>2. /\ Cardinality(LinkKeys \cup {new}) \in Nat
            /\ Cardinality(LinkKeys \cup {new}) <= Cardinality(LinkKeys) + 1
        <5>1. IsFiniteSet(LinkKeys) /\ Cardinality(LinkKeys) \in Nat
          BY KeysCounted
        <5>2. Cardinality(LinkKeys \cup {new})
                = IF new \in LinkKeys THEN Cardinality(LinkKeys) ELSE Cardinality(LinkKeys) + 1
          BY <5>1, FS_AddElement
        <5> QED
          BY <5>1, <5>2
      <4>3. Cardinality(LinkKeys) \in Nat
        BY KeysCounted
      <4> PICK c : c = Cardinality(LinkKeys)
        OBVIOUS
      <4> PICK d : d = Cardinality(LinkKeys \cup {new})
        OBVIOUS
      <4>4. Cardinality(LinkKeys') = c \/ Cardinality(LinkKeys') = d
        BY <4>1
      <4>5. c \in Nat /\ d \in Nat /\ d <= c + 1
        BY <4>2, <4>3
      <4>6. c <= c + 1
        BY <4>5
      <4> QED
        BY <4>4, <4>5, <4>6
    <3> QED
      BY <2>2, <3>1, <3>2, <3>3, KeysCounted DEF LinkKeysFit
  <2>4. CASE ikCalls[t][1] # "issue"
    <3>1. LinkKeys' = LinkKeys
      BY <1>4, <2>1, <2>4
    <3>2. Cardinality(Exchanging') \in Nat /\ Cardinality(Exchanging') <= Cardinality(Exchanging)
      BY <2>2, KeysCounted, FS_Subset, FS_CardinalityType
    <3>3. ~ikLink'.used => LinkUnmarked'
      BY <1>4, <2>2, <2>4, <3>1 DEF LinkKeysFit, LinkUnmarked
    <3> QED
      BY <3>1, <3>2, <3>3, KeysCounted DEF LinkKeysFit
  <2> QED
    BY <2>3, <2>4
<1> QED
  BY <1>2, <1>5, <1>6, <1>7

(* A key is revoked; a rotation also names the successor. *)
LEMMA RevocationsKeep ==
  ASSUME KeysInv, NEW t \in IkThreads, rotate_revoke(t) \/ \E k \in Ids : revoke_key(t, k)
  PROVE  KeysInv'
<1> USE DEF KeysInv
<1>1. PICK p \in Ids, rec \in KeyRecord :
         /\ ikKeys' = [ikKeys EXCEPT ![p] = rec]
         /\ rec.parent = ikKeys[p].parent /\ rec.scope = ikKeys[p].scope /\ rec.revoked
         /\ UNCHANGED <<ikLink, ikMfa>>
         /\ ikCalls[t][1] \in {"idle", "replace"}
         /\ \/ /\ rec.rotated_to = ikKeys[p].rotated_to /\ ikCalls' = ikCalls
               /\ ikCalls[t][1] = "idle"
            \/ /\ p = ikCalls[t][2] /\ rec.rotated_to = ikCalls[t][3]
               /\ ikCalls[t][1] = "replace" /\ MoveTo(t, <<"idle", 0, 0>>)
  <2>1. CASE rotate_revoke(t)
    <3> PICK p : p = ikCalls[t][2]
      OBVIOUS
    <3> PICK k : k = ikCalls[t][3]
      OBVIOUS
    <3>1. p \in Ids /\ k \in 0..IkKeyCap /\ ikCalls[t][1] = "replace"
      BY <2>1 DEF rotate_revoke, IsAt, CallsFit
    <3> PICK old \in KeyRecord : old = ikKeys[p]
      BY <3>1, KeysCounted
    <3> PICK rec : rec = [old EXCEPT !.revoked = TRUE, !.rotated_to = k]
      OBVIOUS
    <3>2. rec \in KeyRecord /\ rec.parent = old.parent /\ rec.scope = old.scope
          /\ rec.revoked /\ rec.rotated_to = k
      BY <3>1 DEF KeyRecord
    <3>3. ikKeys' = [ikKeys EXCEPT ![p] = rec]
      BY <2>1, <3>1 DEF rotate_revoke, KeyTypes
    <3> QED
      BY <2>1, <3>1, <3>2, <3>3 DEF rotate_revoke, NoStep
  <2>2. CASE \E k \in Ids : revoke_key(t, k)
    <3> PICK p \in Ids : revoke_key(t, p)
      BY <2>2
    <3> PICK old \in KeyRecord : old = ikKeys[p]
      BY KeysCounted
    <3> PICK rec : rec = [old EXCEPT !.revoked = TRUE]
      OBVIOUS
    <3>2. rec \in KeyRecord /\ rec.parent = old.parent /\ rec.scope = old.scope
          /\ rec.revoked /\ rec.rotated_to = old.rotated_to
      BY DEF KeyRecord
    <3>3. ikKeys' = [ikKeys EXCEPT ![p] = rec]
      BY DEF revoke_key
    <3> QED
      BY <3>2, <3>3 DEF revoke_key, IsAt
  <2> QED
    BY <2>1, <2>2
<1>2. /\ KeyTypes' /\ Ids' = Ids /\ ikKeys'[p] = rec
      /\ \A k \in Ids \ {p} : ikKeys'[k] = ikKeys[k]
  BY <1>1, KeyRevoked
<1>3. \A k \in Ids : ikKeys'[k].parent = ikKeys[k].parent /\ ikKeys'[k].scope = ikKeys[k].scope
  BY <1>1, <1>2
<1>4. /\ ikCalls' \in [IkThreads -> KeySteps \X (0..IkKeyCap) \X (0..IkKeyCap)]
      /\ \A u \in IkThreads \ {t} : ikCalls'[u] = ikCalls[u]
      /\ ikCalls'[t] = ikCalls[t] \/ ikCalls'[t] = <<"idle", 0, 0>>
      /\ Exchanging' = Exchanging
  <2>1. CASE ikCalls' = ikCalls
    BY <2>1 DEF Exchanging, CallsFit
  <2>2. CASE MoveTo(t, <<"idle", 0, 0>>)
    <3>1. 0 \in 0..IkKeyCap
      BY CredentialsAssumption
    <3>2. t \notin Exchanging
      BY <1>1 DEF Exchanging
    <3>3. "idle" \in KeySteps /\ "idle" \notin {"link", "marked", "issue"}
      BY DEF KeySteps
    <3>4. /\ ikCalls' \in [IkThreads -> KeySteps \X (0..IkKeyCap) \X (0..IkKeyCap)]
          /\ ikCalls'[t] = <<"idle", 0, 0>>
          /\ \A u \in IkThreads \ {t} : ikCalls'[u] = ikCalls[u]
          /\ Exchanging' = Exchanging \ {t}
      BY <2>2, <3>1, <3>3, CallMoves
    <3> QED
      BY <3>2, <3>4
  <2> QED
    BY <1>1, <2>1, <2>2
<1>5. CallsFit'
  BY <1>2, <1>3, <1>4, CallsKeep
<1>6. RotationsEnd'
  <2>1. CASE ikCalls' = ikCalls /\ rec.rotated_to = ikKeys[p].rotated_to
    <3>1. Replaced \subseteq Replaced'
      BY <1>1, <1>2, <1>3, <2>1 DEF Replaced
    <3> QED
      BY <1>2, <1>3, <1>4, <2>1, <3>1, RotationsKeep
  <2>2. CASE /\ p = ikCalls[t][2] /\ rec.rotated_to = ikCalls[t][3]
             /\ ikCalls[t][1] = "replace"
    <3>1. rec.rotated_to \in Ids /\ ikKeys[rec.rotated_to].parent = p
      BY <2>2 DEF CallsFit
    <3>2. p \in Replaced'
      BY <1>1, <1>2, <1>3, <3>1 DEF Replaced
    <3>3. Replaced \subseteq Replaced'
      BY <1>1, <1>2, <1>3, <3>2 DEF Replaced
    <3>4. \A q, k \in Ids : ikCalls[t] = <<"replace", q, k>> => q = p
      BY <2>2
    <3> QED
      BY <1>2, <1>3, <1>4, <3>2, <3>3, <3>4, RotationsKeep
  <2> QED
    BY <1>1, <2>1, <2>2
<1>7. LinkKeysFit'
  <2>1. LinkKeys' = LinkKeys
    BY <1>2, <1>3 DEF LinkKeys
  <2>2. ~ikLink'.used => LinkUnmarked'
    BY <1>1, <1>4, <2>1 DEF LinkKeysFit, LinkUnmarked
  <2> QED
    BY <1>4, <2>1, <2>2 DEF LinkKeysFit
<1> QED
  BY <1>2, <1>5, <1>6, <1>7

LEMMA KeysKeep == ASSUME KeysInv, UseKeys PROVE KeysInv'
<1>1. CASE issue_magic_link \/ ExpireLink \/ \E required \in BOOLEAN : set_mfa_policy(required)
  <2>1. /\ ikKeys' = ikKeys /\ ikCalls' = ikCalls /\ ikLink'.used = ikLink.used
        /\ ikLink' \in [issued : BOOLEAN, used : BOOLEAN, expired : BOOLEAN]
        /\ ikMfa' \in BOOLEAN
    BY <1>1 DEF issue_magic_link, ExpireLink, set_mfa_policy, KeysInv, KeyTypes
  <2>2. Ids' = Ids /\ Replaced' = Replaced /\ LinkKeys' = LinkKeys /\ Exchanging' = Exchanging
    BY <2>1 DEF Ids, Replaced, LinkKeys, Exchanging
  <2>3. KeyTypes' /\ CallsFit'
    BY <2>1, <2>2 DEF KeysInv, KeyTypes, CallsFit
  <2>4. RotationsEnd'
    BY <2>1, <2>2 DEF KeysInv, RotationsEnd
  <2>5. LinkKeysFit'
    BY <2>1, <2>2 DEF KeysInv, LinkKeysFit, LinkUnmarked
  <2> QED
    BY <2>3, <2>4, <2>5 DEF KeysInv
<1>2. ASSUME NEW t \in IkThreads, KeyCall(t) PROVE KeysInv'
  BY <1>2, LinkCallsKeep, IssuesKeep, RevocationsKeep DEF KeyCall
<1> QED
  BY <1>1, <1>2 DEF UseKeys

LEMMA KeysAreKept == KeysInv => ExtraKeysNeedAnOverlap
<1> SUFFICES ASSUME KeysInv PROVE ExtraKeysNeedAnOverlap
  OBVIOUS
<1>1. ASSUME NEW k \in Ids, ikKeys[k].parent # 0,
             \A t \in IkThreads : ikCalls[t] # <<"replace", ikKeys[k].parent, k>>
      PROVE  LET p == ikKeys[k].parent
             IN  /\ ikKeys[p].revoked /\ ikKeys[ikKeys[p].rotated_to].parent = p
                 /\ create_session(p, FALSE) # "jwt"
  <2>1. ikKeys[k].parent \in Replaced
    BY <1>1 DEF KeysInv, RotationsEnd
  <2> QED
    BY <2>1 DEF Replaced, create_session
<1> QED
  BY <1>1 DEF KeysInv, LinkKeysFit, ExtraKeysNeedAnOverlap

(***************************************************************************)
(* Second factors and quotas                                               *)
(***************************************************************************)

(* Threads whose code is being compared for record r. *)
Comparing(r) == CountAt(IkThreads, ifCalls, r)

(* What a record's failures may be while it is open, and when every thread   *)
(* that is comparing has failed too.                                         *)
Allowed(e) == MAX_FAILURES + Cardinality(IkThreads) * e

FailuresFit ==
  \A r \in 1..Len(ifTotp) :
    /\ ~ifTotp[r].locked => ifTotp[r].fails < Allowed(ifTotp[r].expiries)
    /\ ifTotp[r].fails + Comparing(r) < Allowed(ifTotp[r].expiries + 1)

CodesFit ==
  \A r \in 1..Len(ifTotp) : \A c \in IfCodes :
    /\ c \in ifTotp[r].used => ifTotp[r].accepted[c] = 1
    /\ c \notin ifTotp[r].used => ifTotp[r].accepted[c] = 0

TotpTypes == ifTotp \in Seq(TotpRecord) /\ ifCalls \in [IkThreads -> 0..Len(ifTotp)]

TotpInv == TotpTypes /\ FailuresFit /\ CodesFit

QuotaInv ==
  /\ ifTier \in 1..4 /\ ifHigh \in 1..4 /\ ifTier <= ifHigh /\ ifCount \in 0..3
  /\ ifHigh < 4 => ifCount <= ifHigh - 1

LEMMA AllowedGrows ==
  /\ Cardinality(IkThreads) \in Nat
  /\ Allowed(0) = MAX_FAILURES
  /\ \A e \in Nat : /\ Allowed(e) \in Nat
                    /\ Allowed(e + 1) = Allowed(e) + Cardinality(IkThreads)
<1> PICK T : T = Cardinality(IkThreads)
  OBVIOUS
<1>1. T \in Nat /\ MAX_FAILURES \in Nat
  BY CredentialsAssumption, FS_CardinalityType
<1>2. T * 0 = 0 /\ \A e \in Nat : T * e \in Nat /\ T * (e + 1) = T * e + T
  BY <1>1
<1>3. ASSUME NEW e \in Nat
      PROVE  Allowed(e) \in Nat /\ Allowed(e + 1) = Allowed(e) + T
  <2> PICK x : x = T * e
    OBVIOUS
  <2> PICK y : y = T * (e + 1)
    OBVIOUS
  <2>1. Allowed(e) = MAX_FAILURES + x /\ Allowed(e + 1) = MAX_FAILURES + y
    BY DEF Allowed
  <2>2. x \in Nat /\ y = x + T
    BY <1>2
  <2> QED
    BY <1>1, <2>1, <2>2
<1>4. Allowed(0) = MAX_FAILURES
  BY <1>1, <1>2 DEF Allowed
<1> QED
  BY <1>1, <1>3, <1>4

LEMMA ComparingFits ==
  ASSUME NEW r
  PROVE  Comparing(r) \in Nat /\ Comparing(r) <= Cardinality(IkThreads)
<1>1. {u \in IkThreads : ifCalls[u] = r} \subseteq IkThreads
  OBVIOUS
<1> QED
  BY <1>1, CredentialsAssumption, FS_Subset, FS_CardinalityType DEF Comparing, CountAt

LEMMA ComparingChanges ==
  ASSUME NEW t \in IkThreads, \A u \in IkThreads \ {t} : ifCalls'[u] = ifCalls[u], NEW r
  PROVE  Comparing(r)' = Comparing(r) - (IF ifCalls[t] = r THEN 1 ELSE 0)
                           + (IF ifCalls'[t] = r THEN 1 ELSE 0)
<1> DEFINE f == ifCalls
           g == ifCalls'
<1>1. \A u \in IkThreads \ {t} : g[u] = f[u]
  OBVIOUS
<1>2. Comparing(r) = CountAt(IkThreads, f, r) /\ Comparing(r)' = CountAt(IkThreads, g, r)
  BY DEF Comparing
<1>3. IsFiniteSet(IkThreads)
  BY CredentialsAssumption
<1> HIDE DEF f, g
<1>4. CountAt(IkThreads, g, r)
        = CountAt(IkThreads, f, r) - (IF f[t] = r THEN 1 ELSE 0) + (IF g[t] = r THEN 1 ELSE 0)
  BY <1>1, <1>3, CountChanges
<1> QED
  BY <1>2, <1>4, Zenon DEF f, g

LEMMA RecordTyped ==
  ASSUME TotpTypes
  PROVE  /\ Len(ifTotp) \in Nat /\ \A r \in 1..Len(ifTotp) : ifTotp[r] \in TotpRecord
BY DEF TotpTypes

(* A record's changes need not look into the sets of three of its fields. *)
Fields(E, U, V) == [fails : Nat, locked : BOOLEAN, expiries : E, used : U, accepted : V]

LEMMA TotpFields ==
  \E E, U, V : /\ TotpRecord = Fields(E, U, V)
               /\ 0 \in E /\ \A e \in E : e < IfExpiryCap => e + 1 \in E
<1>1. TotpRecord = Fields(0..IfExpiryCap, SUBSET IfCodes, [IfCodes -> 0..2])
  BY DEF TotpRecord, Fields
<1>2. 0 \in 0..IfExpiryCap /\ \A e \in 0..IfExpiryCap : e < IfExpiryCap => e + 1 \in 0..IfExpiryCap
  BY CredentialsAssumption
<1> QED
  BY <1>1, <1>2

LEMMA RecordFields ==
  ASSUME NEW old \in TotpRecord
  PROVE  /\ old.fails \in Nat /\ old.locked \in BOOLEAN /\ old.expiries \in 0..IfExpiryCap
         /\ old.expiries \in Nat
         /\ old.used \in SUBSET IfCodes /\ old.accepted \in [IfCodes -> 0..2]
BY CredentialsAssumption DEF TotpRecord

(* One record changes. *)
LEMMA RecordChanges ==
  ASSUME TotpTypes, NEW r \in 1..Len(ifTotp), NEW rec \in TotpRecord,
         ifTotp' = [ifTotp EXCEPT ![r] = rec]
  PROVE  /\ ifTotp' \in Seq(TotpRecord) /\ Len(ifTotp') = Len(ifTotp) /\ ifTotp'[r] = rec
         /\ \A s \in 1..Len(ifTotp) : s # r => ifTotp'[s] = ifTotp[s]
BY DEF TotpTypes

LEMMA TotpStart == ASSUME InitFactors PROVE TotpInv /\ QuotaInv
<1>1. ASSUME NEW S PROVE <<>> \in Seq(S) /\ Len(<<>>) = 0
  OBVIOUS
<1>2. ifTotp \in Seq(TotpRecord) /\ Len(ifTotp) = 0
  BY <1>1 DEF InitFactors
<1>3. TotpInv
  BY <1>2 DEF InitFactors, TotpInv, TotpTypes, FailuresFit, CodesFit
<1> QED
  BY <1>3 DEF InitFactors, QuotaInv

LEMMA EnrolKeeps == ASSUME TotpInv, enroll_totp PROVE TotpInv'
<1> PICK rec : rec = [fails |-> 0, locked |-> FALSE, expiries |-> 0, used |-> {},
                      accepted |-> [c \in IfCodes |-> 0]]
  OBVIOUS
<1>1. rec \in TotpRecord
  BY CredentialsAssumption DEF TotpRecord
<1>2. /\ ~rec.locked /\ rec.fails = 0 /\ rec.expiries = 0 /\ rec.used = {}
      /\ \A c \in IfCodes : rec.accepted[c] = 0
  OBVIOUS
<1>3. ifTotp' = Append(ifTotp, rec) /\ ifCalls' = ifCalls
  BY DEF enroll_totp
<1> PICK n : n = Len(ifTotp)
  OBVIOUS
<1>4. /\ n \in Nat /\ ifTotp' \in Seq(TotpRecord) /\ Len(ifTotp') = n + 1 /\ ifTotp'[n + 1] = rec
      /\ \A r \in 1..n : ifTotp'[r] = ifTotp[r]
  BY <1>1, <1>3 DEF TotpInv, TotpTypes
<1>5. TotpTypes'
  BY <1>3, <1>4 DEF TotpInv, TotpTypes
<1>6. ASSUME NEW r \in 1..Len(ifTotp')
      PROVE  r \in 1..n \/ (r = n + 1 /\ r \notin 0..n)
  BY <1>4
<1>7. \A r : Comparing(r)' = Comparing(r)
  BY <1>3 DEF Comparing
<1>8. FailuresFit'
  <2>1. Comparing(n + 1) = 0
    <3>1. \A u \in IkThreads : ifCalls[u] # n + 1
      BY <1>4 DEF TotpInv, TotpTypes
    <3> QED
      BY <3>1, CountOfNone DEF Comparing
  <2>2. ASSUME NEW r \in 1..Len(ifTotp')
        PROVE  /\ ~ifTotp'[r].locked => ifTotp'[r].fails < Allowed(ifTotp'[r].expiries)
               /\ ifTotp'[r].fails + Comparing(r)' < Allowed(ifTotp'[r].expiries + 1)
    <3>1. CASE r \in 1..n
      BY <1>4, <1>7, <3>1 DEF TotpInv, FailuresFit
    <3>2. CASE r = n + 1
      <4>1. 0 < Allowed(0) /\ 0 + 0 < Allowed(0 + 1)
        <5> PICK y : y = Allowed(0 + 1)
          OBVIOUS
        <5> PICK T : T = Cardinality(IkThreads)
          OBVIOUS
        <5>1. T \in Nat /\ y = MAX_FAILURES + T /\ Allowed(0) = MAX_FAILURES
          BY AllowedGrows
        <5>2. MAX_FAILURES \in Nat \ {0}
          BY CredentialsAssumption
        <5> QED
          BY <5>1, <5>2
      <4> QED
        BY <1>2, <1>4, <1>7, <2>1, <3>2, <4>1
    <3> QED
      BY <1>6, <3>1, <3>2
  <2> QED
    BY <2>2 DEF FailuresFit
<1>9. CodesFit'
  BY SMTT(30), <1>2, <1>4, <1>6 DEF TotpInv, CodesFit
<1> QED
  BY <1>5, <1>8, <1>9 DEF TotpInv

LEMMA CheckKeeps == ASSUME TotpInv, NEW t \in IkThreads, totp_check(t) PROVE TotpInv'
<1> PICK n : n = Len(ifTotp)
  OBVIOUS
<1>1. /\ ifTotp' = ifTotp /\ ifCalls' = [ifCalls EXCEPT ![t] = n]
      /\ ifCalls[t] = 0 /\ ~ifTotp[n].locked /\ ifTotp # <<>>
  BY DEF totp_check
<1>2. n \in Nat \ {0}
  BY <1>1 DEF TotpInv, TotpTypes
<1>6. ifCalls'[t] = n /\ \A u \in IkThreads \ {t} : ifCalls'[u] = ifCalls[u]
  BY <1>1 DEF TotpInv, TotpTypes
<1>3. TotpTypes'
  BY <1>1, <1>2 DEF TotpInv, TotpTypes
<1>4. FailuresFit'
  <2> SUFFICES ASSUME NEW r \in 1..n
               PROVE  /\ ~ifTotp[r].locked => ifTotp[r].fails < Allowed(ifTotp[r].expiries)
                      /\ ifTotp[r].fails + Comparing(r)' < Allowed(ifTotp[r].expiries + 1)
    BY <1>1 DEF FailuresFit
  <2>1. /\ ~ifTotp[r].locked => ifTotp[r].fails < Allowed(ifTotp[r].expiries)
        /\ ifTotp[r].fails + Comparing(r) < Allowed(ifTotp[r].expiries + 1)
    BY DEF TotpInv, FailuresFit
  <2>2. CASE r # n
    <3>1. Comparing(r)' = Comparing(r)
      <4>1. r # 0
        BY <1>2
      <4>2. Comparing(r)' = Comparing(r) - (IF ifCalls[t] = r THEN 1 ELSE 0)
                              + (IF ifCalls'[t] = r THEN 1 ELSE 0)
        BY <1>6, ComparingChanges
      <4>3. Comparing(r) \in Nat
        BY ComparingFits
      <4> QED
        BY <1>1, <1>6, <2>2, <4>1, <4>2, <4>3
    <3> QED
      BY <2>1, <3>1
  <2>3. CASE r = n
    <3>1. Comparing(r)' \in Nat /\ Comparing(r)' <= Cardinality(IkThreads)
      <4>1. {u \in IkThreads : ifCalls'[u] = r} \subseteq IkThreads
        OBVIOUS
      <4> QED
        BY <4>1, CredentialsAssumption, FS_Subset, FS_CardinalityType DEF Comparing, CountAt
    <3> PICK f, e : f = ifTotp[r].fails /\ e = ifTotp[r].expiries
      OBVIOUS
    <3>2. f \in Nat /\ e \in Nat
      BY RecordTyped, CredentialsAssumption DEF TotpInv, TotpRecord
    <3>3. f < Allowed(e)
      BY <1>1, <2>1, <2>3
    <3>4. f + Comparing(r)' < Allowed(e + 1)
      <4> PICK c : c = Comparing(r)'
        OBVIOUS
      <4> PICK x, y, T : x = Allowed(e) /\ y = Allowed(e + 1) /\ T = Cardinality(IkThreads)
        OBVIOUS
      <4>1. x \in Nat /\ y = x + T /\ T \in Nat
        BY <3>2, AllowedGrows
      <4>2. c \in Nat /\ c <= T /\ f < x
        BY <3>1, <3>3
      <4> QED
        BY <3>2, <4>1, <4>2
    <3> QED
      BY <2>1, <3>4
  <2> QED
    BY <2>2, <2>3
<1>5. CodesFit'
  BY <1>1 DEF TotpInv, CodesFit
<1> QED
  BY <1>3, <1>4, <1>5 DEF TotpInv

(* Failures stay within the allowance when one record's do. *)
LEMMA FailuresKeep ==
  ASSUME TotpInv, NEW r \in 1..Len(ifTotp), NEW rec \in TotpRecord,
         ifTotp' = [ifTotp EXCEPT ![r] = rec],
         \A s \in 1..Len(ifTotp) : s # r => Comparing(s)' = Comparing(s),
         ~rec.locked => rec.fails < Allowed(rec.expiries),
         rec.fails + Comparing(r)' < Allowed(rec.expiries + 1)
  PROVE  FailuresFit'
<1>1. /\ Len(ifTotp') = Len(ifTotp) /\ ifTotp'[r] = rec
      /\ \A s \in 1..Len(ifTotp) : s # r => ifTotp'[s] = ifTotp[s]
  BY RecordChanges DEF TotpInv
<1>2. ASSUME NEW s \in 1..Len(ifTotp)
      PROVE  /\ ~ifTotp'[s].locked => ifTotp'[s].fails < Allowed(ifTotp'[s].expiries)
             /\ ifTotp'[s].fails + Comparing(s)' < Allowed(ifTotp'[s].expiries + 1)
  <2>1. CASE s = r
    BY <1>1, <2>1
  <2>2. CASE s # r
    BY <1>1, <2>2 DEF TotpInv, FailuresFit
  <2> QED
    BY <2>1, <2>2
<1> QED
  BY <1>1, <1>2 DEF FailuresFit

(* The outcome of a comparison: its thread is done with the record. *)
LEMMA OutcomesKeep ==
  ASSUME TotpInv, NEW t \in IkThreads, totp_match(t) \/ totp_miss(t)
  PROVE  TotpInv'
<1> PICK r : r = ifCalls[t]
  OBVIOUS
<1>1. r \in 1..Len(ifTotp) /\ ifCalls' = [ifCalls EXCEPT ![t] = 0]
  BY DEF totp_match, totp_miss, TotpInv, TotpTypes
<1> PICK old \in TotpRecord : old = ifTotp[r]
  BY <1>1, RecordTyped DEF TotpInv
<1>a. old.fails \in Nat /\ old.expiries \in Nat /\ old.expiries \in 0..IfExpiryCap /\ old.locked \in BOOLEAN
  BY CredentialsAssumption DEF TotpRecord
<1>b. PICK E, U, V : TotpRecord = Fields(E, U, V) /\ 0 \in E
  BY TotpFields
<1>2. PICK rec \in TotpRecord :
         /\ ifTotp' = [ifTotp EXCEPT ![r] = rec]
         /\ rec.used = old.used /\ rec.accepted = old.accepted /\ rec.locked \in BOOLEAN
         /\ \/ rec.fails = 0 /\ rec.expiries = 0
            \/ /\ rec.fails = old.fails + 1 /\ rec.expiries = old.expiries
               /\ ~rec.locked => rec.fails < MAX_FAILURES
  <2>1. CASE totp_match(t)
    <3> PICK rec : rec = [old EXCEPT !.fails = 0, !.expiries = 0]
      OBVIOUS
    <3>1. rec \in TotpRecord /\ rec.used = old.used /\ rec.accepted = old.accepted
          /\ rec.fails = 0 /\ rec.expiries = 0 /\ rec.locked \in BOOLEAN
      BY <1>b DEF Fields
    <3>2. ifTotp' = [ifTotp EXCEPT ![r] = rec]
      BY <1>1, <2>1 DEF totp_match, TotpInv, TotpTypes
    <3> QED
      BY <3>1, <3>2
  <2>2. CASE totp_miss(t)
    <3> PICK lock \in BOOLEAN : lock <=> old.locked \/ old.fails + 1 >= MAX_FAILURES
      OBVIOUS
    <3> PICK rec : rec = [old EXCEPT !.fails = old.fails + 1, !.locked = lock]
      OBVIOUS
    <3>a. PICK f \in Nat : f = old.fails + 1
      BY <1>a
    <3>b. rec = [old EXCEPT !.fails = f, !.locked = lock]
      BY <3>a
    <3>c. rec \in TotpRecord
      BY <1>b, <3>b DEF Fields
    <3>1. rec \in TotpRecord /\ rec.used = old.used /\ rec.accepted = old.accepted
          /\ rec.fails = old.fails + 1 /\ rec.expiries = old.expiries /\ rec.locked = lock
      BY <1>b, <3>a, <3>b, <3>c DEF Fields
    <3>2. ~lock => old.fails + 1 < MAX_FAILURES
      BY <1>a, CredentialsAssumption
    <3>3. ifTotp' = [ifTotp EXCEPT ![r] = rec]
      <4>1. lock = (old.locked \/ old.fails + 1 >= MAX_FAILURES)
        BY <1>a
      <4>2. ifTotp' = [ifTotp EXCEPT ![r] = [old EXCEPT !.fails = @ + 1,
                          !.locked = old.locked \/ old.fails + 1 >= MAX_FAILURES]]
        BY <1>1, <2>2 DEF totp_miss, TotpInv, TotpTypes
      <4> QED
        BY <4>1, <4>2
    <3> QED
      BY <3>1, <3>2, <3>3
  <2> QED
    BY <2>1, <2>2
<1>3. /\ ifTotp' \in Seq(TotpRecord) /\ Len(ifTotp') = Len(ifTotp) /\ ifTotp'[r] = rec
      /\ \A s \in 1..Len(ifTotp) : s # r => ifTotp'[s] = ifTotp[s]
  BY <1>1, <1>2, RecordChanges DEF TotpInv
<1>4. TotpTypes'
  <2>1. 0 \in 0..Len(ifTotp)
    BY <1>1, RecordTyped DEF TotpInv
  <2> QED
    BY <1>1, <1>3, <2>1 DEF TotpInv, TotpTypes
<1>5. /\ Comparing(r) \in Nat \ {0} /\ Comparing(r)' = Comparing(r) - 1
      /\ \A s \in 1..Len(ifTotp) : s # r => Comparing(s)' = Comparing(s)
  <2>1. t \in {u \in IkThreads : ifCalls[u] = r}
    OBVIOUS
  <2>2. Comparing(r) # 0
    <3> PICK A : A = {u \in IkThreads : ifCalls[u] = r}
      OBVIOUS
    <3>1. IsFiniteSet(A) /\ A # {}
      BY <2>1, CredentialsAssumption, FS_Subset
    <3> QED
      BY <3>1, FS_EmptySet DEF Comparing, CountAt
  <2>3. ASSUME NEW s \in 1..Len(ifTotp)
        PROVE  Comparing(s)' = Comparing(s) - (IF r = s THEN 1 ELSE 0)
    <3>1. ifCalls'[t] = 0 /\ \A u \in IkThreads \ {t} : ifCalls'[u] = ifCalls[u]
      BY <1>1 DEF TotpInv, TotpTypes
    <3>2. Comparing(s)' = Comparing(s) - (IF ifCalls[t] = s THEN 1 ELSE 0)
                            + (IF ifCalls'[t] = s THEN 1 ELSE 0)
      BY <3>1, ComparingChanges
    <3>3. s # 0 /\ Comparing(s) \in Nat
      BY ComparingFits
    <3> QED
      BY <3>1, <3>2, <3>3
  <2> QED
    BY <1>1, <2>2, <2>3, ComparingFits
<1>6. FailuresFit'
  <2> PICK c : c = Comparing(r)
    OBVIOUS
  <2> PICK f, e : f = old.fails /\ e = old.expiries
    OBVIOUS
  <2> PICK x, y, z, T : /\ x = Allowed(e) /\ y = Allowed(e + 1) /\ z = Allowed(0 + 1)
                        /\ T = Cardinality(IkThreads)
    OBVIOUS
  <2>0. f \in Nat /\ e \in Nat /\ c \in Nat \ {0} /\ c <= T
    BY <1>a, <1>5, ComparingFits
  <2>1. x \in Nat /\ y = x + T /\ T \in Nat /\ z = MAX_FAILURES + T /\ Allowed(0) = MAX_FAILURES
    BY <2>0, AllowedGrows
  <2>2. MAX_FAILURES \in Nat \ {0}
    BY CredentialsAssumption
  <2>3. f + c < y
    BY <1>1 DEF TotpInv, FailuresFit
  <2>4. ~rec.locked => rec.fails < Allowed(rec.expiries)
    <3>1. CASE rec.fails = 0 /\ rec.expiries = 0
      BY <2>1, <2>2, <3>1
    <3>2. CASE /\ rec.fails = f + 1 /\ rec.expiries = e
               /\ ~rec.locked => rec.fails < MAX_FAILURES
      <4>1. MAX_FAILURES <= x
        <5> PICK g : g = T * e
          OBVIOUS
        <5>1. g \in Nat /\ x = MAX_FAILURES + g
          BY <2>0, <2>1 DEF Allowed
        <5> QED
          BY <2>2, <5>1
      <4> QED
        BY <2>0, <2>1, <2>2, <3>2, <4>1
    <3> QED
      BY <1>2, <3>1, <3>2
  <2>5. rec.fails + Comparing(r)' < Allowed(rec.expiries + 1)
    <3>1. CASE rec.fails = 0 /\ rec.expiries = 0
      <4>1. 0 + (c - 1) < z
        BY <2>0, <2>1, <2>2
      <4> QED
        BY <1>5, <3>1, <4>1
    <3>2. CASE rec.fails = f + 1 /\ rec.expiries = e
      <4>1. (f + 1) + (c - 1) < y
        BY <2>0, <2>1, <2>3
      <4> QED
        BY <1>5, <3>2, <4>1
    <3> QED
      BY <1>2, <3>1, <3>2
  <2> QED
    BY <1>1, <1>2, <1>5, <2>4, <2>5, FailuresKeep
<1>7. CodesFit'
  BY <1>2, <1>3 DEF TotpInv, CodesFit
<1> QED
  BY <1>4, <1>6, <1>7 DEF TotpInv

LEMMA LockExpiryKeeps ==
  ASSUME TotpInv, NEW r \in 1..Len(ifTotp), LockExpires(r)
  PROVE  TotpInv'
<1> PICK old \in TotpRecord : old = ifTotp[r]
  BY RecordTyped DEF TotpInv
<1>1. PICK E, U, V : /\ TotpRecord = Fields(E, U, V)
                     /\ \A e \in E : e < IfExpiryCap => e + 1 \in E
  BY TotpFields
<1>2. old.fails \in Nat /\ old.expiries \in Nat
  BY RecordFields
<1> PICK e : e = old.expiries + 1
  OBVIOUS
<1>3. e \in E
  BY <1>1 DEF LockExpires, Fields
<1> PICK rec : rec = [old EXCEPT !.locked = FALSE, !.expiries = e]
  OBVIOUS
<1>4. rec \in TotpRecord
  BY <1>1, <1>3 DEF Fields
<1>5. /\ rec.fails = old.fails /\ rec.expiries = e /\ rec.used = old.used
      /\ rec.accepted = old.accepted
  BY <1>1 DEF Fields
<1>6. ifTotp' = [ifTotp EXCEPT ![r] = rec] /\ ifCalls' = ifCalls
  BY DEF LockExpires, TotpInv, TotpTypes
<1>7. /\ ifTotp' \in Seq(TotpRecord) /\ Len(ifTotp') = Len(ifTotp) /\ ifTotp'[r] = rec
      /\ \A s \in 1..Len(ifTotp) : s # r => ifTotp'[s] = ifTotp[s]
  BY <1>4, <1>6, RecordChanges DEF TotpInv
<1>8. TotpTypes'
  BY <1>6, <1>7 DEF TotpInv, TotpTypes
<1>9. FailuresFit'
  <2>1. \A s : Comparing(s)' = Comparing(s)
    BY <1>6 DEF Comparing
  <2> PICK f, c : f = old.fails /\ c = Comparing(r)
    OBVIOUS
  <2> PICK x, y, T : x = Allowed(e) /\ y = Allowed(e + 1) /\ T = Cardinality(IkThreads)
    OBVIOUS
  <2>2. f + c < x /\ f \in Nat /\ c \in Nat /\ e \in Nat
    BY <1>2, ComparingFits DEF TotpInv, FailuresFit
  <2>3. x \in Nat /\ y = x + T /\ T \in Nat
    BY <2>2, AllowedGrows
  <2>4. f < x /\ f + c < y
    BY <2>2, <2>3
  <2> QED
    BY <1>4, <1>5, <1>6, <2>1, <2>4, FailuresKeep
<1>10. CodesFit'
  <2>1. ASSUME NEW s \in 1..Len(ifTotp)
        PROVE  ifTotp'[s].used = ifTotp[s].used /\ ifTotp'[s].accepted = ifTotp[s].accepted
    BY <1>5, <1>7
  <2> QED
    BY <1>7, <2>1 DEF TotpInv, CodesFit
<1> QED
  BY <1>8, <1>9, <1>10 DEF TotpInv

LEMMA BackupCodesKeep ==
  ASSUME TotpInv, NEW c \in IfCodes, verify_backup_code(c)
  PROVE  TotpInv'
<1> PICK r : r = Len(ifTotp)
  OBVIOUS
<1>1. r \in 1..Len(ifTotp) /\ c \notin ifTotp[r].used /\ ifCalls' = ifCalls
  <2>1. r \in Nat \ {0}
    BY DEF verify_backup_code, TotpInv, TotpTypes
  <2> QED
    BY <2>1 DEF verify_backup_code
<1> PICK old \in TotpRecord : old = ifTotp[r]
  BY <1>1, RecordTyped DEF TotpInv
<1>2. old.used \in SUBSET IfCodes /\ old.accepted \in [IfCodes -> 0..2]
  BY RecordFields
<1> PICK used : used = old.used \cup {c}
  OBVIOUS
<1> PICK accepted : accepted = [old.accepted EXCEPT ![c] = @ + 1]
  OBVIOUS
<1>3. old.accepted[c] = 0
  BY <1>1 DEF TotpInv, CodesFit
<1>4. /\ accepted \in [IfCodes -> 0..2] /\ accepted[c] = 1 /\ used \in SUBSET IfCodes
      /\ \A d \in IfCodes : d # c => accepted[d] = old.accepted[d]
  BY <1>2, <1>3
<1> PICK rec : rec = [old EXCEPT !.used = used, !.accepted = accepted]
  OBVIOUS
<1>5. PICK E, U, V : TotpRecord = Fields(E, U, V) /\ used \in U /\ accepted \in V
  <2>1. TotpRecord = Fields(0..IfExpiryCap, SUBSET IfCodes, [IfCodes -> 0..2])
    BY DEF TotpRecord, Fields
  <2> QED
    BY <1>4, <2>1
<1>6. rec \in TotpRecord
  BY <1>5 DEF Fields
<1>7. /\ rec.fails = old.fails /\ rec.expiries = old.expiries /\ rec.locked = old.locked
      /\ rec.used = used /\ rec.accepted = accepted
  BY <1>5 DEF Fields
<1>8. ifTotp' = [ifTotp EXCEPT ![r] = rec]
  BY <1>1 DEF verify_backup_code, TotpInv, TotpTypes
<1>9. /\ ifTotp' \in Seq(TotpRecord) /\ Len(ifTotp') = Len(ifTotp) /\ ifTotp'[r] = rec
      /\ \A s \in 1..Len(ifTotp) : s # r => ifTotp'[s] = ifTotp[s]
  BY ZenonT(30), <1>1, <1>6, <1>8, RecordChanges DEF TotpInv
<1>10. TotpTypes'
  BY <1>1, <1>9 DEF TotpInv, TotpTypes
<1>11. FailuresFit'
  <2>1. \A s : Comparing(s)' = Comparing(s)
    BY <1>1 DEF Comparing
  <2>2. /\ ~old.locked => old.fails < Allowed(old.expiries)
        /\ old.fails + Comparing(r) < Allowed(old.expiries + 1)
    BY <1>1 DEF TotpInv, FailuresFit
  <2> QED
    BY <1>1, <1>6, <1>7, <1>8, <2>1, <2>2, FailuresKeep
<1>12. CodesFit'
  <2>1. ASSUME NEW d \in IfCodes
        PROVE  (d \in used => accepted[d] = 1) /\ (d \notin used => accepted[d] = 0)
    <3>1. (d \in old.used => old.accepted[d] = 1) /\ (d \notin old.used => old.accepted[d] = 0)
      BY <1>1 DEF TotpInv, CodesFit
    <3> QED
      BY <1>4, <3>1
  <2>2. ASSUME NEW s \in 1..Len(ifTotp), NEW d \in IfCodes
        PROVE  /\ d \in ifTotp'[s].used => ifTotp'[s].accepted[d] = 1
               /\ d \notin ifTotp'[s].used => ifTotp'[s].accepted[d] = 0
    <3>1. CASE s = r
      <4>1. ifTotp'[s].used = used /\ ifTotp'[s].accepted = accepted
        BY <1>7, <1>9, <3>1
      <4> QED
        BY <2>1, <4>1, Zenon
    <3>2. CASE s # r
      BY <1>9, <3>2 DEF TotpInv, CodesFit
    <3> QED
      BY <3>1, <3>2
  <2> QED
    BY <1>9, <2>2 DEF CodesFit
<1> QED
  BY <1>10, <1>11, <1>12 DEF TotpInv

LEMMA TotpKeep == ASSUME TotpInv, UseCodes PROVE TotpInv'
BY EnrolKeeps, CheckKeeps, OutcomesKeep, LockExpiryKeeps, BackupCodesKeep DEF UseCodes

LEMMA Tiers == Len(QuotaTier) = 4 /\ \A tier \in 1..4 : QuotaTier[tier] = tier - 1
<1>1. Len(QuotaTier) = 4
  BY DEF QuotaTier
<1>2. QuotaTier[1] = 0 /\ QuotaTier[2] = 1 /\ QuotaTier[3] = 2 /\ QuotaTier[4] = 3
  BY DEF QuotaTier
<1> QED
  BY <1>1, <1>2

LEMMA QuotaKeeps == ASSUME QuotaInv, UseQuota PROVE QuotaInv'
<1>1. CASE consume_quota
  <2>1. /\ ifTier < 4 => ifCount < ifTier - 1
        /\ ifCount < 3 /\ ifCount' = ifCount + 1 /\ ifTier' = ifTier /\ ifHigh' = ifHigh
    BY <1>1, Tiers DEF consume_quota, Limited, QuotaInv
  <2> QED
    BY <2>1 DEF QuotaInv
<1>2. CASE Midnight
  BY <1>2 DEF Midnight, QuotaInv
<1>3. ASSUME NEW tier \in 1..Len(QuotaTier), set_key_tier(tier) PROVE QuotaInv'
  BY <1>3, Tiers DEF set_key_tier, QuotaInv
<1> QED
  BY <1>1, <1>2, <1>3 DEF UseQuota

LEMMA GuessesAreKept ==
  ASSUME TotpInv, QuotaInv
  PROVE  GuessesAreRationed /\ ifCount \in 0..QuotaTier[4]
<1>1. ASSUME NEW r \in 1..Len(ifTotp)
      PROVE  /\ ifTotp[r].fails < MAX_FAILURES + Cardinality(IkThreads) * (ifTotp[r].expiries + 1)
             /\ \A c \in IfCodes : ifTotp[r].accepted[c] <= 1
  <2> PICK f, c, x : f = ifTotp[r].fails /\ c = Comparing(r) /\ x = Allowed(ifTotp[r].expiries + 1)
    OBVIOUS
  <2>1. f \in Nat /\ c \in Nat /\ f + c < x /\ ifTotp[r].expiries + 1 \in Nat
    BY RecordTyped, RecordFields, ComparingFits DEF TotpInv, FailuresFit
  <2>2. x \in Nat
    BY <2>1, AllowedGrows
  <2>3. f < x
    BY <2>1, <2>2
  <2>4. ASSUME NEW d \in IfCodes PROVE ifTotp[r].accepted[d] <= 1
    <3>1. ifTotp[r].accepted[d] = 1 \/ ifTotp[r].accepted[d] = 0
      BY DEF TotpInv, CodesFit
    <3> QED
      BY <3>1
  <2> QED
    BY <2>3, <2>4 DEF Allowed
<1>2. Limited(ifHigh) => ifCount <= QuotaTier[ifHigh]
  BY Tiers DEF QuotaInv, Limited
<1>3. get_quota_usage.remaining > 0 => ifCount < QuotaTier[ifHigh]
  <2>1. get_quota_usage.remaining = IF ~Limited(ifTier) \/ ifCount >= QuotaTier[ifTier] THEN 0
                                    ELSE QuotaTier[ifTier] - ifCount
    BY DEF get_quota_usage
  <2>2. QuotaTier[ifTier] = ifTier - 1 /\ QuotaTier[ifHigh] = ifHigh - 1
    BY Tiers DEF QuotaInv
  <2> QED
    BY <2>1, <2>2 DEF QuotaInv
<1>4. ifCount \in 0..QuotaTier[4]
  BY Tiers DEF QuotaInv
<1> QED
  BY <1>1, <1>2, <1>3, <1>4 DEF GuessesAreRationed

CredentialsInv ==
  ifPart \in {"none", "keys", "codes", "quota"} /\ KeysInv /\ TotpInv /\ QuotaInv

LEMMA CredentialsStart == ASSUME CredentialsInit PROVE CredentialsInv
BY KeysStart, TotpStart DEF CredentialsInit, CredentialsInv

LEMMA KeysStay == ASSUME KeysInv, UNCHANGED ikVars PROVE KeysInv'
<1>1. ikKeys' = ikKeys /\ ikLink' = ikLink /\ ikMfa' = ikMfa /\ ikCalls' = ikCalls
  BY DEF ikVars
<1>2. Ids' = Ids /\ Replaced' = Replaced /\ LinkKeys' = LinkKeys /\ Exchanging' = Exchanging
  BY <1>1 DEF Ids, Replaced, LinkKeys, Exchanging
<1>3. KeyTypes' /\ CallsFit'
  BY <1>1, <1>2 DEF KeysInv, KeyTypes, CallsFit
<1>4. RotationsEnd' /\ LinkKeysFit'
  BY <1>1, <1>2 DEF KeysInv, RotationsEnd, LinkKeysFit, LinkUnmarked
<1> QED
  BY <1>3, <1>4 DEF KeysInv

LEMMA TotpStays == ASSUME TotpInv, UNCHANGED totpVars PROVE TotpInv'
<1>1. ifTotp' = ifTotp /\ ifCalls' = ifCalls
  BY DEF totpVars
<1>2. \A r : Comparing(r)' = Comparing(r)
  BY <1>1 DEF Comparing
<1> QED
  BY <1>1, <1>2 DEF TotpInv, TotpTypes, FailuresFit, CodesFit

LEMMA QuotaStays == ASSUME QuotaInv, UNCHANGED quotaVars PROVE QuotaInv'
BY DEF QuotaInv, quotaVars

LEMMA CredentialsKeep == ASSUME CredentialsInv, CredentialsNext PROVE CredentialsInv'
BY KeysKeep, TotpKeep, QuotaKeeps, KeysStay, TotpStays, QuotaStays
   DEF CredentialsInv, CredentialsNext, Exercised

LEMMA CredentialsTyped == ASSUME CredentialsInv PROVE CredentialsTypeOK
<1>1. \A k \in IkThreads : ikCalls[k] \in {"idle", "link", "marked", "issue", "rotate", "replace"}
                             \X (0..IkKeyCap) \X (0..IkKeyCap)
  BY DEF CredentialsInv, KeysInv, CallsFit, KeySteps
<1>2. ifCount \in 0..QuotaTier[4]
  BY GuessesAreKept DEF CredentialsInv
<1> QED
  BY <1>1, <1>2 DEF CredentialsInv, KeysInv, KeyTypes, TotpInv, TotpTypes, QuotaInv,
                    CredentialsTypeOK

(***************************************************************************)
(* The directory                                                           *)
(***************************************************************************)
User == [name : DirNames, live : BOOLEAN, active : BOOLEAN, groups : SUBSET Nat]
Group == [live : BOOLEAN, members : SUBSET Nat]

DirTypes ==
  /\ dirUsers \in Seq(User) /\ dirGroups \in Seq(Group)
  /\ \A u \in UserIds : dirUsers[u].groups \subseteq GroupIds
  /\ \A g \in GroupIds : Member(g) \subseteq UserIds
  /\ dirByName \in [DirNames -> UserIds \cup {0}]

(* Names lead to live users of that name, and back. *)
NamesFit ==
  /\ \A n \in DirNames : dirByName[n] # 0 =>
       Live(dirByName[n]) /\ dirUsers[dirByName[n]].name = n
  /\ \A u \in UserIds : Live(u) => dirByName[dirUsers[u].name] = u

MembersFit ==
  \A u \in UserIds : Live(u) =>
    \A g \in GroupIds : g \in dirUsers[u].groups <=> dirGroups[g].live /\ u \in Member(g)

UsersInv == DirTypes /\ NamesFit /\ MembersFit

Session == [idp : SsoIdps, active : BOOLEAN]
SsoInv ==
  /\ ssoSessions \in Seq(Session)
  /\ ssoByIdp \in [SsoIdps -> 0..Len(ssoSessions)]
  /\ \A s \in 1..Len(ssoSessions) :
       ssoSessions[s].active => ssoByIdp[ssoSessions[s].idp] = s

OidcInv ==
  /\ oidcPending \subseteq OidcStates /\ oidcLate \subseteq OidcStates
  /\ oidcJwts \in [OidcStates -> 0..2]
  /\ \A s \in OidcStates : oidcJwts[s] <= 1 /\ (s \in oidcPending => oidcJwts[s] = 0)

DirectoryInv == UsersInv /\ SsoInv /\ OidcInv

LEMMA EmptySequence == ASSUME NEW S PROVE <<>> \in Seq(S) /\ Len(<<>>) = 0
OBVIOUS

(* A function on 1..n is a sequence of length n. *)
LEMMA IsSequence ==
  ASSUME NEW S, NEW n \in Nat, NEW f, f \in [1..n -> S]
  PROVE  f \in Seq(S) /\ Len(f) = n
OBVIOUS

LEMMA DirectoryStart == ASSUME DirectoryInit PROVE DirectoryInv
<1>1. dirUsers \in Seq(User) /\ dirGroups \in Seq(Group) /\ ssoSessions \in Seq(Session)
  BY EmptySequence, Zenon DEF DirectoryInit
<1>2. UserIds = {} /\ GroupIds = {} /\ Len(ssoSessions) = 0
  BY DEF DirectoryInit, UserIds, GroupIds
<1>3. UsersInv
  BY <1>1, <1>2 DEF DirectoryInit, UsersInv, DirTypes, NamesFit, MembersFit
<1>4. SsoInv
  BY <1>1, <1>2 DEF DirectoryInit, SsoInv
<1>5. OidcInv
  BY DEF DirectoryInit, OidcInv
<1> QED
  BY <1>3, <1>4, <1>5 DEF DirectoryInv

(* What the types say of the numbering. *)
LEMMA DirNumbered ==
  ASSUME DirTypes
  PROVE  /\ Len(dirUsers) \in Nat /\ Len(dirGroups) \in Nat
         /\ UserIds \subseteq Nat \ {0} /\ GroupIds \subseteq Nat \ {0}
         /\ \A u \in UserIds : dirUsers[u] \in User
         /\ \A g \in GroupIds : dirGroups[g] \in Group
BY DEF DirTypes, UserIds, GroupIds

(* A user's record changes, and its new entry is typed. *)
LEMMA UserChanges ==
  ASSUME DirTypes, NEW u \in UserIds, NEW rec \in User, dirUsers' = [dirUsers EXCEPT ![u] = rec]
  PROVE  /\ dirUsers' \in Seq(User) /\ UserIds' = UserIds /\ dirUsers'[u] = rec
         /\ \A v \in UserIds \ {u} : dirUsers'[v] = dirUsers[v]
<1>1. Len(dirUsers) \in Nat /\ u \in 1..Len(dirUsers)
  BY DirNumbered DEF UserIds
<1>2. /\ dirUsers' \in Seq(User) /\ Len(dirUsers') = Len(dirUsers) /\ dirUsers'[u] = rec
      /\ \A v \in 1..Len(dirUsers) : v # u => dirUsers'[v] = dirUsers[v]
  BY <1>1 DEF DirTypes
<1> QED
  BY <1>2 DEF UserIds

LEMMA CreateUserKeeps ==
  ASSUME UsersInv, NEW n \in DirNames, scim_create_user(n)
  PROVE  UsersInv'
<1> PICK rec : rec = [name |-> n, live |-> TRUE, active |-> TRUE, groups |-> {}]
  OBVIOUS
<1> PICK new : new = Len(dirUsers) + 1
  OBVIOUS
<1>1. rec \in User /\ rec.name = n /\ rec.live /\ rec.groups = {}
  BY DEF User
<1>2. /\ dirUsers' = Append(dirUsers, rec) /\ dirByName' = [dirByName EXCEPT ![n] = new]
      /\ dirGroups' = dirGroups /\ dirByName[n] = 0
  BY DEF scim_create_user
<1>3. /\ dirUsers' \in Seq(User) /\ UserIds' = UserIds \cup {new} /\ dirUsers'[new] = rec
      /\ new \notin UserIds /\ new # 0 /\ \A u \in UserIds : dirUsers'[u] = dirUsers[u]
  <2>1. /\ dirUsers' \in Seq(User) /\ Len(dirUsers') = new /\ dirUsers'[new] = rec
        /\ \A u \in 1..Len(dirUsers) : dirUsers'[u] = dirUsers[u]
    BY <1>1, <1>2 DEF UsersInv, DirTypes
  <2>2. Len(dirUsers) \in Nat
    BY DirNumbered DEF UsersInv
  <2> QED
    BY <2>1, <2>2 DEF UserIds
<1>4. GroupIds' = GroupIds /\ \A g : Member(g)' = Member(g)
  BY <1>2 DEF GroupIds, Member
<1>5. DirTypes'
  BY ZenonT(30), <1>1, <1>2, <1>3, <1>4 DEF UsersInv, DirTypes
<1>6. NamesFit'
  <2>1. /\ dirByName'[n] = new
        /\ \A m \in DirNames : m # n => dirByName'[m] = dirByName[m]
    BY <1>2 DEF UsersInv, DirTypes
  <2>2. \A u \in UserIds : (Live(u)' <=> Live(u)) /\ dirUsers[u].name \in DirNames
    BY <1>3, DirNumbered DEF Live, UsersInv, User
  <2>3. Live(new)'
    BY <1>1, <1>3 DEF Live
  <2>4. ASSUME NEW m \in DirNames, dirByName'[m] # 0
        PROVE  Live(dirByName[m])' /\ dirUsers'[dirByName'[m]].name = m
    <3>1. CASE m = n
      <4>1. dirByName'[m] = new
        BY <2>1, <3>1
      <4>2. Live(dirByName[m])'
        BY <1>1, <1>3, <4>1 DEF Live
      <4> QED
        BY <1>1, <1>3, <3>1, <4>1, <4>2
    <3>2. CASE m # n
      <4> PICK u : u = dirByName[m]
        OBVIOUS
      <4>1. dirByName'[m] = u /\ u \in UserIds /\ Live(u) /\ dirUsers[u].name = m
        BY <2>1, <2>4, <3>2 DEF UsersInv, NamesFit, Live
      <4>2. dirUsers'[u] = dirUsers[u] /\ u \in UserIds'
        BY <1>3, <4>1
      <4> QED
        BY <4>1, <4>2 DEF Live
    <3> QED
      BY <3>1, <3>2
  <2>5. ASSUME NEW u \in UserIds', Live(u)'
        PROVE  dirByName'[dirUsers'[u].name] = u
    <3>1. CASE u = new
      BY <1>1, <1>3, <2>1, <3>1
    <3>2. CASE u # new
      <4>1. u \in UserIds /\ Live(u) /\ dirUsers'[u] = dirUsers[u] /\ u # 0
        BY <1>3, <2>2, <2>5, <3>2, DirNumbered DEF UsersInv
      <4>2. dirByName[dirUsers[u].name] = u
        BY <4>1 DEF UsersInv, NamesFit
      <4>3. dirUsers[u].name # n
        BY <1>2, <4>1, <4>2
      <4> QED
        BY <2>1, <2>2, <4>1, <4>2, <4>3
    <3> QED
      BY <3>1, <3>2
  <2> QED
    BY <2>4, <2>5 DEF NamesFit
<1>7. MembersFit'
  <2> SUFFICES ASSUME NEW u \in UserIds', Live(u)', NEW g \in GroupIds
               PROVE  g \in dirUsers'[u].groups <=> dirGroups[g].live /\ u \in Member(g)
    BY <1>2, <1>4 DEF MembersFit
  <2>1. CASE u = new
    <3>1. Member(g) \subseteq UserIds
      BY DEF UsersInv, DirTypes
    <3> QED
      BY <1>1, <1>3, <2>1, <3>1
  <2>2. CASE u # new
    <3>1. u \in UserIds /\ Live(u)
      BY <1>3, <2>2 DEF Live
    <3> QED
      BY <1>3, <3>1 DEF UsersInv, MembersFit
  <2> QED
    BY <2>1, <2>2
<1> QED
  BY <1>5, <1>6, <1>7 DEF UsersInv

LEMMA PatchUserKeeps ==
  ASSUME UsersInv, NEW u \in UserIds, NEW active \in BOOLEAN, scim_patch_user(u, active)
  PROVE  UsersInv'
<1> PICK old \in User : old = dirUsers[u]
  BY DirNumbered DEF UsersInv
<1> PICK rec : rec = [old EXCEPT !.active = active]
  OBVIOUS
<1>1. rec \in User /\ rec.name = old.name /\ rec.live = old.live /\ rec.groups = old.groups
  BY DEF User
<1>2. /\ dirUsers' = [dirUsers EXCEPT ![u] = rec]
      /\ dirByName' = dirByName /\ dirGroups' = dirGroups
  BY DEF scim_patch_user
<1>3. /\ dirUsers' \in Seq(User) /\ UserIds' = UserIds /\ dirUsers'[u] = rec
      /\ \A v \in UserIds \ {u} : dirUsers'[v] = dirUsers[v]
  BY <1>1, <1>2, UserChanges DEF UsersInv
<1>4. \A v \in UserIds : /\ dirUsers'[v].name = dirUsers[v].name
                         /\ dirUsers'[v].live = dirUsers[v].live
                         /\ dirUsers'[v].groups = dirUsers[v].groups
  BY <1>1, <1>3
<1>5. GroupIds' = GroupIds /\ \A g : Member(g)' = Member(g)
  BY <1>2 DEF GroupIds, Member
<1>6. \A v : Live(v)' <=> Live(v)
  BY <1>3, <1>4 DEF Live
<1>7. DirTypes'
  BY <1>2, <1>3, <1>4, <1>5 DEF UsersInv, DirTypes
<1>8. NamesFit'
  <2>1. ASSUME NEW n \in DirNames, dirByName[n] # 0
        PROVE  Live(dirByName[n])' /\ dirUsers'[dirByName[n]].name = n
    BY <1>2, <1>4, <1>6, <2>1 DEF UsersInv, NamesFit, Live
  <2>2. ASSUME NEW v \in UserIds, Live(v)
        PROVE  dirByName[dirUsers'[v].name] = v
    BY <1>4, <2>2 DEF UsersInv, NamesFit
  <2> QED
    BY <1>2, <1>3, <1>6, <2>1, <2>2 DEF NamesFit
<1>9. MembersFit'
  BY <1>2, <1>3, <1>4, <1>5, <1>6 DEF UsersInv, MembersFit
<1> QED
  BY <1>7, <1>8, <1>9 DEF UsersInv

LEMMA DeleteUserKeeps ==
  ASSUME UsersInv, NEW u \in UserIds, scim_delete_user(u)
  PROVE  UsersInv'
<1> PICK old \in User : old = dirUsers[u]
  BY DirNumbered DEF UsersInv
<1> PICK rec : rec = [old EXCEPT !.live = FALSE]
  OBVIOUS
<1>1. rec \in User /\ rec.name = old.name /\ ~rec.live /\ rec.groups = old.groups
      /\ old.name \in DirNames
  BY DEF User
<1>2. /\ dirUsers' = [dirUsers EXCEPT ![u] = rec] /\ Live(u)
      /\ dirByName' = [dirByName EXCEPT ![old.name] = 0] /\ dirGroups' = dirGroups
  BY DEF scim_delete_user
<1>3. /\ dirUsers' \in Seq(User) /\ UserIds' = UserIds /\ dirUsers'[u] = rec
      /\ \A v \in UserIds \ {u} : dirUsers'[v] = dirUsers[v]
  BY <1>1, <1>2, UserChanges DEF UsersInv
<1>4. GroupIds' = GroupIds /\ \A g : Member(g)' = Member(g)
  BY <1>2 DEF GroupIds, Member
<1>5. /\ ~Live(u)'
      /\ \A v \in UserIds \ {u} : Live(v)' <=> Live(v)
  BY <1>1, <1>3 DEF Live
<1>6. /\ dirByName' \in [DirNames -> UserIds \cup {0}] /\ dirByName'[old.name] = 0
      /\ \A n \in DirNames : n # old.name => dirByName'[n] = dirByName[n]
  BY <1>1, <1>2 DEF UsersInv, DirTypes
<1>7. DirTypes'
  <2>1. \A v \in UserIds : dirUsers'[v].groups = dirUsers[v].groups
    BY <1>1, <1>3
  <2> QED
    BY <1>2, <1>3, <1>4, <1>6, <2>1 DEF UsersInv, DirTypes
<1>8. NamesFit'
  <2>1. ASSUME NEW n \in DirNames, dirByName'[n] # 0
        PROVE  Live(dirByName[n])' /\ dirUsers'[dirByName'[n]].name = n
    <3> PICK v : v = dirByName[n]
      OBVIOUS
    <3>1. n # old.name /\ dirByName'[n] = v /\ v # 0
      BY <1>6, <2>1
    <3>2. v \in UserIds /\ Live(v) /\ dirUsers[v].name = n
      BY <3>1 DEF UsersInv, NamesFit, Live
    <3>3. v # u
      BY <3>1, <3>2
    <3>4. dirUsers'[v] = dirUsers[v] /\ v \in UserIds'
      BY <1>3, <3>2, <3>3
    <3> QED
      BY <3>1, <3>2, <3>4 DEF Live
  <2>2. ASSUME NEW v \in UserIds, Live(v)'
        PROVE  dirByName'[dirUsers'[v].name] = v
    <3>1. v # u /\ Live(v) /\ dirUsers'[v] = dirUsers[v] /\ v # 0
      BY <1>3, <1>5, <2>2, DirNumbered DEF UsersInv
    <3>2. dirByName[dirUsers[v].name] = v /\ dirByName[dirUsers[u].name] = u
      BY <1>2, <3>1 DEF UsersInv, NamesFit
    <3>3. dirUsers[v].name \in DirNames /\ dirUsers[v].name # old.name
      BY <3>1, <3>2, DirNumbered DEF UsersInv, User
    <3> QED
      BY <1>6, <3>1, <3>2, <3>3
  <2> QED
    BY <1>3, <2>1, <2>2 DEF NamesFit
<1>9. MembersFit'
  BY <1>2, <1>3, <1>4, <1>5 DEF UsersInv, MembersFit
<1> QED
  BY <1>7, <1>8, <1>9 DEF UsersInv

(* Users keep all but their groups, as when a group comes or goes. *)
LEMMA RegroupKeeps ==
  ASSUME UsersInv, dirByName' = dirByName,
         \A u \in UserIds : /\ dirUsers'[u] \in User
                            /\ dirUsers'[u].name = dirUsers[u].name
                            /\ dirUsers'[u].live = dirUsers[u].live,
         dirUsers' \in [UserIds -> User]
  PROVE  /\ dirUsers' \in Seq(User) /\ UserIds' = UserIds
         /\ (\A u : Live(u)' <=> Live(u)) /\ NamesFit'
<1>1. Len(dirUsers) \in Nat /\ UserIds = 1..Len(dirUsers)
  BY DirNumbered DEF UsersInv, UserIds
<1>2. dirUsers' \in Seq(User) /\ Len(dirUsers') = Len(dirUsers)
  BY <1>1, IsSequence
<1>3. UserIds' = UserIds
  BY <1>2 DEF UserIds
<1>4. \A u : Live(u)' <=> Live(u)
  BY <1>3 DEF Live
<1>5. NamesFit'
  <2>1. ASSUME NEW n \in DirNames, dirByName[n] # 0
        PROVE  Live(dirByName[n])' /\ dirUsers'[dirByName[n]].name = n
    BY <1>4, <2>1 DEF UsersInv, NamesFit, Live
  <2>2. ASSUME NEW v \in UserIds, Live(v)
        PROVE  dirByName[dirUsers'[v].name] = v
    BY <2>2 DEF UsersInv, NamesFit
  <2> QED
    BY <1>3, <1>4, <2>1, <2>2 DEF NamesFit
<1> QED
  BY <1>2, <1>3, <1>4, <1>5

LEMMA CreateGroupKeeps ==
  ASSUME UsersInv, NEW members \in SUBSET UserIds, scim_create_group(members)
  PROVE  UsersInv'
<1> PICK new : new = Len(dirGroups) + 1
  OBVIOUS
<1> PICK made : made = [live |-> TRUE, members |-> members]
  OBVIOUS
<1>1. made \in Group /\ made.live /\ made.members = members
  BY DirNumbered DEF UsersInv, Group
<1>2. /\ dirGroups' = Append(dirGroups, made) /\ dirByName' = dirByName
      /\ dirUsers' = [u \in UserIds |->
           IF u \in members /\ Live(u)
           THEN [dirUsers[u] EXCEPT !.groups = @ \cup {new}] ELSE dirUsers[u]]
  BY DEF scim_create_group
<1>3. /\ dirGroups' \in Seq(Group) /\ GroupIds' = GroupIds \cup {new} /\ dirGroups'[new] = made
      /\ new \notin GroupIds /\ new \in Nat /\ \A g \in GroupIds : dirGroups'[g] = dirGroups[g]
  <2>1. /\ dirGroups' \in Seq(Group) /\ Len(dirGroups') = new /\ dirGroups'[new] = made
        /\ \A g \in 1..Len(dirGroups) : dirGroups'[g] = dirGroups[g]
    BY <1>1, <1>2 DEF UsersInv, DirTypes
  <2>2. Len(dirGroups) \in Nat
    BY DirNumbered DEF UsersInv
  <2> QED
    BY <2>1, <2>2 DEF GroupIds
<1>4. ASSUME NEW u \in UserIds
      PROVE  /\ dirUsers'[u] \in User /\ dirUsers'[u].name = dirUsers[u].name
             /\ dirUsers'[u].live = dirUsers[u].live
             /\ dirUsers'[u].groups = IF u \in members /\ Live(u) THEN dirUsers[u].groups \cup {new}
                                      ELSE dirUsers[u].groups
  <2> PICK old \in User : old = dirUsers[u]
    BY DirNumbered DEF UsersInv
  <2> PICK rec : rec = [old EXCEPT !.groups = @ \cup {new}]
    OBVIOUS
  <2>1. /\ rec \in User /\ rec.name = old.name /\ rec.live = old.live
        /\ rec.groups = old.groups \cup {new}
    BY <1>3 DEF User
  <2>2. dirUsers'[u] = IF u \in members /\ Live(u) THEN rec ELSE old
    BY <1>2
  <2> QED
    BY <2>1, <2>2
<1>5. dirUsers' \in [UserIds -> User]
  BY <1>2, <1>4
<1>6. /\ dirUsers' \in Seq(User) /\ UserIds' = UserIds
      /\ (\A u : Live(u)' <=> Live(u)) /\ NamesFit'
  BY <1>2, <1>4, <1>5, RegroupKeeps
<1>7. \A g \in GroupIds : Member(g)' = Member(g) /\ dirGroups'[g].live = dirGroups[g].live
  BY <1>3 DEF Member
<1>8. Member(new)' = members /\ dirGroups'[new].live
  BY <1>1, <1>3 DEF Member
<1>9. DirTypes'
  <2>1. \A u \in UserIds : dirUsers'[u].groups \subseteq GroupIds'
    BY <1>3, <1>4 DEF UsersInv, DirTypes
  <2>2. \A g \in GroupIds' : Member(g)' \subseteq UserIds
    BY <1>3, <1>7, <1>8 DEF UsersInv, DirTypes
  <2> QED
    BY <1>2, <1>3, <1>6, <2>1, <2>2 DEF UsersInv, DirTypes
<1>10. MembersFit'
  <2> SUFFICES ASSUME NEW u \in UserIds, Live(u), NEW g \in GroupIds'
               PROVE  g \in dirUsers'[u].groups <=> dirGroups'[g].live /\ u \in Member(g)'
    BY <1>6 DEF MembersFit
  <2>1. dirUsers'[u].groups = IF u \in members THEN dirUsers[u].groups \cup {new}
                              ELSE dirUsers[u].groups
    BY <1>4
  <2>2. CASE g = new
    <3>1. new \notin dirUsers[u].groups
      BY <1>3 DEF UsersInv, DirTypes
    <3> QED
      BY <1>8, <2>1, <2>2, <3>1
  <2>3. CASE g # new
    <3>1. g \in GroupIds /\ (g \in dirUsers'[u].groups <=> g \in dirUsers[u].groups)
      BY <1>3, <2>1, <2>3
    <3> QED
      BY <1>7, <3>1 DEF UsersInv, MembersFit
  <2> QED
    BY <2>2, <2>3
<1> QED
  BY <1>6, <1>9, <1>10 DEF UsersInv

LEMMA GroupChanges ==
  ASSUME DirTypes, NEW g \in 1..Len(dirGroups), NEW rec \in Group,
         dirGroups' = [dirGroups EXCEPT ![g] = rec]
  PROVE  /\ dirGroups' \in Seq(Group) /\ Len(dirGroups') = Len(dirGroups) /\ dirGroups'[g] = rec
         /\ \A h \in 1..Len(dirGroups) : h # g => dirGroups'[h] = dirGroups[h]
BY DEF DirTypes

LEMMA DeleteGroupKeeps ==
  ASSUME UsersInv, NEW g \in GroupIds, scim_delete_group(g)
  PROVE  UsersInv'
<1> PICK was \in Group : was = dirGroups[g]
  BY DirNumbered DEF UsersInv
<1> PICK made : made = [was EXCEPT !.live = FALSE]
  OBVIOUS
<1>1. made \in Group /\ ~made.live /\ made.members = was.members
  BY DEF Group
<1>2. /\ dirGroups' = [dirGroups EXCEPT ![g] = made] /\ dirByName' = dirByName
      /\ dirUsers' = [u \in UserIds |->
           IF u \in Member(g) /\ Live(u)
           THEN [dirUsers[u] EXCEPT !.groups = @ \ {g}] ELSE dirUsers[u]]
  BY DEF scim_delete_group
<1>3. /\ dirGroups' \in Seq(Group) /\ GroupIds' = GroupIds /\ dirGroups'[g] = made
      /\ \A h \in GroupIds : h # g => dirGroups'[h] = dirGroups[h]
  <2>1. Len(dirGroups) \in Nat /\ g \in 1..Len(dirGroups)
    BY DirNumbered DEF UsersInv, GroupIds
  <2>2. /\ dirGroups' \in Seq(Group) /\ Len(dirGroups') = Len(dirGroups) /\ dirGroups'[g] = made
        /\ \A h \in 1..Len(dirGroups) : h # g => dirGroups'[h] = dirGroups[h]
    BY <1>1, <1>2, <2>1, GroupChanges DEF UsersInv
  <2> QED
    BY <2>2 DEF GroupIds
<1>4. ASSUME NEW u \in UserIds
      PROVE  /\ dirUsers'[u] \in User /\ dirUsers'[u].name = dirUsers[u].name
             /\ dirUsers'[u].live = dirUsers[u].live
             /\ dirUsers'[u].groups = IF u \in Member(g) /\ Live(u) THEN dirUsers[u].groups \ {g}
                                      ELSE dirUsers[u].groups
  <2> PICK old \in User : old = dirUsers[u]
    BY DirNumbered DEF UsersInv
  <2> PICK rec : rec = [old EXCEPT !.groups = @ \ {g}]
    OBVIOUS
  <2>1. /\ rec \in User /\ rec.name = old.name /\ rec.live = old.live
        /\ rec.groups = old.groups \ {g}
    BY DEF User
  <2>2. dirUsers'[u] = IF u \in Member(g) /\ Live(u) THEN rec ELSE old
    BY <1>2
  <2> QED
    BY <2>1, <2>2
<1>5. dirUsers' \in [UserIds -> User]
  BY <1>2, <1>4
<1>6. /\ dirUsers' \in Seq(User) /\ UserIds' = UserIds
      /\ (\A u : Live(u)' <=> Live(u)) /\ NamesFit'
  BY <1>2, <1>4, <1>5, RegroupKeeps
<1>7. \A h \in GroupIds : /\ Member(h)' = Member(h)
                          /\ dirGroups'[h].live <=> h # g /\ dirGroups[h].live
  BY <1>1, <1>3 DEF Member
<1>8. DirTypes'
  <2>1. \A u \in UserIds : dirUsers'[u].groups \subseteq GroupIds
    BY <1>4 DEF UsersInv, DirTypes
  <2> QED
    BY <1>2, <1>3, <1>6, <1>7, <2>1 DEF UsersInv, DirTypes
<1>9. MembersFit'
  <2> SUFFICES ASSUME NEW u \in UserIds, Live(u), NEW h \in GroupIds
               PROVE  h \in dirUsers'[u].groups <=> dirGroups'[h].live /\ u \in Member(h)'
    BY <1>3, <1>6 DEF MembersFit
  <2>1. dirUsers'[u].groups = IF u \in Member(g) THEN dirUsers[u].groups \ {g}
                              ELSE dirUsers[u].groups
    BY <1>4
  <2>2. h \in dirUsers[u].groups <=> dirGroups[h].live /\ u \in Member(h)
    BY DEF UsersInv, MembersFit
  <2> QED
    BY <1>7, <2>1, <2>2
<1> QED
  BY <1>6, <1>8, <1>9 DEF UsersInv

LEMMA DelegateKeeps ==
  ASSUME SsoInv, NEW i \in SsoIdps, sso_delegate_session(i)
  PROVE  SsoInv'
<1> PICK rec : rec = [idp |-> i, active |-> TRUE]
  OBVIOUS
<1> PICK n : n = Len(ssoSessions)
  OBVIOUS
<1>1. rec \in Session /\ rec.idp = i /\ rec.active
  BY DEF Session
<1>2. /\ ssoSessions' = Append(ssoSessions, rec) /\ ssoByIdp' = [ssoByIdp EXCEPT ![i] = n + 1]
      /\ ssoByIdp[i] # 0 => ~ssoSessions[ssoByIdp[i]].active
  BY DEF sso_delegate_session
<1>3. /\ n \in Nat /\ ssoSessions' \in Seq(Session) /\ Len(ssoSessions') = n + 1
      /\ ssoSessions'[n + 1] = rec /\ \A s \in 1..n : ssoSessions'[s] = ssoSessions[s]
  BY <1>1, <1>2 DEF SsoInv
<1>4. /\ ssoByIdp' \in [SsoIdps -> 0..Len(ssoSessions')] /\ ssoByIdp'[i] = n + 1
      /\ \A j \in SsoIdps : j # i => ssoByIdp'[j] = ssoByIdp[j]
  BY <1>2, <1>3 DEF SsoInv
<1>5. \A s \in 1..n : ssoSessions[s].idp \in SsoIdps
  <2>1. \A s \in 1..n : ssoSessions[s] \in Session
    BY DEF SsoInv
  <2> QED
    BY <2>1 DEF Session
<1>6. ASSUME NEW s \in 1..Len(ssoSessions'), ssoSessions'[s].active
      PROVE  ssoByIdp'[ssoSessions'[s].idp] = s
  <2>1. CASE s = n + 1
    BY <1>1, <1>3, <1>4, <2>1
  <2>2. CASE s # n + 1
    <3>1. s \in 1..n /\ ssoSessions'[s] = ssoSessions[s] /\ s # 0
      BY <1>3, <2>2
    <3>2. ssoByIdp[ssoSessions[s].idp] = s /\ ssoSessions[s].active
      BY <1>6, <3>1 DEF SsoInv
    <3>3. ssoSessions[s].idp # i
      BY <1>2, <3>1, <3>2
    <3> QED
      BY <1>4, <1>5, <3>1, <3>2, <3>3
  <2> QED
    BY <2>1, <2>2
<1> QED
  BY <1>3, <1>4, <1>6 DEF SsoInv

LEMMA SessionChanges ==
  ASSUME SsoInv, NEW s \in 1..Len(ssoSessions), NEW rec \in Session,
         ssoSessions' = [ssoSessions EXCEPT ![s] = rec]
  PROVE  /\ ssoSessions' \in Seq(Session) /\ Len(ssoSessions') = Len(ssoSessions)
         /\ ssoSessions'[s] = rec
         /\ \A v \in 1..Len(ssoSessions) : v # s => ssoSessions'[v] = ssoSessions[v]
BY DEF SsoInv

LEMMA RevokeSessionKeeps ==
  ASSUME SsoInv, NEW i \in SsoIdps, sso_revoke_idp_session(i)
  PROVE  SsoInv'
<1> PICK s : s = ssoByIdp[i]
  OBVIOUS
<1>1. s \in 1..Len(ssoSessions)
  BY DEF sso_revoke_idp_session, SsoInv
<1>a. ssoSessions[s] \in Session
  BY <1>1 DEF SsoInv
<1> PICK old \in Session : old = ssoSessions[s]
  BY <1>a
<1> PICK rec : rec = [old EXCEPT !.active = FALSE]
  OBVIOUS
<1>2. rec \in Session /\ ~rec.active
  BY DEF Session
<1>3. ssoSessions' = [ssoSessions EXCEPT ![s] = rec] /\ ssoByIdp' = ssoByIdp
  BY DEF sso_revoke_idp_session
<1>4. /\ ssoSessions' \in Seq(Session) /\ Len(ssoSessions') = Len(ssoSessions)
      /\ ssoSessions'[s] = rec
      /\ \A v \in 1..Len(ssoSessions) : v # s => ssoSessions'[v] = ssoSessions[v]
  BY <1>1, <1>2, <1>3, SessionChanges
<1> QED
  BY <1>2, <1>3, <1>4 DEF SsoInv

LEMMA OidcKeeps ==
  ASSUME OidcInv, NEW s \in OidcStates,
         oidc_authorize(s) \/ StateExpires(s) \/ oidc_callback(s)
  PROVE  OidcInv'
BY DEF oidc_authorize, StateExpires, oidc_callback, OidcInv

LEMMA UsersStay == ASSUME UsersInv, UNCHANGED directoryVars PROVE UsersInv'
<1>1. dirUsers' = dirUsers /\ dirByName' = dirByName /\ dirGroups' = dirGroups
  BY DEF directoryVars
<1>2. /\ UserIds' = UserIds /\ GroupIds' = GroupIds
      /\ \A x : (Live(x)' <=> Live(x)) /\ Member(x)' = Member(x)
  BY <1>1 DEF UserIds, GroupIds, Live, Member
<1> QED
  BY <1>1, <1>2 DEF UsersInv, DirTypes, NamesFit, MembersFit

LEMMA DirectoryKeeps == ASSUME DirectoryInv, DirectoryNext PROVE DirectoryInv'
<1>1. (UNCHANGED ssoVars => SsoInv') /\ (UNCHANGED oidcVars => OidcInv')
  BY DEF DirectoryInv, SsoInv, OidcInv, ssoVars, oidcVars
<1>2. ASSUME NEW n \in DirNames, scim_create_user(n) PROVE DirectoryInv'
  BY <1>1, <1>2, CreateUserKeeps DEF DirectoryInv, scim_create_user
<1>3. ASSUME NEW u \in UserIds, scim_delete_user(u) PROVE DirectoryInv'
  BY <1>1, <1>3, DeleteUserKeeps DEF DirectoryInv, scim_delete_user
<1>4. ASSUME NEW u \in UserIds, NEW a \in BOOLEAN, scim_patch_user(u, a) PROVE DirectoryInv'
  BY <1>1, <1>4, PatchUserKeeps DEF DirectoryInv, scim_patch_user
<1>5. ASSUME NEW m \in SUBSET UserIds, scim_create_group(m) PROVE DirectoryInv'
  BY <1>1, <1>5, CreateGroupKeeps DEF DirectoryInv, scim_create_group
<1>6. ASSUME NEW g \in GroupIds, scim_delete_group(g) PROVE DirectoryInv'
  BY <1>1, <1>6, DeleteGroupKeeps DEF DirectoryInv, scim_delete_group
<1>7. ASSUME NEW i \in SsoIdps, sso_delegate_session(i) \/ sso_revoke_idp_session(i)
      PROVE  DirectoryInv'
  BY <1>1, <1>7, UsersStay, DelegateKeeps, RevokeSessionKeeps
     DEF DirectoryInv, sso_delegate_session, sso_revoke_idp_session
<1>8. ASSUME NEW s \in OidcStates, oidc_authorize(s) \/ StateExpires(s) \/ oidc_callback(s)
      PROVE  DirectoryInv'
  BY <1>1, <1>8, UsersStay, OidcKeeps DEF DirectoryInv, oidc_authorize, StateExpires, oidc_callback
<1> QED
  BY <1>2, <1>3, <1>4, <1>5, <1>6, <1>7, <1>8 DEF DirectoryNext

(* Pages add up, whatever the list. *)
LEMMA PagesAddUp ==
  ASSUME NEW S, NEW q \in Seq(S), NEW k \in Nat, NEW n \in Nat
  PROVE  Page(q, 1, k) \o Page(q, k + 1, n) = Page(q, 1, k + n)
<1> PICK L : L = Len(q)
  OBVIOUS
<1>1. L \in Nat
  OBVIOUS
<1>2. /\ Page(q, 1, k) = SubSeq(q, 1, IF k < L THEN k ELSE L)
      /\ Page(q, k + 1, n) = SubSeq(q, k + 1, IF k + n < L THEN k + n ELSE L)
      /\ Page(q, 1, k + n) = SubSeq(q, 1, IF k + n < L THEN k + n ELSE L)
  <2>1. 1 - 1 + k = k /\ (k + 1) - 1 + n = k + n /\ 1 - 1 + (k + n) = k + n
    OBVIOUS
  <2> QED
    BY <2>1 DEF Page
<1>3. CASE k <= L
  <2> PICK to : to = IF k + n < L THEN k + n ELSE L
    OBVIOUS
  <2>1. to \in k..Len(q) /\ k \in (1 - 1)..Len(q) /\ 1 \in 1..(Len(q) + 1)
    BY <1>1, <1>3
  <2>2. SubSeq(q, 1, k) \o SubSeq(q, k + 1, to) = SubSeq(q, 1, to)
    BY <2>1, ConcatAdjacentSubSeq
  <2>3. (IF k < L THEN k ELSE L) = k
    BY <1>1, <1>3
  <2> QED
    BY <1>2, <2>2, <2>3
<1>4. CASE L < k
  <2>1. ~ (k < L) /\ ~ (k + n < L) /\ L < k + 1 /\ L \in Int /\ k + 1 \in Int
    BY <1>1, <1>4
  <2>2. SubSeq(q, k + 1, L) = <<>> /\ SubSeq(q, 1, L) = q
    BY <2>1, SubSeqEmpty, SubSeqFull
  <2>3. q \o <<>> = q
    OBVIOUS
  <2> QED
    BY <1>2, <2>1, <2>2, <2>3
<1> QED
  BY <1>1, <1>3, <1>4

(* The list of live users is one of user numbers. *)
LEMMA ListedTyped == ASSUME DirTypes PROVE Listed \in Seq(Nat)
<1> PICK N : N = Len(dirUsers)
  OBVIOUS
<1> PICK S : S = Seq(Nat)
  OBVIOUS
<1>1. N \in Nat /\ \A u \in 1..N : u \in Nat
  BY DirNumbered
<1>2. <<>> \in S /\ \A l \in S, u \in Nat : Append(l, u) \in S
  OBVIOUS
<1> HIDE DEF Live
<1>3. PICK C : C = CHOOSE f : f = [u \in 0..N |->
          IF u = 0 THEN <<>> ELSE IF Live(u) THEN Append(f[u - 1], u) ELSE f[u - 1]]
  OBVIOUS
<1>4. Listed = C[N]
  BY <1>3 DEF Listed
<1>5. PICK G : G = [u \in 1..N |-> [l \in S |-> IF Live(u) THEN Append(l, u) ELSE l]]
  OBVIOUS
<1>6. G \in [1..N -> [S -> S]]
  BY <1>1, <1>2, <1>5
<1>7. PICK F \in [0..N -> S] : Steps(F, <<>>, G, N)
  BY <1>1, <1>2, <1>6, StepsExist
<1>8. F = [u \in 0..N |->
          IF u = 0 THEN <<>> ELSE IF Live(u) THEN Append(F[u - 1], u) ELSE F[u - 1]]
  <2>1. ASSUME NEW u \in 0..N
        PROVE  F[u] = IF u = 0 THEN <<>> ELSE IF Live(u) THEN Append(F[u - 1], u) ELSE F[u - 1]
    <3>1. CASE u = 0
      BY <1>7, <3>1 DEF Steps
    <3>2. CASE u # 0
      <4>1. u \in 1..N /\ u - 1 \in 0..N
        BY <1>1, <3>2
      <4>2. F[u] = G[u][F[u - 1]] /\ F[u - 1] \in S
        BY <1>7, <4>1 DEF Steps
      <4>3. G[u] = [l \in S |-> IF Live(u) THEN Append(l, u) ELSE l]
        BY <1>5, <4>1
      <4> QED
        BY <3>2, <4>2, <4>3
    <3> QED
      BY <3>1, <3>2
  <2> QED
    BY <2>1
<1>9. C = [u \in 0..N |->
          IF u = 0 THEN <<>> ELSE IF Live(u) THEN Append(C[u - 1], u) ELSE C[u - 1]]
  BY <1>3, <1>8
<1>10. /\ C[0] = <<>>
       /\ \A u \in 1..N : C[u] = IF Live(u) THEN Append(C[u - 1], u) ELSE C[u - 1]
  <2>1. 0 \in 0..N /\ \A u \in 1..N : u \in 0..N /\ u # 0
    BY <1>1
  <2> QED
    BY <1>9, <2>1
<1>11. Nat \subseteq {k \in Nat : k <= N => C[k] \in S}
  <2> DEFINE U == {k \in Nat : k <= N => C[k] \in S}
  <2>1. 0 \in U
    BY <1>2, <1>10
  <2>2. ASSUME NEW k \in Nat, k \in U PROVE k + 1 \in U
    <3> SUFFICES ASSUME k + 1 <= N PROVE C[k + 1] \in S
      OBVIOUS
    <3>1. k + 1 \in 1..N /\ (k + 1) - 1 = k /\ C[k] \in S
      BY <1>1, <2>2
    <3> QED
      BY <1>1, <1>2, <1>10, <3>1
  <2> HIDE DEF U
  <2>3. Nat \subseteq U
    BY <2>1, <2>2, SetInduction
  <2> QED
    BY <2>3 DEF U
<1> QED
  BY <1>1, <1>4, <1>11

LEMMA DirectoryAgrees == ASSUME DirectoryInv PROVE DirectoryIsConsistent /\ DirectoryTypeOK
<1> USE DEF DirectoryInv, UsersInv
<1>1. ASSUME NEW n \in DirNames
      PROVE  {u \in UserIds : Live(u) /\ dirUsers[u].name = n}
                = IF dirByName[n] = 0 THEN {} ELSE {dirByName[n]}
  <2>1. CASE dirByName[n] = 0
    <3>1. \A u \in UserIds : ~ (Live(u) /\ dirUsers[u].name = n)
      BY <2>1, DirNumbered DEF NamesFit
    <3> QED
      BY <2>1, <3>1
  <2>2. CASE dirByName[n] # 0
    <3>1. /\ dirByName[n] \in UserIds /\ Live(dirByName[n]) /\ dirUsers[dirByName[n]].name = n
          /\ \A u \in UserIds : Live(u) /\ dirUsers[u].name = n => u = dirByName[n]
      BY <2>2 DEF NamesFit, Live
    <3> QED
      BY <2>2, <3>1
  <2> QED
    BY <2>1, <2>2
<1>2. ASSUME NEW u \in UserIds, Live(u)
      PROVE  dirUsers[u].groups = {g \in GroupIds : dirGroups[g].live /\ u \in Member(g)}
  BY <1>2 DEF MembersFit, DirTypes
<1>3. \A k, n \in 0..DirUserCap :
        scim_list_users(1, k) \o scim_list_users(k + 1, n) = scim_list_users(1, k + n)
  <2> PICK q \in Seq(Nat) : q = Listed
    BY ListedTyped
  <2> SUFFICES ASSUME NEW k \in 0..DirUserCap, NEW n \in 0..DirUserCap
               PROVE  scim_list_users(1, k) \o scim_list_users(k + 1, n) = scim_list_users(1, k + n)
    OBVIOUS
  <2>0. k \in Nat /\ n \in Nat
    BY DirectoryAssumption
  <2>1. Page(q, 1, k) \o Page(q, k + 1, n) = Page(q, 1, k + n)
    BY <2>0, PagesAddUp
  <2> QED
    BY <2>1 DEF scim_list_users
<1>4. DirectoryIsConsistent
  BY <1>1, <1>2, <1>3 DEF SsoInv, OidcInv, DirectoryIsConsistent
<1>5. \A u \in UserIds : dirUsers[u] \in [name : DirNames, live : BOOLEAN, active : BOOLEAN,
                                          groups : SUBSET GroupIds]
  <2> SUFFICES ASSUME NEW u \in UserIds
               PROVE  dirUsers[u] \in [name : DirNames, live : BOOLEAN, active : BOOLEAN,
                                       groups : SUBSET GroupIds]
    OBVIOUS
  <2>1. dirUsers[u] \in User /\ dirUsers[u].groups \in SUBSET GroupIds
    BY DirNumbered DEF DirTypes
  <2> QED
    BY <2>1 DEF User
<1>6. \A g \in GroupIds : dirGroups[g] \in [live : BOOLEAN, members : SUBSET UserIds]
  <2> SUFFICES ASSUME NEW g \in GroupIds
               PROVE  dirGroups[g] \in [live : BOOLEAN, members : SUBSET UserIds]
    OBVIOUS
  <2>1. dirGroups[g] \in Group /\ dirGroups[g].members \in SUBSET UserIds
    BY DirNumbered DEF DirTypes, Member
  <2> QED
    BY <2>1 DEF Group
<1>7. dirByName \in [DirNames -> 0..Len(dirUsers)]
  <2>1. UserIds \cup {0} = 0..Len(dirUsers)
    BY DirNumbered DEF UserIds
  <2> QED
    BY <2>1 DEF DirTypes
<1>8. DirectoryTypeOK
  BY <1>5, <1>6, <1>7 DEF SsoInv, Session, OidcInv, DirectoryTypeOK
<1> QED
  BY <1>4, <1>8

(***************************************************************************)
(* All of them: each step is one component's, and leaves the others alone  *)
(***************************************************************************)
ServicesInv == HitlInv /\ ConsentInv /\ RegistriesInv /\ CredentialsInv /\ DirectoryInv

LEMMA ServicesStart == Init => ServicesInv
BY HitlStart, ConsentStart, RegistriesStart, CredentialsStart, DirectoryStart
   DEF Init, ServicesInv

LEMMA HitlStays == HitlInv /\ UNCHANGED hitlVars => HitlInv'
<1> SUFFICES ASSUME HitlInv, UNCHANGED hitlVars PROVE HitlInv'
  OBVIOUS
<1>1. /\ hitlObjects' = hitlObjects /\ hitlItems' = hitlItems
      /\ hitlEmits' = hitlEmits /\ hitlEvent' = hitlEvent
  BY DEF hitlVars
<1> QED
  BY <1>1 DEF HitlInv, HitlTypes, HeldItemsShow, LastEvent

LEMMA ConsentStays == ConsentInv /\ UNCHANGED consentVars => ConsentInv'
<1> SUFFICES ASSUME ConsentInv, UNCHANGED consentVars PROVE ConsentInv'
  OBVIOUS
<1>1. /\ consentRecords' = consentRecords /\ consentEmits' = consentEmits
      /\ consentEvents' = consentEvents /\ consentLost' = consentLost
  BY DEF consentVars
<1>2. \A pair, kind : Unsent(pair, kind)' = Unsent(pair, kind)
  BY <1>1 DEF Unsent
<1> QED
  BY <1>1, <1>2 DEF ConsentInv, ConsentTypes, GrantsCoverRevocations, Told

LEMMA RegistriesStay == RegistriesInv /\ UNCHANGED registryVars => RegistriesInv'
BY DEF RegistriesInv, ModelsInv, PromptsInv, ConsumersInv,
       registryVars, modelVars, promptVars, consumerVars

LEMMA CredentialsStay == CredentialsInv /\ UNCHANGED credentialVars => CredentialsInv'
<1> SUFFICES ASSUME CredentialsInv, UNCHANGED credentialVars PROVE CredentialsInv'
  OBVIOUS
<1>1. UNCHANGED ikVars /\ UNCHANGED totpVars /\ UNCHANGED quotaVars /\ ifPart' = ifPart
  BY DEF credentialVars
<1> QED
  BY <1>1, KeysStay, TotpStays, QuotaStays DEF CredentialsInv

LEMMA DirectoryStays == DirectoryInv /\ UNCHANGED dirVars => DirectoryInv'
<1> SUFFICES ASSUME DirectoryInv, UNCHANGED dirVars PROVE DirectoryInv'
  OBVIOUS
<1>1. UNCHANGED directoryVars /\ UNCHANGED ssoVars /\ UNCHANGED oidcVars
  BY DEF dirVars
<1>2. SsoInv' /\ OidcInv'
  BY <1>1 DEF DirectoryInv, SsoInv, OidcInv, ssoVars, oidcVars
<1> QED
  BY <1>1, <1>2, UsersStay DEF DirectoryInv

LEMMA ServicesStep == ServicesInv /\ [Next]_vars => ServicesInv'
<1> SUFFICES ASSUME ServicesInv, [Next]_vars PROVE ServicesInv'
  OBVIOUS
<1> USE DEF ServicesInv
<1> USE HitlStays, ConsentStays, RegistriesStay, CredentialsStay, DirectoryStays
<1>1. CASE LogStep
  BY <1>1 DEF LogStep
<1>2. CASE RouterStep
  BY <1>2 DEF RouterStep
<1>3. CASE HitlStep
  BY <1>3, HitlKeeps DEF HitlStep
<1>4. CASE ConsentStep
  BY <1>4, ConsentKeeps DEF ConsentStep
<1>5. CASE RegistriesStep
  BY <1>5, RegistriesKeep DEF RegistriesStep
<1>6. CASE CredentialsStep
  BY <1>6, CredentialsKeep DEF CredentialsStep
<1>7. CASE DirectoryStep
  BY <1>7, DirectoryKeeps DEF DirectoryStep
<1>8. CASE UNCHANGED vars
  BY <1>8 DEF vars, services
<1> QED
  BY <1>1, <1>2, <1>3, <1>4, <1>5, <1>6, <1>7, <1>8 DEF Next

\* An event of the review queue shows its call's decision, reviewer and outcome,
\* unless another call changed the same item after HITLQueue released its lock;
\* and with any number of callers of grant, revoke and check the trail accounts
\* for the records up to the events whose emission failed.
THEOREM PeopleStayHeard == Spec => []PeopleAreHeard
<1>1. ServicesInv => PeopleAreHeard
  BY HitlReports, ConsentBalances DEF ServicesInv, PeopleAreHeard
<1> QED
  BY ServicesStart, ServicesStep, <1>1, PTL DEF Spec

\* For any models, prompts and consumers: the dates of retirement, the latest
\* prompt version and the consumers' majors agree with what was registered,
\* through saves, loads, exports, imports and resets in any order.
THEOREM RegistriesStayResolved == Spec => []RegistriesResolve
<1>1. ServicesInv => RegistriesResolve
  BY RegistriesAgree DEF ServicesInv
<1> QED
  BY ServicesStart, ServicesStep, <1>1, PTL DEF Spec

\* For any number of threads and keys: a link pays out at most one key to a
\* thread and no rotation leaves the old key alive; failures stay below
\* MAX_FAILURES plus one for each thread and each lock; and the directory's five
\* tables agree.
THEOREM IdentitiesStayKept == Spec => []IdentitiesAreKept
<1>1. ServicesInv => IdentitiesAreKept
  BY KeysAreKept, GuessesAreKept, DirectoryAgrees
     DEF ServicesInv, CredentialsInv, IdentitiesAreKept
<1> QED
  BY ServicesStart, ServicesStep, <1>1, PTL DEF Spec

\* Every service's variables keep their types; for the log and the router this
\* follows from the theorems of their own specifications, which the run's
\* specification implements.
THEOREM ServicesTypeCorrect == Spec => []ServicesTypeOK
<1>1. ServicesInv => /\ HitlTypeOK /\ ConsentTypeOK /\ RegistriesTypeOK
                     /\ CredentialsTypeOK /\ DirectoryTypeOK
  BY HitlReports, ConsentBalances, RegistriesAgree, CredentialsTyped, DirectoryAgrees
     DEF ServicesInv
<1>2. Init => LogInit /\ RouterInit
  BY DEF Init
<1>3. [Next]_vars => [LogNext]_logVars /\ [RouterNext]_routerVars
  BY DEF Next, vars, services, LogStep, RouterStep, HitlStep, ConsentStep, RegistriesStep,
         CredentialsStep, DirectoryStep
<1>4. Spec => LogSpec /\ RouterSpec
  BY <1>2, <1>3, PTL DEF Spec, LogSpec, RouterSpec
<1>5. Spec => []LogTypeOK /\ []RouterTypeOK
  BY <1>4, LogTypeCorrect, RouterTypeCorrect, PTL
<1>6. Spec => []ServicesInv
  BY ServicesStart, ServicesStep, PTL DEF Spec
<1> QED
  BY <1>1, <1>5, <1>6, PTL DEF ServicesTypeOK
=============================================================================
