----------------------------- MODULE Migration -----------------------------
(***************************************************************************)
(* Files of events that are imported and moved to the second version of the *)
(* schema (migrate.py): migrate_file() reads every line, converts what it   *)
(* can, signs what can be read as an event when it has a secret, and then   *)
(* writes the file anew, its own source if it is told to, while an exporter *)
(* appends to the source and the process may die.                           *)
(*                                                                         *)
(* A line has a number.  Its form is junk (no JSON object) or event; "old"  *)
(* is a payload with the old name of a field; sum is its checksum: none, a  *)
(* JSON null, md5, good, or stale; sig its signature: none, good or stale.  *)
(***************************************************************************)
EXTENDS Naturals, Sequences, SequencesExt, FiniteSets

CONSTANTS MgShapes,   \* the shapes of the lines that an exporter appends
          MgLines,    \* bound: lines
          MgRuns      \* bound: migrations, and one import

VARIABLES mgSource,   \* the lines of the source
          mgTarget,   \* the lines of <stem>_v2
          mgRun,      \* the migration that runs
          mgNext, mgBegun,
          mgLate,     \* history: lines appended while a migration in place had read and not ended
          mgTorn,     \* history: a process died while it wrote the source
          mgDone      \* history: what the last migration that ended had read, wrote and reported,
              \* until the next one begins

mgVars == <<mgSource, mgTarget, mgRun, mgNext, mgBegun, mgLate, mgTorn, mgDone>>
Idle == [at |-> "idle"]
Count(s, Test(_)) == Len(SelectSeq(s, Test))

----------------------------------------------------------------------------
(* v1_to_v2() of a line: the renamed field changes the payload under a       *)
(* checksum that is not of MD5, and under every signature.                   *)
v1_to_v2(l) ==
    [l EXCEPT !.version = 2, !.old = FALSE,
              !.sum = CASE l.sum = "md5" -> "good" [] l.sum = "good" /\ l.old -> "stale" [] OTHER -> l.sum,
              !.sig = IF l.sig = "good" /\ (l.sum = "md5" \/ l.old) THEN "stale" ELSE @]

IsEvent(l) == l.form = "event"
Skipped(l) == IsEvent(l) /\ l.version = 2
Migrated(l) == IsEvent(l) /\ l.version = 1 /\ l.sum # "null"
Errors(l) == ~Skipped(l) /\ ~Migrated(l)

Converted(s) == [i \in DOMAIN s |-> IF Migrated(s[i]) THEN v1_to_v2(s[i]) ELSE s[i]]

(* Event.from_dict(): what it refuses is left as it is.                      *)
Readable(l) == IsEvent(l) /\ l.whole

(* A mutant: a line that was not signed is taken for the one before.         *)
BeforeAny(s, i) == IF i = 1 THEN 0 ELSE s[i - 1].id

Before(s, i) ==
    LET earlier == {k \in 1..(i - 1) : Readable(s[k])} IN
    IF earlier = {} THEN 0 ELSE s[CHOOSE k \in earlier : \A j \in earlier : j <= k].id

sign(s) ==
    [i \in DOMAIN s |-> IF Readable(s[i])
                        THEN [s[i] EXCEPT !.sum = "good", !.sig = "good", !.prev = Before(s, i)]
                        ELSE s[i]]

(* Everything is read and converted before anything is written.              *)
read(inPlace, secret, dry) ==
    /\ mgRun = Idle /\ mgBegun < MgRuns /\ (dry => ~inPlace) /\ mgBegun' = mgBegun + 1
    /\ LET out == Converted(mgSource)
           stats == [total |-> Len(mgSource), migrated |-> Count(mgSource, Migrated),
                     skipped |-> Count(mgSource, Skipped), errors |-> Count(mgSource, Errors)]
           result == [read |-> mgSource, out |-> IF secret /\ ~dry THEN sign(out) ELSE out,
                      secret |-> secret /\ ~dry, stats |-> stats] IN
       IF dry
       THEN mgRun' = Idle /\ mgDone' = <<result>>
       ELSE /\ mgRun' = [at |-> "empty", inPlace |-> inPlace, left |-> result.out, result |-> result]
            /\ mgDone' = <<>>
    /\ UNCHANGED <<mgSource, mgTarget, mgNext, mgLate, mgTorn>>

(* open("w") empties the file ...                                            *)
empty ==
    /\ mgRun.at = "empty" /\ mgRun' = [mgRun EXCEPT !.at = "write"]
    /\ IF mgRun.inPlace THEN mgSource' = <<>> /\ UNCHANGED mgTarget ELSE mgTarget' = <<>> /\ UNCHANGED mgSource
    /\ UNCHANGED <<mgNext, mgBegun, mgLate, mgTorn, mgDone>>

Put(l) ==
    LET k == Len(mgRun.result.out) - Len(mgRun.left) + 1 IN
    IF mgRun.inPlace
    THEN /\ mgSource' = IF k \in DOMAIN mgSource THEN [mgSource EXCEPT ![k] = l] ELSE Append(mgSource, l)
         /\ UNCHANGED mgTarget
    ELSE mgTarget' = Append(mgTarget, l) /\ UNCHANGED mgSource

(* ... and the lines are written one by one, over what was appended there    *)
(* meanwhile.                                                                *)
write ==
    /\ mgRun.at = "write"
    /\ IF mgRun.left = <<>>
       THEN mgRun' = Idle /\ mgDone' = <<mgRun.result>> /\ UNCHANGED <<mgSource, mgTarget>>
       ELSE Put(Head(mgRun.left)) /\ mgRun' = [mgRun EXCEPT !.left = Tail(@)] /\ UNCHANGED mgDone
    /\ UNCHANGED <<mgNext, mgBegun, mgLate, mgTorn>>

(* The process dies, and may leave half a line.                              *)
crash ==
    /\ mgRun.at \in {"empty", "write"} /\ mgRun' = Idle
    /\ mgTorn' = (mgTorn \/ (mgRun.at = "write" /\ mgRun.inPlace))
    /\ \/ UNCHANGED <<mgSource, mgTarget>>
       \/ mgRun.at = "write" /\ mgRun.left # <<>> /\ Put([Head(mgRun.left) EXCEPT !.form = "junk"])
    /\ UNCHANGED <<mgNext, mgBegun, mgLate, mgDone>>

(* An exporter appends to the source, whatever migrates it.                  *)
append ==
    /\ mgNext <= MgLines /\ mgNext' = mgNext + 1
    /\ \E shape \in MgShapes :
         mgSource' = Append(mgSource, [id |-> mgNext, prev |-> 0, form |-> shape.form, version |-> shape.version,
                                       old |-> shape.old, sum |-> shape.sum, sig |-> shape.sig, whole |-> TRUE])
    /\ mgLate' = IF mgRun # Idle /\ mgRun.inPlace THEN mgLate \cup {mgNext} ELSE mgLate
    /\ UNCHANGED <<mgTarget, mgRun, mgBegun, mgTorn, mgDone>>

(* migrate_from_langsmith(): an event for each run.  A run without a parent  *)
(* or a trace has an empty tag, which no event may have.                     *)
migrate_from_langsmith ==
    /\ mgNext <= MgLines /\ mgNext' = mgNext + 1 /\ mgRun = Idle
    /\ \E root \in BOOLEAN :
         mgSource' = Append(mgSource, [id |-> mgNext, prev |-> 0, form |-> "event", version |-> 2, old |-> FALSE,
                                       sum |-> "none", sig |-> "none", whole |-> ~root])
    /\ UNCHANGED <<mgTarget, mgRun, mgBegun, mgLate, mgTorn, mgDone>>

Init ==
    /\ mgSource = <<>> /\ mgTarget = <<>> /\ mgRun = Idle /\ mgNext = 1 /\ mgBegun = 0
    /\ mgLate = {} /\ mgTorn = FALSE /\ mgDone = <<>>

Next ==
    \/ \E inPlace, secret, dry \in BOOLEAN : read(inPlace, secret, dry)
    \/ empty \/ write \/ crash \/ append \/ migrate_from_langsmith
Spec == Init /\ [][Next]_mgVars

----------------------------------------------------------------------------
Ids(s) == [i \in DOMAIN s |-> s[i].id]

MigrationTypeOK ==
    /\ mgRun.at \in {"idle", "empty", "write"}
    /\ mgNext \in 1..(MgLines + 1) /\ mgBegun \in 0..MgRuns /\ mgLate \subseteq 1..MgLines
    /\ ToSet(Ids(mgSource)) \subseteq 1..MgLines /\ ToSet(Ids(mgTarget)) \subseteq 1..MgLines

(* A line leaves the source only in place: by a process that died writing it *)
(* or because it was appended since the reading; no line is doubled.         *)
SourceLosesNothing ==
    LET being == IF mgRun.at = "write" /\ mgRun.inPlace THEN ToSet(Ids(mgRun.left)) ELSE {} IN
    ~mgTorn => /\ 1..(mgNext - 1) \subseteq ToSet(Ids(mgSource)) \cup mgLate \cup being
               /\ IsInjective(Ids(mgSource))

(* What a migration writes is what it read, line by line, and its numbers    *)
(* add up; what it signed is one chain over what could be read; and a second *)
(* migration converts nothing, unless the first signed what it could not     *)
(* convert.                                                                  *)
MigrationAddsUp ==
    \A d \in ToSet(mgDone) :
      LET signed == SelectSeq(d.out, LAMBDA l : Readable(l)) IN
      /\ Ids(d.out) = Ids(d.read)
      /\ d.stats.total = d.stats.migrated + d.stats.skipped + d.stats.errors
      /\ d.secret => \A i \in DOMAIN signed :
           /\ signed[i].sig = "good" /\ signed[i].sum = "good"
           /\ signed[i].prev = IF i = 1 THEN 0 ELSE signed[i - 1].id
      /\ (~d.secret \/ d.stats.errors = 0) => Converted(d.out) = d.out

(* Both of the above.                                                        *)
MigrationsHold == SourceLosesNothing /\ MigrationAddsUp

----------------------------------------------------------------------------
(* migrate.py:374: with a secret, the migrated chain is signed again: no     *)
(* event of it is left without its signature.                                *)
MigratedEventsAreSigned ==
    \A d \in ToSet(mgDone) : d.secret => \A i \in DOMAIN d.out : IsEvent(d.out[i]) => d.out[i].sig = "good"
=============================================================================
