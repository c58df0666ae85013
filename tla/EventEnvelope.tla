---------------------------- MODULE EventEnvelope ----------------------------
(***************************************************************************)
(* The event envelope: identifiers (ulid.py), construction, reading and     *)
(* validation (event.py, validate.py, schemas/), and streams of events from *)
(* a file, a queue or a topic (stream.py).  A behaviour exercises the       *)
(* identifiers or one of the sources; evPart says which.  What is computed  *)
(* from one document alone is a set of operators, checked over every        *)
(* document that differs from a good one in at most two fields.             *)
(***************************************************************************)
EXTENDS Naturals, Sequences, FiniteSets, SequencesExt

CONSTANTS EvRandMax,    \* _rand_max (2^80 - 1 in the code)
          EvMsMax,      \* bound: the clock, in milliseconds
          EvIssued,     \* bound: identifiers issued, and changes of the clock
          EvLines,      \* lines a writer appends: "good" or "bad"
          EvReaders,    \* the threads, or coroutines, reading one queue
          EvItems,      \* items put in the queue; "end" is the sentinel
          EvMessages,   \* messages of a topic: "good", "bad" or "end"
          EvCalls       \* bound: calls of from_kafka

VARIABLES evPart,
          evClock,      \* time.time(), which may be set back
          evMoves,      \* changes of the clock
          evLast,       \* _last_ms, _last_rand
          evSpin,       \* the millisecond generate() waits to pass, if any
          evIssued,     \* identifiers, as <<ms, rand>>
          evFile,       \* the file: halves of lines, <<line, half>>
          evRead,       \* the reader: position, lines yielded, how it ended
          evQueue,      \* the queue
          evPut,        \* items put so far
          evGot,        \* reader -> [items, how it ended]
          evOffset,     \* the committed offset of the consumer group
          evFetched     \* calls: [from, to, events, outcome]

idVars == <<evClock, evMoves, evLast, evSpin, evIssued>>
fileVars == <<evFile, evRead>>
queueVars == <<evQueue, evPut, evGot>>
topicVars == <<evOffset, evFetched>>
envelopeVars == <<evPart, idVars, fileVars, queueVars, topicVars>>

(***************************************************************************)
(* Identifiers                                                              *)
(***************************************************************************)
(* The clock is past the epoch, which is the _last_ms of a new generator.   *)
InitIds == evClock = 1 /\ evMoves = 0 /\ evLast = <<0, 0>> /\ evSpin = <<>> /\ evIssued = <<>>

Issue(ms, rand) == /\ evLast' = <<ms, rand>>
                   /\ evIssued' = Append(evIssued, <<ms, rand>>)
                   /\ UNCHANGED <<evClock, evMoves>>

(* A mutant of backwards: an identifier carries the clock's time. *)
BackwardsClock == /\ evSpin = <<>> /\ Len(evIssued) < EvIssued
                  /\ evClock < evLast[1] /\ evLast[2] < EvRandMax
                  /\ Issue(evClock, evLast[2] + 1) /\ UNCHANGED evSpin

(* _next_ms_rand under its lock, the three cases of the clock: a new        *)
(* millisecond draws a random part, the same one adds one to it (or waits   *)
(* for the next), a clock set back keeps the last millisecond.              *)
new_millisecond == /\ evSpin = <<>> /\ Len(evIssued) < EvIssued /\ evClock > evLast[1]
                   /\ \E rand \in 0..EvRandMax : Issue(evClock, rand)
                   /\ UNCHANGED evSpin
same_millisecond ==
    /\ evSpin = <<>> /\ Len(evIssued) < EvIssued /\ evClock = evLast[1]
    /\ IF evLast[2] < EvRandMax
       THEN Issue(evClock, evLast[2] + 1) /\ UNCHANGED evSpin
       ELSE evSpin' = <<evClock>> /\ UNCHANGED <<evClock, evMoves, evLast, evIssued>>
backwards == /\ evSpin = <<>> /\ Len(evIssued) < EvIssued
             /\ evClock < evLast[1] /\ evLast[2] < EvRandMax \* else ULIDError
             /\ Issue(evLast[1], evLast[2] + 1) /\ UNCHANGED evSpin

(* _spin_until_next_ms, the lock held: the clock passes, or a second has    *)
(* gone by without (ULIDError) and nothing was issued.                      *)
_spin_until_next_ms ==
    /\ evSpin # <<>> /\ evSpin' = <<>>
    /\ \/ evClock > evSpin[1] /\ \E rand \in 0..EvRandMax : Issue(evClock, rand)
       \/ evClock <= evSpin[1] /\ UNCHANGED <<evClock, evMoves, evLast, evIssued>>

(* Time passes, or the clock of the machine is set back.                    *)
set_clock == \E ms \in 1..EvMsMax :
    /\ ms # evClock /\ evMoves < EvIssued
    /\ evClock' = ms /\ evMoves' = evMoves + 1
    /\ UNCHANGED <<evLast, evSpin, evIssued>>

UseIds == new_millisecond \/ same_millisecond \/ backwards \/ _spin_until_next_ms \/ set_clock

(***************************************************************************)
(* Documents: every field by what its checks tell apart.  A type of event   *)
(* is good (llm.trace.span.completed, com.example.a.b), registered in two   *)
(* segments (decision.made), registered but not listed by the JSON Schema   *)
(* (llm.audit.tombstone), custom in a reserved namespace (decision.a.b.c),  *)
(* or none at all.  "a megabyte" is above the limit of validate_event and   *)
(* below that of from_dict.                                                 *)
(***************************************************************************)
Values == [schema_version |-> {"2.0", "1.0", "other", "null"},
           event_id       |-> {"upper", "lower", "bad"},
           event_type     |-> {"good", "first class", "audit", "claimed", "bad"},
           timestamp      |-> {"good", "no such day", "bad"},
           source         |-> {"good", "bad"},
           payload        |-> {"flat", "ten levels", "a megabyte", "empty", "no object"},
           trace_id       |-> {"good", "bad", "null"}, \* and span_id
           parent_span_id |-> {"good", "bad"},
           org_id         |-> {"good", "empty"},       \* and team, actor, session
           tags           |-> {"good", "too many", "empty value"},
           checksum       |-> {"good", "bad"},
           signature      |-> {"good", "bad", "null"},
           prev_id        |-> {"upper", "lower", "bad"},
           unknown        |-> {"a key"}]               \* a key of no field
Fields == DOMAIN Values
Required == {"schema_version", "event_id", "event_type", "timestamp", "source", "payload"}

(* A document is a function on the fields it has. *)
GoodDoc == [f \in Required |-> CASE f = "schema_version" -> "2.0" [] f = "event_id" -> "upper"
                                 [] f = "payload" -> "flat" [] OTHER -> "good"]
With(d, f, v) == [g \in DOMAIN d \cup {f} |-> IF g = f THEN v ELSE d[g]]
Without(d, fs) == [g \in DOMAIN d \ fs |-> d[g]]
Changed(d) == {With(d, fv[1], fv[2]) : fv \in UNION {{f} \X Values[f] : f \in Fields}}
                 \cup {Without(d, {f}) : f \in Fields}
Docs == UNION {Changed(d) : d \in Changed(GoodDoc)}

(* data.get(f), and Tags(...), which has no empty key or value. *)
Get(d, f) == IF f \in DOMAIN d THEN d[f] ELSE "null"
Tags(v) == v # "empty value"

(* Event(...): an attribute for every field, None where it is not given,    *)
(* but for the three that have a default; nothing is checked, and keys that *)
(* are of no field are not parameters.                                      *)
NewEvent(d) == [f \in Fields |->
                  IF Get(d, f) = "null" /\ f \in {"schema_version", "event_id", "timestamp"}
                  THEN GoodDoc[f] ELSE Get(d, f)]

(* _require_str and _require_dict_field fail. *)
Unreadable(d) == Get(d, "payload") = "no object" \/ \E f \in Required : Get(d, f) = "null"

(* from_dict: limits first, then the tags, then what is required.           *)
from_dict(d) ==
    CASE Get(d, "tags") = "too many"      -> [outcome |-> "DeserializationError"]
      [] Get(d, "payload") = "ten levels" -> [outcome |-> "DeserializationError"] \* _check_nesting_depth
      [] ~Tags(Get(d, "tags"))            -> [outcome |-> "SchemaValidationError"]
      [] Unreadable(d)                    -> [outcome |-> "DeserializationError"]
      [] OTHER -> [outcome |-> "ok", event |-> NewEvent(d)]

(* The events of a program: constructed, or read. *)
Events == {NewEvent(d) : d \in {d \in Docs : /\ "unknown" \notin DOMAIN d /\ Tags(Get(d, "tags"))
                                             /\ {"event_type", "source", "payload"} \subseteq DOMAIN d}}
            \cup {from_dict(d).event : d \in {d \in Docs : from_dict(d).outcome = "ok"}}

(* A mutant of to_dict: the keys it does not know are lost.                 *)
KnownOnly(e) == [f \in {f \in Fields \ {"unknown"} : e[f] # "null"} |-> e[f]]

(* to_dict: the fields that are not None, with the unknown keys that        *)
(* from_dict kept.                                                          *)
to_dict(e) == [f \in {f \in Fields : e[f] # "null"} |-> e[f]]

(* _validate_schema_version, _validate_event_id and so on: an identifier in *)
(* either case, a time that exists, a type that EVENT_TYPE_PATTERN matches  *)
(* and that is registered or outside the reserved namespaces.               *)
Accepted == [schema_version |-> {"1.0", "2.0"}, event_id |-> {"upper", "lower"},
             event_type |-> {"good", "first class", "audit"},
             timestamp |-> {"good"}, source |-> {"good"},
             payload |-> {"flat", "ten levels", "a megabyte"},
             trace_id |-> {"good"}, parent_span_id |-> {"good"}, org_id |-> {"good"},
             prev_id |-> {"upper", "lower"}]
(* Event.validate: no look at tags, checksum, signature or unknown keys.    *)
validate(e) == \A f \in DOMAIN Accepted :
                 e[f] \in Accepted[f] \/ (f \notin Required /\ e[f] = "null")

(* _check_string_field: a field that is there matches its pattern.          *)
_check_string_field(d, f, allowed) ==
    IF f \in DOMAIN d THEN d[f] \in allowed ELSE f \notin Required
(* What the patterns and the JSON Schema have in common: upper case, and a  *)
(* day that need not exist.                                                 *)
Conforms(d) ==
    /\ _check_string_field(d, "schema_version", {"1.0", "2.0"})
    /\ _check_string_field(d, "event_id", {"upper"}) /\ _check_string_field(d, "prev_id", {"upper"})
    /\ _check_string_field(d, "timestamp", {"good", "no such day"})
    /\ _check_string_field(d, "payload", {"flat", "ten levels", "a megabyte"})
    /\ \A f \in {"source", "trace_id", "parent_span_id", "org_id", "checksum", "signature", "tags"} :
         _check_string_field(d, f, {"good"})
(* The pattern of validate.py has no namespaces of one segment, and what is *)
(* not registered is outside the reserved ones (validate_custom).           *)
_stdlib_validate(d) == Conforms(d) /\ _check_string_field(d, "event_type", {"good", "audit"})
(* schemas/v1.0 and v2.0: a list of types or a pattern that knows nothing   *)
(* of reserved namespaces, and no unknown keys.                             *)
JsonSchema(d) == /\ Conforms(d) /\ "unknown" \notin DOMAIN d
                 /\ _check_string_field(d, "event_type", {"good", "claimed"})

(* validate_event: bounds, then the JSON Schema, or the patterns where the  *)
(* jsonschema package is missing; a version that has no schema is a         *)
(* ValueError in the first case (load_schema).                              *)
validate_event(e, jsonschema) ==
    LET d == to_dict(e)
    IN CASE e.payload = "a megabyte" -> "SchemaValidationError"
         [] jsonschema /\ e.schema_version = "other" -> "ValueError"
         [] (IF jsonschema THEN JsonSchema(d) ELSE _stdlib_validate(d)) -> "ok"
         [] OTHER -> "SchemaValidationError"

(* correct_event: the keys it lists, without their nulls, and a version     *)
(* that is accepted; the parent, the context and the link to the previous   *)
(* event are not listed.                                                    *)
KnownEnvelopeKeys == Required \cup {"trace_id", "tags", "checksum", "signature"}
correct_event(d) ==
    LET out == Without(d, (Fields \ KnownEnvelopeKeys)
                            \cup {f \in Fields \ Required : Get(d, f) = "null"})
    IN IF Get(out, "schema_version") \in {"1.0", "2.0"} THEN out
       ELSE With(out, "schema_version", "2.0")

(* enforce_event: a document is judged after the correction, an Event as it *)
(* was given.                                                               *)
Passes(d, jsonschema) == /\ from_dict(d).outcome = "ok"
                         /\ validate_event(from_dict(d).event, jsonschema) = "ok"
enforce_event(d, mode, jsonschema) ==
    LET doc == IF mode = "correct" THEN correct_event(d) ELSE d
    IN [raised |-> ~Passes(doc, jsonschema) /\ mode \in {"strict", "lenient"},
        valid |-> Passes(doc, jsonschema),
        corrected_doc |-> IF mode = "correct" THEN <<doc>> ELSE <<>>]
enforce_on_event(e, mode, jsonschema) ==
    LET ok == validate_event(e, jsonschema) = "ok"
    IN [raised |-> ~ok /\ mode \in {"strict", "lenient"}, valid |-> ok,
        corrected_doc |-> IF mode = "correct" THEN <<correct_event(to_dict(e))>> ELSE <<>>]

(* sign_event_hmac: the document, signed, is read back.                     *)
sign_event_hmac(e) == from_dict(With(to_dict(e), "signature", "good"))

(***************************************************************************)
(* Files: iter_file reads while a writer appends                            *)
(***************************************************************************)
InitFile == evFile = <<>> /\ evRead = [pos |-> 0, torn |-> FALSE, lines |-> <<>>, end |-> "no"]

(* A writer appends half a line at a time: a flush may split it. *)
append == LET n == Len(evFile)
          IN /\ n < 2 * Len(EvLines)
             /\ evFile' = Append(evFile, <<(n \div 2) + 1, (n % 2) + 1>>)
             /\ UNCHANGED evRead

(* One line of a file, as far as it is written: both halves, or one.        *)
(* Position, whether it was torn, and the line's number.                    *)
Line(pos) == LET whole == evFile[pos + 1][2] = 1 /\ pos + 2 <= Len(evFile)
             IN [pos |-> IF whole THEN pos + 2 ELSE pos + 1, torn |-> ~whole,
                 line |-> evFile[pos + 1][1]]

(* One turn of the loops of iter_file and from_file: a line that cannot be  *)
(* parsed ends the stream, or is skipped.                                   *)
iter_file(skip_errors) ==
    /\ evRead.end = "no" /\ UNCHANGED evFile
    /\ IF evRead.pos = Len(evFile) THEN evRead' = [evRead EXCEPT !.end = "eof"]
       ELSE LET next == Line(evRead.pos)
                readable == ~next.torn /\ EvLines[next.line] = "good"
            IN evRead' = [pos   |-> next.pos,
                          torn  |-> evRead.torn \/ next.torn,
                          lines |-> IF readable THEN Append(evRead.lines, next.line) ELSE evRead.lines,
                          end   |-> IF readable \/ skip_errors THEN "no" ELSE "DeserializationError"]

UseFile(skip_errors) == append \/ iter_file(skip_errors)

(***************************************************************************)
(* Queues: threads on a queue.Queue, or coroutines on an asyncio.Queue      *)
(***************************************************************************)
InitQueue == /\ evQueue = <<>> /\ evPut = 0
             /\ evGot = [r \in EvReaders |-> [items |-> <<>>, end |-> "no"]]

(* A producer puts the next item. *)
put == /\ evPut < Len(EvItems) /\ evPut' = evPut + 1
       /\ evQueue' = Append(evQueue, evPut')
       /\ UNCHANGED evGot

(* The first item, to a reader that goes on; the sentinel ends the stream   *)
(* of the reader that took it.                                              *)
Take(r) ==
    /\ evGot[r].end = "no" /\ evQueue # <<>> /\ UNCHANGED evPut
    /\ evQueue' = Tail(evQueue)
    /\ evGot' = IF EvItems[Head(evQueue)] = "end" THEN [evGot EXCEPT ![r].end = "sentinel"]
                ELSE [evGot EXCEPT ![r].items = Append(@, Head(evQueue))]
Stop(r, end) == /\ evGot[r].end = "no"
                /\ evGot' = [evGot EXCEPT ![r].end = end]
                /\ UNCHANGED <<evQueue, evPut>>

(* One get_nowait of from_queue: between two of them other threads run.     *)
from_queue(r) == Take(r) \/ (evQueue = <<>> /\ Stop(r, "empty"))

(* One wait of from_async_queue: the item, or the timeout, also when an     *)
(* item was put as it fell due.                                             *)
from_async_queue(r) == Take(r) \/ Stop(r, "timeout")

UseQueue == put \/ \E r \in EvReaders : from_queue(r)
UseAsyncQueue == put \/ \E r \in EvReaders : from_async_queue(r)

(***************************************************************************)
(* Topics                                                                   *)
(***************************************************************************)
InitTopic == evOffset = 0 /\ evFetched = <<>>

(* A mutant of from_kafka: the message after the last is taken as well.     *)
Overtakes(group, skip_errors, max_messages) ==
    /\ Len(evFetched) < EvCalls /\ group
    /\ evOffset < Len(EvMessages)
    /\ evFetched' = Append(evFetched, [group |-> group, from |-> evOffset, to |-> evOffset + 1,
                                       events |-> <<>>, raised |-> FALSE])
    /\ evOffset' = evOffset + 1

(* from_kafka: from the committed offset, or from the beginning without a   *)
(* group, up to the sentinel, max_messages events (0 stands for None), a    *)
(* message that cannot be parsed, or until none comes within                *)
(* poll_timeout_ms: at the end of the topic, or before.  Closing the        *)
(* consumer of a group commits what it has read, also when the call raises  *)
(* and the events it had collected are gone.                                *)
from_kafka(group, skip_errors, max_messages) ==
    LET start == IF group THEN evOffset ELSE 0
        Good(to) == SelectSeq([i \in 1..to |-> i], LAMBDA i : i > start /\ EvMessages[i] = "good")
        stops == {i \in (start + 1)..Len(EvMessages) :
                    \/ EvMessages[i] = "end"
                    \/ EvMessages[i] = "bad" /\ ~skip_errors
                    \/ EvMessages[i] = "good" /\ max_messages > 0 /\ Len(Good(i)) = max_messages}
        last == IF stops = {} THEN Len(EvMessages) ELSE CHOOSE i \in stops : \A j \in stops : i <= j
    IN \E to \in start..last :
         LET raised == to \in stops /\ EvMessages[to] = "bad"
         IN /\ Len(evFetched) < EvCalls
            /\ evFetched' = Append(evFetched, [group |-> group, from |-> start, to |-> to,
                                               events |-> IF raised THEN <<>> ELSE Good(to),
                                               raised |-> raised])
            /\ evOffset' = IF group THEN to ELSE evOffset

UseTopic == \E group, skip_errors \in BOOLEAN, max_messages \in 0..2 :
                from_kafka(group, skip_errors, max_messages)

(***************************************************************************)
(* The specification                                                        *)
(***************************************************************************)
Init == evPart = "none" /\ InitIds /\ InitFile /\ InitQueue /\ InitTopic

Chosen(part) == evPart \in {"none", part} /\ evPart' = part

Next == \/ Chosen("ids") /\ UseIds /\ UNCHANGED <<fileVars, queueVars, topicVars>>
        \/ Chosen("file") /\ UseFile(FALSE) /\ UNCHANGED <<idVars, queueVars, topicVars>>
        \/ Chosen("file, skip_errors") /\ UseFile(TRUE) /\ UNCHANGED <<idVars, queueVars, topicVars>>
        \/ Chosen("queue") /\ UseQueue /\ UNCHANGED <<idVars, fileVars, topicVars>>
        \/ Chosen("asyncio queue") /\ UseAsyncQueue /\ UNCHANGED <<idVars, fileVars, topicVars>>
        \/ Chosen("topic") /\ UseTopic /\ UNCHANGED <<idVars, fileVars, queueVars>>

Spec == Init /\ [][Next]_envelopeVars

EnvelopeTypeOK ==
    /\ evPart \in {"none", "ids", "file", "file, skip_errors", "queue", "asyncio queue", "topic"}
    /\ evClock \in 1..EvMsMax /\ evSpin \in Seq(1..EvMsMax)
    /\ evLast \in (0..EvMsMax) \X (0..EvRandMax)
    /\ evIssued \in Seq((0..EvMsMax) \X (0..EvRandMax))
    /\ evRead.pos <= Len(evFile) /\ evOffset <= Len(EvMessages)
    /\ Range(evQueue) \subseteq 1..evPut

(* Identifiers are issued in strictly increasing order, and so are unique,  *)
(* whatever the clock does between and during the calls.                    *)
IdentifiersIncrease ==
    \A i \in 1..(Len(evIssued) - 1) :
        LET a == evIssued[i] b == evIssued[i + 1]
        IN a[1] < b[1] \/ (a[1] = b[1] /\ a[2] < b[2])

(* A document that was read is written as it was read, but for nulls, and   *)
(* reads as the same event again; an event that passes validate_event can   *)
(* be read back and signed unless its payload is nested too deep; the JSON  *)
(* Schema and the patterns that stand in for it differ over unknown keys    *)
(* and two kinds of event type only; what validate() and validate_event()   *)
(* disagree about is listed.                                                *)
DocumentsAgree ==
    /\ \A d \in Docs : from_dict(d).outcome = "ok" =>
         /\ to_dict(from_dict(d).event) = Without(d, {f \in DOMAIN d : d[f] = "null"})
         /\ from_dict(to_dict(from_dict(d).event)) = from_dict(d)
    /\ \A e \in Events :
         LET json == validate_event(e, TRUE) = "ok"
             stdlib == validate_event(e, FALSE) = "ok"
         IN /\ json \/ stdlib => \/ e.payload = "ten levels"
                                 \/ /\ from_dict(to_dict(e)) = [outcome |-> "ok", event |-> e]
                                    /\ sign_event_hmac(e).outcome = "ok"
            /\ json # stdlib => e.unknown # "null" \/ e.event_type \in {"audit", "claimed"}
            /\ validate(e) # (json /\ stdlib) =>
                 \/ "lower" \in {e.event_id, e.prev_id} \/ e.timestamp = "no such day"
                 \/ e.event_type \in {"first class", "audit"} \/ e.payload = "a megabyte"
                 \/ e.tags = "too many" \/ e.unknown # "null" \/ "bad" \in {e.checksum, e.signature}

(* The four modes judge alike: STRICT and LENIENT raise where WARN says     *)
(* invalid, and a document and the event read from it are judged alike; a   *)
(* correction changes nothing the second time, never makes a valid document *)
(* invalid, and what it calls valid passes STRICT.                          *)
ModesAgree ==
    \A d \in Docs, jsonschema \in BOOLEAN :
        LET Mode(mode) == enforce_event(d, mode, jsonschema)
            corrected == Mode("correct").corrected_doc[1]
        IN /\ Mode("strict").raised = ~Mode("warn").valid
           /\ Mode("lenient").raised = ~Mode("warn").valid
           /\ from_dict(d).outcome = "ok" =>
                enforce_on_event(from_dict(d).event, "warn", jsonschema) = Mode("warn")
           /\ correct_event(corrected) = corrected
           /\ Mode("warn").valid => Mode("correct").valid
           /\ Mode("correct").valid => ~enforce_event(corrected, "strict", jsonschema).raised

(* A file that is read while it grows yields its readable lines once and in *)
(* order; none before the last is missing unless a torn line was met.       *)
LinesComeInOrder ==
    LET Readable(n) == SelectSeq([i \in 1..n |-> i], LAMBDA i : EvLines[i] = "good")
    IN /\ \A i \in 1..(Len(evRead.lines) - 1) : evRead.lines[i] < evRead.lines[i + 1]
       /\ evRead.torn \/ evRead.lines = Readable(evRead.pos \div 2)

(* Every item is in the queue, with one reader, or a sentinel that ended    *)
(* one reader; each reader has its items in the order they were put.        *)
ItemsAreHandedOnce ==
    LET Ended == Cardinality({r \in EvReaders : evGot[r].end = "sentinel"})
        Holders(i) == Cardinality({r \in EvReaders : Contains(evGot[r].items, i)})
                        + (IF Contains(evQueue, i) THEN 1 ELSE 0)
    IN /\ \A i \in 1..evPut : EvItems[i] # "end" => Holders(i) = 1
       /\ Ended = Cardinality({i \in 1..evPut : EvItems[i] = "end" /\ Holders(i) = 0})
       /\ \A r \in EvReaders : \A k \in 1..(Len(evGot[r].items) - 1) :
            evGot[r].items[k] < evGot[r].items[k + 1]

(* A group is given every message before its offset once, but for those it  *)
(* cannot parse and those of calls that raised.                             *)
MessagesAreFetchedOnce ==
    LET Group == {k \in DOMAIN evFetched : evFetched[k].group}
        Given(i) == {k \in Group : Contains(evFetched[k].events, i)}
        Raised(i) == \E k \in Group : evFetched[k].raised /\ evFetched[k].from < i /\ i <= evFetched[k].to
    IN \A i \in DOMAIN EvMessages :
         Cardinality(Given(i)) =
            IF i <= evOffset /\ EvMessages[i] = "good" /\ ~Raised(i) THEN 1 ELSE 0

EnvelopeHolds ==
    /\ IdentifiersIncrease /\ LinesComeInOrder /\ ItemsAreHandedOnce /\ MessagesAreFetchedOnce
    /\ evPart = "none" => DocumentsAgree /\ ModesAgree
=============================================================================
