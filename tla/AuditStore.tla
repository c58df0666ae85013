------------------------------ MODULE AuditStore ------------------------------
(***************************************************************************)
(* The audit client and its local store (sdk/audit.py).  append() takes the  *)
(* time, the chain position and the place in the store at three moments; the *)
(* index may miss records, and queries go to the index while it is open.     *)
(***************************************************************************)
EXTENDS Naturals, Sequences, FiniteSets, SequencesExt, FiniteSetsExt

CONSTANTS AsThreads,  \* callers
          AsSchemas,  \* schema keys of the enforced set
          AsTrusted,  \* those that feed the trust scorecard
          AsSinks,    \* the callers that append through a composite sink
          AsCap,      \* bound: records
          AsClockCap  \* bound: time

VARIABLES asClock,    \* the wall clock
          asCalls,    \* thread -> the record it is appending
          asPosition, \* _chain_position
          asRecords,  \* _records
          asIndex,    \* the rows of audit_index; a position stands for a record_id
          asOpen,     \* _db is not None
          asTrust,    \* positions of the records in _trust_records, in order
          asSink      \* events in the stream of the sink, and results it made up

asVars == <<asClock, asCalls, asPosition, asRecords, asIndex, asOpen, asTrust, asSink>>

Record == [schema : AsSchemas, ts : 0..AsClockCap, pos : 0..AsCap, seen : 0..AsCap, sink : BOOLEAN]
Idle == [pc |-> "idle", schema |-> CHOOSE s \in AsSchemas : TRUE, ts |-> 0, pos |-> 0, seen |-> 0]
Stored == ToSet(asRecords)

Init == /\ asClock = 0 /\ asCalls = [t \in AsThreads |-> Idle] /\ asPosition = 0
        /\ asRecords = <<>> /\ asIndex = {} /\ asOpen = TRUE /\ asTrust = <<>>
        /\ asSink = [streamed |-> 0, synthetic |-> 0]

Tick == /\ asClock < AsClockCap /\ asClock' = asClock + 1
        /\ UNCHANGED <<asCalls, asPosition, asRecords, asIndex, asOpen, asTrust, asSink>>

(* append: an unknown schema key is refused (strict mode) before anything    *)
(* happens; a known one gets its timestamp.  A composite sink has streamed   *)
(* the event by then.  seen is history.                                      *)
append_stamp(t, s) ==
    /\ asCalls[t].pc = "idle"
    /\ asPosition + Cardinality({u \in AsThreads : asCalls[u].pc = "position"}) < AsCap
    /\ asCalls' = [asCalls EXCEPT ![t] = [pc |-> "position", schema |-> s, ts |-> asClock,
                                          pos |-> 0, seen |-> Len(asRecords)]]
    /\ asSink' = IF t \in AsSinks THEN [asSink EXCEPT !.streamed = @ + 1] ELSE asSink
    /\ UNCHANGED <<asClock, asPosition, asRecords, asIndex, asOpen, asTrust>>

(* SFCompositeAuditSink.append: when the client refuses the record, the      *)
(* event stays in the stream, and the result names no position.  Bound: once,*)
(* after the last record.                                                    *)
sink_refused(t) ==
    /\ t \in AsSinks /\ asCalls[t].pc = "idle" /\ asSink.synthetic < 1 /\ Len(asRecords) = AsCap
    /\ asSink' = [streamed |-> asSink.streamed + 1, synthetic |-> asSink.synthetic + 1]
    /\ UNCHANGED <<asClock, asCalls, asPosition, asRecords, asIndex, asOpen, asTrust>>

(* A mutant of append_position: the position is the length of the store. *)
PositionOfStore(t) ==
    /\ asCalls[t].pc = "position"
    /\ asCalls' = [asCalls EXCEPT ![t].pc = "store", ![t].pos = Len(asRecords)]
    /\ asPosition' = asPosition + 1
    /\ UNCHANGED <<asClock, asRecords, asIndex, asOpen, asTrust, asSink>>

(* append: the section under _chain_lock. *)
append_position(t) ==
    /\ asCalls[t].pc = "position"
    /\ asCalls' = [asCalls EXCEPT ![t].pc = "store", ![t].pos = asPosition]
    /\ asPosition' = asPosition + 1
    /\ UNCHANGED <<asClock, asRecords, asIndex, asOpen, asTrust, asSink>>

(* _LocalAuditStore.append with _index_record, whose error is only logged. *)
append_store(t, indexed) ==
    /\ asCalls[t].pc = "store"
    /\ LET c == asCalls[t] IN
         /\ asRecords' = Append(asRecords, [schema |-> c.schema, ts |-> c.ts,
                                            pos |-> c.pos, seen |-> c.seen, sink |-> t \in AsSinks])
         /\ asIndex' = IF asOpen /\ indexed
                       THEN asIndex \cup {[pos |-> c.pos, schema |-> c.schema, ts |-> c.ts]}
                       ELSE asIndex
         /\ asCalls' = [asCalls EXCEPT ![t] =
                IF c.schema \in AsTrusted THEN [c EXCEPT !.pc = "trust"] ELSE Idle]
    /\ UNCHANGED <<asClock, asPosition, asOpen, asTrust, asSink>>

(* append_trust: the scorecard's copy, in a section of its own. *)
append_trust(t) ==
    /\ asCalls[t].pc = "trust"
    /\ asTrust' = Append(asTrust, asCalls[t].pos)
    /\ asCalls' = [asCalls EXCEPT ![t] = Idle]
    /\ UNCHANGED <<asClock, asPosition, asRecords, asIndex, asOpen, asSink>>

(* close: the index is gone, the records stay and are scanned. *)
close_store == /\ asOpen /\ asOpen' = FALSE
               /\ UNCHANGED <<asClock, asCalls, asPosition, asRecords, asIndex, asTrust, asSink>>

(* _query_linear and _query_via_db for a schema key and a time range: the    *)
(* latter selects rows of the index and looks their records up, and scans    *)
(* the list when the SELECT fails.                                           *)
Selected(r, s, from, to) == r.schema = s /\ from <= r.ts /\ r.ts <= to
query_linear(s, from, to) == {r \in Stored : Selected(r, s, from, to)}
query_via_db(s, from, to, selects) ==
    IF ~selects THEN query_linear(s, from, to)
    ELSE LET rows == {row.pos : row \in {x \in asIndex : Selected(x, s, from, to)}}
         IN {r \in Stored : r.pos \in rows}
query(s, from, to, selects) == IF asOpen THEN query_via_db(s, from, to, selects)
                               ELSE query_linear(s, from, to)

(* export: the first ones up to a limit, by time when the index answers, and *)
(* as they were stored otherwise.                                            *)
export(s, to, limit, selects) ==
    LET found == SelectSeq(asRecords, LAMBDA r : r \in query(s, 0, to, selects))
        byTime == asOpen /\ selects
        before(i, j) == \/ byTime /\ found[i].ts < found[j].ts
                        \/ (byTime => found[i].ts = found[j].ts) /\ i < j
        order == SetToSortSeq(DOMAIN found, before) IN
    [i \in 1..(IF limit < Len(found) THEN limit ELSE Len(found)) |-> found[order[i]]]

(* verify_chain: the places of a list where a position does not follow the   *)
(* one before.                                                               *)
verify_gaps(recs) == {i \in 2..Len(recs) : recs[i].pos # recs[i - 1].pos + 1}

------------------------------------------------------------------------------
(* The trust scorecard, in hundredths of a point: a score of at most one     *)
(* counts as a fraction, a larger one as points up to a hundred.             *)
Points(v) == IF v <= 100 THEN v * 100 ELSE IF v < 10000 THEN v ELSE 10000
Total(scores) == FoldSeq(LAMBDA v, n : Points(v) + n, 0, scores)

(* The trend compares the second half with the first; the second half of one *)
(* record is empty and counts as zero.                                       *)
_compute_dimension_score(scores) ==
    LET n == Len(scores)
        mid == IF n < 2 THEN 1 ELSE n \div 2
        rest == IF n - mid < 1 THEN 1 ELSE n - mid
        first == Total(SubSeq(scores, 1, mid)) * rest
        second == Total(SubSeq(scores, mid + 1, n)) * mid
    IN IF n = 0 THEN [sum |-> 5000, of |-> 1, trend |-> "flat"]
       ELSE [sum |-> Total(scores), of |-> n,
             trend |-> IF second > first + 200 * mid * rest THEN "up"
                       ELSE IF first > second + 200 * mid * rest THEN "down" ELSE "flat"]

Next == \/ Tick \/ close_store
        \/ \E t \in AsThreads :
             \/ \E s \in AsSchemas : append_stamp(t, s)
             \/ append_position(t) \/ append_trust(t) \/ sink_refused(t)
             \/ \E indexed \in BOOLEAN : append_store(t, indexed)

Spec == Init /\ [][Next]_asVars

StoreTypeOK ==
    /\ asClock \in 0..AsClockCap /\ asPosition \in 0..AsCap /\ asOpen \in BOOLEAN
    /\ \A t \in AsThreads : asCalls[t].pc \in {"idle", "position", "store", "trust"}
    /\ asRecords \in Seq(Record)
    /\ asIndex \subseteq {[pos |-> r.pos, schema |-> r.schema, ts |-> r.ts] : r \in Stored}
    /\ asTrust \in Seq(0..AsCap)
    /\ asSink \in [streamed : 0..AsCap + 1, synthetic : 0..1]

(* The audit trail of overlapping appends: no position is used twice, and    *)
(* none is missing once every call has returned; a record whose append began *)
(* after another one was stored has the later position and time; verify_chain*)
(* reports a gap in the stored list only beside a record whose append        *)
(* overlapped another one's (it does report those, though nothing was        *)
(* tampered with).  A query answers nothing but stored records that match,   *)
(* and leaves one out only if the index answered and never got its row; a    *)
(* trusted record reaches the scorecard exactly once.  A sink streams what   *)
(* it hands to the client first, and the stream has an event for every       *)
(* record and every made-up result.                                          *)
Overlapped(k) ==
    \/ \E j \in DOMAIN asRecords \ {k} : asRecords[k].seen < j /\ asRecords[j].seen < k
    \/ \E t \in AsThreads : asCalls[t].pc = "store" /\ asCalls[t].seen < k

AuditTrailIsComplete ==
    LET n == Len(asRecords)
        returned == \A t \in AsThreads : asCalls[t].pc \in {"idle", "position"} IN
    /\ \A i, j \in 1..n : i # j => asRecords[i].pos # asRecords[j].pos
    /\ returned => {r.pos : r \in Stored} = 0..asPosition - 1
    /\ \A j \in 1..n : \A i \in 1..asRecords[j].seen :
         asRecords[i].pos < asRecords[j].pos /\ asRecords[i].ts <= asRecords[j].ts
    /\ \A i \in verify_gaps(asRecords) : Overlapped(i) \/ Overlapped(i - 1)
    /\ \A s \in AsSchemas, to \in 0..AsClockCap, selects \in BOOLEAN :
         /\ query(s, 0, to, selects) \subseteq query_linear(s, 0, to)
         /\ \A r \in query_linear(s, 0, to) \ query(s, 0, to, selects) :
              asOpen /\ selects /\ \A row \in asIndex : row.pos # r.pos
         /\ ToSet(export(s, to, n, selects)) = query(s, 0, to, selects)
         /\ asOpen /\ selects => \A limit \in 1..n :
              LET first == ToSet(export(s, to, limit, selects)) IN
              \A x \in first, r \in query(s, 0, to, selects) \ first : x.ts <= r.ts
    /\ asSink.streamed = asSink.synthetic + Cardinality({i \in 1..n : asRecords[i].sink})
         + Cardinality({t \in AsSinks : asCalls[t].pc \in {"position", "store"}})
    /\ IsInjective(asTrust)
    /\ returned => ToSet(asTrust) = {r.pos : r \in {x \in Stored : x.schema \in AsTrusted}}

(* A dimension's score lies between the records it is made of; two halves of *)
(* records changed with each other change the direction of the trend; a      *)
(* trend that goes up has a later record above an earlier one, and so has    *)
(* one that goes down the other way, unless it is made of one record only.   *)
ScoreLists == UNION {[1..n -> {0, 50, 100, 102, 5000, 20000}] : n \in 1..4}
ScorecardsFollow == asRecords # <<>> \/ asClock # 0 \/ \A l \in ScoreLists :
    LET d == _compute_dimension_score(l)
        n == Len(l) IN
    /\ \E i, j \in 1..n : Points(l[i]) * n <= d.sum /\ d.sum <= Points(l[j]) * n
    /\ n % 2 = 0 => LET r == _compute_dimension_score(SubSeq(l, n \div 2 + 1, n) \o SubSeq(l, 1, n \div 2)) IN
         (d.trend = "up") = (r.trend = "down")
    /\ d.trend = "up" => \E i, j \in 1..n : i < j /\ Points(l[i]) < Points(l[j])
    /\ d.trend = "down" => n = 1 \/ \E i, j \in 1..n : i < j /\ Points(l[i]) > Points(l[j])
AuditHolds == AuditTrailIsComplete /\ ScorecardsFollow
=============================================================================
