--------------------------- MODULE AnswerServices ---------------------------
(***************************************************************************)
(* The services around one answer of a model: its validation and correction *)
(* (sdk/validate.py), its explanation, lineage and grounding records        *)
(* (sdk/explain.py, lineage.py, rag.py), the sessions and feedback it is    *)
(* part of (rag.py, feedback.py), the pipelines that chain the services     *)
(* (pipelines.py), and the scorecard (trust.py).  They share the audit log; *)
(* a call of sf_audit.append() adds one record or raises and adds none.     *)
(***************************************************************************)
EXTENDS Naturals, Sequences, SequencesExt, FiniteSetsExt

CONSTANTS AnThreads,
          AnIds, AnTraces,  \* ids of records and of traces
          AnSessions,
          AnPasses,         \* max_correction_passes
          AnRetries,        \* max_retries of the explain client
          AnCap             \* bound: calls of a behaviour

VARIABLES anPart,      \* bound: the service a behaviour exercises
          anCalls,     \* bound: calls so far
          anAudit,     \* the audit log, as records in order
          anCheck,     \* the validation under way or the last one
          anRecords,   \* id -> trace of the record kept under it, or "none"
          anByTrace,   \* trace -> the ids listed for it
          anThread,    \* thread -> the record it is writing to the audit log
          anReturned,  \* history: what explain() returned: <<id, signature>>
          anSession,   \* session -> its counts
          anTotals,    \* queries, spans and feedback counted by the clients
          anEnded,     \* the summaries of the sessions that were ended
          anRun        \* the last pipeline or scorecard

checkVars == <<anCheck>>
recordVars == <<anRecords, anByTrace, anThread, anReturned>>
sessionVars == <<anSession, anTotals, anEnded>>
anVars == <<anPart, anCalls, anAudit, anCheck, anRecords, anByTrace, anThread, anReturned, anSession, anTotals, anEnded, anRun>>

Exercise(part) == anPart \in {"none", part} /\ anPart' = part
Call(part) == Exercise(part) /\ anCalls < AnCap /\ anCalls' = anCalls + 1
Continue == UNCHANGED <<anPart, anCalls>>
append(entry) == anAudit' = Append(anAudit, entry)
Logged(entry) == Cardinality({i \in DOMAIN anAudit : anAudit[i] = entry})

----------------------------------------------------------------------------
(* validate().  A text is what it holds; the scanners that work are fixed    *)
(* for a call, and what one that raises would have found is passed over.     *)
Texts == SUBSET {"pii", "secret", "zero"}
_content_policy_check(text, works) ==
    {v \in works : \/ v = "pii" /\ "pii" \in text
                   \/ v = "secret" /\ text \cap {"secret", "zero"} # {}}

NoCheck == [at |-> "none"]

validate(text, faults, works, correcting) ==
    LET found == faults \cup _content_policy_check(text, works)
        blocked == "secret" \in works /\ "zero" \in text IN
    /\ Call("validate")
    /\ anCheck' = [at |-> IF found # {} /\ correcting /\ ~blocked /\ AnPasses > 0 THEN "correcting" ELSE "closing",
                   first |-> text, text |-> text, faults |-> faults, works |-> works,
                   found |-> found, blocked |-> blocked, passes |-> 0, passed |-> FALSE]
    /\ UNCHANGED <<anAudit, recordVars, sessionVars, anRun>>

(* A mutant: a corrected text is not searched for secrets again.             *)
CorrectWithoutRescan(found, text, works) == found \ {"pii", "secret"}

(* What the corrected text is scanned for is taken from the secrets alone.   *)
_rescan(found, text, works) == (found \ {"pii", "secret"}) \cup (_content_policy_check(text, works) \ {"pii"})

(* correction_fn() returns a text, or raises and ends the corrections.       *)
_run_correction ==
    /\ anCheck.at = "correcting" /\ Continue
    /\ \/ anCheck' = [anCheck EXCEPT !.at = "closing"] /\ UNCHANGED anAudit
       \/ \E text \in Texts :
            LET left == _rescan(anCheck.found, text, anCheck.works) IN
            /\ anCheck' = [anCheck EXCEPT !.passes = @ + 1, !.text = text, !.found = left,
                             !.at = IF left = {} \/ anCheck.passes + 1 = AnPasses THEN "closing" ELSE "correcting"]
            /\ UNCHANGED anAudit \/ append(<<"correction", anCheck.passes + 1>>)
    /\ UNCHANGED <<recordVars, sessionVars, anRun>>

(* The record names the text as it came, and the verdict on it as corrected. *)
_emit_audit_record ==
    /\ anCheck.at = "closing" /\ Continue
    /\ anCheck' = [anCheck EXCEPT !.at = "done", !.passed = (anCheck.found = {})]
    /\ UNCHANGED anAudit \/ append(<<"validation", anCheck.first, anCheck.found = {}, anCheck.passes>>)
    /\ UNCHANGED <<recordVars, sessionVars, anRun>>

----------------------------------------------------------------------------
(* Records.  A service keeps a record under its id and lists the id for the  *)
(* trace; then it writes the record to the audit log.  Explain tries that    *)
(* AnRetries more times while its time lasts, and drops the record in        *)
(* silence; lineage and grounding try once, and raise to the caller.         *)
Idle == [at |-> "idle", id |-> "none", tries |-> 0, sign |-> FALSE]
Recorders == {"explain", "lineage", "grounding"}

generate(t, part, id, trace, sign) ==
    /\ anThread[t] = Idle /\ Call(part)
    /\ sign => anRecords[id] = "none"   \* explain() takes a fresh id
    /\ anRecords' = [anRecords EXCEPT ![id] = trace]
    /\ anByTrace' = [anByTrace EXCEPT ![trace] = Append(@, id)]
    /\ anThread' = [anThread EXCEPT ![t] = [at |-> "emit", id |-> id, tries |-> 0, sign |-> sign]]
    /\ UNCHANGED <<anAudit, anCheck, anReturned, sessionVars, anRun>>

record(t, id, trace) == generate(t, "lineage", id, trace, FALSE)
assess_grounding(t, id, trace) == generate(t, "grounding", id, trace, FALSE)
explain(t, id, trace) == generate(t, "explain", id, trace, TRUE)

Next_try(t, then) ==
    anThread' = [anThread EXCEPT ![t] = IF then = "retry" THEN [@ EXCEPT !.tries = @ + 1]
                                        ELSE IF then = "sign" THEN [@ EXCEPT !.at = "sign", !.tries = 0] ELSE Idle]
GivesUp(t, late) == anPart # "explain" \/ anThread[t].tries = AnRetries \/ late

_emit_signed_record(t) ==
    /\ anThread[t].at = "emit" /\ Continue
    /\ LET w == anThread[t]
           then == IF w.sign THEN "sign" ELSE "idle" IN
       \/ append(<<"record", w.id>>) /\ Next_try(t, then)
       \/ \E late \in BOOLEAN : Next_try(t, IF GivesUp(t, late) THEN then ELSE "retry") /\ UNCHANGED anAudit
    /\ UNCHANGED <<anCheck, anRecords, anByTrace, anReturned, sessionVars, anRun>>

(* A mutant: the loop runs once more.                                        *)
LastTryPlusOne(t) == anThread[t].tries = AnRetries + 1

LastTry(t) == anThread[t].tries = AnRetries

(* explain() then writes a second record for its signature; the result of    *)
(* append() has no field hmac_signature, and the loop takes that for a       *)
(* failure: it appends again, and returns no signature.                      *)
_sign_explain_record(t) ==
    /\ anThread[t].at = "sign" /\ Continue
    /\ UNCHANGED anAudit \/ append(<<"signature", anThread[t].id>>)
    /\ \E late \in BOOLEAN :
         IF LastTry(t) \/ late
         THEN Next_try(t, "idle") /\ anReturned' = Append(anReturned, <<anThread[t].id, "">>)
         ELSE Next_try(t, "retry") /\ UNCHANGED anReturned
    /\ UNCHANGED <<anCheck, anRecords, anByTrace, sessionVars, anRun>>

list_for_trace(trace) == {id \in Range(anByTrace[trace]) : anRecords[id] # "none"}

----------------------------------------------------------------------------
(* Sessions.  A query opens a session that is not open; a retrieval or a     *)
(* generation of no open session is counted in the totals alone.  The event  *)
(* of each call is emitted with arguments emit_span() does not take, and the *)
(* exception is passed over.                                                 *)
Closed == [open |-> FALSE, queries |-> 0, spans |-> 0, chunks |-> {}]
_RAGSession == [Closed EXCEPT !.open = TRUE]
SessionCall == Call("sessions") /\ UNCHANGED <<anAudit, anCheck, recordVars, anRun>>

trace_query(s) ==
    LET open == IF anSession[s].open THEN anSession[s] ELSE _RAGSession IN
    /\ SessionCall /\ UNCHANGED anEnded
    /\ anSession' = [anSession EXCEPT ![s] = [open EXCEPT !.queries = @ + 1]]
    /\ anTotals' = [anTotals EXCEPT !.queries = @ + 1]

trace_retrieval(s, chunk) ==
    /\ SessionCall /\ UNCHANGED <<anTotals, anEnded>>
    /\ anSession' = IF anSession[s].open THEN [anSession EXCEPT ![s].chunks = @ \cup {chunk}] ELSE anSession

trace_generation(s, chunk) ==
    /\ SessionCall /\ UNCHANGED anEnded
    /\ anSession' = IF anSession[s].open THEN [anSession EXCEPT ![s].spans = @ + 1, ![s].chunks = @ \cup {chunk}]
                    ELSE anSession
    /\ anTotals' = [anTotals EXCEPT !.spans = @ + 1, !.lost = IF anSession[s].open THEN @ ELSE @ + 1]

(* A mutant: the session is read for its summary and not taken out.          *)
KeepSession(s) == anSession

PopSession(s) == [anSession EXCEPT ![s] = Closed]

end_session(s) ==
    /\ SessionCall /\ UNCHANGED anTotals
    /\ anSession[s].open   \* else KeyError
    /\ anSession' = PopSession(s)
    /\ anEnded' = Append(anEnded, anSession[s])

submit(s) ==
    /\ SessionCall /\ UNCHANGED <<anSession, anEnded>>
    /\ anTotals' = [anTotals EXCEPT !.feedback = [@ EXCEPT ![s] = @ + 1]]

----------------------------------------------------------------------------
(* Pipelines, as steps in order: one that is tried and may fail, one whose   *)
(* failure ends the pipeline, and the calls that never succeed because the   *)
(* service takes other arguments or returns another type.                    *)
Tried(name, broken) == [name |-> name, fatal |-> FALSE, broken |-> broken]
Must(name, broken) == [name |-> name, fatal |-> TRUE, broken |-> broken]
score_pipeline == <<Must("scan", TRUE), Tried("span", FALSE), Must("audit", FALSE)>>
bias_pipeline == <<Must("scan", FALSE), Must("audit", FALSE), Must("number", FALSE), Tried("alert", FALSE)>>
monitor_pipeline == <<Tried("annotation", TRUE), Tried("alert", FALSE), Tried("export", TRUE)>>
risk_pipeline == <<Must("audit", FALSE), Tried("alert", FALSE), Tried("gate", TRUE), Tried("bundle", TRUE)>>
benchmark_pipeline == <<Must("audit", FALSE), Must("number", FALSE), Tried("alert", FALSE), Tried("anonymise", TRUE)>>
Pipelines == [score |-> score_pipeline, bias |-> bias_pipeline, monitor |-> monitor_pipeline,
              risk |-> risk_pipeline, benchmark |-> benchmark_pipeline]

run_pipeline(p, failing, crossed) ==
    LET steps == Pipelines[p]
        fails(i) == steps[i].broken \/ steps[i].name \in failing
        stops == {i \in DOMAIN steps : fails(i) /\ steps[i].fatal}
        reached == {i \in DOMAIN steps : \A k \in stops : i <= k}
        done == {steps[i].name : i \in {j \in reached : ~fails(j) /\ (steps[j].name = "alert" => crossed)}} IN
    /\ Call("pipeline")
    /\ anRun' = [of |-> p, success |-> stops = {}, done |-> done, crossed |-> crossed, failing |-> failing]
    /\ anAudit' = IF "audit" \in done THEN Append(anAudit, <<"pipeline", p>>) ELSE anAudit
    /\ UNCHANGED <<anCheck, recordVars, sessionVars>>

----------------------------------------------------------------------------
(* The scorecard.  A score up to 1 counts as a fraction, more as a per cent; *)
(* here in per cent, with the scale it was written in.                       *)
Scores == [scale : {1}, value : {0, 50, 100}] \cup [scale : {100}, value : {1, 50}]
InPerCent(r) == IF r.scale = 100 /\ r.value = 1 THEN 100 ELSE r.value
_compute_dim_score(records) ==
    IF records = <<>> THEN 50 ELSE FoldLeft(LAMBDA n, r : n + InPerCent(r), 0, records) \div Len(records)
_colour_band(score) == IF score >= 80 THEN "green" ELSE IF score >= 60 THEN "amber" ELSE "red"

(* A mutant: the weights are taken to add up to five.                        *)
AverageOverFive(dims, weights) == FoldLeft(LAMBDA n, i : n + dims[i] * weights[i], 0, <<1, 2>>) \div 5

_weighted_average(dims, weights) ==
    LET total == weights[1] + weights[2] IN
    IF total = 0 THEN 0 ELSE FoldLeft(LAMBDA n, i : n + dims[i] * weights[i], 0, <<1, 2>>) \div total

get_scorecard(one, two, weights) ==
    LET dims == <<_compute_dim_score(one), _compute_dim_score(two)>> IN
    /\ Call("scorecard")
    /\ anRun' = [of |-> "scorecard", one |-> one, two |-> two, weights |-> weights, dims |-> dims,
                 overall |-> _weighted_average(dims, weights), band |-> _colour_band(_weighted_average(dims, weights))]
    /\ UNCHANGED <<anAudit, anCheck, recordVars, sessionVars>>

----------------------------------------------------------------------------
Init ==
    /\ anPart = "none" /\ anCalls = 0 /\ anAudit = <<>> /\ anCheck = NoCheck
    /\ anRecords = [id \in AnIds |-> "none"] /\ anByTrace = [trace \in AnTraces |-> <<>>]
    /\ anThread = [t \in AnThreads |-> Idle] /\ anReturned = <<>>
    /\ anSession = [s \in AnSessions |-> Closed] /\ anEnded = <<>>
    /\ anTotals = [queries |-> 0, spans |-> 0, lost |-> 0, feedback |-> [s \in AnSessions |-> 0]]
    /\ anRun = [of |-> "none"]

Validation ==
    \/ /\ anPart = "none"   \* bound: one validation
       /\ \E text \in Texts, faults \in SUBSET {"schema", "confidence"},
             works \in SUBSET {"pii", "secret"}, correcting \in BOOLEAN : validate(text, faults, works, correcting)
    \/ _run_correction
    \/ _emit_audit_record
Recording ==
    \E t \in AnThreads :
      \/ \E id \in AnIds, trace \in AnTraces :
           \/ record(t, id, trace) \/ assess_grounding(t, id, trace) \/ explain(t, id, trace)
           \/ generate(t, "explain", id, trace, FALSE)
      \/ _emit_signed_record(t)
      \/ _sign_explain_record(t)
Session ==
    \E s \in AnSessions :
      \/ trace_query(s) \/ end_session(s) \/ submit(s)
      \/ \E chunk \in {1, 2} : trace_retrieval(s, chunk) \/ trace_generation(s, chunk)
Batch ==   \* bound: one run
  /\ anPart = "none"
  /\ \/ \E p \in DOMAIN Pipelines, failing \in SUBSET {"scan", "span", "audit", "number", "alert"}, crossed \in BOOLEAN :
           run_pipeline(p, failing, crossed)
     \/ \E one, two \in UNION {[1..n -> Scores] : n \in 0..2}, weights \in {<<1, 1>>, <<3, 1>>, <<1, 0>>} :
           get_scorecard(one, two, weights)
Next == Validation \/ Recording \/ Session \/ Batch
Spec == Init /\ [][Next]_anVars

----------------------------------------------------------------------------
AnswersTypeOK ==
    /\ anCalls \in 0..AnCap
    /\ anCheck.at \in {"none", "correcting", "closing", "done"}
    /\ anRecords \in [AnIds -> AnTraces \cup {"none"}]
    /\ anByTrace \in [AnTraces -> Seq(AnIds)]
    /\ \A t \in AnThreads : anThread[t].at \in {"idle", "emit", "sign"} /\ anThread[t].tries \in 0..AnRetries

(* Whatever the corrections did: a response passes only if schema and        *)
(* confidence were right from the start, and the text that is handed on has  *)
(* no secret the scanner could find; only a corrected text may hold personal *)
(* data (PassedTextsAreClean below); a blocked one is handed on as it came,  *)
(* and fails.                                                                *)
PassedResponsesAreChecked ==
    anCheck.at = "done" =>
      /\ anCheck.passed => /\ anCheck.faults = {}
                           /\ "secret" \in anCheck.works => anCheck.text \cap {"secret", "zero"} = {}
                           /\ "pii" \in anCheck.works /\ anCheck.passes = 0 => "pii" \notin anCheck.text
      /\ anCheck.blocked => ~anCheck.passed /\ anCheck.passes = 0 /\ anCheck.text = anCheck.first

(* An id that was used once is listed for its trace alone; each record is    *)
(* written to the log at most once for each time its id was used, and a call *)
(* of explain() adds up to AnRetries + 1 records more, at least one if the   *)
(* log took every record, for a signature it does not return.                *)
RecordsAreKept ==
    anPart \in Recorders => \A id \in AnIds :
      LET uses == MapThenSumSet(LAMBDA trace : Cardinality({i \in DOMAIN anByTrace[trace] : anByTrace[trace][i] = id}), AnTraces)
          returned == Cardinality({i \in DOMAIN anReturned : anReturned[i][1] = id})
          signing == Cardinality({t \in AnThreads : anThread[t].at = "sign" /\ anThread[t].id = id}) IN
      /\ anRecords[id] = "none" <=> uses = 0
      /\ uses = 1 => {trace \in AnTraces : id \in list_for_trace(trace)} = {anRecords[id]}
      /\ Logged(<<"record", id>>) <= uses
      /\ Logged(<<"signature", id>>) <= (AnRetries + 1) * returned + AnRetries * signing

(* Every query is in the summary of one session or in one that is open, and  *)
(* so is every generation but those of no open session.                      *)
SessionsAddUp ==
    LET Sum(f(_)) == FoldLeft(LAMBDA n, e : n + f(e), 0, anEnded) + MapThenSumSet(LAMBDA s : f(anSession[s]), AnSessions) IN
    anPart = "sessions" =>
      /\ Sum(LAMBDA e : e.queries) = anTotals.queries
      /\ Sum(LAMBDA e : e.spans) + anTotals.lost = anTotals.spans

(* A pipeline that succeeds has written its record and sent the alert it     *)
(* owed unless that failed; one that fails after its record leaves it.       *)
PipelinesAccountForTheirRecord ==
    anPart = "pipeline" /\ anCalls > 0 =>
      /\ anRun.success /\ anRun.of # "monitor" => "audit" \in anRun.done
      /\ anRun.success /\ anRun.crossed /\ "alert" \notin anRun.failing => "alert" \in anRun.done
      /\ "alert" \in anRun.done => anRun.success
      /\ "audit" \in anRun.done => Last(anAudit) = <<"pipeline", anRun.of>>

(* The overall score lies between its dimensions, and on the scale of        *)
(* fractions a better record never lowers it.                                *)
ScorecardsAreFair ==
    anRun.of = "scorecard" =>
      /\ \E i, j \in 1..2 : anRun.dims[i] <= anRun.overall /\ anRun.overall <= anRun.dims[j]
      /\ \A i \in DOMAIN anRun.one :
           anRun.one[i].scale = 1 =>
             LET better == [anRun.one EXCEPT ![i].value = 100] IN
             anRun.overall <= _weighted_average(<<_compute_dim_score(better), anRun.dims[2]>>, anRun.weights)

AnswersAreAccounted ==
    /\ PassedResponsesAreChecked /\ RecordsAreKept /\ SessionsAddUp
    /\ PipelinesAccountForTheirRecord /\ ScorecardsAreFair
(* "passed is True only when all mechanisms pass (or when remaining          *)
(* violations are resolved by correction)" (sdk/validate.py:34): a text that *)
(* passed holds no personal data that the scanner finds.  What it finds in a *)
(* corrected text is thrown away.                                            *)
PassedTextsAreClean ==
    anCheck.at = "done" /\ anCheck.passed /\ "pii" \in anCheck.works => "pii" \notin anCheck.text

----------------------------------------------------------------------------
(* docs/api/explain.md: the record that explain() returns is always signed.  *)
ExplainRecordsAreSigned == \A i \in DOMAIN anReturned : anReturned[i][2] # ""
=============================================================================
