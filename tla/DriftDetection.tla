---------------------------- MODULE DriftDetection ----------------------------
(***************************************************************************)
(* Behavioural drift: baselines (baseline.py), the sliding window detector  *)
(* (drift.py), regressions between two runs (regression.py) and latency     *)
(* statistics (stats.py).                                                   *)
(*                                                                          *)
(* Samples are small integers and every mean, variance and percentile is    *)
(* compared exactly, as a fraction; -1 stands for an absent field.          *)
(***************************************************************************)
EXTENDS Integers, Sequences, FiniteSets, SequencesExt

CONSTANTS DdThreads,     \* callers of record()
          DdOps,         \* operations, decision types and tool names
          DdEvents,      \* the events that are recorded
          DdStreams,     \* the event streams baselines are built from
          DdMinSamples,  \* _MIN_WINDOW_SAMPLES (10 in the code)
          window_size,
          z_threshold,   \* in whole standard deviations
          metric_ttl,    \* metric_ttl_seconds
          DdCalls,       \* bound: results and resets
          DdEnd          \* bound: the clock

VARIABLES ddBaseline,    \* DriftDetector._baseline, <<>> before it is built
          ddFit,         \* the baseline a fit() has yet to store the rest of
          ddWindow,      \* _windows: metric -> samples, <<>> without a window
          ddBreach,      \* _in_breach: the metrics in breach
          ddSeen,        \* _last_seen: metric -> time
          ddNow,         \* time.monotonic()
          ddHeld,        \* thread -> results record() has yet to emit
          ddDecided,     \* what was decided, with the metrics forgotten
          ddEmitted,     \* positions of ddDecided, as emitted
          ddLost,        \* positions whose emission failed
          ddOverlap      \* two threads held results at once

driftVars == <<ddBaseline, ddFit, ddWindow, ddBreach, ddSeen, ddNow, ddHeld,
               ddDecided, ddEmitted, ddLost, ddOverlap>>

Tokens == <<"tokens", "">>
Metrics == {Tokens} \cup ({"latency", "confidence"} \X DdOps)
NoSamples == [m \in Metrics |-> <<>>]

(***************************************************************************)
(* Statistics                                                               *)
(***************************************************************************)
Total(s) == FoldLeft(LAMBDA a, x : a + x, 0, s)
Sorted(s) == SortSeq(s, LAMBDA x, y : x < y)

(* A mutant of percentile: the neighbour is taken below, not above. *)
PercentileBelow(values, p) ==
    LET s == Sorted(values)
        lo == (p * (Len(s) - 1)) \div 100
        frac == (p * (Len(s) - 1)) % 100
    IN IF s = <<>> THEN 0
       ELSE IF lo = 0 THEN 100 * s[1]
       ELSE s[lo + 1] * (100 - frac) + s[lo] * frac

(* _percentile, percentile: linear interpolation, in hundredths. *)
percentile(values, p) ==
    LET s == Sorted(values)
        lo == (p * (Len(s) - 1)) \div 100
        frac == (p * (Len(s) - 1)) % 100
    IN IF s = <<>> THEN 0
       ELSE IF lo + 2 > Len(s) THEN 100 * Last(s)
       ELSE s[lo + 1] * (100 - frac) + s[lo + 2] * frac

(* DistributionStats.from_samples: mean and variance as fractions; fewer    *)
(* than two samples have no deviation, none at all a mean of zero.          *)
from_samples(s) ==
    LET n == Len(s)
        squares == FoldLeft(LAMBDA a, x : a + x * x, 0, s)
    IN [sample_count |-> n,
        mean     |-> <<Total(s), IF n = 0 THEN 1 ELSE n>>,
        variance |-> IF n < 2 THEN <<0, 1>> ELSE <<n * squares - Total(s) * Total(s), n * (n - 1)>>]
Percentiles(s) == [p50 |-> percentile(s, 50), p95 |-> percentile(s, 95), p99 |-> percentile(s, 99)]

latency_summary(s) ==
    IF s = <<>> THEN [count |-> 0, min |-> 0, max |-> 0, stats |-> from_samples(s) @@ Percentiles(s)]
    ELSE [count |-> Len(s), min |-> Sorted(s)[1], max |-> Last(Sorted(s)),
          stats |-> from_samples(s) @@ Percentiles(s)]

(* RegressionDetector.compare: of several results with one key the last     *)
(* counts; a key of one run only is ignored.                                *)
Latest(run, key) == LET mine == SelectSeq(run, LAMBDA r : r.key = key) IN mine[Len(mine)]
Keys(run) == {run[i].key : i \in DOMAIN run}
compare(baseline, current, score_drop_threshold) ==
    LET both == Keys(baseline) \cap Keys(current)
        failures == {k \in both : Latest(baseline, k).passed /\ ~Latest(current, k).passed}
    IN [new_failures |-> failures,
        score_drops  |-> {k \in both \ failures :
            Latest(baseline, k).score - Latest(current, k).score >= score_drop_threshold}]

(***************************************************************************)
(* Baselines                                                                *)
(***************************************************************************)
(* _extract_metric_observations, and the same branches of from_events: a    *)
(* span yields tokens, if any were used, and latency; other events one.     *)
_extract_metric_observations(e) ==
    LET latency == IF e.latency = -1 THEN <<>> ELSE <<<<<<"latency", e.op>>, e.latency>>>>
    IN CASE e.type = "span" -> (IF e.total > 0 THEN <<<<Tokens, e.total>>>> ELSE <<>>) \o latency
         [] e.type = "confidence" ->
              IF e.score = -1 THEN <<>> ELSE <<<<<<"confidence", e.op>>, e.score>>>>
         [] e.type \in {"latency", "tool_call"} -> latency
         [] OTHER -> <<>>

(* fit: a raw observation; a token count of zero is a sample here. *)
FittedObservations(e) ==
    (IF e.total = -1 THEN <<>> ELSE <<<<Tokens, e.total>>>>)
        \o (IF e.latency = -1 THEN <<>> ELSE <<<<<<"latency", e.op>>, e.latency>>>>)
        \o (IF e.score = -1 THEN <<>> ELSE <<<<<<"confidence", e.op>>, e.score>>>>)

Collected(observations) ==
    FoldLeft(LAMBDA samples, o : [samples EXCEPT ![o[1]] = Append(@, o[2])], NoSamples, observations)
Times(stream, types) == [op \in DdOps |->
    Cardinality({i \in DOMAIN stream : stream[i].op = op /\ stream[i].type \in types})]

(* from_events: the rates are kept as counts over the stream. *)
from_events(stream) ==
    [samples |-> Collected(FlattenSeq([i \in DOMAIN stream |-> _extract_metric_observations(stream[i])])),
     tool_rate |-> Times(stream, {"tool_call"}), decision_rate |-> Times(stream, {"decision"}),
     event_count |-> Len(stream)]
(* fit counts every observation with a decision type as a decision. *)
Fitted(stream) ==
    [samples |-> Collected(FlattenSeq([i \in DOMAIN stream |-> FittedObservations(stream[i])])),
     tool_rate |-> Times(stream, {"tool_call"}),
     decision_rate |-> Times(stream, {"decision", "confidence"}),
     event_count |-> Len(stream)]

build_baseline(stream) ==
    /\ ddBaseline = <<>>
    /\ ddBaseline' = <<from_events(stream)>>
    /\ UNCHANGED <<ddFit, ddWindow, ddBreach, ddSeen, ddNow, ddHeld, ddDecided, ddEmitted,
                   ddLost, ddOverlap>>

(* fit() changes the baseline a detector reads, attribute by attribute and  *)
(* without the detector's lock: the tokens, then the others.                *)
fit(stream) ==
    /\ ddBaseline # <<>> /\ ddFit = <<>>
    /\ ddFit' = <<Fitted(stream)>>
    /\ ddBaseline' = [ddBaseline EXCEPT ![1].samples[Tokens] = Fitted(stream).samples[Tokens]]
    /\ UNCHANGED <<ddWindow, ddBreach, ddSeen, ddNow, ddHeld, ddDecided, ddEmitted, ddLost, ddOverlap>>

fit_the_rest ==
    /\ ddFit # <<>> /\ ddBaseline # ddFit
    /\ ddBaseline' = ddFit
    /\ UNCHANGED <<ddFit, ddWindow, ddBreach, ddSeen, ddNow, ddHeld, ddDecided, ddEmitted,
                   ddLost, ddOverlap>>

(* _get_baseline_stats: tokens always have one, be it of no samples; for    *)
(* the others see Status.                                                   *)
_get_baseline_stats(m) == from_samples(ddBaseline[1].samples[m])

(***************************************************************************)
(* The detector                                                             *)
(***************************************************************************)
Init == /\ ddBaseline = <<>> /\ ddFit = <<>>
        /\ ddWindow = NoSamples /\ ddBreach = {}
        /\ ddSeen = [m \in Metrics |-> -1] /\ ddNow = 0
        /\ ddHeld = [t \in DdThreads |-> <<>>]
        /\ ddDecided = <<>> /\ ddEmitted = <<>> /\ ddLost = {} /\ ddOverlap = FALSE

Square(x) == x * x
(* |window mean - baseline mean| >= k/3 * z_threshold * deviation; without  *)
(* a deviation (1e-9 then) every difference is beyond it.                   *)
Deviates(w, b, k) ==
    LET difference == w.mean[1] * b.mean[2] - b.mean[1] * w.mean[2]
    IN IF b.variance[1] = 0 THEN difference # 0
       ELSE 9 * Square(difference) * b.variance[2]
                >= Square(k * z_threshold) * b.variance[1] * Square(w.mean[2] * b.mean[2])

SameFraction(f, g) == f[1] * g[2] = g[1] * f[2]
(* _kl_divergence_gaussian: none unless both deviate, zero for equal        *)
(* Gaussians; its logarithm is not computed, so that any other pair may     *)
(* exceed kl_threshold or not.                                              *)
KlPossible(w, b) ==
    /\ w.variance[1] > 0 /\ b.variance[1] > 0
    /\ ~(SameFraction(w.mean, b.mean) /\ SameFraction(w.variance, b.variance))

(* _assess, after the window: what the detector says of a metric; nothing   *)
(* of a short window or without a baseline.                                 *)
Judged(w, b, breached, kl) ==
    CASE Deviates(w, b, 3) \/ (kl /\ KlPossible(w, b)) -> "threshold_breach"
      [] breached           -> "resolved"
      [] Deviates(w, b, 2)  -> "detected"
      [] OTHER              -> "ok"
Status(m, window, breached, kl) ==
    IF Len(window) < DdMinSamples \/ (m # Tokens /\ ddBaseline[1].samples[m] = <<>>) THEN "none"
    ELSE Judged(from_samples(window), _get_baseline_stats(m), breached, kl)

NewWindow(window, v) == IF Len(window) < window_size THEN Append(window, v)
                        ELSE Append(Tail(window), v)

(* A mutant of _evict_stale: the breach state stays behind. *)
EvictWindows(d) ==
    LET stale == {m \in Metrics : d.seen[m] # -1 /\ d.seen[m] < ddNow - metric_ttl}
    IN [window |-> [m \in Metrics |-> IF m \in stale THEN <<>> ELSE d.window[m]],
        breach |-> d.breach,
        seen   |-> [m \in Metrics |-> IF m \in stale THEN -1 ELSE d.seen[m]],
        log    |-> d.log \o SetToSeq({[metric |-> m, status |-> "forgotten"] : m \in stale})]

(* _evict_stale: window, breach and time of a metric unseen for the ttl go. *)
_evict_stale(d) ==
    LET stale == {m \in Metrics : d.seen[m] # -1 /\ d.seen[m] < ddNow - metric_ttl}
    IN [window |-> [m \in Metrics |-> IF m \in stale THEN <<>> ELSE d.window[m]],
        breach |-> d.breach \ stale,
        seen   |-> [m \in Metrics |-> IF m \in stale THEN -1 ELSE d.seen[m]],
        log    |-> d.log \o SetToSeq({[metric |-> m, status |-> "forgotten"] : m \in stale})]

(* _assess: the window, the time, the eviction, then the status. *)
Report(d, m, status) ==
    [d EXCEPT !.breach = CASE status = "threshold_breach" -> @ \cup {m}
                           [] status = "resolved"         -> @ \ {m}
                           [] OTHER                       -> @,
              !.log = IF status \in {"none", "ok"} THEN @
                      ELSE Append(@, [metric |-> m, status |-> status])]
Assessed(d, m, kl) == Report(d, m, Status(m, d.window[m], m \in d.breach, kl))
_assess(d, m, v, kl) ==
    Assessed(_evict_stale([d EXCEPT !.window[m] = NewWindow(@, v), !.seen[m] = ddNow]), m, kl)

(* record: the observations are assessed under the lock; the results are    *)
(* emitted, by _emit_results, after it.                                     *)
record(t, e, kl) ==
    LET before == [window |-> ddWindow, breach |-> ddBreach, seen |-> ddSeen, log |-> ddDecided]
        after == FoldLeft(LAMBDA d, o : _assess(d, o[1], o[2], kl), before,
                          _extract_metric_observations(e))
        results == SelectSeq([i \in 1..Len(after.log) |-> i],
                       LAMBDA i : i > Len(ddDecided) /\ after.log[i].status # "forgotten")
    IN /\ ddBaseline # <<>> /\ ddHeld[t] = <<>> /\ Len(ddDecided) < DdCalls
       /\ ddWindow' = after.window /\ ddBreach' = after.breach /\ ddSeen' = after.seen
       /\ ddDecided' = after.log
       /\ ddHeld' = [ddHeld EXCEPT ![t] = results]
       /\ ddOverlap' = (ddOverlap \/ (results # <<>> /\ \E u \in DdThreads \ {t} : ddHeld[u] # <<>>))
       /\ UNCHANGED <<ddBaseline, ddFit, ddNow, ddEmitted, ddLost>>

(* _emit_results, one result: an emission that fails is not tried again. *)
_emit_results(t) ==
    /\ ddHeld[t] # <<>>
    /\ ddHeld' = [ddHeld EXCEPT ![t] = Tail(@)]
    /\ \/ ddEmitted' = Append(ddEmitted, ddHeld[t][1]) /\ UNCHANGED ddLost
       \/ ddLost' = ddLost \cup {ddHeld[t][1]} /\ UNCHANGED ddEmitted
    /\ UNCHANGED <<ddBaseline, ddFit, ddWindow, ddBreach, ddSeen, ddNow, ddDecided, ddOverlap>>

(* reset_window: windows and breaches of the metrics go, nothing is         *)
(* reported, and the times they were seen stay.                             *)
reset_window(ms) ==
    /\ Len(ddDecided) < DdCalls /\ \E m \in ms : ddWindow[m] # <<>>
    /\ ddWindow' = [m \in Metrics |-> IF m \in ms THEN <<>> ELSE ddWindow[m]]
    /\ ddBreach' = ddBreach \ ms
    /\ ddDecided' = ddDecided \o SetToSeq({[metric |-> m, status |-> "forgotten"] :
                                             m \in {k \in ms : ddWindow[k] # <<>>}})
    /\ UNCHANGED <<ddBaseline, ddFit, ddSeen, ddNow, ddHeld, ddEmitted, ddLost, ddOverlap>>

tick == /\ ddNow < DdEnd /\ ddNow' = ddNow + 1
        /\ UNCHANGED <<ddBaseline, ddFit, ddWindow, ddBreach, ddSeen, ddHeld, ddDecided,
                       ddEmitted, ddLost, ddOverlap>>

Next == \/ \E s \in DdStreams : build_baseline(s) \/ fit(s)
        \/ fit_the_rest
        \/ \E t \in DdThreads :
             (\E e \in DdEvents, kl \in BOOLEAN : record(t, e, kl)) \/ _emit_results(t)
        \/ \E ms \in {{m} : m \in Metrics} \cup {Metrics} : reset_window(ms)
        \/ tick

Spec == Init /\ [][Next]_driftVars

Statuses == {"detected", "threshold_breach", "resolved", "forgotten"}
DriftTypeOK ==
    /\ ddWindow \in [Metrics -> Seq(Int)] /\ ddBreach \subseteq Metrics
    /\ ddSeen \in [Metrics -> -1..DdEnd] /\ ddNow \in 0..DdEnd
    /\ ddHeld \in [DdThreads -> Seq(1..Len(ddDecided))]
    /\ ddDecided \in Seq([metric : Metrics, status : Statuses])
    /\ Range(ddEmitted) \cup ddLost \subseteq 1..Len(ddDecided)

(***************************************************************************)
(* Properties                                                               *)
(***************************************************************************)
(* The decision on m before position i, other than a mere detection. *)
Before(m, i) ==
    LET earlier == {j \in 1..(i - 1) : ddDecided[j].metric = m /\ ddDecided[j].status # "detected"}
    IN IF earlier = {} THEN "forgotten" ELSE ddDecided[CHOOSE j \in earlier : \A k \in earlier : k <= j].status

(* The breach state is the last decision on each metric, across evictions,  *)
(* resets and a baseline that changes underneath; "resolved" is said only   *)
(* of a breach that was reported and not forgotten, and "detected" never    *)
(* during one.                                                              *)
BreachesAreReported ==
    /\ \A m \in Metrics : m \in ddBreach <=> Before(m, Len(ddDecided) + 1) = "threshold_breach"
    /\ \A i \in DOMAIN ddDecided :
         /\ ddDecided[i].status = "resolved" => Before(ddDecided[i].metric, i) = "threshold_breach"
         /\ ddDecided[i].status = "detected" => Before(ddDecided[i].metric, i) # "threshold_breach"

(* Each result is emitted once, lost to a failed emission, or still held;   *)
(* as long as no two threads held results together they leave in the order  *)
(* in which they were decided.                                              *)
ResultsLeaveOnce ==
    LET held(i) == Cardinality({t \in DdThreads : Contains(ddHeld[t], i)})
        sent(i) == Cardinality({k \in DOMAIN ddEmitted : ddEmitted[k] = i})
    IN /\ \A i \in DOMAIN ddDecided :
            held(i) + sent(i) + (IF i \in ddLost THEN 1 ELSE 0)
              = IF ddDecided[i].status = "forgotten" THEN 0 ELSE 1
       /\ ddOverlap \/ \A k \in 1..(Len(ddEmitted) - 1) : ddEmitted[k] < ddEmitted[k + 1]

(* The memory is bounded: no window exceeds its size, and after a record no *)
(* metric that was unseen for the ttl still has a window or a breach.       *)
StaleMetricsGo ==
    LET latest == CHOOSE s \in {ddSeen[m] : m \in Metrics} : \A m \in Metrics : ddSeen[m] <= s
    IN \A m \in Metrics : /\ Len(ddWindow[m]) <= window_size
                          /\ ddWindow[m] # <<>> \/ m \in ddBreach =>
                                 ddSeen[m] # -1 /\ ddSeen[m] >= latest - metric_ttl

(* Percentiles are ordered and lie within the samples; a baseline built     *)
(* from events and one fitted to the same observations agree unless a token *)
(* count is zero.                                                           *)
StatisticsAreOrdered ==
    /\ \A s \in UNION {[1..n -> 1..3] : n \in 1..4} :
         LET l == latency_summary(s)
         IN /\ 100 * l.min <= l.stats.p50 /\ l.stats.p50 <= l.stats.p95
            /\ l.stats.p95 <= l.stats.p99 /\ l.stats.p99 <= 100 * l.max
            /\ l.stats.variance[1] = 0 <=> l.min = l.max
    /\ \A s \in DdStreams : (\A i \in DOMAIN s : s[i].total # 0)
                              => from_events(s).samples = Fitted(s).samples

(* A run shows no regression against itself, whatever keys it repeats, nor  *)
(* against a run with an empty history, and a wider threshold never adds    *)
(* one.                                                                     *)
RegressionsAreReal ==
    LET Runs == UNION {[1..n -> [key : {"k", "l"}, passed : BOOLEAN, score : 0..1]] : n \in 0..2}
    IN \A a \in Runs :
         /\ compare(a, a, 1) = [new_failures |-> {}, score_drops |-> {}]
         /\ \A b \in Runs :
              /\ compare(a, b, 2).score_drops \subseteq compare(a, b, 1).score_drops
              /\ compare(a, b, 1).new_failures \cap compare(b, a, 1).new_failures = {}

DriftIsAccounted ==
    /\ BreachesAreReported /\ ResultsLeaveOnce /\ StaleMetricsGo
    /\ ddBaseline = <<>> /\ ddNow = 0 => StatisticsAreOrdered /\ RegressionsAreReal
=============================================================================
