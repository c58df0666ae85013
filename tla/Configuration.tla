--------------------------- MODULE Configuration ---------------------------
(***************************************************************************)
(* The live configuration (config.py) and what reads it while it changes:   *)
(* the sampling of events and the cached exporter (_stream.py), the         *)
(* samplers (sampling.py) and the span processors (processor.py).           *)
(* configure() sets one field at a time under a lock no reader takes, and   *)
(* discards the exporter when all of them were accepted.                    *)
(* A rate is counted in thirds, and a trace falls into a bucket 0..3.       *)
(***************************************************************************)
EXTENDS Naturals, Sequences, SequencesExt, FiniteSetsExt

CONSTANTS CfThreads, CfEvents,   \* events: their trace, status and type
          CfBucket,              \* trace -> its bucket
          CfCap                  \* bound: calls

VARIABLES cfPart,      \* history: "new", then "settings", "samplers" or "processors" is exercised
          cfConf,      \* the fields of the singleton
          cfCached,    \* the exporter that is kept: its parts, none before it is built
          cfAt,        \* thread -> where it is
          cfUsed,
          cfBroken,    \* history: what is kept was built before fields were set, and no call succeeded since
          cfFates,     \* history: the events judged
          cfBypass,    \* thread -> _bypass_active, and what it is restored to
          cfVerdicts,  \* history: the samplers' answers
          cfProcs      \* span_processors

cfVars == <<cfPart, cfConf, cfCached, cfAt, cfUsed, cfBroken, cfFates, cfBypass, cfVerdicts, cfProcs>>
Idle == [at |-> "idle"]
Full == 3
Go(t, w) == cfAt' = [cfAt EXCEPT ![t] = w]
Call(t, part) == cfPart = part /\ cfAt[t] = Idle /\ cfUsed < CfCap /\ cfUsed' = cfUsed + 1
Settings == <<cfPart, cfBypass, cfVerdicts, cfProcs>>

----------------------------------------------------------------------------
(* configure(): the preset's fields, then the arguments, in their order.     *)
Field(k, v) == [key |-> k, value |-> v]
_PRESETS == {
    <<Field("exporter", "console"), Field("sample_rate", Full), Field("on_export_error", "raise")>>,
    <<Field("exporter", "otlp"), Field("sample_rate", 1), Field("on_export_error", "drop"),
      Field("always_sample_errors", TRUE)>>,
    <<Field("exporter", "otel_bridge"), Field("sample_rate", Full)>>}
Arguments == {<<>>, <<Field("always_sample_errors", FALSE), Field("sample_rate", 2)>>,
              <<Field("exporters", <<"otlp", "jsonl">>), Field("trace_filters", <<"raising", "recorded">>)>>,
              <<Field("exporter", "jsonl"), Field("sample_rate", Full + 1)>>}
Processors == <<Field("span_processors", <<cfUsed + 1>>)>>

Configuring == \E t \in CfThreads : cfAt[t].at = "configuring"

configure(t) ==
    /\ ~Configuring
    /\ \/ /\ Call(t, "settings")
          /\ \E p \in _PRESETS \cup {<<>>}, a \in Arguments :
               /\ p = <<>> \/ a = <<>>
               /\ p \o a # <<>> /\ Go(t, [at |-> "configuring", todo |-> p \o a])
       \/ Call(t, "processors") /\ Go(t, [at |-> "configuring", todo |-> Processors])
    /\ UNCHANGED <<Settings, cfConf, cfCached, cfBroken, cfFates>>

(* A value out of range is met after the fields before it were set.          *)
Refused(f) == f.key = "sample_rate" /\ f.value > Full

(* History: an event that is being judged sees the new rate, and filters.    *)
Judging == {"judging", "rating", "reading", "filtering"}
Sees(w, f) ==
    IF w.at \in Judging /\ f.key = "sample_rate"
    THEN [w EXCEPT !.low = Min({@, f.value}), !.high = Max({@, f.value})]
    ELSE IF w.at \in Judging /\ f.key = "trace_filters" THEN [w EXCEPT !.filtered = TRUE] ELSE w

setattr(t) ==
    LET w == cfAt[t]
        f == Head(w.todo) IN
    /\ w.at = "configuring" /\ w.todo # <<>> /\ f.key # "span_processors"
    /\ IF Refused(f)
       THEN Go(t, Idle) /\ cfBroken' = TRUE /\ UNCHANGED cfConf
       ELSE /\ cfConf' = [cfConf EXCEPT ![f.key] = f.value]
            /\ cfAt' = [[u \in CfThreads |-> Sees(cfAt[u], f)] EXCEPT ![t] = [w EXCEPT !.todo = Tail(@)]]
            /\ UNCHANGED cfBroken
    /\ UNCHANGED <<Settings, cfCached, cfUsed, cfFates>>

(* A new list of processors: who walks the old one goes on with it.          *)
set_processors(t) ==
    LET w == cfAt[t] IN
    /\ w.at = "configuring" /\ w.todo # <<>> /\ Head(w.todo).key = "span_processors"
    /\ cfProcs' = Head(w.todo).value
    /\ cfAt' = [u \in CfThreads |->
         CASE u = t -> [w EXCEPT !.todo = Tail(@)]
           [] cfAt[u].at \in {"starting", "ending"} /\ ~cfAt[u].own ->
                [cfAt[u] EXCEPT !.changed = TRUE, !.own = TRUE, !.copy = cfProcs]
           [] cfAt[u].at \in {"starting", "open", "ending"} -> [cfAt[u] EXCEPT !.changed = TRUE]
           [] OTHER -> cfAt[u]]
    /\ UNCHANGED <<cfPart, cfBypass, cfVerdicts, cfConf, cfCached, cfUsed, cfBroken, cfFates>>

(* An exporter that was put in by hand: nothing else can fail to close.      *)
Other == <<"other">>

(* A mutant: the exporter outlives the call.                                 *)
WiresOnly(t) ==
    /\ cfAt[t].at = "configuring" /\ cfAt[t].todo = <<>> /\ Go(t, Idle)
    /\ cfConf' = cfConf /\ cfBroken' = FALSE
    /\ UNCHANGED <<Settings, cfCached, cfUsed, cfFates>>

(* The sampler for compliance is put in once, with the rate of that moment.  *)
(* What was kept is closed; if that fails, and failures are to be raised,    *)
(* it stays and the call raises with its fields set.                         *)
reset_exporter(t) ==
    /\ cfAt[t].at = "configuring" /\ cfAt[t].todo = <<>>
    /\ cfConf' = [cfConf EXCEPT !.sampler =
                    IF cfConf.compliance_sampling /\ cfConf.sample_rate < Full /\ @ = <<>>
                    THEN <<cfConf.sample_rate>> ELSE @]
    /\ \E fails \in IF cfCached = Other THEN BOOLEAN ELSE {FALSE} :
         IF fails /\ cfConf.on_export_error = "raise"
         THEN UNCHANGED cfCached /\ cfBroken' = TRUE /\ Go(t, Idle)
         ELSE /\ cfCached' = <<>> /\ cfBroken' = FALSE
              /\ cfAt' = [u \in CfThreads |-> CASE u = t -> Idle
                            [] cfAt[u].at = "installed" -> [cfAt[u] EXCEPT !.old = cfAt[u].original # <<>>]
                            [] OTHER -> cfAt[u]]
    /\ UNCHANGED <<Settings, cfUsed, cfFates>>

(* MockExporter.installed() puts in another exporter, and afterwards what    *)
(* was there, even if it was discarded meanwhile.                            *)
installed(t) ==
    /\ Call(t, "settings") /\ Go(t, [at |-> "installed", original |-> cfCached, old |-> FALSE])
    /\ cfCached' = Other
    /\ UNCHANGED <<Settings, cfConf, cfBroken, cfFates>>

restored(t) ==
    /\ cfAt[t].at = "installed" /\ Go(t, Idle)
    /\ cfCached' = cfAt[t].original /\ cfBroken' = (cfBroken \/ cfAt[t].old)
    /\ UNCHANGED <<Settings, cfConf, cfUsed, cfFates>>

----------------------------------------------------------------------------
(* An event is judged by fields that are read one after the other, the rate  *)
(* up to three times; without a trace by chance, and a trace whose id is no  *)
(* number is in bucket 0.                                                    *)
(* A mutant: by chance whatever the trace.                                   *)
PassesByChance(e, rate, luck) == luck

_passes_sample_rate(e, rate, luck) == IF e.trace = "" THEN luck ELSE CfBucket[e.trace] <= rate

(* The exporter the fields ask for: the tracer has no other kinds, and with  *)
(* several names it fans out.                                                *)
_build_single_exporter(name) == IF name \in {"jsonl", "sqlite", "otel_bridge"} THEN name ELSE "console"

_build_exporter ==
    IF Len(cfConf.exporters) > 1 THEN [i \in DOMAIN cfConf.exporters |-> _build_single_exporter(cfConf.exporters[i])]
    ELSE <<_build_single_exporter(cfConf.exporter)>>

Judge == UNCHANGED <<Settings, cfConf, cfBroken>>
Fate(w, kept, by) ==
    cfFates' = cfFates \cup {[event |-> w.event, kept |-> kept, low |-> w.low, high |-> w.high, filtered |-> w.filtered,
                              by |-> by, current |-> Configuring \/ by \in {<<>>, Other, _build_exporter}]}
Drop(t) == Go(t, Idle) /\ Fate(cfAt[t], FALSE, <<>>)
Move(t, at) == Go(t, [cfAt[t] EXCEPT !.at = at]) /\ UNCHANGED cfFates

judge(t, e) ==
    /\ Call(t, "settings")
    /\ Go(t, [at |-> IF cfConf.sample_rate >= Full /\ cfConf.trace_filters = <<>> THEN "exporting" ELSE "judging",
              event |-> e, low |-> cfConf.sample_rate, high |-> cfConf.sample_rate,
              filtered |-> cfConf.trace_filters # <<>>])
    /\ UNCHANGED <<cfFates, cfCached>> /\ Judge

(* Every filter must let it pass; one that raises does.                      *)
Filtered(e) == \E i \in DOMAIN cfConf.trace_filters : cfConf.trace_filters[i] = "recorded" /\ ~e.recorded

_should_emit(t) ==
    LET w == cfAt[t] IN
    /\ \/ w.at = "judging" /\ Move(t, IF cfConf.always_sample_errors /\ w.event.error THEN "exporting" ELSE "rating")
       \/ w.at = "rating" /\ Move(t, IF cfConf.sample_rate < Full THEN "reading" ELSE "filtering")
       \/ /\ w.at = "reading"
          /\ \E luck \in BOOLEAN : IF _passes_sample_rate(w.event, cfConf.sample_rate, luck)
                                   THEN Move(t, "filtering") ELSE Drop(t)
       \/ w.at = "filtering" /\ IF Filtered(w.event) THEN Drop(t) ELSE Move(t, "exporting")
    /\ UNCHANGED <<cfUsed, cfCached>> /\ Judge

(* The exporter is built, under its lock, from the fields as they are.       *)
_active_exporter(t) ==
    /\ cfAt[t].at = "exporting" /\ Go(t, Idle)
    /\ cfCached' = IF cfCached = <<>> THEN _build_exporter ELSE cfCached
    /\ Fate(cfAt[t], TRUE, cfCached')
    /\ UNCHANGED cfUsed /\ Judge

----------------------------------------------------------------------------
(* The samplers.  Nobody but their callers asks them: the one in the         *)
(* configuration is not consulted.                                           *)
RatioSampler(rate, e) ==
    rate >= Full \/ (rate > 0 /\ (e.trace = "" \/ CfBucket[e.trace] < rate))

ComplianceSampler(rate, e, bypass, luck) ==
    bypass \/ e.recorded \/ rate >= Full
    \/ (rate > 0 /\ IF e.trace = "" THEN luck ELSE CfBucket[e.trace] < rate)

ParentBasedSampler(rate, e) ==
    CASE e.traceparent \in {"sampled", "dropped", "corrupt"} -> e.traceparent = "sampled"
      [] e.child -> TRUE
      [] OTHER -> RatioSampler(rate, e)

(* The first rule that matches decides: here, to drop one type.              *)
RuleBasedSampler(rate, e) == ~e.recorded \/ rate = Full

(* A mutant: what is slow or failed is left to the fallback.                 *)
FallsBack(rate, e) == RatioSampler(rate, e)

TailBasedSampler(rate, e) == e.error \/ RatioSampler(rate, e)

should_sample(s, e, bypass, luck) ==
    CASE s.kind = "ratio"      -> RatioSampler(s.rate, e)
      [] s.kind = "compliance" -> ComplianceSampler(s.rate, e, bypass, luck)
      [] s.kind = "parent"     -> ParentBasedSampler(s.rate, e)
      [] s.kind = "rules"      -> RuleBasedSampler(s.rate, e)
      [] s.kind = "tail"       -> TailBasedSampler(s.rate, e)

Samplers == [kind : {"ratio", "compliance"}, rate : {0, 1, Full}] \cup [kind : {"parent", "rules", "tail"}, rate : {1}]

ask(t) ==
    /\ Call(t, "samplers") /\ Cardinality(cfVerdicts) < 2
    /\ \E s \in Samplers, e \in CfEvents, luck \in BOOLEAN :
         cfVerdicts' = cfVerdicts \cup {[sampler |-> s, event |-> e, bypass |-> cfBypass[t].now,
                                         kept |-> should_sample(s, e, cfBypass[t].now, luck)]}
    /\ UNCHANGED <<cfPart, cfConf, cfCached, cfAt, cfBroken, cfFates, cfBypass, cfProcs>>

(* with bypass_sampling(), which may be nested.                              *)
bypass_sampling(t) ==
    /\ cfPart = "samplers"
    /\ LET b == cfBypass[t] IN
       \/ /\ Len(b.before) < 2
          /\ cfBypass' = [cfBypass EXCEPT ![t] = [now |-> TRUE, before |-> Append(b.before, b.now)]]
       \/ /\ b.before # <<>>
          /\ cfBypass' = [cfBypass EXCEPT ![t] = [now |-> Last(b.before), before |-> Front(b.before)]]
    /\ UNCHANGED <<cfPart, cfConf, cfCached, cfAt, cfUsed, cfBroken, cfFates, cfVerdicts, cfProcs>>

----------------------------------------------------------------------------
(* Span processors: the list itself is walked, so what is added meanwhile is *)
(* called too, and after a clear() the walk ends or skips; a list that       *)
(* configure() replaced is walked to its end.  A ProcessorChain walks a copy.*)
Reader == <<cfPart, cfConf, cfCached, cfBroken, cfFates, cfBypass, cfVerdicts>>

ProcessorChain(w) == IF w.own THEN w.copy ELSE cfProcs

open_span(t) ==
    /\ Call(t, "processors")
    /\ \E chain \in BOOLEAN :
         Go(t, [at |-> "starting", next |-> 1, told |-> {}, ended |-> <<>>, changed |-> FALSE,
                chain |-> chain, own |-> chain, copy |-> IF chain THEN cfProcs ELSE <<>>])
    /\ UNCHANGED <<Reader, cfProcs>>

_run_on_start(t) ==
    LET w == cfAt[t]
        procs == ProcessorChain(w) IN
    /\ w.at = "starting"
    /\ Go(t, IF w.next > Len(procs) THEN [w EXCEPT !.at = "open"]
             ELSE [w EXCEPT !.next = @ + 1, !.told = @ \cup {procs[w.next]}])
    /\ UNCHANGED <<Reader, cfUsed, cfProcs>>

close_span(t) ==
    /\ cfAt[t].at = "open"
    /\ Go(t, [cfAt[t] EXCEPT !.at = "ending", !.next = 1, !.own = cfAt[t].chain, !.copy = IF cfAt[t].chain THEN cfProcs ELSE <<>>])
    /\ UNCHANGED <<Reader, cfUsed, cfProcs>>

(* A mutant: an end is told until one processor raises.                      *)
EndsAtTheFirst(t) ==
    LET w == cfAt[t]
        procs == ProcessorChain(w) IN
    /\ w.at = "ending"
    /\ Go(t, IF w.next > Len(procs) \/ w.next > 1 THEN [w EXCEPT !.at = "told"]
             ELSE [w EXCEPT !.next = @ + 1, !.ended = Append(@, procs[w.next])])
    /\ UNCHANGED <<Reader, cfUsed, cfProcs>>

(* One that raises stops none of the others.                                 *)
_run_on_end(t) ==
    LET w == cfAt[t]
        procs == ProcessorChain(w) IN
    /\ w.at = "ending"
    /\ Go(t, IF w.next > Len(procs) THEN [w EXCEPT !.at = "told"]
             ELSE [w EXCEPT !.next = @ + 1, !.ended = Append(@, procs[w.next])])
    /\ UNCHANGED <<Reader, cfUsed, cfProcs>>

emit(t) == cfAt[t].at = "told" /\ Go(t, Idle) /\ UNCHANGED <<Reader, cfUsed, cfProcs>>

add_processor(t) ==
    /\ Call(t, "processors") /\ Len(cfProcs) < 3 /\ cfProcs' = Append(cfProcs, cfUsed + 1)
    /\ UNCHANGED <<Reader, cfAt>>

clear_processors(t) ==
    /\ Call(t, "processors") /\ cfProcs' = <<>>
    /\ cfAt' = [u \in CfThreads |-> IF cfAt[u].at \in {"idle", "configuring"} THEN cfAt[u] ELSE [cfAt[u] EXCEPT !.changed = TRUE]]
    /\ UNCHANGED Reader

----------------------------------------------------------------------------
(* The fields start from the environment; a rate is clamped.                 *)
_load_from_env ==
    /\ cfPart = "new"
    /\ \E rate \in {0, 1, Full}, compliance \in BOOLEAN :
         /\ cfConf' = [cfConf EXCEPT !.sample_rate = rate, !.compliance_sampling = compliance]
         /\ cfPart' \in IF rate = Full /\ compliance THEN {"settings", "samplers", "processors"} ELSE {"settings"}
    /\ UNCHANGED <<cfCached, cfAt, cfUsed, cfBroken, cfFates, cfBypass, cfVerdicts, cfProcs>>

Init ==
    /\ cfPart = "new"
    /\ cfConf = [exporter |-> "console", exporters |-> <<>>, sample_rate |-> Full, always_sample_errors |-> TRUE,
                 trace_filters |-> <<>>, on_export_error |-> "warn", compliance_sampling |-> TRUE, sampler |-> <<>>]
    /\ cfCached = <<>> /\ cfAt = [t \in CfThreads |-> Idle] /\ cfUsed = 0
    /\ cfBroken = FALSE /\ cfFates = {} /\ cfVerdicts = {} /\ cfProcs = <<>>
    /\ cfBypass = [t \in CfThreads |-> [now |-> FALSE, before |-> <<>>]]

Next == _load_from_env \/ \E t \in CfThreads :
    \/ configure(t) \/ setattr(t) \/ set_processors(t) \/ reset_exporter(t) \/ installed(t) \/ restored(t)
    \/ (\E e \in CfEvents : judge(t, e)) \/ _should_emit(t) \/ _active_exporter(t)
    \/ ask(t) \/ bypass_sampling(t)
    \/ open_span(t) \/ _run_on_start(t) \/ close_span(t) \/ _run_on_end(t) \/ emit(t)
    \/ add_processor(t) \/ clear_processors(t)
Spec == Init /\ [][Next]_cfVars

----------------------------------------------------------------------------
ConfigurationTypeOK ==
    /\ ToSet(cfCached) \subseteq {"console", "jsonl", "sqlite", "otel_bridge", "other"} /\ cfUsed \in 0..CfCap
    /\ cfConf.sample_rate \in 0..Full /\ Len(cfConf.sampler) <= 1
    /\ \A t \in CfThreads : cfAt[t].at \in
         Judging \cup {"idle", "configuring", "installed", "exporting", "starting", "open", "ending", "told"}

(* Whoever builds an exporter amid a configure(), the one that is kept after *)
(* a call is of the configuration; only a call that raised half-way, or      *)
(* another exporter taken out again after a call, leaves one that is not.    *)
ExporterFollowsTheFields ==
    cfCached \notin {<<>>, Other, _build_exporter} => Configuring \/ cfBroken

(* Every event is judged by a rate that was configured while it was judged,  *)
(* and by its trace: if an event was kept at some rate, no event of that     *)
(* trace is dropped at that rate or a higher one, unless the first had       *)
(* failed or the second met filters.                                         *)
TracesAreWhole ==
    \A f, g \in cfFates :
      f.event.trace # "" /\ f.event.trace = g.event.trace /\ f.high <= g.low /\ f.kept /\ ~f.event.error
        => g.kept \/ g.filtered

(* The samplers agree likewise: a trace is kept whole, with more of a higher *)
(* rate; what failed and what must be recorded is kept at any rate.          *)
SamplersAgree ==
    \A v, w \in cfVerdicts :
      /\ v.sampler.kind = "ratio" /\ w.sampler.kind = "ratio" /\ v.event.trace = w.event.trace
         /\ v.sampler.rate <= w.sampler.rate /\ v.kept => w.kept
      /\ v.sampler.kind = "tail" /\ v.event.error => v.kept
      /\ v.sampler.kind = "compliance" /\ (v.event.recorded \/ v.bypass) => v.kept
      /\ v.sampler.kind = "ratio" /\ w.sampler.kind = "compliance" /\ v.sampler.rate = w.sampler.rate
         /\ v.event = w.event /\ v.event.trace # "" /\ ~w.bypass /\ w.kept /\ ~w.event.recorded => v.kept

(* A processor that was told of a span's start is told of its end, and once, *)
(* unless the list was cleared or replaced in between.                       *)
ProcessorsSeeBothEnds ==
    \A t \in CfThreads : cfAt[t].at = "told" =>
      /\ \A i, j \in DOMAIN cfAt[t].ended : cfAt[t].ended[i] = cfAt[t].ended[j] => i = j
      /\ cfAt[t].changed \/ cfAt[t].told \subseteq ToSet(cfAt[t].ended)

(* Each of the above.                                                        *)
ConfigurationHolds ==
    ExporterFollowsTheFields /\ TracesAreWhole /\ SamplersAgree /\ ProcessorsSeeBothEnds

----------------------------------------------------------------------------
(* docs/api/config.md: with compliance_sampling, which is on by default, an  *)
(* event that compliance asks for is always recorded.                        *)
CompliantEventsAreKept ==
    cfConf.compliance_sampling => \A f \in cfFates : f.event.recorded => f.kept

(* config.py:368: the configuration is live, modifications to it affect all  *)
(* subsequent operations of the tracer: an event that is exported while      *)
(* nobody configures goes where the fields say.                              *)
FieldsAffectWhatFollows == \A f \in cfFates : f.current
=============================================================================
