----------------------------- MODULE TraceContext -----------------------------
(***************************************************************************)
(* Spans, agent runs and agent steps (_span.py, _trace.py, trace.py), as    *)
(* tasks open and close them.  Each task has its own context: a stack of    *)
(* open spans and a stack of open runs, both copied when a task is spawned  *)
(* and both put back, on exit, to what they were on entry.                  *)
(***************************************************************************)
EXTENDS Naturals, Sequences, FiniteSets, SequencesExt

CONSTANTS TrTasks, TrMain,          \* tasks, and the one that exists at start
          TrSpanCap, TrRunCap, TrStepCap,  \* bounds: spans, runs, steps ever opened
          TrNested                  \* trace handles are ended innermost first

VARIABLES trSpans,   \* spans by creation
          trRuns,    \* agent runs by creation
          trSteps,   \* agent steps by creation
          trStacks,  \* task -> its context (_span_stack_var, _run_stack_var)
          trBlocks,  \* task -> what it has open, with the stack to restore
          trLive     \* tasks spawned so far

traceVars == <<trSpans, trRuns, trSteps, trStacks, trBlocks, trLive>>

Span == [trace : {"remote", "run", "span"} \X Nat, parent : Nat, run : Nat,
         open : BOOLEAN, status : {"ok", "error"}]
AgentStepContext == [run : Nat, index : Nat, open : BOOLEAN]
(* What a run counts: the steps recorded in it, the costs its nested runs   *)
(* rolled up, the totals it emitted; "due", the steps whose cost had come   *)
(* up to the run when it ended, is history.                                 *)
AgentRunContext == [outer : Nat, open : BOOLEAN, next : Nat, own : Nat,
                    rolled : Nat, emitted : Nat, spans : Seq(Nat),
                    due : SUBSET Nat]

Top(stack) == IF stack = <<>> THEN 0 ELSE Last(stack)

Init == /\ trSpans = <<>> /\ trRuns = <<>> /\ trSteps = <<>>
        /\ trStacks = [t \in TrTasks |-> [spans |-> <<>>, runs |-> <<>>]]
        /\ trBlocks = [t \in TrTasks |-> <<>>]
        /\ trLive = {TrMain}

Opened(t, kind, id, saved) ==
    trBlocks' = [trBlocks EXCEPT ![t] =
        Append(@, [kind |-> kind, id |-> id, saved |-> saved])]

(* A task created inside another, or copy_context: it starts from a copy.   *)
copy_context(t, u) ==
    /\ t \in trLive /\ u \notin trLive
    /\ trLive' = trLive \cup {u}
    /\ trStacks' = [trStacks EXCEPT ![u] = trStacks[t]]
    /\ UNCHANGED <<trSpans, trRuns, trSteps, trBlocks>>

(* _parse_traceparent: four fields, version 00, hexadecimal ids, none zero. *)
NoHeader == [fields |-> 0, version |-> "", hex |-> FALSE, zero |-> FALSE]
TrHeaders == {NoHeader, [fields |-> 4, version |-> "00", hex |-> TRUE, zero |-> FALSE],
              [fields |-> 4, version |-> "00", hex |-> TRUE, zero |-> TRUE]}
parse_traceparent(h) == h.fields = 4 /\ h.version = "00" /\ h.hex /\ ~h.zero

(* SpanContextManager.__enter__: the enclosing span gives trace and parent; *)
(* else a valid traceparent header does; else the innermost run, or a fresh *)
(* trace id.                                                                *)
enter_span(t, header) ==
    /\ t \in trLive /\ Len(trSpans) < TrSpanCap
    /\ LET st == trStacks[t]
           n == Len(trSpans) + 1
           parent == Top(st.spans)
           run == Top(st.runs)
           trace == CASE parent # 0 -> trSpans[parent].trace
                      [] parent = 0 /\ parse_traceparent(header) -> <<"remote", 0>>
                      [] parent = 0 /\ ~parse_traceparent(header) /\ run # 0
                           -> <<"run", run>>
                      [] OTHER -> <<"span", n>>
       IN /\ trSpans' = Append(trSpans, [trace |-> trace, parent |-> parent,
                             run |-> run, open |-> TRUE, status |-> "ok"])
          /\ trStacks' = [trStacks EXCEPT ![t].spans = Append(@, n)]
          /\ Opened(t, "span", n, st.spans)
    /\ UNCHANGED <<trRuns, trSteps, trLive>>

Innermost(t, kind) == /\ trBlocks[t] # <<>>
                      /\ Last(trBlocks[t]).kind = kind

(* SpanContextManager.__exit__ and emit_span: record the exception, end,    *)
(* restore the stack, and hand the span to the collector of the innermost   *)
(* run's trace.                                                             *)
exit_span(t, raised) ==
    /\ Innermost(t, "span")
    /\ LET b == Last(trBlocks[t])
           run == Top(trStacks[t].runs)
       IN /\ trSpans' = [trSpans EXCEPT ![b.id].open = FALSE,
                             ![b.id].status = IF raised /\ @ = "ok" THEN "error" ELSE @]
          /\ trStacks' = [trStacks EXCEPT ![t].spans = b.saved]
          /\ trRuns' = IF run = 0 THEN trRuns
                       ELSE [trRuns EXCEPT ![run].spans = Append(@, b.id)]
    /\ trBlocks' = [trBlocks EXCEPT ![t] = Front(@)]
    /\ UNCHANGED <<trSteps, trLive>>

(* AgentRunContextManager.__enter__ and start_trace. *)
enter_run(t) ==
    /\ t \in trLive /\ Len(trRuns) < TrRunCap
    /\ LET st == trStacks[t]
           n == Len(trRuns) + 1
       IN /\ trRuns' = Append(trRuns, [outer |-> Top(st.runs), open |-> TRUE,
                 next |-> 0, own |-> 0, rolled |-> 0, emitted |-> 0,
                 spans |-> <<>>, due |-> {}])
          /\ trStacks' = [trStacks EXCEPT ![t].runs = Append(@, n)]
          /\ Opened(t, "run", n, st.runs)
    /\ UNCHANGED <<trSpans, trSteps, trLive>>

(* Runs inside run r, itself included; and the steps of those. *)
Inside(r) ==
    LET inside[x \in 1..Len(trRuns)] ==
            {x} \cup UNION {inside[q] : q \in {y \in 1..Len(trRuns) : trRuns[y].outer = x}}
    IN inside[r]
StepsInside(r) == {s \in 1..Len(trSteps) : trSteps[s].run \in Inside(r)}

(* The steps whose cost has come up to run r: its own that have ended, and  *)
(* those that had come up to the runs it called, of these that have ended.  *)
Due(r) == {s \in 1..Len(trSteps) : trSteps[s].run = r /\ ~trSteps[s].open}
            \cup UNION {trRuns[q].due : q \in {x \in 1..Len(trRuns) :
                                                 trRuns[x].outer = r /\ ~trRuns[x].open}}

(* A mutant of __exit__: the parent is read before the stack is restored.   *)
ExitRunReadsEarly(t, i) ==
    /\ i \in 1..Len(trBlocks[t]) /\ trBlocks[t][i].kind = "run"
    /\ TrNested => i = Len(trBlocks[t])
    /\ LET b == trBlocks[t][i]
           r == b.id
           parent == Top(trStacks[t].runs)
           total == trRuns[r].own + trRuns[r].rolled
       IN /\ trRuns' = [trRuns EXCEPT
                 ![parent].rolled = @ + total,
                 ![r].open = FALSE, ![r].emitted = total, ![r].due = Due(r)]
          /\ trStacks' = [trStacks EXCEPT ![t].runs = b.saved]
    /\ trBlocks' = [trBlocks EXCEPT ![t] = RemoveAt(@, i)]
    /\ UNCHANGED <<trSpans, trSteps, trLive>>

(* AgentRunContextManager.__exit__ and Trace.end: the stack goes back to    *)
(* what it was on entry; what the run cost is added to the run that is then *)
(* innermost, and the run's own totals are emitted.                         *)
exit_run(t, i) ==
    /\ i \in 1..Len(trBlocks[t]) /\ trBlocks[t][i].kind = "run"
    /\ TrNested => i = Len(trBlocks[t])
    /\ LET b == trBlocks[t][i]
           r == b.id
           parent == Top(b.saved)
           total == trRuns[r].own + trRuns[r].rolled
           ended == [trRuns EXCEPT ![r].open = FALSE, ![r].emitted = total,
                         ![r].due = Due(r)]
       IN /\ trRuns' = IF parent = 0 THEN ended
                       ELSE [ended EXCEPT ![parent].rolled = @ + total]
          /\ trStacks' = [trStacks EXCEPT ![t].runs = b.saved]
    /\ trBlocks' = [trBlocks EXCEPT ![t] = RemoveAt(@, i)]
    /\ UNCHANGED <<trSpans, trSteps, trLive>>

(* AgentStepContextManager.__enter__: only inside a run, which numbers it.  *)
enter_step(t) ==
    /\ t \in trLive /\ Len(trSteps) < TrStepCap
    /\ LET run == Top(trStacks[t].runs)
       IN /\ run # 0
          /\ trSteps' = Append(trSteps,
                 [run |-> run, index |-> trRuns[run].next, open |-> TRUE])
          /\ trRuns' = [trRuns EXCEPT ![run].next = @ + 1]
    /\ Opened(t, "step", Len(trSteps) + 1, <<>>)
    /\ UNCHANGED <<trSpans, trStacks, trLive>>

(* __exit__: the step, with what it cost, is recorded in the run that is    *)
(* innermost by then.                                                       *)
exit_step(t) ==
    /\ Innermost(t, "step")
    /\ LET run == Top(trStacks[t].runs)
       IN trRuns' = IF run = 0 THEN trRuns ELSE [trRuns EXCEPT ![run].own = @ + 1]
    /\ trSteps' = [trSteps EXCEPT ![Last(trBlocks[t]).id].open = FALSE]
    /\ trBlocks' = [trBlocks EXCEPT ![t] = Front(@)]
    /\ UNCHANGED <<trSpans, trStacks, trLive>>

Next == \E t \in TrTasks :
    \/ \E u \in TrTasks : copy_context(t, u)
    \/ \E h \in TrHeaders : enter_span(t, h)
    \/ \E b \in BOOLEAN : exit_span(t, b)
    \/ enter_run(t)
    \/ \E i \in 1..Len(trBlocks[t]) : exit_run(t, i)
    \/ enter_step(t)
    \/ exit_step(t)

Spec == Init /\ [][Next]_traceVars

TraceTypeOK ==
    /\ trSpans \in Seq(Span) /\ trSteps \in Seq(AgentStepContext)
    /\ trRuns \in Seq(AgentRunContext)
    /\ \A t \in TrTasks : Range(trStacks[t].runs) \subseteq 1..Len(trRuns)

(* What a run reports is the cost of the steps begun in it and in the runs  *)
(* begun in it, once each and whichever tasks they ran in, less exactly     *)
(* those that outlived the run they were begun in, or whose run outlived    *)
(* the one around it (record_step has no lock and no check: their cost goes *)
(* to a run that has reported already).                                     *)
RunTotalsCountEveryStep ==
    \A r \in 1..Len(trRuns) : ~trRuns[r].open =>
        /\ trRuns[r].emitted = Cardinality(trRuns[r].due)
        /\ trRuns[r].due \subseteq StepsInside(r)

(* _tracer.py:125: an agent run emits "aggregated totals across all child   *)
(* steps".  A step in a task that outlives the run is missing from them.    *)
RunsAggregateAllSteps ==
    \A r \in 1..Len(trRuns) : ~trRuns[r].open =>
        trRuns[r].emitted = Cardinality(StepsInside(r))
=============================================================================
