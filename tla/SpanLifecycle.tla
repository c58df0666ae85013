---------------------------- MODULE SpanLifecycle ----------------------------
(***************************************************************************)
(* One span from entry to export (_span.py), with the hooks that fire on    *)
(* the way (_hooks.py) and the timer of set_timeout_deadline, a thread of   *)
(* its own.  Hooks are registered and cleared by other threads meanwhile.   *)
(***************************************************************************)
EXTENDS Naturals, Sequences, SequencesExt

CONSTANTS LcHooks,       \* callbacks
          LcLoop         \* an event loop is running

VARIABLES lcPhase,       \* "new", "entering", "body", "leaving", "exported"
          lcPlan,        \* kinds of hook still to fire in this phase
          lcTodo,        \* the snapshot being called, and whose kind it is
          lcRegistered,  \* _hooks, _async_hooks, _all_end_hooks: kind -> callbacks
          lcCalls,       \* span-end callbacks called so far, in order
          lcExpected,    \* those registered when the span ended
          lcStatus, lcCategory, lcEndStatus,  \* status, error_category, status at end()
          lcTimers       \* deadline threads: "armed", or "due" past their check

lcVars == <<lcPhase, lcPlan, lcTodo, lcRegistered, lcCalls, lcExpected,
            lcStatus, lcCategory, lcEndStatus, lcTimers>>
lcHookVars == <<lcPlan, lcTodo, lcRegistered, lcCalls, lcExpected>>
lcSpanVars == <<lcStatus, lcCategory, lcEndStatus, lcTimers>>

LcKinds == {"agent_start", "agent_end", "llm_call", "llm_call_async", "span_end"}

(* _classify_span: by the operation, else by a word in the name.            *)
classify_span(op, word) ==
    CASE op \in {"chat", "completion", "embedding", "chat_completion", "generate"} -> "llm_call"
      [] op \in {"tool_call", "execute_tool"} -> "tool_call"
      [] op \in {"invoke_agent", "agent"} -> "agent_start"
      [] word \in {"llm", "model"} -> "llm_call"
      [] word = "tool" -> "tool_call"
      [] OTHER -> "None"

(* _fire_async: coroutine hooks are scheduled only when a loop runs.        *)
fire_async(kind) == IF LcLoop THEN <<kind>> ELSE <<>>

(* _fire_start, _fire_end: what fires for an llm span.                      *)
fire_plan(phase) ==
    <<classify_span("chat", "none")>> \o fire_async("llm_call_async")
        \o (IF phase = "leaving" THEN <<"span_end">> ELSE <<>>)

Init == /\ lcPhase = "new" /\ lcPlan = <<>> /\ lcTodo = <<"none", <<>>>>
        /\ lcRegistered = [k \in LcKinds |-> <<>>]
        /\ lcCalls = <<>> /\ lcExpected = {}
        /\ lcStatus = "ok" /\ lcCategory = "None" /\ lcEndStatus = "open"
        /\ lcTimers = {}

on_hook(k, h) ==
    /\ h \notin Range(lcRegistered[k])
    /\ lcRegistered' = [lcRegistered EXCEPT ![k] = Append(@, h)]
    /\ UNCHANGED <<lcPhase, lcPlan, lcTodo, lcCalls, lcExpected, lcSpanVars>>

clear_hooks ==
    /\ lcRegistered # [k \in LcKinds |-> <<>>]
    /\ lcRegistered' = [k \in LcKinds |-> <<>>]
    /\ lcExpected' = IF "span_end" \in Range(lcPlan) THEN {} ELSE lcExpected
    /\ UNCHANGED <<lcPhase, lcPlan, lcTodo, lcCalls, lcSpanVars>>

enter == /\ lcPhase = "new"
         /\ lcPhase' = "entering" /\ lcPlan' = fire_plan("entering")
         /\ UNCHANGED <<lcTodo, lcRegistered, lcCalls, lcExpected, lcSpanVars>>

(* _fire: the callbacks of a kind are copied under the lock ...             *)
fire_snapshot ==
    /\ lcPlan # <<>> /\ lcTodo[2] = <<>>
    /\ lcTodo' = <<Head(lcPlan), lcRegistered[Head(lcPlan)]>>
    /\ lcPlan' = Tail(lcPlan)
    /\ UNCHANGED <<lcPhase, lcRegistered, lcCalls, lcExpected, lcSpanVars>>

(* A mutant of fire_call: it walks the live list.                           *)
FireLive ==
    /\ lcTodo[2] # <<>>
    /\ lcTodo' = <<lcTodo[1], Tail(lcTodo[2])>>
    /\ lcCalls' = IF lcTodo[1] = "span_end"
                      /\ Head(lcTodo[2]) \in Range(lcRegistered["span_end"])
                  THEN Append(lcCalls, Head(lcTodo[2])) ELSE lcCalls
    /\ UNCHANGED <<lcPhase, lcPlan, lcRegistered, lcExpected, lcSpanVars>>

(* ... and called without it; one that raises is reported and passed over.  *)
fire_call ==
    /\ lcTodo[2] # <<>>
    /\ lcTodo' = <<lcTodo[1], Tail(lcTodo[2])>>
    /\ lcCalls' = IF lcTodo[1] = "span_end" THEN Append(lcCalls, Head(lcTodo[2]))
                  ELSE lcCalls
    /\ UNCHANGED <<lcPhase, lcPlan, lcRegistered, lcExpected, lcSpanVars>>

Fired == lcPlan = <<>> /\ lcTodo[2] = <<>>

start_body == /\ lcPhase = "entering" /\ Fired
              /\ lcPhase' = "body"
              /\ UNCHANGED <<lcHookVars, lcSpanVars>>

set_timeout_deadline ==
    /\ lcPhase = "body"
    /\ lcTimers' = lcTimers \cup {"armed"}
    /\ UNCHANGED <<lcPhase, lcHookVars, lcStatus, lcCategory, lcEndStatus>>

record_error(category) ==
    /\ lcPhase = "body"
    /\ lcStatus' = "error" /\ lcCategory' = category
    /\ UNCHANGED <<lcPhase, lcHookVars, lcEndStatus, lcTimers>>

(* __exit__: the exception is recorded unless the status says more already; *)
(* end() stamps the span and cancels a timer that has not started to act.   *)
leave(raised) ==
    /\ lcPhase = "body"
    /\ lcPhase' = "leaving" /\ lcPlan' = fire_plan("leaving")
    /\ LET s == IF raised /\ lcStatus = "ok" THEN "error" ELSE lcStatus
       IN /\ lcStatus' = s /\ lcEndStatus' = s
          /\ lcCategory' = IF raised /\ lcStatus = "ok" THEN "unknown_error" ELSE lcCategory
    /\ lcTimers' = lcTimers \ {"armed"}
    /\ lcExpected' = Range(lcRegistered["span_end"])
    /\ UNCHANGED <<lcTodo, lcRegistered, lcCalls>>

(* _timeout_fn: it looks at end_ns and status, then writes.                 *)
timeout_check ==
    /\ "armed" \in lcTimers
    /\ lcTimers' = (lcTimers \ {"armed"}) \cup
           (IF lcEndStatus = "open" /\ lcStatus = "ok" THEN {"due"} ELSE {})
    /\ UNCHANGED <<lcPhase, lcHookVars, lcStatus, lcCategory, lcEndStatus>>

timeout_write ==
    /\ "due" \in lcTimers
    /\ lcTimers' = lcTimers \ {"due"} /\ lcStatus' = "timeout" /\ lcCategory' = "timeout_error"
    /\ UNCHANGED <<lcPhase, lcHookVars, lcEndStatus>>

export == /\ lcPhase = "leaving" /\ Fired
          /\ lcPhase' = "exported"
          /\ UNCHANGED <<lcHookVars, lcSpanVars>>

Next == \/ \E k \in {"llm_call", "llm_call_async", "span_end"}, h \in LcHooks : on_hook(k, h)
        \/ clear_hooks \/ enter \/ fire_snapshot \/ fire_call \/ start_body
        \/ set_timeout_deadline \/ record_error("unknown_error")
        \/ \E b \in BOOLEAN : leave(b)
        \/ timeout_check \/ timeout_write \/ export

Spec == Init /\ [][Next]_lcVars

LifecycleTypeOK ==
    /\ lcPhase \in {"new", "entering", "body", "leaving", "exported"}
    /\ \A k \in LcKinds : Range(lcRegistered[k]) \subseteq LcHooks
    /\ lcStatus \in {"ok", "error", "timeout"} /\ lcTimers \subseteq {"armed", "due"}

(* A span-end hook registered before the span ended is called once before   *)
(* the span is exported, whatever is registered or cleared while the hooks  *)
(* run, unless it was cleared before its turn came.  A span that ended       *)
(* changes its status only by a deadline whose check came before the end    *)
(* (see EndedSpansKeepTheirStatus), and only from "ok" or a fresh error.    *)
EndHooksRunOnce ==
    /\ IsInjective(lcCalls)
    /\ lcPhase = "exported" => lcExpected \subseteq Range(lcCalls)
    /\ lcEndStatus # "open" /\ lcStatus # lcEndStatus =>
         lcEndStatus \in {"ok", "error"} /\ lcStatus = "timeout"

(* _span.py:384-387: "The double guard (end_ns + status) means a span that  *)
(* has already errored or finished is never overwritten."  The guard is     *)
(* read before the write, and the span may end in between.                  *)
EndedSpansKeepTheirStatus == lcEndStatus # "open" => lcStatus = lcEndStatus
=============================================================================
