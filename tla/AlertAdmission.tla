---------------------------- MODULE AlertAdmission ----------------------------
(***************************************************************************)
(* What an alert passes before it is grouped (publish(), sdk/alert.py), what *)
(* the worker's sinks make of it, and the simpler AlertManager (alerts.py).  *)
(* The clock is the monotonic one, which starts with the machine.            *)
(***************************************************************************)
EXTENDS Naturals, Sequences, FiniteSetsExt

CONSTANTS AdTopics,     \* topics published for one project
          AdDedup,      \* dedup_window_seconds, also cooldown_seconds
          AdMinute,     \* window of the rate limiter
          AdRateLimit,  \* _RATE_LIMIT_PER_MINUTE
          AdThreshold,  \* failures that open a sink's breaker
          AdEnd         \* bound: end of time

VARIABLES adNow,        \* time.monotonic()
          adWindow,     \* a maintenance window covers the present
          adTimes,      \* the rate limiter's times
          adDedup,      \* _dedup: topic -> time, 0 when it is not there
          adCounts,     \* _publish_count, _suppress_count
          adPassed,     \* history: the alerts the rate limiter counted
          adSink,       \* the breaker of a sink
          adFired,      \* AlertManager._last_fired of one key
          adAlerts      \* history: times that AlertManager sent

admissionVars == <<adWindow, adTimes, adDedup, adCounts, adPassed>>
managerVars == <<adFired, adAlerts>>
adVars == <<adNow, admissionVars, adSink, managerVars>>

Init == /\ adNow = 0 /\ adWindow = FALSE /\ adTimes = <<>>
        /\ adDedup = [t \in AdTopics |-> 0]
        /\ adCounts = [published |-> 0, suppressed |-> 0]
        /\ adPassed = <<>>
        /\ adSink = [failures |-> 0, open |-> FALSE]
        /\ adFired = 0 /\ adAlerts = <<>>

Tick == adNow < AdEnd /\ adNow' = adNow + 1 /\ UNCHANGED <<admissionVars, adSink, managerVars>>

set_maintenance_window == /\ ~adWindow /\ adWindow' = TRUE
                          /\ UNCHANGED <<adNow, adTimes, adDedup, adCounts, adPassed, adSink, managerVars>>

(* remove_maintenance_windows, or the end of the window. *)
remove_maintenance_windows ==
    /\ adWindow /\ adWindow' = FALSE
    /\ UNCHANGED <<adNow, adTimes, adDedup, adCounts, adPassed, adSink, managerVars>>

(* The rate limiter's _evict. *)
Recent(times) ==
    LET stay == {n \in 1..Len(times) : adNow - times[n] < AdMinute}
    IN IF stay = {} THEN <<>> ELSE SubSeq(times, Min(stay), Len(times))

(* record() of the rate limiter, for an alert that is a duplicate or not. *)
Count(t, duplicate) ==
    /\ adTimes' = Append(Recent(adTimes), adNow)
    /\ adPassed' = Append(adPassed, [topic |-> t, at |-> adNow, duplicate |-> duplicate])
Suppressed == adCounts' = [published |-> adCounts.published + 1, suppressed |-> adCounts.suppressed + 1]

(* The three tests of publish, in one section under the lock. *)
publish_in_window ==
    /\ adWindow
    /\ Suppressed
    /\ UNCHANGED <<adNow, adWindow, adTimes, adDedup, adPassed, adSink, managerVars>>

publish_rate_limited ==
    /\ ~adWindow /\ Len(Recent(adTimes)) >= AdRateLimit
    /\ adTimes' = Recent(adTimes)
    /\ Suppressed
    /\ UNCHANGED <<adNow, adWindow, adDedup, adPassed, adSink, managerVars>>

Duplicate(t) == adNow - adDedup[t] < AdDedup

(* A duplicate has been counted by the rate limiter by now. *)
publish_duplicate(t) ==
    /\ ~adWindow /\ Len(Recent(adTimes)) < AdRateLimit /\ Duplicate(t)
    /\ Count(t, TRUE)
    /\ Suppressed
    /\ UNCHANGED <<adNow, adWindow, adDedup, adSink, managerVars>>

(* A mutant of publish_admitted: the time is not noted. *)
AdmittedUnnoted(t) ==
    /\ ~adWindow /\ Len(Recent(adTimes)) < AdRateLimit /\ ~Duplicate(t)
    /\ Count(t, FALSE)
    /\ adCounts' = [adCounts EXCEPT !.published = @ + 1]
    /\ UNCHANGED <<adNow, adWindow, adDedup, adSink, managerVars>>

publish_admitted(t) ==
    /\ ~adWindow /\ Len(Recent(adTimes)) < AdRateLimit /\ ~Duplicate(t)
    /\ Count(t, FALSE)
    /\ adDedup' = [adDedup EXCEPT ![t] = adNow]
    /\ adCounts' = [adCounts EXCEPT !.published = @ + 1]
    /\ UNCHANGED <<adNow, adWindow, adSink, managerVars>>

------------------------------------------------------------------------------
(* Sinks.  Each class shows the severities in terms of its own, the more     *)
(* urgent the larger here; one that is not in its table is shown like the    *)
(* table's default.                                                          *)
Severities == <<"info", "warning", "high", "critical">>
OpsGenieAlerter == <<1, 3, 4, 5>>  \* P5, P3, P2, P1
VictorOpsAlerter == <<1, 2, 3, 3>>
IncidentIOAlerter == <<1, 2, 2, 3>>
TeamsAdaptiveCardAlerter == <<1, 2, 2, 3>>
SlackAlerter == <<1, 2, 1, 3>>  \* no "high"
TeamsAlerter == <<1, 2, 2, 3>>
PagerDutyAlerter == <<1, 2, 2, 3>>
WebhookAlerter == <<1, 2, 3, 4>>
Alerters == {OpsGenieAlerter, VictorOpsAlerter, IncidentIOAlerter, TeamsAdaptiveCardAlerter,
             SlackAlerter, TeamsAlerter, PagerDutyAlerter, WebhookAlerter}
KeepsOrder(a) == \A i, j \in 1..Len(Severities) : i < j => a[i] <= a[j]

(* The network's errors and unexpected answers are logged by every send(); a *)
(* URL that _validate_http_url refuses is the one thing that raises.         *)
SendResult == {"200", "500", "URLError", "refused URL"}
send_raises(result) == result = "refused URL"

(* _SinkWrapper.dispatch: the sink is named in sinks_notified, and its       *)
(* breaker closed, unless send() raised.                                     *)
dispatch(result) ==
    /\ ~adSink.open
    /\ adSink' = IF send_raises(result)
                 THEN [failures |-> adSink.failures + 1,
                       open |-> adSink.failures + 1 >= AdThreshold]
                 ELSE [failures |-> 0, open |-> FALSE]
    /\ UNCHANGED <<adNow, admissionVars, managerVars>>

(* The breaker's reset time passes. *)
CloseSink == /\ adSink.open
             /\ adSink' = [failures |-> 0, open |-> FALSE]
             /\ UNCHANGED <<adNow, admissionVars, managerVars>>

(* healthy, get_status: "ok" unless a breaker is open. *)
healthy == ~adSink.open

------------------------------------------------------------------------------
(* AlertManager.fire: False within the cooldown; alerters may raise. *)
fire == /\ adNow - adFired >= AdDedup
        /\ adFired' = adNow
        /\ adAlerts' = Append(adAlerts, adNow)
        /\ UNCHANGED <<adNow, admissionVars, adSink>>

reset_cooldown == /\ adFired # 0
                  /\ adFired' = 0 /\ adAlerts' = <<>>
                  /\ UNCHANGED <<adNow, admissionVars, adSink>>

Next == \/ Tick \/ set_maintenance_window \/ remove_maintenance_windows
        \/ /\ adCounts.published < AdEnd
           /\ publish_in_window \/ publish_rate_limited
                \/ \E t \in AdTopics : publish_duplicate(t) \/ publish_admitted(t)
        \/ \E result \in SendResult : dispatch(result)
        \/ CloseSink \/ fire \/ reset_cooldown

Spec == Init /\ [][Next]_adVars

AdmissionTypeOK ==
    /\ adNow \in 0..AdEnd /\ adWindow \in BOOLEAN
    /\ adTimes \in Seq(0..AdEnd) /\ adDedup \in [AdTopics -> 0..AdEnd]
    /\ adCounts \in [published : 0..AdEnd, suppressed : 0..AdEnd]
    /\ adSink \in [failures : 0..AdThreshold, open : BOOLEAN]
    /\ adFired \in 0..AdEnd /\ adAlerts \in Seq(0..AdEnd)

Admitted == {i \in 1..Len(adPassed) : ~adPassed[i].duplicate}
Spaced(times, gap) == \A i \in 2..Len(times) : times[i] - times[i - 1] >= gap

(* Every published alert is either suppressed and counted, or admitted.  Two *)
(* admitted alerts of a topic are a full window apart, and no minute has     *)
(* more of them, duplicates included, than the rate limit; a topic of which  *)
(* nothing was admitted yet counts as a duplicate only on a machine that is  *)
(* younger than the window.  The manager's alerts keep their cooldown.  Every*)
(* sink but Slack's shows a more severe alert at least as urgent.            *)
AdmissionIsSpaced ==
    /\ adCounts.published = adCounts.suppressed + Cardinality(Admitted)
    /\ \A i, j \in Admitted : i < j /\ adPassed[i].topic = adPassed[j].topic
                              => adPassed[j].at - adPassed[i].at >= AdDedup
    /\ \A t \in AdTopics :
         Duplicate(t) /\ (\A i \in Admitted : adPassed[i].topic # t) => adNow < AdDedup
    /\ \A x \in 0..adNow :
         Cardinality({i \in 1..Len(adPassed) : x <= adPassed[i].at /\ adPassed[i].at < x + AdMinute})
           <= AdRateLimit
    /\ Spaced(adAlerts, AdDedup)
    /\ healthy <=> adSink.failures < AdThreshold
    /\ \A a \in Alerters : KeepsOrder(a) <=> a # SlackAlerter
=============================================================================
