---------------------------- MODULE AlertRouter -----------------------------
(***************************************************************************)
(* spanforge/sdk/alert.py: SFAlertClient.  Application threads publish,    *)
(* acknowledge and shut down, timer threads flush groups and escalate, all *)
(* of them put items into one bounded queue, and the worker sends them.    *)
(*                                                                         *)
(* A runner is an application thread or a timer thread while it runs.  A   *)
(* step is what happens under the client's lock, one operation of the      *)
(* queue, or one operation of a timer.  A published alert is one that the  *)
(* maintenance window, the rate limit and the deduplication let through    *)
(* (suppressed alerts change only counters).  Which sinks an alert reaches *)
(* changes neither the queue nor the escalation and is left out.           *)
(***************************************************************************)
EXTENDS Naturals, Sequences, FiniteSets

CONSTANTS
  Runners,    \* application and timer threads
  Groups,     \* the group keys: topic prefix and project
  MaxQueue,   \* _QUEUE_MAX
  MaxAlerts   \* bound on the alerts published

ASSUME RouterAssumption == Groups # {} /\ MaxQueue \in Nat /\ MaxAlerts \in Nat

VARIABLES
  published,    \* how many alerts were published
  open,         \* the keys of _group_buffers
  buffer,       \* _group_buffers: the items of each open group
  groupTimer,   \* _group_timers: none, armed, or fired but not yet flushed
  queue,        \* _queue
  timers,       \* the keys of _escalation_timers
  pending,      \* the keys of _pending_escalation
  timer,        \* what became of the escalation timer of each alert
  runner,       \* where each runner is
  worker,       \* where the worker is
  shut,         \* whether shutdown() was called
  sent,         \* the items in _history
  acked,        \* history: the alerts that acknowledge() returned True for
  dropped,      \* history: the items lost to a full queue
  coalesced     \* history: the alerts that are only mentioned by another one

groupVars == <<open, buffer, groupTimer>>
escalationVars == <<timers, pending, timer, acked>>
routerVars == <<published, groupVars, queue, escalationVars, runner, worker, shut, sent, dropped,
          coalesced>>

Alerts == 1 .. published
AnyAlert == 1 .. MaxAlerts
Item == [alert : AnyAlert, critical : BOOLEAN, escalation : BOOLEAN]
Stop == [alert |-> 0, critical |-> FALSE, escalation |-> FALSE]
Queueing == {"put", "drop", "again", "escalate"}

RouterTypeOK ==
  /\ published \in 0 .. MaxAlerts
  /\ open \subseteq Groups
  /\ buffer \in [Groups -> Seq(Item)]
  /\ groupTimer \in [Groups -> {"none", "armed", "fired"}]
  /\ queue \in Seq(Item \cup {Stop}) /\ Len(queue) <= MaxQueue
  /\ timers \subseteq Alerts /\ pending \subseteq Alerts /\ acked \subseteq Alerts
  /\ timer \in [AnyAlert -> {"none", "created", "running", "fired", "cancelled"}]
  /\ \A r \in Runners :
       /\ runner[r].pc \in Queueing \cup {"idle", "flush", "fire", "cancel", "cancelall",
                                          "flushall", "sentinel"}
       /\ runner[r].item \in Item \cup {Stop}
       /\ runner[r].groups \subseteq Groups /\ runner[r].alerts \subseteq Alerts
       /\ runner[r].after \in {"idle", "flushall"}
  /\ worker.pc \in {"get", "dispatch", "schedule", "start", "stopped"}
  /\ worker.item \in Item \cup {Stop}
  /\ shut \in BOOLEAN
  /\ sent \subseteq Item /\ dropped \subseteq Item \cup {Stop}
  /\ coalesced \subseteq Alerts

Idle == [pc |-> "idle", item |-> Stop, group |-> CHOOSE g \in Groups : TRUE, groups |-> {},
         alerts |-> {}, after |-> "idle"]

RouterInit ==
  /\ published = 0
  /\ open = {} /\ buffer = [g \in Groups |-> <<>>] /\ groupTimer = [g \in Groups |-> "none"]
  /\ queue = <<>>
  /\ timers = {} /\ pending = {} /\ acked = {} /\ timer = [a \in AnyAlert |-> "none"]
  /\ runner = [r \in Runners |-> Idle]
  /\ worker = [pc |-> "get", item |-> Stop]
  /\ shut = FALSE
  /\ sent = {} /\ dropped = {} /\ coalesced = {}

At(r, pc) == runner[r].pc = pc
Goto(r, pc) == runner' = [runner EXCEPT ![r].pc = pc]

\* Back to the caller, or to shutdown() if it is the one that flushes.
Leave(r) ==
  runner' = [runner EXCEPT ![r] =
    IF @.after = "flushall"
    THEN [Idle EXCEPT !.pc = "flushall", !.groups = runner[r].groups]
    ELSE Idle]

----------------------------------------------------------------------------
(* publish(), from the grouping on.                                         *)

\* The first alert of a group goes to the queue at once.
StartGroup(r, g, item) ==
  /\ open' = open \cup {g} /\ buffer' = [buffer EXCEPT ![g] = <<>>]
  /\ groupTimer' = [groupTimer EXCEPT ![g] = "armed"]
  /\ runner' = [runner EXCEPT ![r] = [Idle EXCEPT !.pc = "put", !.item = item]]

Publish(r, g, critical) ==
  /\ At(r, "idle") /\ published < MaxAlerts
  /\ published' = published + 1
  /\ LET item == [alert |-> published + 1, critical |-> critical, escalation |-> FALSE] IN
       \/ /\ g \in open
          /\ buffer' = [buffer EXCEPT ![g] = Append(@, item)]
          /\ UNCHANGED <<open, groupTimer, runner>>
       \/ g \notin open /\ StartGroup(r, g, item)
  /\ UNCHANGED <<queue, escalationVars, worker, shut, sent, dropped, coalesced>>

\* put_nowait, and what publish() and _flush_group() do when the queue is full.
Put(r) ==
  /\ At(r, "put")
  /\ \/ /\ Len(queue) < MaxQueue
        /\ queue' = Append(queue, runner[r].item)
        /\ Leave(r)
     \/ Len(queue) = MaxQueue /\ Goto(r, "drop") /\ UNCHANGED queue
  /\ UNCHANGED <<published, groupVars, escalationVars, worker, shut, sent, dropped, coalesced>>

DropOldest(r) ==
  /\ At(r, "drop")
  /\ \/ /\ queue # <<>>
        /\ queue' = Tail(queue) /\ dropped' = dropped \cup {Head(queue)}
     \/ queue = <<>> /\ UNCHANGED <<queue, dropped>>
  /\ Goto(r, "again")
  /\ UNCHANGED <<published, groupVars, escalationVars, worker, shut, sent, coalesced>>

\* Mutant: the queue's limit is not looked at the second time.
PutAgainAnyway(r) ==
  /\ At(r, "again")
  /\ queue' = Append(queue, runner[r].item)
  /\ Leave(r)
  /\ UNCHANGED <<published, groupVars, escalationVars, worker, shut, sent, dropped, coalesced>>

\* Another thread may have taken the room.
PutAgain(r) ==
  /\ At(r, "again")
  /\ \/ /\ Len(queue) < MaxQueue
        /\ queue' = Append(queue, runner[r].item) /\ UNCHANGED dropped
     \/ /\ Len(queue) = MaxQueue
        /\ dropped' = dropped \cup {runner[r].item} /\ UNCHANGED queue
  /\ Leave(r)
  /\ UNCHANGED <<published, groupVars, escalationVars, worker, shut, sent, coalesced>>

----------------------------------------------------------------------------
(* _flush_group.                                                            *)

\* The timer of a group goes off: its thread begins to run.
ExpireGroup(r, g) ==
  /\ At(r, "idle") /\ groupTimer[g] = "armed"
  /\ groupTimer' = [groupTimer EXCEPT ![g] = "fired"]
  /\ runner' = [runner EXCEPT ![r] = [Idle EXCEPT !.pc = "flush", !.group = g]]
  /\ UNCHANGED <<published, open, buffer, queue, escalationVars, worker, shut, sent, dropped,
                 coalesced>>

\* The first item stands for all of them, with their highest severity.
Coalesce(items) ==
  [items[1] EXCEPT !.critical = \E i \in DOMAIN items : items[i].critical]

\* Mutant: the buffer is read and not taken away.
FlushCopies(r) ==
  /\ At(r, "flush")
  /\ LET g == runner[r].group IN
       \/ /\ g \in open /\ buffer[g] # <<>>
          /\ coalesced' = coalesced \cup {buffer[g][i].alert : i \in 2 .. Len(buffer[g])}
          /\ runner' = [runner EXCEPT ![r].pc = "put", ![r].item = Coalesce(buffer[g])]
          /\ UNCHANGED groupVars
       \/ /\ g \notin open \/ buffer[g] = <<>>
          /\ open' = open \ {g} /\ groupTimer' = [groupTimer EXCEPT ![g] = "none"]
          /\ Leave(r)
          /\ UNCHANGED <<coalesced, buffer>>
  /\ UNCHANGED <<published, queue, escalationVars, worker, shut, sent, dropped>>

\* Whoever comes first takes the buffer and the timer, also a group that was
\* opened since.
Flush(r) ==
  /\ At(r, "flush")
  /\ LET g == runner[r].group IN
       /\ open' = open \ {g}
       /\ buffer' = [buffer EXCEPT ![g] = <<>>]
       /\ groupTimer' = [groupTimer EXCEPT ![g] = "none"]
       /\ \/ /\ g \in open /\ buffer[g] # <<>>
             /\ coalesced' = coalesced \cup {buffer[g][i].alert : i \in 2 .. Len(buffer[g])}
             /\ runner' = [runner EXCEPT ![r].pc = "put", ![r].item = Coalesce(buffer[g])]
          \/ /\ g \notin open \/ buffer[g] = <<>>
             /\ Leave(r)
             /\ UNCHANGED coalesced
  /\ UNCHANGED <<published, queue, escalationVars, worker, shut, sent, dropped>>

----------------------------------------------------------------------------
(* The worker.                                                              *)

Get ==
  /\ worker.pc = "get" /\ queue # <<>>
  /\ queue' = Tail(queue)
  /\ worker' = [pc |-> IF Head(queue) = Stop THEN "stopped" ELSE "dispatch",
                item |-> Head(queue)]
  /\ UNCHANGED <<published, groupVars, escalationVars, runner, shut, sent, dropped, coalesced>>

\* Mutant: an escalation is escalated again.
DispatchEscalatesAgain ==
  /\ worker.pc = "dispatch"
  /\ sent' = sent \cup {worker.item}
  /\ worker' = IF worker.item.critical
               THEN [worker EXCEPT !.pc = "schedule"] ELSE [pc |-> "get", item |-> Stop]
  /\ UNCHANGED <<published, groupVars, queue, escalationVars, runner, shut, dropped, coalesced>>

Dispatch ==
  /\ worker.pc = "dispatch"
  /\ sent' = sent \cup {worker.item}
  /\ worker' = IF worker.item.critical /\ ~worker.item.escalation
               THEN [worker EXCEPT !.pc = "schedule"] ELSE [pc |-> "get", item |-> Stop]
  /\ UNCHANGED <<published, groupVars, queue, escalationVars, runner, shut, dropped, coalesced>>

\* Mutant: the alert is not entered among the pending ones.
ScheduleTimerOnly ==
  /\ worker.pc = "schedule"
  /\ timers' = timers \cup {worker.item.alert}
  /\ timer' = [timer EXCEPT ![worker.item.alert] = "created"]
  /\ worker' = [worker EXCEPT !.pc = "start"]
  /\ UNCHANGED <<published, groupVars, queue, pending, acked, runner, shut, sent, dropped,
                 coalesced>>

\* _schedule_escalation enters the timer in its table before it starts it.
Schedule ==
  /\ worker.pc = "schedule"
  /\ timers' = timers \cup {worker.item.alert} /\ pending' = pending \cup {worker.item.alert}
  /\ timer' = [timer EXCEPT ![worker.item.alert] = "created"]
  /\ worker' = [worker EXCEPT !.pc = "start"]
  /\ UNCHANGED <<published, groupVars, queue, acked, runner, shut, sent, dropped, coalesced>>

\* A timer that was cancelled before it is started never goes off.
StartTimer ==
  /\ worker.pc = "start"
  /\ timer' = [timer EXCEPT ![worker.item.alert] = IF @ = "created" THEN "running" ELSE @]
  /\ worker' = [pc |-> "get", item |-> Stop]
  /\ UNCHANGED <<published, groupVars, queue, timers, pending, acked, runner, shut, sent,
                 dropped, coalesced>>

----------------------------------------------------------------------------
(* Escalation.                                                              *)

ExpireEscalation(r, a) ==
  /\ At(r, "idle") /\ timer[a] = "running"
  /\ timer' = [timer EXCEPT ![a] = "fired"]
  /\ runner' = [runner EXCEPT ![r] = [Idle EXCEPT !.pc = "fire", !.alerts = {a}]]
  /\ UNCHANGED <<published, groupVars, queue, timers, pending, acked, worker, shut, sent,
                 dropped, coalesced>>

\* Mutant: the alert need not be pending.
FireAnyway(r) ==
  /\ At(r, "fire")
  /\ pending' = pending \ runner[r].alerts /\ timers' = timers \ runner[r].alerts
  /\ \E a \in runner[r].alerts :
       runner' = [runner EXCEPT ![r] = [Idle EXCEPT !.pc = "escalate", !.item =
                    [alert |-> a, critical |-> TRUE, escalation |-> TRUE]]]
  /\ UNCHANGED <<published, groupVars, queue, timer, acked, worker, shut, sent, dropped,
                 coalesced>>

\* _fire_escalation
Fire(r) ==
  /\ At(r, "fire")
  /\ pending' = pending \ runner[r].alerts /\ timers' = timers \ runner[r].alerts
  /\ \/ \E a \in runner[r].alerts \cap pending :
          runner' = [runner EXCEPT ![r] = [Idle EXCEPT !.pc = "escalate", !.item =
                       [alert |-> a, critical |-> TRUE, escalation |-> TRUE]]]
     \/ /\ runner[r].alerts \cap pending = {}
        /\ runner' = [runner EXCEPT ![r] = Idle]
  /\ UNCHANGED <<published, groupVars, queue, timer, acked, worker, shut, sent, dropped,
                 coalesced>>

\* A full queue loses the escalation.
PutEscalation(r) ==
  /\ At(r, "escalate")
  /\ \/ /\ Len(queue) < MaxQueue
        /\ queue' = Append(queue, runner[r].item) /\ UNCHANGED dropped
     \/ /\ Len(queue) = MaxQueue
        /\ dropped' = dropped \cup {runner[r].item} /\ UNCHANGED queue
  /\ runner' = [runner EXCEPT ![r] = Idle]
  /\ UNCHANGED <<published, groupVars, escalationVars, worker, shut, sent, coalesced>>

\* acknowledge() returns whether it found a timer.
Acknowledge(r, a) ==
  /\ At(r, "idle") /\ a \in Alerts
  /\ timers' = timers \ {a} /\ pending' = pending \ {a}
  /\ \/ /\ a \in timers
        /\ acked' = acked \cup {a}
        /\ runner' = [runner EXCEPT ![r] = [Idle EXCEPT !.pc = "cancel", !.alerts = {a}]]
     \/ a \notin timers /\ UNCHANGED <<acked, runner>>
  /\ UNCHANGED <<timer, published, groupVars, queue, worker, shut, sent, dropped, coalesced>>

Cancelled(as) ==
  [a \in AnyAlert |-> IF a \in as /\ timer[a] \in {"created", "running"} THEN "cancelled"
                      ELSE timer[a]]

Cancel(r) ==
  /\ At(r, "cancel")
  /\ timer' = Cancelled(runner[r].alerts)
  /\ runner' = [runner EXCEPT ![r] = Idle]
  /\ UNCHANGED <<timers, pending, acked, published, groupVars, queue, worker, shut, sent,
                 dropped, coalesced>>

----------------------------------------------------------------------------
(* shutdown().                                                              *)

\* The table of timers is emptied, the pending alerts are kept.
Shutdown(r) ==
  /\ At(r, "idle") /\ ~shut
  /\ shut' = TRUE
  /\ timers' = {}
  /\ runner' = [runner EXCEPT ![r] = [Idle EXCEPT !.pc = "cancelall", !.alerts = timers]]
  /\ UNCHANGED <<published, groupVars, queue, pending, timer, acked, worker, sent, dropped,
                 coalesced>>

CancelAll(r) ==
  /\ At(r, "cancelall")
  /\ timer' = Cancelled(runner[r].alerts)
  /\ runner' = [runner EXCEPT ![r] = [Idle EXCEPT !.pc = "flushall", !.groups = open]]
  /\ UNCHANGED <<published, groupVars, queue, timers, pending, acked, worker, shut, sent,
                 dropped, coalesced>>

FlushAll(r) ==
  /\ At(r, "flushall")
  /\ \/ \E g \in runner[r].groups :
          runner' = [runner EXCEPT ![r] =
                       [Idle EXCEPT !.pc = "flush", !.group = g, !.after = "flushall",
                                    !.groups = runner[r].groups \ {g}]]
     \/ runner[r].groups = {} /\ Goto(r, "sentinel")
  /\ UNCHANGED <<published, groupVars, queue, escalationVars, worker, shut, sent, dropped,
                 coalesced>>

\* A full queue loses the sentinel; the join has a timeout.
PutSentinel(r) ==
  /\ At(r, "sentinel")
  /\ queue' = IF Len(queue) < MaxQueue THEN Append(queue, Stop) ELSE queue
  /\ runner' = [runner EXCEPT ![r] = Idle]
  /\ UNCHANGED <<published, groupVars, escalationVars, worker, shut, sent, dropped, coalesced>>

----------------------------------------------------------------------------

Worker == Get \/ Dispatch \/ Schedule \/ StartTimer

Runner(r) ==
  \/ \E g \in Groups, critical \in BOOLEAN : Publish(r, g, critical)
  \/ Put(r) \/ DropOldest(r) \/ PutAgain(r)
  \/ (\E g \in Groups : ExpireGroup(r, g)) \/ Flush(r)
  \/ (\E a \in AnyAlert : ExpireEscalation(r, a) \/ Acknowledge(r, a))
  \/ Fire(r) \/ PutEscalation(r) \/ Cancel(r)
  \/ Shutdown(r) \/ CancelAll(r) \/ FlushAll(r) \/ PutSentinel(r)

RouterNext == Worker \/ \E r \in Runners : Runner(r)

RouterSpec == RouterInit /\ [][RouterNext]_routerVars

----------------------------------------------------------------------------
(* Properties.                                                              *)

\* Where the items of alert a are: the alert itself, or its escalation.
Places(a, escalation) ==
  LET Is(item) == item.alert = a /\ item.escalation = escalation IN
    {<<"queue", i>> : i \in {j \in DOMAIN queue : Is(queue[j])}}
      \cup {<<"runner", r>> : r \in {s \in Runners : runner[s].pc \in Queueing
                                                       /\ Is(runner[s].item)}}
      \cup {<<"worker", 1>> : x \in {y \in {1} : worker.pc = "dispatch" /\ Is(worker.item)}}
      \cup {<<"sent", item>> : item \in {x \in sent : Is(x)}}
      \cup {<<"dropped", item>> : item \in {x \in dropped : Is(x)}}

Buffered(a) ==
  {p \in UNION {{g} \X DOMAIN buffer[g] : g \in open} : buffer[p[1]][p[2]].alert = a}

\* However publishers, timers, the worker and shutdown() race for groups and
\* for the queue, every published alert is in exactly one place: buffered,
\* on its way, sent, mentioned by the alert it was grouped with, or lost to a
\* full queue.
EveryAlertIsInOnePlace ==
  \A a \in Alerts :
    Cardinality(Places(a, FALSE)) + Cardinality(Buffered(a))
      + (IF a \in coalesced THEN 1 ELSE 0) = 1

\* An escalation follows a critical notification that was sent, and there is
\* at most one of it.
EscalatedOnceAfterSending ==
  \A a \in Alerts :
    Places(a, TRUE) # {} =>
      /\ Cardinality(Places(a, TRUE)) = 1
      /\ [alert |-> a, critical |-> TRUE, escalation |-> FALSE] \in sent

\* When acknowledge() has returned True for an alert, its escalation is neither
\* on its way nor ever sent, however close to its timer the call came.
AcknowledgedAlertsStayQuiet == \A a \in acked : Places(a, TRUE) = {}

\* The escalation of alert a was lost to a full queue: the timer found no room
\* (_fire_escalation only logs it), or a publisher dropped it as the oldest.
EscalationLost(a) == \E item \in dropped : item.alert = a /\ item.escalation

\* Where the escalation of alert a is while it is neither lost nor sent.
EscalationAhead(a) ==
  \/ \E i \in DOMAIN queue : queue[i].alert = a /\ queue[i].escalation
  \/ \E r \in Runners : runner[r].pc \in Queueing /\ runner[r].item.alert = a
                           /\ runner[r].item.escalation
  \/ worker.pc = "dispatch" /\ worker.item.alert = a /\ worker.item.escalation

\* Until shutdown() a full queue is the only thing that can keep a critical
\* alert which was sent and not acknowledged from being escalated: its timer
\* runs or is about to be started or has fired, or its escalation is queued, in
\* a thread's hand, or sent.
OnlyAFullQueueStopsAnEscalation ==
  \A item \in sent :
    item.critical /\ ~item.escalation /\ ~shut /\ item.alert \notin acked
        /\ ~EscalationLost(item.alert) =>
      \/ timer[item.alert] = "running" /\ item.alert \in pending
      \/ worker.pc \in {"schedule", "start"} /\ worker.item = item
      \/ \E r \in Runners : At(r, "fire") /\ item.alert \in runner[r].alerts \cap pending
      \/ EscalationAhead(item.alert)
      \/ \E x \in sent : x.alert = item.alert /\ x.escalation

\* sdk/alert.py:42: "When the timer fires the alert is re-dispatched to the
\* escalation sink list."  A full queue breaks it.
FiredTimersRedispatch == \A a \in Alerts : ~EscalationLost(a)
=============================================================================
