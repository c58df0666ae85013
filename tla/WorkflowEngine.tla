--------------------------- MODULE WorkflowEngine ---------------------------
(***************************************************************************)
(* spanforge/workflow.py: one approval workflow, used by reviewers, by the *)
(* system user, and by scheduler threads that call                         *)
(* check_and_auto_escalate() and check_and_fire_reminders().               *)
(*                                                                         *)
(* What happens under _lock is one step.  The scheduler's checks read the  *)
(* state and the fired thresholds without the lock, so each is two steps:  *)
(* the test, and what the thread does because of it.  Time is the number   *)
(* of thresholds (of the SLA) that have passed.  Who is assigned decides   *)
(* nothing in the code: assignees, delegations, requests for information,  *)
(* reasons and metadata are left out, but each call still writes its entry.*)
(***************************************************************************)
EXTENDS Naturals, Sequences, FiniteSets

CONSTANTS
  Users,             \* who submits actions
  System,            \* the user "system"
  Allowed,           \* _actions_allowed_for: the actions of each user
  RequiredApprovals, \* _required_approvals
  Threads,           \* the scheduler threads
  LastThreshold,     \* the reminder thresholds are 1 .. LastThreshold
  EscalateAt,        \* the threshold at which escalation is due
  MaxAudit           \* bound on the length of the audit log

WorkflowAction == {"approve", "reject", "request_info", "override", "escalate",
                   "auto_approve", "delegate", "close"}
ACTIVE_STATES == {"pending", "assigned", "in_progress", "escalated"}
TERMINAL_STATES == {"approved", "rejected", "closed"}
WorkflowState == ACTIVE_STATES \cup TERMINAL_STATES

ASSUME WorkflowAssumption ==
  /\ System \in Users
  /\ Allowed \in [Users -> SUBSET WorkflowAction]
  /\ RequiredApprovals \in Nat
  /\ LastThreshold \in Nat /\ EscalateAt \in Nat /\ MaxAudit \in Nat

VARIABLES
  state,        \* self._state
  audit,        \* self._audit_log
  approvals,    \* the users in self._approvals
  rejections,   \* the users in self._rejections
  passed,       \* how many thresholds of the SLA have passed
  fired,        \* self._reminder_thresholds_fired
  scheduler,    \* where each scheduler thread is
  reminded,     \* history: the on_reminder calls, as <<thread, threshold>>
  repeated,     \* history: those calls that a thread made a second time
  resolved,     \* history: how often on_resolved was called
  escalations   \* history: how often on_escalation was called

workflowVars == <<state, audit, approvals, rejections, resolved, escalations>>
reminderVars == <<fired, reminded, repeated>>
vars == <<workflowVars, passed, scheduler, reminderVars>>

Entry == [user : Users, action : WorkflowAction, before : WorkflowState, after : WorkflowState]

TypeOK ==
  /\ state \in WorkflowState
  /\ audit \in Seq(Entry)
  /\ approvals \subseteq Users /\ rejections \subseteq Users
  /\ passed \in 0 .. LastThreshold
  /\ fired \subseteq 1 .. passed
  /\ scheduler \in [Threads -> [pc : {"idle", "escalate", "check", "fire"},
                                passed : Nat, threshold : Nat]]
  /\ reminded \subseteq Threads \X (1 .. passed)
  /\ repeated \subseteq reminded
  /\ resolved \in Nat /\ escalations \in Nat

Idle == [pc |-> "idle", passed |-> 0, threshold |-> 0]

\* The constructor moves a pending workflow to assigned at once.
Init ==
  /\ state = "assigned"
  /\ audit = <<[user |-> System, action |-> "delegate", before |-> "pending",
                after |-> "assigned"]>>
  /\ approvals = {}
  /\ rejections = {}
  /\ passed = 0
  /\ fired = {}
  /\ scheduler = [t \in Threads |-> Idle]
  /\ reminded = {}
  /\ repeated = {}
  /\ resolved = 0
  /\ escalations = 0

----------------------------------------------------------------------------
(* The state machine, under the lock.                                       *)

\* _transition_to, or _record_audit when nothing changes: `before` is the
\* state when the entry is written.
Transition(user, action, before, after) ==
  /\ Len(audit) < MaxAudit
  /\ state' = after
  /\ audit' = Append(audit, [user |-> user, action |-> action, before |-> before,
                             after |-> after])

\* _advance_to_in_progress_if_needed
InProgress == IF state = "assigned" THEN "in_progress" ELSE state

\* Mutant: approvals are counted with repetition.
ApproveCountsEntries(user) ==
  /\ approvals' = approvals \cup {user}
  /\ IF Cardinality({i \in DOMAIN audit : audit[i].action = "approve"}) + 1 >= RequiredApprovals
     THEN Transition(user, "approve", InProgress, "approved")
     ELSE Transition(user, "approve", InProgress, InProgress)
  /\ UNCHANGED rejections

Approve(user) ==
  /\ approvals' = approvals \cup {user}
  /\ IF Cardinality(approvals') >= RequiredApprovals
     THEN Transition(user, "approve", InProgress, "approved")
     ELSE Transition(user, "approve", InProgress, InProgress)
  /\ UNCHANGED rejections

Override(user) ==
  /\ approvals' = approvals \cup {user}
  /\ Transition(user, "override", state, "approved")
  /\ UNCHANGED rejections

\* The approval is the system's, whoever submitted it.
AutoApprove(user) ==
  /\ approvals' = approvals \cup {System}
  /\ Transition(user, "auto_approve", state, "approved")
  /\ UNCHANGED rejections

Reject(user) ==
  /\ rejections' = rejections \cup {user}
  /\ Transition(user, "reject", state, "rejected")
  /\ UNCHANGED approvals

\* Mutant: the entry says escalated, the workflow does not.
EscalateOnlyLogs(user) ==
  /\ Len(audit) < MaxAudit
  /\ audit' = Append(audit, [user |-> user, action |-> "escalate", before |-> state,
                             after |-> "escalated"])
  /\ UNCHANGED <<state, approvals, rejections>>

Escalate(user) ==
  /\ Transition(user, "escalate", state, "escalated")
  /\ UNCHANGED <<approvals, rejections>>

RequestInfo(user) ==
  /\ Transition(user, "request_info", InProgress, InProgress)
  /\ UNCHANGED <<approvals, rejections>>

Delegate(user) ==
  /\ Transition(user, "delegate", state, state)
  /\ UNCHANGED <<approvals, rejections>>

CloseAction(user) ==
  /\ Transition(user, "close", state, "closed")
  /\ UNCHANGED <<approvals, rejections>>

\* _apply_action
ApplyAction(user, action) ==
  \/ action = "approve" /\ Approve(user)
  \/ action = "override" /\ Override(user)
  \/ action = "auto_approve" /\ AutoApprove(user)
  \/ action = "reject" /\ Reject(user)
  \/ action = "escalate" /\ Escalate(user)
  \/ action = "request_info" /\ RequestInfo(user)
  \/ action = "delegate" /\ Delegate(user)
  \/ action = "close" /\ CloseAction(user)

\* Mutant: only a closed workflow is over.
NotClosed == state # "closed"
NotOver == state \notin TERMINAL_STATES

MayDo(user, action) == user = System \/ action \in Allowed[user]

\* Mutant: on_escalation is called whenever the workflow is escalated.
CallHooksAgain ==
  /\ resolved' = IF state' \in {"approved", "rejected"} THEN resolved + 1 ELSE resolved
  /\ escalations' = IF state' = "escalated" THEN escalations + 1 ELSE escalations

CallHooks ==
  /\ resolved' = IF state' \in {"approved", "rejected"} THEN resolved + 1 ELSE resolved
  /\ escalations' = IF state' = "escalated" /\ state # "escalated"
                    THEN escalations + 1 ELSE escalations

\* _handle_action, once the action is not refused.
HandleAction(user, action) ==
  /\ NotOver
  /\ MayDo(user, action)
  /\ ApplyAction(user, action)
  /\ CallHooks

\* submit_approval(), and escalate().
Submit(user, action) ==
  /\ HandleAction(user, action)
  /\ UNCHANGED <<passed, scheduler, reminderVars>>

\* assign() and delegate() look up no role and write an entry themselves.
Reassign(user) ==
  /\ NotOver
  /\ Transition(user, "delegate", state, state)
  /\ UNCHANGED <<approvals, rejections, resolved, escalations, passed, scheduler, reminderVars>>

Close(user) ==
  /\ state \in {"approved", "rejected"}
  /\ Transition(user, "close", state, "closed")
  /\ UNCHANGED <<approvals, rejections, resolved, escalations, passed, scheduler, reminderVars>>

----------------------------------------------------------------------------
(* The scheduler threads.                                                   *)

Tick ==
  /\ passed < LastThreshold
  /\ passed' = passed + 1
  /\ UNCHANGED <<workflowVars, scheduler, reminderVars>>

\* check_and_auto_escalate: the test, without the lock.
FindEscalationDue(t) ==
  /\ scheduler[t] = Idle
  /\ passed >= EscalateAt
  /\ state \in ACTIVE_STATES \ {"escalated"}
  /\ scheduler' = [scheduler EXCEPT ![t].pc = "escalate"]
  /\ UNCHANGED <<workflowVars, passed, reminderVars>>

\* escalate() takes the lock; in a terminal state it raises, which is caught.
AutoEscalate(t) ==
  /\ scheduler[t].pc = "escalate"
  /\ \/ HandleAction(System, "escalate")
     \/ ~NotOver /\ UNCHANGED workflowVars
  /\ scheduler' = [scheduler EXCEPT ![t] = Idle]
  /\ UNCHANGED <<passed, reminderVars>>

\* check_and_fire_reminders: what has passed is read once, when the call begins.
StartReminders(t) ==
  /\ scheduler[t] = Idle
  /\ scheduler' = [scheduler EXCEPT ![t] = [pc |-> "check", passed |-> passed, threshold |-> 1]]
  /\ UNCHANGED <<workflowVars, passed, reminderVars>>

\* On to the next threshold, or back to the caller.
NextThreshold(t) ==
  IF scheduler[t].threshold = LastThreshold
  THEN [scheduler EXCEPT ![t] = Idle]
  ELSE [scheduler EXCEPT ![t].pc = "check", ![t].threshold = @ + 1]

CheckReminder(t) ==
  /\ scheduler[t].pc = "check"
  /\ scheduler' = IF scheduler[t].threshold \notin fired
                        /\ scheduler[t].passed >= scheduler[t].threshold
                  THEN [scheduler EXCEPT ![t].pc = "fire"]
                  ELSE NextThreshold(t)
  /\ UNCHANGED <<workflowVars, passed, reminderVars>>

FireReminder(t) ==
  /\ scheduler[t].pc = "fire"
  /\ fired' = fired \cup {scheduler[t].threshold}
  /\ LET call == <<t, scheduler[t].threshold>> IN
       /\ repeated' = IF call \in reminded THEN repeated \cup {call} ELSE repeated
       /\ reminded' = reminded \cup {call}
  /\ scheduler' = NextThreshold(t)
  /\ UNCHANGED <<workflowVars, passed>>

Scheduler(t) ==
  \/ FindEscalationDue(t) \/ AutoEscalate(t)
  \/ StartReminders(t) \/ CheckReminder(t) \/ FireReminder(t)

Next ==
  \/ \E u \in Users, a \in WorkflowAction : Submit(u, a)
  \/ \E u \in Users : Reassign(u) \/ Close(u)
  \/ Tick
  \/ \E t \in Threads : Scheduler(t)

Spec == Init /\ [][Next]_vars

----------------------------------------------------------------------------
(* Properties.                                                              *)

Entries(actions) == {i \in DOMAIN audit : audit[i].action \in actions}

\* A workflow is approved by the required number of different users, or by an
\* override or automatic approval of somebody entitled to one.
ApprovalIsEarned ==
  state = "approved" =>
    \/ Cardinality(approvals) >= RequiredApprovals
    \/ \E i \in Entries({"override", "auto_approve"}) :
         audit[i].user = System \/ audit[i].action \in Allowed[audit[i].user]

\* The audit log tells the whole story of the state: each entry starts where
\* the one before ended -- but for the silent step from assigned to
\* in_progress -- and the last one ends in the state the workflow is in.
AuditReplaysTheState ==
  /\ audit[Len(audit)].after = state
  /\ \A i \in 1 .. Len(audit) - 1 :
       \/ audit[i + 1].before = audit[i].after
       \/ audit[i].after = "assigned" /\ audit[i + 1].before = "in_progress"

\* A rejection is final: nobody's vote, override or escalation approves a
\* workflow that somebody has rejected.
NoApprovalAfterRejection == rejections # {} => state \in {"rejected", "closed"}

\* A decided workflow stays decided, whatever a scheduler thread found before
\* the decision: it can only be closed, and a closed one never opens.
DecisionsAreFinal ==
  [][/\ state \in {"approved", "rejected"} => state' \in {state, "closed"}
     /\ state = "closed" => state' = "closed"]_vars

\* Reviewers hear of a decision once, and of an escalation at most once,
\* however many threads escalate.
NotifiedOnce ==
  /\ state \in {"approved", "rejected"} => resolved = 1
  /\ resolved <= 1
  /\ escalations <= 1

\* No scheduler thread fires the reminder of one threshold twice.
ReminderOncePerThread == repeated = {}

----------------------------------------------------------------------------
(* What the documentation says and the code does not do.                    *)

=============================================================================
