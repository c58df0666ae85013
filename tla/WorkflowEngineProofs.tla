------------------------ MODULE WorkflowEngineProofs ------------------------
(***************************************************************************)
(* Proofs about WorkflowEngine, for any users, roles, thresholds and number *)
(* of scheduler threads.                                                    *)
(*                                                                          *)
(* A step is either one of the state machine, under the lock, which leaves  *)
(* the reminders alone, or one of the scheduler, which leaves the state     *)
(* machine alone.  The two halves of the invariant follow that cut.         *)
(***************************************************************************)
EXTENDS WorkflowEngine, SequenceTheorems, TLAPS

----------------------------------------------------------------------------
(* The state machine.                                                       *)

WorkflowTypeOK ==
  /\ state \in WorkflowState
  /\ audit \in Seq(Entry)
  /\ approvals \subseteq Users /\ rejections \subseteq Users
  /\ resolved \in Nat /\ escalations \in Nat

\* What makes NotifiedOnce inductive: nobody has been told of a decision while
\* the workflow is open, nor of an escalation before it is escalated.
NotYetNotified ==
  /\ state \in ACTIVE_STATES => resolved = 0
  /\ state \in ACTIVE_STATES \ {"escalated"} => escalations = 0

WorkflowInv ==
  /\ WorkflowTypeOK
  /\ audit # <<>>
  /\ AuditReplaysTheState
  /\ ApprovalIsEarned
  /\ NoApprovalAfterRejection
  /\ NotifiedOnce
  /\ NotYetNotified

\* The step writes the entry e, which tells of it.
Records(e) ==
  /\ e \in Entry
  /\ audit' = Append(audit, e)
  /\ e.after = state'
  /\ e.before = state \/ (state = "assigned" /\ e.before = "in_progress")

\* What _handle_action does, whichever action it is given.
Handles(e) ==
  /\ state \in ACTIVE_STATES
  /\ state' \in (WorkflowState \ {"assigned", "pending"}) \cup {state}
  /\ Records(e)
  /\ approvals' \subseteq Users /\ rejections' \subseteq Users
  /\ rejections' = rejections \/ state' = "rejected"
  /\ state' = "approved" =>
       \/ Cardinality(approvals') >= RequiredApprovals
       \/ /\ e.action \in {"override", "auto_approve"}
          /\ e.user = System \/ e.action \in Allowed[e.user]
  /\ state = "escalated" => state' \notin {"in_progress", "assigned", "pending"}
  /\ CallHooks

\* The entry that an action writes tells of that action.
LEMMA TransitionRecords ==
  ASSUME WorkflowTypeOK, NEW user \in Users, NEW action \in WorkflowAction,
         NEW before \in {state, InProgress}, NEW after \in WorkflowState,
         state \in ACTIVE_STATES,
         Transition(user, action, before, after)
  PROVE  \E e \in Entry : e.user = user /\ e.action = action /\ Records(e)
<1> DEFINE e == [user |-> user, action |-> action, before |-> before, after |-> after]
<1>1. InProgress \in WorkflowState /\ state \in WorkflowState
  BY DEF InProgress, WorkflowTypeOK, WorkflowState, ACTIVE_STATES
<1>2. e \in Entry
  BY <1>1 DEF Entry
<1>3. before = state \/ (state = "assigned" /\ before = "in_progress")
  BY DEF InProgress
<1>4. Records(e)
  BY <1>2, <1>3 DEF Records, Transition
<1> QED
  BY <1>2, <1>4

LEMMA HandleActionHandles ==
  ASSUME WorkflowTypeOK, NEW user \in Users, NEW action \in WorkflowAction,
         HandleAction(user, action)
  PROVE  \E e \in Entry : Handles(e)
<1>1. /\ state \in ACTIVE_STATES
      /\ user = System \/ action \in Allowed[user]
      /\ ApplyAction(user, action)
      /\ CallHooks
  BY DEF HandleAction, NotOver, MayDo, WorkflowTypeOK, WorkflowState, TERMINAL_STATES, ACTIVE_STATES
<1>2. System \in Users
  BY WorkflowAssumption DEF WorkflowAssumption
<1>3. /\ InProgress \in {state, "in_progress"}
      /\ state = "escalated" => InProgress = "escalated"
      /\ state = "assigned" => InProgress = "in_progress"
      /\ state # "assigned" => InProgress = state
      /\ InProgress \in WorkflowState
      /\ state \in WorkflowState
  BY <1>1 DEF InProgress, ACTIVE_STATES, WorkflowState
<1> DEFINE Votes(b, a) ==
      /\ Transition(user, action, b, a)
      /\ approvals' \subseteq Users /\ rejections' \subseteq Users
      /\ rejections' = rejections \/ a = "rejected"
      /\ a = "approved" => \/ Cardinality(approvals') >= RequiredApprovals
                           \/ action \in {"override", "auto_approve"}
<1>4. \E b \in {state, InProgress},
        a \in {state, InProgress, "approved", "rejected", "escalated", "closed"} : Votes(b, a)
  <2>0. approvals \subseteq Users /\ rejections \subseteq Users
    BY DEF WorkflowTypeOK
  <2>1. CASE action = "approve" /\ Approve(user)
    <3>1. approvals' \subseteq Users /\ rejections' = rejections
      BY <2>0, <2>1 DEF Approve
    <3>2. CASE Cardinality(approvals') >= RequiredApprovals
      <4>1. Votes(InProgress, "approved")
        BY <2>0, <2>1, <3>1, <3>2 DEF Approve
      <4> QED
        BY <4>1
    <3>3. CASE ~(Cardinality(approvals') >= RequiredApprovals)
      <4>1. InProgress # "approved"
        BY <1>1, <1>3 DEF ACTIVE_STATES
      <4>2. Votes(InProgress, InProgress)
        BY <2>0, <2>1, <3>1, <3>3, <4>1 DEF Approve
      <4> QED
        BY <4>2
    <3> QED
      BY <3>2, <3>3
  <2>2. CASE action = "override" /\ Override(user)
    <3>1. Votes(state, "approved")
      BY <2>0, <2>2 DEF Override
    <3> QED
      BY <3>1
  <2>3. CASE action = "auto_approve" /\ AutoApprove(user)
    <3>1. Votes(state, "approved")
      BY <1>2, <2>0, <2>3 DEF AutoApprove
    <3> QED
      BY <3>1
  <2>4. CASE action = "reject" /\ Reject(user)
    <3>1. Votes(state, "rejected")
      BY <2>0, <2>4 DEF Reject
    <3> QED
      BY <3>1
  <2>5. CASE action = "escalate" /\ Escalate(user)
    <3>1. Votes(state, "escalated")
      BY <2>0, <2>5 DEF Escalate
    <3> QED
      BY <3>1
  <2>6. CASE action = "request_info" /\ RequestInfo(user)
    <3>1. Votes(InProgress, InProgress)
      BY <1>1, <1>3, <2>0, <2>6 DEF RequestInfo, ACTIVE_STATES
    <3> QED
      BY <3>1
  <2>7. CASE action = "delegate" /\ Delegate(user)
    <3>1. Votes(state, state)
      BY <1>1, <2>0, <2>7 DEF Delegate, ACTIVE_STATES
    <3> QED
      BY <3>1
  <2>8. CASE action = "close" /\ CloseAction(user)
    <3>1. Votes(state, "closed")
      BY <2>0, <2>8 DEF CloseAction
    <3> QED
      BY <3>1
  <2> QED
    BY <1>1, <2>1, <2>2, <2>3, <2>4, <2>5, <2>6, <2>7, <2>8 DEF ApplyAction
<1>5. PICK b \in {state, InProgress},
           a \in {state, InProgress, "approved", "rejected", "escalated", "closed"} : Votes(b, a)
  BY <1>4
<1>6. a \in WorkflowState
  BY <1>3 DEF WorkflowState, TERMINAL_STATES, ACTIVE_STATES
<1>7. PICK e \in Entry : e.user = user /\ e.action = action /\ Records(e)
  BY <1>1, <1>5, <1>6, TransitionRecords
<1>8. state' = a
  BY <1>5 DEF Transition
<1>9. state' \in (WorkflowState \ {"assigned", "pending"}) \cup {state}
  <2>1. a \in {state, "in_progress", "approved", "rejected", "escalated", "closed"}
    BY <1>3
  <2> QED
    BY <1>6, <1>8, <2>1
<1>10. state = "escalated" => state' \notin {"in_progress", "assigned", "pending"}
  BY <1>3, <1>8
<1> QED
  BY <1>1, <1>5, <1>7, <1>8, <1>9, <1>10 DEF Handles

\* The entry appended is the last one, and the others stay.
LEMMA AuditAppended ==
  ASSUME WorkflowTypeOK, NEW e \in Entry, audit' = Append(audit, e)
  PROVE  /\ audit' \in Seq(Entry) /\ audit' # <<>>
         /\ Len(audit') = Len(audit) + 1
         /\ Len(audit) \in Nat
         /\ DOMAIN audit = 1 .. Len(audit)
         /\ DOMAIN audit' = 1 .. Len(audit) + 1
         /\ audit'[Len(audit) + 1] = e
         /\ \A i \in 1 .. Len(audit) : audit'[i] = audit[i]
<1>1. audit \in Seq(Entry)
  BY DEF WorkflowTypeOK
<1>2. /\ Append(audit, e) \in Seq(Entry)
      /\ Len(Append(audit, e)) = Len(audit) + 1
      /\ \A i \in 1 .. Len(audit) : Append(audit, e)[i] = audit[i]
      /\ Append(audit, e)[Len(audit) + 1] = e
  BY <1>1, AppendProperties
<1>3. Len(audit) \in Nat
  BY <1>1
<1> QED
  BY <1>1, <1>2, <1>3

\* The audit log goes on telling the story of the state.
LEMMA StoryGoesOn ==
  ASSUME WorkflowInv, NEW e \in Entry, Records(e)
  PROVE  audit' \in Seq(Entry) /\ audit' # <<>> /\ AuditReplaysTheState'
<1>1. WorkflowTypeOK /\ AuditReplaysTheState /\ audit # <<>> /\ audit \in Seq(Entry)
  BY DEF WorkflowInv, WorkflowTypeOK
<1>2. Len(audit) >= 1
  BY <1>1
<1>3. /\ audit' = Append(audit, e)
      /\ e.after = state'
      /\ e.before = state \/ (state = "assigned" /\ e.before = "in_progress")
  BY DEF Records
<1>4. /\ audit' \in Seq(Entry) /\ audit' # <<>>
      /\ Len(audit') = Len(audit) + 1
      /\ Len(audit) \in Nat
      /\ audit'[Len(audit) + 1] = e
      /\ \A i \in 1 .. Len(audit) : audit'[i] = audit[i]
  BY <1>1, <1>3, AuditAppended
<1>5. audit'[Len(audit')].after = state'
  BY <1>3, <1>4
<1>6. ASSUME NEW i \in 1 .. Len(audit') - 1
      PROVE  \/ audit'[i + 1].before = audit'[i].after
             \/ audit'[i].after = "assigned" /\ audit'[i + 1].before = "in_progress"
  <2>1. CASE i = Len(audit)
    <3>1. audit'[i] = audit[i] /\ audit'[i + 1] = e
      BY <1>2, <1>4, <2>1
    <3>2. audit[i].after = state
      BY <1>1, <2>1 DEF AuditReplaysTheState
    <3> QED
      BY <1>3, <3>1, <3>2
  <2>2. CASE i # Len(audit)
    <3>1. i \in 1 .. Len(audit) - 1 /\ i \in 1 .. Len(audit) /\ i + 1 \in 1 .. Len(audit)
      BY <1>4, <2>2
    <3>2. audit'[i] = audit[i] /\ audit'[i + 1] = audit[i + 1]
      BY <1>4, <3>1
    <3> QED
      BY <1>1, <3>1, <3>2 DEF AuditReplaysTheState
  <2> QED
    BY <2>1, <2>2
<1> QED
  BY <1>4, <1>5, <1>6 DEF AuditReplaysTheState

\* An override that was recorded stays recorded.
LEMMA EarnedByEntry ==
  ASSUME WorkflowTypeOK, NEW e \in Entry, audit' = Append(audit, e),
         e.action \in {"override", "auto_approve"},
         e.user = System \/ e.action \in Allowed[e.user]
  PROVE  ApprovalIsEarned'
<1>1. /\ Len(audit) + 1 \in DOMAIN audit'
      /\ audit'[Len(audit) + 1] = e
  BY AuditAppended
<1> QED
  BY <1>1 DEF ApprovalIsEarned, Entries

----------------------------------------------------------------------------
(* The invariant of the state machine.                                      *)

LEMMA WorkflowInit == Init => WorkflowInv
<1> SUFFICES ASSUME Init
             PROVE  WorkflowInv
  OBVIOUS
<1> DEFINE e == [user |-> System, action |-> "delegate", before |-> "pending", after |-> "assigned"]
<1>1. e \in Entry
  BY WorkflowAssumption
     DEF WorkflowAssumption, Entry, WorkflowAction, WorkflowState, ACTIVE_STATES, TERMINAL_STATES
<1>2. audit = <<e>> /\ state = "assigned"
  BY DEF Init
<1>3. audit \in Seq(Entry) /\ audit # <<>> /\ Len(audit) = 1 /\ audit[1] = e
  BY <1>1, <1>2
<1>4. AuditReplaysTheState
  BY <1>2, <1>3 DEF AuditReplaysTheState
<1>5. state \in WorkflowState
  BY <1>2 DEF WorkflowState, ACTIVE_STATES
<1> QED
  BY <1>2, <1>3, <1>4, <1>5
     DEF Init, WorkflowInv, WorkflowTypeOK, ApprovalIsEarned, NoApprovalAfterRejection,
         NotifiedOnce, NotYetNotified

\* _handle_action keeps it.
LEMMA HandlesKeepsInv ==
  ASSUME WorkflowInv, NEW e \in Entry, Handles(e)
  PROVE  WorkflowInv'
<1>1. /\ WorkflowTypeOK /\ state \in ACTIVE_STATES /\ Records(e) /\ CallHooks
      /\ state' \in WorkflowState
  BY DEF WorkflowInv, Handles, WorkflowTypeOK
<1>2. audit' \in Seq(Entry) /\ audit' # <<>> /\ AuditReplaysTheState'
  BY <1>1, StoryGoesOn
<1>3. resolved = 0 /\ (state # "escalated" => escalations = 0) /\ escalations \in {0, 1}
  BY <1>1 DEF WorkflowInv, NotYetNotified, NotifiedOnce, WorkflowTypeOK
<1>4. resolved' = (IF state' \in {"approved", "rejected"} THEN 1 ELSE 0)
  BY <1>1, <1>3 DEF CallHooks
<1>5. escalations' \in {0, 1} /\ (escalations' = 1 => state = "escalated" \/ state' = "escalated")
  BY <1>1, <1>3 DEF CallHooks
<1>6. WorkflowTypeOK'
  BY <1>1, <1>2, <1>4, <1>5 DEF Handles, WorkflowTypeOK
<1>7. ApprovalIsEarned'
  <2>1. CASE state' # "approved"
    BY <2>1 DEF ApprovalIsEarned
  <2>2. CASE Cardinality(approvals') >= RequiredApprovals
    BY <2>2 DEF ApprovalIsEarned
  <2>3. CASE /\ e.action \in {"override", "auto_approve"}
             /\ e.user = System \/ e.action \in Allowed[e.user]
    BY <1>1, <2>3, EarnedByEntry DEF Records
  <2> QED
    BY <2>1, <2>2, <2>3 DEF Handles
<1>8. NoApprovalAfterRejection'
  BY <1>1 DEF WorkflowInv, Handles, NoApprovalAfterRejection, ACTIVE_STATES
<1>9. NotifiedOnce'
  BY <1>4, <1>5 DEF NotifiedOnce
<1>10. NotYetNotified'
  BY <1>1, <1>4, <1>5 DEF NotYetNotified, Handles, ACTIVE_STATES, WorkflowState, TERMINAL_STATES
<1> QED
  BY <1>2, <1>6, <1>7, <1>8, <1>9, <1>10 DEF WorkflowInv

\* assign(), delegate() and close() keep it: an entry, and no vote.
LEMMA EntryKeepsInv ==
  ASSUME WorkflowInv, NEW e \in Entry, Records(e),
         UNCHANGED <<approvals, rejections, resolved, escalations>>,
         \/ state' = state /\ state \in ACTIVE_STATES
         \/ state' = "closed" /\ state \in {"approved", "rejected"}
  PROVE  WorkflowInv'
<1>1. audit' \in Seq(Entry) /\ audit' # <<>> /\ AuditReplaysTheState'
  BY StoryGoesOn
<1>2. state' \in WorkflowState
  BY DEF WorkflowState, TERMINAL_STATES
<1>3. WorkflowTypeOK'
  BY <1>1, <1>2 DEF WorkflowInv, WorkflowTypeOK
<1>4. ApprovalIsEarned'
  BY DEF ApprovalIsEarned, ACTIVE_STATES
<1>5. NoApprovalAfterRejection' /\ NotifiedOnce' /\ NotYetNotified'
  BY DEF WorkflowInv, NoApprovalAfterRejection, NotifiedOnce, NotYetNotified, ACTIVE_STATES
<1> QED
  BY <1>1, <1>3, <1>4, <1>5 DEF WorkflowInv

LEMMA WorkflowStep == WorkflowInv /\ [Next]_vars => WorkflowInv'
<1> SUFFICES ASSUME WorkflowInv, [Next]_vars
             PROVE  WorkflowInv'
  OBVIOUS
<1>a. WorkflowTypeOK
  BY DEF WorkflowInv
<1>b. System \in Users /\ "escalate" \in WorkflowAction /\ "delegate" \in WorkflowAction
      /\ "close" \in WorkflowAction
  BY WorkflowAssumption DEF WorkflowAssumption, WorkflowAction
<1>c. ASSUME UNCHANGED workflowVars
      PROVE  WorkflowInv'
  BY <1>c DEF workflowVars, WorkflowInv, WorkflowTypeOK, AuditReplaysTheState, ApprovalIsEarned,
              Entries, NoApprovalAfterRejection, NotifiedOnce, NotYetNotified
<1>d. ASSUME NEW u \in Users, NEW a \in WorkflowAction, HandleAction(u, a)
      PROVE  WorkflowInv'
  BY <1>a, <1>d, HandleActionHandles, HandlesKeepsInv
<1>1. ASSUME NEW u \in Users, NEW a \in WorkflowAction, Submit(u, a)
      PROVE  WorkflowInv'
  BY <1>1, <1>d DEF Submit
<1>2. ASSUME NEW u \in Users, Reassign(u)
      PROVE  WorkflowInv'
  <2>1. state \in ACTIVE_STATES /\ state \in WorkflowState
    BY <1>2, <1>a DEF Reassign, NotOver, WorkflowTypeOK, WorkflowState, TERMINAL_STATES
  <2>2. \E e \in Entry : Records(e)
    BY <1>2, <1>a, <1>b, <2>1, TransitionRecords DEF Reassign
  <2>3. state' = state /\ UNCHANGED <<approvals, rejections, resolved, escalations>>
    BY <1>2 DEF Reassign, Transition
  <2> QED
    BY <2>1, <2>2, <2>3, EntryKeepsInv
<1>3. ASSUME NEW u \in Users, Close(u)
      PROVE  WorkflowInv'
  <2> DEFINE e == [user |-> u, action |-> "close", before |-> state, after |-> "closed"]
  <2>1. /\ state \in {"approved", "rejected"} /\ state' = "closed" /\ audit' = Append(audit, e)
        /\ UNCHANGED <<approvals, rejections, resolved, escalations>>
    BY <1>3 DEF Close, Transition
  <2>2. e \in Entry
    BY <1>b, <2>1 DEF Entry, WorkflowState, TERMINAL_STATES
  <2>3. Records(e)
    BY <2>1, <2>2 DEF Records
  <2> QED
    BY <2>1, <2>2, <2>3, EntryKeepsInv
<1>4. CASE Tick
  BY <1>4, <1>c DEF Tick
<1>5. ASSUME NEW t \in Threads, Scheduler(t)
      PROVE  WorkflowInv'
  <2>1. CASE AutoEscalate(t)
    BY <2>1, <1>b, <1>c, <1>d DEF AutoEscalate
  <2>2. CASE FindEscalationDue(t) \/ StartReminders(t) \/ CheckReminder(t) \/ FireReminder(t)
    BY <2>2, <1>c DEF FindEscalationDue, StartReminders, CheckReminder, FireReminder
  <2> QED
    BY <1>5, <2>1, <2>2 DEF Scheduler
<1>6. CASE UNCHANGED vars
  BY <1>6, <1>c DEF vars
<1> QED
  BY <1>1, <1>2, <1>3, <1>4, <1>5, <1>6 DEF Next

----------------------------------------------------------------------------
(* The scheduler.                                                           *)

SchedulerTypeOK ==
  /\ passed \in 0 .. LastThreshold
  /\ fired \subseteq 1 .. passed
  /\ scheduler \in [Threads -> [pc : {"idle", "escalate", "check", "fire"},
                                passed : Nat, threshold : Nat]]
  /\ reminded \subseteq Threads \X (1 .. passed)
  /\ repeated \subseteq reminded

\* A thread counts only thresholds that have passed, and is about to fire only
\* one that it has not fired itself.
ThreadOK(t) ==
  /\ scheduler[t].pc \in {"check", "fire"} =>
       /\ scheduler[t].passed <= passed
       /\ scheduler[t].threshold >= 1
  /\ scheduler[t].pc = "fire" =>
       /\ scheduler[t].threshold <= scheduler[t].passed
       /\ <<t, scheduler[t].threshold>> \notin reminded

\* Every reminder that was sent is recorded as fired.
RemindedIsFired == \A t \in Threads, k \in 1 .. passed : <<t, k>> \in reminded => k \in fired

SchedulerInv ==
  /\ SchedulerTypeOK
  /\ \A t \in Threads : ThreadOK(t)
  /\ RemindedIsFired
  /\ ReminderOncePerThread

LEMMA SchedulerInit == Init => SchedulerInv
BY WorkflowAssumption
   DEF WorkflowAssumption, Init, Idle, SchedulerInv, SchedulerTypeOK, ThreadOK, RemindedIsFired,
       ReminderOncePerThread

\* Where a thread goes when it is done with a threshold.
LEMMA NextThresholdMoves ==
  ASSUME SchedulerTypeOK, NEW t \in Threads, scheduler' = NextThreshold(t)
  PROVE  /\ scheduler' \in [Threads -> [pc : {"idle", "escalate", "check", "fire"},
                                        passed : Nat, threshold : Nat]]
         /\ \A u \in Threads \ {t} : scheduler'[u] = scheduler[u]
         /\ \/ scheduler'[t].pc = "idle"
            \/ /\ scheduler'[t].pc = "check"
               /\ scheduler'[t].passed = scheduler[t].passed
               /\ scheduler'[t].threshold = scheduler[t].threshold + 1
<1>1. scheduler \in [Threads -> [pc : {"idle", "escalate", "check", "fire"},
                                 passed : Nat, threshold : Nat]]
  BY DEF SchedulerTypeOK
<1>2. CASE scheduler[t].threshold = LastThreshold
  BY <1>1, <1>2 DEF NextThreshold, Idle
<1>3. CASE scheduler[t].threshold # LastThreshold
  BY <1>1, <1>3 DEF NextThreshold
<1> QED
  BY <1>2, <1>3

LEMMA SchedulerStep == SchedulerInv /\ [Next]_vars => SchedulerInv'
<1> SUFFICES ASSUME SchedulerInv, [Next]_vars
             PROVE  SchedulerInv'
  OBVIOUS
<1>a. /\ SchedulerTypeOK
      /\ passed \in Nat /\ LastThreshold \in Nat
      /\ scheduler \in [Threads -> [pc : {"idle", "escalate", "check", "fire"},
                                    passed : Nat, threshold : Nat]]
  BY WorkflowAssumption DEF WorkflowAssumption, SchedulerInv, SchedulerTypeOK
<1>b. ASSUME UNCHANGED <<passed, scheduler, reminderVars>>
      PROVE  SchedulerInv'
  BY <1>b DEF reminderVars, SchedulerInv, SchedulerTypeOK, ThreadOK, RemindedIsFired,
              ReminderOncePerThread
\* A step of one thread that sends nothing.
<1>c. ASSUME NEW t \in Threads,
             UNCHANGED <<passed, reminderVars>>,
             scheduler' \in [Threads -> [pc : {"idle", "escalate", "check", "fire"},
                                         passed : Nat, threshold : Nat]],
             \A u \in Threads \ {t} : scheduler'[u] = scheduler[u],
             ThreadOK(t)'
      PROVE  SchedulerInv'
  <2>1. SchedulerTypeOK' /\ RemindedIsFired' /\ ReminderOncePerThread'
    BY <1>c DEF reminderVars, SchedulerInv, SchedulerTypeOK, RemindedIsFired, ReminderOncePerThread
  <2>2. ASSUME NEW u \in Threads
        PROVE  ThreadOK(u)'
    <3>1. CASE u = t
      BY <1>c, <3>1
    <3>2. CASE u # t
      BY <1>c, <3>2 DEF reminderVars, SchedulerInv, ThreadOK
    <3> QED
      BY <3>1, <3>2
  <2> QED
    BY <2>1, <2>2 DEF SchedulerInv
<1>1. ASSUME NEW u \in Users, NEW a \in WorkflowAction, Submit(u, a)
      PROVE  SchedulerInv'
  BY <1>1, <1>b DEF Submit
<1>2. ASSUME NEW u \in Users, Reassign(u) \/ Close(u)
      PROVE  SchedulerInv'
  BY <1>2, <1>b DEF Reassign, Close
<1>3. CASE Tick
  <2>1. passed' = passed + 1 /\ passed' \in 0 .. LastThreshold
        /\ UNCHANGED <<scheduler, fired, reminded, repeated>>
    BY <1>3, <1>a DEF Tick, reminderVars
  <2>2. 1 .. passed \subseteq 1 .. passed'
    BY <1>a, <2>1
  <2>3. SchedulerTypeOK'
    BY <1>a, <2>1, <2>2 DEF SchedulerTypeOK
  <2>4. RemindedIsFired'
    <3> SUFFICES ASSUME NEW t \in Threads, NEW k \in 1 .. passed', <<t, k>> \in reminded
                 PROVE  k \in fired
      BY <2>1 DEF RemindedIsFired
    <3>1. k \in 1 .. passed
      BY <1>a DEF SchedulerTypeOK
    <3> QED
      BY <3>1 DEF SchedulerInv, RemindedIsFired
  <2>5. \A t \in Threads : ThreadOK(t)'
    BY <1>a, <2>1 DEF SchedulerInv, ThreadOK
  <2> QED
    BY <2>1, <2>3, <2>4, <2>5 DEF SchedulerInv, ReminderOncePerThread
<1>4. ASSUME NEW t \in Threads, FindEscalationDue(t)
      PROVE  SchedulerInv'
  <2>1. /\ scheduler' = [scheduler EXCEPT ![t].pc = "escalate"]
        /\ UNCHANGED <<passed, reminderVars>>
    BY <1>4 DEF FindEscalationDue
  <2>2. scheduler'[t].pc = "escalate"
    BY <1>a, <2>1
  <2> QED
    BY <1>a, <1>c, <2>1, <2>2 DEF ThreadOK
<1>5. ASSUME NEW t \in Threads, AutoEscalate(t)
      PROVE  SchedulerInv'
  <2>1. /\ scheduler' = [scheduler EXCEPT ![t] = Idle]
        /\ UNCHANGED <<passed, reminderVars>>
    BY <1>5 DEF AutoEscalate
  <2> QED
    BY <1>a, <1>c, <2>1 DEF ThreadOK, Idle
<1>6. ASSUME NEW t \in Threads, StartReminders(t)
      PROVE  SchedulerInv'
  <2>1. /\ scheduler' = [scheduler EXCEPT ![t] =
                           [pc |-> "check", passed |-> passed, threshold |-> 1]]
        /\ UNCHANGED <<passed, reminderVars>>
    BY <1>6 DEF StartReminders
  <2>2. /\ scheduler' \in [Threads -> [pc : {"idle", "escalate", "check", "fire"},
                                       passed : Nat, threshold : Nat]]
        /\ \A u \in Threads \ {t} : scheduler'[u] = scheduler[u]
        /\ scheduler'[t] = [pc |-> "check", passed |-> passed, threshold |-> 1]
    BY <1>a, <2>1
  <2>3. ThreadOK(t)'
    BY <1>a, <2>1, <2>2 DEF ThreadOK
  <2> QED
    BY <1>c, <2>1, <2>2, <2>3
<1>7. ASSUME NEW t \in Threads, CheckReminder(t)
      PROVE  SchedulerInv'
  <2>1. scheduler[t].pc = "check" /\ UNCHANGED <<passed, reminderVars>> /\ ThreadOK(t)
    BY <1>7 DEF CheckReminder, SchedulerInv
  <2>2. CASE scheduler[t].threshold \notin fired /\ scheduler[t].passed >= scheduler[t].threshold
    <3>1. scheduler' = [scheduler EXCEPT ![t].pc = "fire"]
      BY <1>7, <2>2 DEF CheckReminder
    <3>2. /\ scheduler' \in [Threads -> [pc : {"idle", "escalate", "check", "fire"},
                                         passed : Nat, threshold : Nat]]
          /\ \A u \in Threads \ {t} : scheduler'[u] = scheduler[u]
          /\ scheduler'[t].pc = "fire"
          /\ scheduler'[t].passed = scheduler[t].passed
          /\ scheduler'[t].threshold = scheduler[t].threshold
      BY <1>a, <3>1
    <3>3. scheduler[t].threshold \in 1 .. passed
      BY <1>a, <2>1, <2>2 DEF ThreadOK
    <3>4. <<t, scheduler[t].threshold>> \notin reminded
      BY <2>2, <3>3 DEF SchedulerInv, RemindedIsFired
    <3>5. ThreadOK(t)'
      BY <1>a, <2>1, <2>2, <3>2, <3>4 DEF ThreadOK, reminderVars
    <3> QED
      BY <1>c, <2>1, <3>2, <3>5
  <2>3. CASE ~(scheduler[t].threshold \notin fired /\ scheduler[t].passed >= scheduler[t].threshold)
    <3>1. scheduler' = NextThreshold(t)
      BY <1>7, <2>3 DEF CheckReminder
    <3>2. ThreadOK(t)'
      BY <1>a, <2>1, <3>1, NextThresholdMoves DEF ThreadOK
    <3> QED
      BY <1>a, <1>c, <2>1, <3>1, <3>2, NextThresholdMoves
  <2> QED
    BY <2>2, <2>3
<1>8. ASSUME NEW t \in Threads, FireReminder(t)
      PROVE  SchedulerInv'
  <2> DEFINE k == scheduler[t].threshold
  <2>1. /\ scheduler[t].pc = "fire" /\ scheduler' = NextThreshold(t)
        /\ passed' = passed
        /\ fired' = fired \cup {k}
        /\ reminded' = reminded \cup {<<t, k>>}
        /\ ThreadOK(t)
    BY <1>8 DEF FireReminder, SchedulerInv
  <2>2. k \in 1 .. passed /\ <<t, k>> \notin reminded
    BY <1>a, <2>1 DEF ThreadOK
  <2>3. repeated' = {}
    BY <1>8, <2>2 DEF FireReminder, SchedulerInv, ReminderOncePerThread
  <2>4. /\ scheduler' \in [Threads -> [pc : {"idle", "escalate", "check", "fire"},
                                       passed : Nat, threshold : Nat]]
        /\ \A u \in Threads \ {t} : scheduler'[u] = scheduler[u]
        /\ \/ scheduler'[t].pc = "idle"
           \/ /\ scheduler'[t].pc = "check"
              /\ scheduler'[t].passed = scheduler[t].passed
              /\ scheduler'[t].threshold = k + 1
    BY <1>a, <2>1, NextThresholdMoves
  <2>5. SchedulerTypeOK'
    <3>1. passed' \in 0 .. LastThreshold /\ fired' \subseteq 1 .. passed'
      BY <1>a, <2>1, <2>2 DEF SchedulerTypeOK
    <3>2. <<t, k>> \in Threads \X (1 .. passed)
      BY <2>2
    <3>3. reminded' \subseteq Threads \X (1 .. passed')
      BY <1>a, <2>1, <3>2 DEF SchedulerTypeOK
    <3> QED
      BY <2>3, <2>4, <3>1, <3>3 DEF SchedulerTypeOK
  <2>6. RemindedIsFired'
    BY <2>1 DEF SchedulerInv, RemindedIsFired
  <2>7. ASSUME NEW u \in Threads
        PROVE  ThreadOK(u)'
    <3>1. CASE u = t
      BY <1>a, <2>1, <2>2, <2>4, <3>1 DEF ThreadOK
    <3>2. CASE u # t
      BY <2>1, <2>4, <3>2 DEF SchedulerInv, ThreadOK
    <3> QED
      BY <3>1, <3>2
  <2> QED
    BY <2>3, <2>5, <2>6, <2>7 DEF SchedulerInv, ReminderOncePerThread
<1>9. CASE UNCHANGED vars
  BY <1>9, <1>b DEF vars
<1> QED
  BY <1>1, <1>2, <1>3, <1>4, <1>5, <1>6, <1>7, <1>8, <1>9 DEF Next, Scheduler

----------------------------------------------------------------------------
(* The theorems.                                                            *)

LEMMA WorkflowInvariance == Spec => []WorkflowInv
<1> QED
  BY WorkflowInit, WorkflowStep, PTL DEF Spec

LEMMA SchedulerInvariance == Spec => []SchedulerInv
<1> QED
  BY SchedulerInit, SchedulerStep, PTL DEF Spec

\* The state machine and the scheduler's bookkeeping keep their types: no
\* reminder is recorded for a threshold that has not passed.
THEOREM TypeCorrect == Spec => []TypeOK
<1>1. WorkflowInv /\ SchedulerInv => TypeOK
  BY DEF WorkflowInv, SchedulerInv, WorkflowTypeOK, SchedulerTypeOK, TypeOK
<1> QED
  BY <1>1, WorkflowInvariance, SchedulerInvariance, PTL

\* An approved workflow has the approvals it requires, or was overridden by
\* somebody whose role allows it.
THEOREM ApprovalCorrect == Spec => []ApprovalIsEarned
<1>1. WorkflowInv => ApprovalIsEarned
  BY DEF WorkflowInv
<1> QED
  BY <1>1, WorkflowInvariance, PTL

\* Nothing approves a workflow that somebody has rejected.
THEOREM RejectionCorrect == Spec => []NoApprovalAfterRejection
<1>1. WorkflowInv => NoApprovalAfterRejection
  BY DEF WorkflowInv
<1> QED
  BY <1>1, WorkflowInvariance, PTL

\* The audit log accounts for every change of the state but the silent one.
THEOREM AuditCorrect == Spec => []AuditReplaysTheState
<1>1. WorkflowInv => AuditReplaysTheState
  BY DEF WorkflowInv
<1> QED
  BY <1>1, WorkflowInvariance, PTL

\* on_resolved and on_escalation are called once, however many threads act.
THEOREM NotificationCorrect == Spec => []NotifiedOnce
<1>1. WorkflowInv => NotifiedOnce
  BY DEF WorkflowInv
<1> QED
  BY <1>1, WorkflowInvariance, PTL

\* No scheduler thread sends one reminder twice.
THEOREM ReminderCorrect == Spec => []ReminderOncePerThread
<1>1. SchedulerInv => ReminderOncePerThread
  BY DEF SchedulerInv
<1> QED
  BY <1>1, SchedulerInvariance, PTL

\* A decided workflow stays decided: what a scheduler thread found before the
\* decision does nothing after it.
THEOREM DecisionCorrect == Spec => DecisionsAreFinal
<1> DEFINE Final == /\ state \in {"approved", "rejected"} => state' \in {state, "closed"}
                    /\ state = "closed" => state' = "closed"
<1>1. ASSUME [Next]_vars
      PROVE  [Final]_vars
  <2> SUFFICES ASSUME state \in TERMINAL_STATES, Next
               PROVE  state' = state \/ (state \in {"approved", "rejected"} /\ state' = "closed")
    BY <1>1 DEF TERMINAL_STATES, vars
  <2>1. ~NotOver
    BY DEF NotOver
  <2> QED
    BY <2>1 DEF Next, Submit, HandleAction, Reassign, Close, Transition, Tick, Scheduler,
       FindEscalationDue, AutoEscalate, StartReminders, CheckReminder, FireReminder, workflowVars
<1> QED
  BY <1>1, PTL DEF Spec, DecisionsAreFinal
=============================================================================
