------------------------------ MODULE CostBudget ------------------------------
(***************************************************************************)
(* CostTracker and BudgetMonitor (cost.py).  The record is appended under    *)
(* the tracker's lock; the monitors are checked outside it, each by reading  *)
(* its _fired flag, then the total, then setting the flag.                   *)
(***************************************************************************)
EXTENDS Naturals, FiniteSets

CONSTANTS CbThreads,    \* threads that record a cost of 1
          CbThreshold,  \* threshold_usd of the one monitor
          CbCap,        \* bound: records
          CbResets      \* bound: resets

VARIABLES cbRecords,  \* number of _records
          cbFired,    \* _fired
          cbCalls,    \* thread -> where its record() stands
          cbResets,   \* history: resets
          cbNotified, \* history: on_exceeded calls since the last reset
          cbStale     \* history: a check that began before the last reset set _fired

cbVars == <<cbRecords, cbFired, cbCalls, cbResets, cbNotified, cbStale>>

NoCall == [pc |-> "idle", epoch |-> 0]

Init == /\ cbRecords = 0 /\ cbFired = FALSE
        /\ cbCalls = [t \in CbThreads |-> NoCall]
        /\ cbResets = 0 /\ cbNotified = 0 /\ cbStale = FALSE

Goto(t, pc) == cbCalls' = [cbCalls EXCEPT ![t].pc = pc]

(* record: what _calculate_cost found, or 0 for an unknown model (which no   *)
(* monitor notices), is appended.                                            *)
record_cost(t) ==
    /\ cbCalls[t].pc = "idle" /\ cbRecords < CbCap
    /\ cbRecords' = cbRecords + 1
    /\ cbCalls' = [cbCalls EXCEPT ![t] = [pc |-> "flag", epoch |-> cbResets]]
    /\ UNCHANGED <<cbFired, cbResets, cbNotified, cbStale>>

(* BudgetMonitor.check: the flag ... *)
check_flag(t) == /\ cbCalls[t].pc = "flag"
                 /\ Goto(t, IF cbFired THEN "idle" ELSE "total")
                 /\ UNCHANGED <<cbRecords, cbFired, cbResets, cbNotified, cbStale>>

(* ... the total, summed under the lock ... *)
total_usd == cbRecords
check_total(t) == /\ cbCalls[t].pc = "total"
                  /\ Goto(t, IF total_usd >= CbThreshold THEN "fire" ELSE "idle")
                  /\ UNCHANGED <<cbRecords, cbFired, cbResets, cbNotified, cbStale>>

(* A mutant of check_fire: the flag is left as it was. *)
FireAgain(t) == /\ cbCalls[t].pc = "fire"
                /\ cbNotified' = cbNotified + 1
                /\ Goto(t, "idle")
                /\ UNCHANGED <<cbRecords, cbFired, cbResets, cbStale>>

(* ... and the flag again, with the callback. *)
check_fire(t) == /\ cbCalls[t].pc = "fire"
                 /\ cbFired' = TRUE
                 /\ cbNotified' = cbNotified + 1
                 /\ cbStale' = (cbStale \/ cbCalls[t].epoch # cbResets)
                 /\ Goto(t, "idle")
                 /\ UNCHANGED <<cbRecords, cbResets>>

(* reset: records and flags in one section. *)
reset_costs == /\ cbResets < CbResets
               /\ cbRecords' = 0 /\ cbFired' = FALSE
               /\ cbResets' = cbResets + 1 /\ cbNotified' = 0 /\ cbStale' = FALSE
               /\ UNCHANGED cbCalls

Next == reset_costs \/ \E t \in CbThreads :
            record_cost(t) \/ check_flag(t) \/ check_total(t) \/ check_fire(t)

Spec == Init /\ [][Next]_cbVars

BudgetTypeOK ==
    /\ cbRecords \in 0..CbCap /\ cbFired \in BOOLEAN /\ cbStale \in BOOLEAN
    /\ cbCalls \in [CbThreads -> [pc : {"idle", "flag", "total", "fire"}, epoch : 0..CbResets]]
    /\ cbResets \in 0..CbResets /\ cbNotified \in Nat

Idle == \A t \in CbThreads : cbCalls[t].pc = "idle"

(* An exceeded budget is never missed: once every call has returned, the     *)
(* callback has run if the total is over the threshold, at least once and at *)
(* most once for each thread that overlapped; and it has run for nothing     *)
(* only because a check outlived a reset, which leaves the monitor spent.    *)
BudgetIsNeverMissed ==
    /\ Idle /\ cbRecords >= CbThreshold => cbFired
    /\ cbFired <=> cbNotified > 0
    /\ cbNotified <= Cardinality(CbThreads)
    /\ cbFired /\ cbRecords < CbThreshold => cbStale
=============================================================================
