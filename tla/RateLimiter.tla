----------------------------- MODULE RateLimiter -----------------------------
(***************************************************************************)
(* _SlidingWindowRateLimiter (sdk/_base.py) for one key: the times of the    *)
(* requests of the last window, under one lock.                              *)
(***************************************************************************)
EXTENDS Naturals, Sequences, FiniteSetsExt

CONSTANTS RlLimit,   \* limit
          RlWindow,  \* window_seconds
          RlEnd      \* bound: end of time

VARIABLES rlNow,      \* the monotonic clock
          rlTimes,    \* _windows[key]
          rlAllowed   \* history: times of all allowed requests since clear()

rlVars == <<rlNow, rlTimes, rlAllowed>>

Init == rlNow = 0 /\ rlTimes = <<>> /\ rlAllowed = <<>>

(* A mutant of Evict: a full window empties at once. *)
EvictAll(times) == IF times # <<>> /\ rlNow - times[1] >= RlWindow THEN <<>> ELSE times

(* _evict: the oldest time is taken away as long as it has left the window. *)
Evict(times) ==
    LET stay == {n \in 1..Len(times) : rlNow - times[n] < RlWindow}
    IN IF stay = {} THEN <<>> ELSE SubSeq(times, Min(stay), Len(times))

(* check evicts, and counts nothing. *)
check_limit == /\ Evict(rlTimes) # rlTimes
               /\ rlTimes' = Evict(rlTimes)
               /\ UNCHANGED <<rlNow, rlAllowed>>
remaining == RlLimit - Len(Evict(rlTimes))

(* record: a refused request leaves no time behind. *)
record_request ==
    /\ IF Len(Evict(rlTimes)) >= RlLimit
       THEN rlTimes' = Evict(rlTimes) /\ UNCHANGED rlAllowed
       ELSE /\ rlTimes' = Append(Evict(rlTimes), rlNow)
            /\ rlAllowed' = Append(rlAllowed, rlNow)
    /\ UNCHANGED rlNow

clear_key == rlTimes # <<>> /\ rlTimes' = <<>> /\ rlAllowed' = <<>> /\ UNCHANGED rlNow

Tick == rlNow < RlEnd /\ rlNow' = rlNow + 1 /\ UNCHANGED <<rlTimes, rlAllowed>>

Next == check_limit \/ record_request \/ clear_key \/ Tick

Spec == Init /\ [][Next]_rlVars

LimiterTypeOK == /\ rlNow \in 0..RlEnd
                 /\ rlTimes \in Seq(0..RlEnd) /\ rlAllowed \in Seq(0..RlEnd)
                 /\ remaining \in 0..RlLimit

(* No window of time, wherever it begins, holds more allowed requests than   *)
(* the limit; and what is still counted is exactly the recent ones, so that  *)
(* a request is refused only when the limit is reached.                      *)
NoWindowExceedsTheLimit ==
    /\ \A x \in 0..rlNow :
         Cardinality({i \in 1..Len(rlAllowed) :
                          x <= rlAllowed[i] /\ rlAllowed[i] < x + RlWindow}) <= RlLimit
    /\ Evict(rlTimes) = Evict(rlAllowed)
=============================================================================
