---------------------------- MODULE ServiceClient ----------------------------
(***************************************************************************)
(* SFServiceClient._request with its circuit breaker (sdk/_base.py), and the *)
(* token refresh that the identity client nests into it (sdk/identity.py).   *)
(* Threads share one breaker; each has a stack of requests, the upper ones   *)
(* refreshing the token for the one below.                                   *)
(***************************************************************************)
EXTENDS Naturals, Sequences, FiniteSetsExt

CONSTANTS ScThreads,    \* callers
          THRESHOLD,    \* _CB_THRESHOLD_DEFAULT
          max_retries,  \* SFClientConfig.max_retries
          local_fallback_enabled,
          ScDepth       \* bound: requests nested into one another

VARIABLES scBreaker,  \* _state, _failures, and whether the reset time has passed
          scStack,    \* thread -> the attempt each of its requests is at
          scAnswered, \* history: thread -> times its outermost request was answered
          scLost,   \* history: thread -> answers to it that were not read to the end
          scReading   \* thread -> its top request is answered and reads the body

scVars == <<scBreaker, scStack, scAnswered, scLost, scReading>>

Init == /\ scBreaker = [open |-> FALSE, failures |-> 0, due |-> FALSE]
        /\ scStack = [t \in ScThreads |-> <<>>]
        /\ scAnswered = [t \in ScThreads |-> 0]
        /\ scLost = [t \in ScThreads |-> 0]
        /\ scReading = [t \in ScThreads |-> FALSE]

Closed == [open |-> FALSE, failures |-> 0, due |-> FALSE]

(* _state_unlocked: reading the state closes an expired breaker. *)
state(b) == IF b.open /\ b.due THEN Closed ELSE b

(* record_failure, several times in a row: the reset time starts again, also  *)
(* when it is open already.                                                  *)
record_failure(b, times) ==
    IF b.failures + times >= THRESHOLD
    THEN [open |-> TRUE, failures |-> THRESHOLD, due |-> FALSE]
    ELSE [b EXCEPT !.failures = @ + times]

record_success(b) == Closed

Reset == scBreaker.open /\ ~scBreaker.due /\ scBreaker' = [scBreaker EXCEPT !.due = TRUE]
         /\ UNCHANGED <<scStack, scAnswered, scLost, scReading>>

Depth(t) == Len(scStack[t])

(* A new top-level request; is_open() is asked once, before the first attempt. *)
request(t) ==
    /\ Depth(t) = 0
    /\ scBreaker' = state(scBreaker)
    /\ scStack' = [scStack EXCEPT ![t] = IF state(scBreaker).open THEN <<>> ELSE <<1>>]
    /\ scAnswered' = [scAnswered EXCEPT ![t] = 0]
    /\ scLost' = [scLost EXCEPT ![t] = 0]
    /\ UNCHANGED scReading

Answered(t) == scAnswered' = IF Depth(t) = 1 THEN [scAnswered EXCEPT ![t] = @ + 1]
                             ELSE scAnswered

Reading(t, reads) == scReading' = [scReading EXCEPT ![t] = reads]

(* A success: the server has answered, the body is still to be read.         *)
respond(t) == /\ Depth(t) > 0 /\ ~scReading[t]
              /\ Answered(t) /\ Reading(t, TRUE)
              /\ UNCHANGED <<scBreaker, scStack, scLost>>

(* The request on top is over and the one below reads its own answer. *)
Return(t) == /\ scStack' = [scStack EXCEPT ![t] = SubSeq(@, 1, Len(@) - 1)]
             /\ Reading(t, Depth(t) > 1)

read_body(t) == /\ scReading[t] /\ scBreaker' = record_success(scBreaker)
                /\ Return(t)
                /\ UNCHANGED <<scAnswered, scLost>>

(* A success with a token about to expire: the refresh is a request of its   *)
(* own, made before the body is read.  Refused by an open breaker it ends    *)
(* the whole call with an error.                                             *)
respond_near_expiry(t) ==
    /\ Depth(t) \in 1..ScDepth-1 /\ ~scReading[t]
    /\ scBreaker' = state(scBreaker)
    /\ scStack' = [scStack EXCEPT ![t] = IF state(scBreaker).open THEN <<>> ELSE Append(@, 1)]
    /\ Answered(t)
    /\ UNCHANGED <<scLost, scReading>>

EndCall(t) == scStack' = [scStack EXCEPT ![t] = <<>>] /\ Reading(t, FALSE)

(* 429, 401 and 403 are raised and not counted.  A refresh refused with 401  *)
(* or 403 is forgiven when the fallback is enabled; everything else ends the *)
(* whole call.                                                               *)
reject(t, auth) ==
    /\ Depth(t) > 0 /\ ~scReading[t]
    /\ IF auth /\ Depth(t) > 1 /\ local_fallback_enabled THEN Return(t) ELSE EndCall(t)
    /\ UNCHANGED <<scBreaker, scAnswered, scLost>>

(* An exception nobody catches, such as a body that ends too early. *)
escape(t) == /\ Depth(t) > 0 /\ EndCall(t)
             /\ UNCHANGED <<scBreaker, scAnswered, scLost>>

(* The attempts of the stack after a failure of its top request: one more    *)
(* attempt, or, when they are used up and the exception is raised again, a   *)
(* failed attempt of the request below; so the topmost request that has an   *)
(* attempt left makes it, those above it have failed for good, and each      *)
(* failure was counted.  Without the fallback the first one ends the call.   *)
AfterFailure(stack, b, reading) ==
    LET depth == Len(stack)
        retrying == {n \in 1..depth : /\ stack[n] <= max_retries
                                      /\ local_fallback_enabled \/ n = depth}
        next == IF retrying = {} THEN 0 ELSE Max(retrying)
        failures == IF ~local_fallback_enabled THEN 1
                    ELSE IF next = 0 THEN depth ELSE depth - next + 1
    IN [stack |-> SubSeq(stack, 1, next - 1) \o (IF next = 0 THEN <<>> ELSE <<stack[next] + 1>>),
        breaker |-> record_failure(b, failures),
        lost |-> IF next < 2 /\ (depth > 1 \/ reading) THEN 1 ELSE 0]

(* A mutant of fail: the attempts start anew when an answer was lost. *)
FailStartsAgain(t) ==
    /\ Depth(t) > 0
    /\ LET a == AfterFailure(scStack[t], scBreaker, scReading[t])
       IN /\ scStack' = [scStack EXCEPT ![t] = IF a.lost = 1 THEN <<1>> ELSE a.stack]
          /\ scBreaker' = a.breaker
          /\ scLost' = [scLost EXCEPT ![t] = IF @ > max_retries THEN @ ELSE @ + a.lost]
    /\ Reading(t, FALSE)
    /\ UNCHANGED scAnswered

(* Another HTTP error, no connection, a timeout, or a connection that breaks *)
(* while the body is read.                                                   *)
fail(t) ==
    /\ Depth(t) > 0
    /\ LET a == AfterFailure(scStack[t], scBreaker, scReading[t])
       IN /\ scStack' = [scStack EXCEPT ![t] = a.stack]
          /\ scBreaker' = a.breaker
          /\ scLost' = [scLost EXCEPT ![t] = @ + a.lost]
    /\ Reading(t, FALSE)
    /\ UNCHANGED scAnswered

Next == \/ Reset
        \/ \E t \in ScThreads :
             \/ request(t) \/ respond(t) \/ respond_near_expiry(t) \/ read_body(t)
             \/ fail(t) \/ escape(t)
             \/ \E auth \in BOOLEAN : reject(t, auth)

Spec == Init /\ [][Next]_scVars

ServiceTypeOK ==
    /\ scBreaker \in [open : BOOLEAN, failures : 0..THRESHOLD, due : BOOLEAN]
    /\ \A t \in ScThreads : /\ scStack[t] \in Seq(1..max_retries + 1)
                            /\ Len(scStack[t]) <= ScDepth
                            /\ scAnswered[t] \in Nat /\ scLost[t] \in Nat
                            /\ scReading[t] \in BOOLEAN

(* Whatever the threads do to it, the breaker is open exactly when it has    *)
(* counted to its threshold.  A request that was answered is sent again only *)
(* after its answer was lost, because the body could not be read or a token  *)
(* refresh made before reading it failed, once for each lost answer, and     *)
(* never more often than its own retries allow.                              *)
ResentOnlyAfterALostAnswer ==
    /\ scBreaker.open <=> scBreaker.failures >= THRESHOLD
    /\ scBreaker.due => scBreaker.open
    /\ \A t \in ScThreads :
         /\ scAnswered[t] <= scLost[t] + 1
         /\ scAnswered[t] <= max_retries + 1
=============================================================================
