--------------------------- MODULE ConsentBoundary ---------------------------
(***************************************************************************)
(* Consent records (consent.py): a map under a lock, with the event of each *)
(* call emitted after the lock is released.                                 *)
(***************************************************************************)
EXTENDS Naturals, FiniteSets

CONSTANTS ConsentPairs,    \* <<subject, scope>> pairs
          ConsentThreads,  \* callers
          ConsentEventCap  \* bound: events of one kind for one pair

(* A process has finitely many threads; events are counted.                *)
ASSUME CallerAssumption == IsFiniteSet(ConsentThreads) /\ ConsentEventCap \in Nat

VARIABLES consentRecords,  \* _records: the pairs with an active record
          consentEmits,    \* thread -> the event it still has to emit
          consentEvents,   \* <<pair, kind>> -> events emitted
          consentLost      \* history: the same for events that could not be emitted

consentVars == <<consentRecords, consentEmits, consentEvents, consentLost>>

ConsentKinds == {"granted", "revoked", "violation"}
ConsentIdle == <<"none", "none">>

ConsentInit == /\ consentRecords = {}
               /\ consentEmits = [t \in ConsentThreads |-> ConsentIdle]
               /\ consentEvents = [e \in ConsentPairs \X ConsentKinds |-> 0]
               /\ consentLost = [e \in ConsentPairs \X ConsentKinds |-> 0]

Post(t, p, kind) ==
    /\ consentEmits[t] = ConsentIdle
    /\ consentEmits' = [consentEmits EXCEPT ![t] = <<p, kind>>]
    /\ UNCHANGED <<consentEvents, consentLost>>

(* grant: a new record replaces one of the same subject and scope. *)
grant(t, p) == /\ consentRecords' = consentRecords \cup {p}
               /\ Post(t, p, "granted")

(* A mutant of revoke: the event does not depend on what was removed. *)
RevokeAlwaysEmits(t, p) == /\ consentRecords' = consentRecords \ {p}
                           /\ Post(t, p, "revoked")

(* revoke: an event only when a record was removed. *)
revoke(t, p) == /\ p \in consentRecords
                /\ consentRecords' = consentRecords \ {p}
                /\ Post(t, p, "revoked")

(* check: a missing record is reported as a violation. *)
check(t, p) == /\ p \notin consentRecords
               /\ UNCHANGED consentRecords
               /\ Post(t, p, "violation")

clear_records == /\ consentRecords # {}
                 /\ consentRecords' = {}
                 /\ UNCHANGED <<consentEmits, consentEvents, consentLost>>

(* _emit: whatever fails below is suppressed, and the event is lost. *)
emit_consent(t) ==
    /\ consentEmits[t] # ConsentIdle
    /\ consentEvents[consentEmits[t]] + consentLost[consentEmits[t]] < ConsentEventCap
    /\ \/ /\ consentEvents' = [consentEvents EXCEPT ![consentEmits[t]] = @ + 1]
          /\ UNCHANGED consentLost
       \/ /\ consentLost' = [consentLost EXCEPT ![consentEmits[t]] = @ + 1]
          /\ UNCHANGED consentEvents
    /\ consentEmits' = [consentEmits EXCEPT ![t] = ConsentIdle]
    /\ UNCHANGED consentRecords

ConsentNext == \/ clear_records
               \/ \E t \in ConsentThreads :
                    \/ emit_consent(t)
                    \/ \E p \in ConsentPairs : grant(t, p) \/ revoke(t, p) \/ check(t, p)

ConsentSpec == ConsentInit /\ [][ConsentNext]_consentVars

Told(p, kind) == consentEvents[<<p, kind>>] + consentLost[<<p, kind>>]

ConsentTypeOK ==
    /\ consentRecords \subseteq ConsentPairs
    /\ \A t \in ConsentThreads : consentEmits[t] = ConsentIdle
                                   \/ consentEmits[t] \in ConsentPairs \X ConsentKinds
    /\ consentEvents \in [ConsentPairs \X ConsentKinds -> 0..ConsentEventCap]
    /\ consentLost \in [ConsentPairs \X ConsentKinds -> 0..ConsentEventCap]

(* Whatever order the calls and their late events interleave in, once every *)
(* call has returned the audit trail accounts for the records up to the     *)
(* events that could not be emitted: it shows no more revocations of a      *)
(* consent than grants and lost grants, and an active consent has one grant *)
(* more, written or lost, than revocations.                                 *)
ConsentTrailBalances ==
    (\A t \in ConsentThreads : consentEmits[t] = ConsentIdle) =>
        \A p \in ConsentPairs :
            /\ consentEvents[<<p, "revoked">>] <= Told(p, "granted")
            /\ p \in consentRecords => Told(p, "revoked") < Told(p, "granted")
=============================================================================
