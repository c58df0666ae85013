----------------------------- MODULE AuditStream -----------------------------
(***************************************************************************)
(* The tamper-evident audit chain of spanforge/signing.py: AuditStream,    *)
(* whose mutators hold an RLock and whose verify() holds nothing, and      *)
(* AsyncAuditStream, which takes its asyncio.Lock in verify() too and has  *)
(* no erase_subject().                                                     *)
(*                                                                         *)
(* append() and rotate_key() are one critical section each, so one step.   *)
(* erase_subject() replaces list entries one by one, and a verify() in     *)
(* another thread reads the list in between: every store is a step.  A     *)
(* signature is what it covers together with the key it was made with, and *)
(* a checksum is the payload it was made from.                             *)
(***************************************************************************)
EXTENDS Naturals, Sequences, SequencesExt, FiniteSets

CONSTANTS
  Secrets,      \* signing keys
  Initial,      \* _initial_secret
  Subjects,     \* data subjects
  NoSubject,    \* an event that mentions none of them
  Orgs,         \* values of org_id
  NoOrg,        \* org_id is None
  Resolver,     \* the keys of the organisations a key resolver can resolve
  Configs,      \* the streams to consider: an AsyncAuditStream (async), one with
                \* a _key_resolver (resolver), one with _require_org_id (orgs)
  MaxEvents     \* bound on the length of the chain

ASSUME AuditAssumption ==
  /\ Initial \in Secrets
  /\ NoSubject \notin Subjects
  /\ NoOrg \notin Orgs
  /\ Resolver \in [DOMAIN Resolver -> Secrets]
  /\ Configs \subseteq [async : BOOLEAN, resolver : BOOLEAN, orgs : BOOLEAN]
  /\ MaxEvents \in Nat

Ids == 1 .. MaxEvents           \* event_id; the ULIDs are unique
NoId == 0                       \* prev_id is None
Kinds == {"event", "rotated", "tombstone"}

VARIABLES
  config,     \* what kind of stream this is
  events,     \* self._events
  orgSecret,  \* self._org_secret
  keyMap,     \* self._key_map
  erase,      \* the erase_subject() that holds the lock, or how the last one ended
  verifier,   \* a verify() in another thread: what it has read, its verdict
  resigned    \* history: the ids of the events an erasure has signed again

vars == <<config, events, orgSecret, keyMap, erase, verifier, resigned>>

Signature == [id : Ids, payload : Kinds \X (Subjects \cup {NoSubject}),
              prev : Ids \cup {NoId}, key : Secrets]

Event == [id : Ids, kind : Kinds, subject : Subjects \cup {NoSubject},
          org : Orgs \cup {NoOrg}, prev : Ids \cup {NoId}, sig : Signature]

TypeOK ==
  /\ config \in Configs
  /\ events \in Seq(Event)
  /\ Len(events) <= MaxEvents
  /\ orgSecret \in Secrets
  /\ \E D \in SUBSET Ids : keyMap \in [D -> Secrets]
  /\ erase \in [pc : {"idle", "scan", "relink", "returned", "raised"},
                subject : Subjects \cup {NoSubject}, by : Subjects \cup {NoSubject}, idx : Nat]
  /\ verifier.pc \in {"idle", "keys", "done"} /\ verifier.valid \in BOOLEAN
  /\ \E D \in SUBSET Ids : verifier.keys \in [D -> Secrets]
  /\ resigned \subseteq Ids

Init ==
  /\ config \in Configs
  /\ events = <<>>
  /\ orgSecret = Initial
  /\ keyMap = <<>>
  /\ erase = [pc |-> "idle", subject |-> NoSubject, by |-> NoSubject, idx |-> 0]
  /\ verifier = [pc |-> "idle", keys |-> <<>>, valid |-> TRUE]
  /\ resigned = {}

----------------------------------------------------------------------------
(* sign, verify and verify_chain.                                           *)

\* sign(): the copy of e that follows the event with id prev.
Sign(e, secret, prev) ==
  [e EXCEPT !.prev = prev,
            !.sig = [id |-> e.id, payload |-> <<e.kind, e.subject>>,
                     prev |-> prev, key |-> secret]]

\* verify()
Verifies(e, secret) ==
  e.sig = [id |-> e.id, payload |-> <<e.kind, e.subject>>, prev |-> e.prev, key |-> secret]

\* The event_id of the predecessor of position i: what its prev_id must be.
PrevId(es, i) == IF i = 1 THEN NoId ELSE es[i - 1].id

\* verify_chain's current_secret when it comes to position i: that of the last
\* rotation before i, or the first one.
CurrentSecretIs(es, keys, i, secret) ==
  \/ /\ secret = Initial
     /\ \A j \in 1 .. i - 1 : es[j].id \notin DOMAIN keys
  \/ \E j \in 1 .. i - 1 :
       /\ es[j].id \in DOMAIN keys
       /\ secret = keys[es[j].id]
       /\ \A l \in j + 1 .. i - 1 : es[l].id \notin DOMAIN keys

SignatureOK(es, keys, i) ==
  \E secret \in Secrets : CurrentSecretIs(es, keys, i, secret) /\ Verifies(es[i], secret)

\* _check_chain_linkage: ChainVerificationResult.gaps.
Gaps(es) == {es[i].id : i \in {j \in DOMAIN es : es[j].prev # PrevId(es, j)}}

\* ChainVerificationResult.valid.
ChainIsValid(es, keys) ==
  Gaps(es) = {} /\ \A i \in DOMAIN es : SignatureOK(es, keys, i)

----------------------------------------------------------------------------
(* append() and rotate_key().                                               *)

Erasing == erase.pc \in {"scan", "relink"}

\* Mutant: the async verify() does not take the lock.
LockIsFreeOfErasure == ~Erasing
LockIsFree == ~Erasing /\ ~(config.async /\ verifier.pc = "keys")

NewEvent(kind, subject, org) ==
  [id |-> Len(events) + 1, kind |-> kind, subject |-> subject, org |-> org, prev |-> NoId,
   sig |-> [id |-> 1, payload |-> <<kind, subject>>, prev |-> NoId, key |-> Initial]]

\* Appends e, signed and linked to the last event.
Link(e, secret) ==
  events' = Append(events, Sign(e, secret, PrevId(events, Len(events) + 1)))

\* Mutant: the resolver is not asked.
SecretOfStream(org) == orgSecret

\* The key an event is signed with; an organisation the resolver does not
\* know raises.
SecretFor(org) == IF config.resolver /\ org # NoOrg THEN Resolver[org] ELSE orgSecret

AppendEvent(subject, org) ==
  /\ LockIsFree
  /\ Len(events) < MaxEvents
  /\ ~(config.orgs /\ org = NoOrg)
  /\ (config.resolver /\ org # NoOrg) => org \in DOMAIN Resolver
  /\ Link(NewEvent("event", subject, org), SecretFor(org))
  /\ UNCHANGED <<config, orgSecret, keyMap, erase, verifier, resigned>>

\* Mutant: the key is switched before the rotation event is signed.
RotateKeySwitchesFirst(secret, subject) ==
  /\ LockIsFree
  /\ Len(events) < MaxEvents
  /\ Link(NewEvent("rotated", subject, NoOrg), secret)
  /\ keyMap' = [i \in DOMAIN keyMap \cup {Len(events) + 1} |->
                  IF i = Len(events) + 1 THEN secret ELSE keyMap[i]]
  /\ orgSecret' = secret
  /\ UNCHANGED <<config, erase, verifier, resigned>>

\* The metadata of a rotation may mention a subject (rotated_by).
RotateKey(secret, subject) ==
  /\ LockIsFree
  /\ Len(events) < MaxEvents
  /\ Link(NewEvent("rotated", subject, NoOrg), orgSecret)
  /\ keyMap' = [i \in DOMAIN keyMap \cup {Len(events) + 1} |->
                  IF i = Len(events) + 1 THEN secret ELSE keyMap[i]]
  /\ orgSecret' = secret
  /\ UNCHANGED <<config, erase, verifier, resigned>>

----------------------------------------------------------------------------
(* erase_subject(): sign() raises, and ends it half way, when the signing   *)
(* key has expired in the meantime.                                         *)

\* The positions the scan has still to replace.
Mentions == {i \in DOMAIN events : i >= erase.idx /\ events[i].subject = erase.subject}

\* The texts of the call (erased_by, reason, request_ref) go into each
\* tombstone, and may be the name of a subject themselves.
EraseSubject(subject, by) ==
  /\ ~config.async
  /\ LockIsFree
  /\ erase' = [pc |-> "scan", subject |-> subject, by |-> by, idx |-> 1]
  /\ UNCHANGED <<config, events, orgSecret, keyMap, verifier, resigned>>

Tombstone(e) == [e EXCEPT !.kind = "tombstone", !.subject = erase.by]

EraseTombstone ==
  /\ erase.pc = "scan"
  /\ \E i \in Mentions :
       /\ \A j \in Mentions : i <= j
       /\ events' = [events EXCEPT ![i] = Sign(Tombstone(@), orgSecret, PrevId(events, i))]
       /\ resigned' = resigned \cup {events[i].id}
       /\ erase' = [erase EXCEPT !.pc = "relink", !.idx = i + 1]
  /\ UNCHANGED <<config, orgSecret, keyMap, verifier>>

\* Mutants: the next event is linked past the tombstone; the scan goes on
\* behind the event that was signed again.
EraseRelinkPastTombstone ==
  /\ erase.pc = "relink"
  /\ erase.idx \in DOMAIN events
  /\ events' = [events EXCEPT ![erase.idx] = Sign(@, orgSecret, PrevId(events, erase.idx - 1))]
  /\ resigned' = resigned \cup {events[erase.idx].id}
  /\ erase' = [erase EXCEPT !.pc = "scan"]
  /\ UNCHANGED <<config, orgSecret, keyMap, verifier>>
EraseRelinkSkips ==
  /\ erase.pc = "relink"
  /\ erase.idx \in DOMAIN events
  /\ events' = [events EXCEPT ![erase.idx] = Sign(@, orgSecret, PrevId(events, erase.idx))]
  /\ resigned' = resigned \cup {events[erase.idx].id}
  /\ erase' = [erase EXCEPT !.pc = "scan", !.idx = @ + 1]
  /\ UNCHANGED <<config, orgSecret, keyMap, verifier>>

EraseRelink ==
  /\ erase.pc = "relink"
  /\ erase.idx \in DOMAIN events
  /\ events' = [events EXCEPT ![erase.idx] = Sign(@, orgSecret, PrevId(events, erase.idx))]
  /\ resigned' = resigned \cup {events[erase.idx].id}
  /\ erase' = [erase EXCEPT !.pc = "scan"]
  /\ UNCHANGED <<config, orgSecret, keyMap, verifier>>

EraseReturn ==
  /\ \/ erase.pc = "scan" /\ Mentions = {}
     \/ erase.pc = "relink" /\ erase.idx \notin DOMAIN events
  /\ erase' = [erase EXCEPT !.pc = "returned"]
  /\ UNCHANGED <<config, events, orgSecret, keyMap, verifier, resigned>>

EraseRaise ==
  /\ \/ erase.pc = "scan" /\ Mentions # {}
     \/ erase.pc = "relink" /\ erase.idx \in DOMAIN events
  /\ erase' = [erase EXCEPT !.pc = "raised"]
  /\ UNCHANGED <<config, events, orgSecret, keyMap, verifier, resigned>>

Erase == EraseTombstone \/ EraseRelink \/ EraseReturn \/ EraseRaise

----------------------------------------------------------------------------
(* verify(): copies the key map, then the list, and checks the copies.      *)

VerifyCopyKeys ==
  /\ verifier.pc # "keys"
  /\ config.async => LockIsFree
  /\ verifier' = [pc |-> "keys", keys |-> keyMap, valid |-> verifier.valid]
  /\ UNCHANGED <<config, events, orgSecret, keyMap, erase, resigned>>

VerifyCopyEvents ==
  /\ verifier.pc = "keys"
  /\ verifier' = [pc |-> "done", keys |-> <<>>, valid |-> ChainIsValid(events, verifier.keys)]
  /\ UNCHANGED <<config, events, orgSecret, keyMap, erase, resigned>>

Next ==
  \/ \E s \in Subjects \cup {NoSubject}, o \in Orgs \cup {NoOrg} : AppendEvent(s, o)
  \/ \E k \in Secrets, s \in Subjects \cup {NoSubject} : RotateKey(k, s)
  \/ \E s \in Subjects, b \in Subjects \cup {NoSubject} : EraseSubject(s, b)
  \/ Erase
  \/ VerifyCopyKeys
  \/ VerifyCopyEvents

Spec == Init /\ [][Next]_vars

----------------------------------------------------------------------------
(* Properties.                                                              *)

\* Whatever is appended, rotated and erased, and wherever an erasure stands
\* or was given up, each event names its predecessor.
LinkageNeverBreaks == Gaps(events) = {}

\* A signature that does not verify is the work of an erasure, of an event
\* that a later rotation has left in an older segment: without rotation an
\* erasure is harmless, and without erasure rotation is.
OnlyErasureBehindARotationBreaksSignatures ==
  \A i \in DOMAIN events :
    \/ SignatureOK(events, keyMap, i)
    \/ config.resolver /\ events[i].org # NoOrg
    \/ /\ events[i].id \in resigned
       /\ \E j \in i .. Len(events) : events[j].id \in DOMAIN keyMap

\* verify_chain with the stream's key_resolver accepts every event of an
\* organisation, across rotations, unless an erasure signed it again.
TenantEventsVerifyByResolver ==
  config.resolver =>
    \A i \in DOMAIN events :
      events[i].org # NoOrg =>
        events[i].id \in resigned \/ Verifies(events[i], Resolver[events[i].org])

\* When erase_subject returns, no event of the stream mentions the subject,
\* but for the tombstones it wrote itself when its own texts name the subject.
ErasureIsComplete ==
  [][erase'.pc = "returned" /\ erase.pc # "returned" =>
       \A i \in DOMAIN events' :
         events'[i].subject = erase.subject =>
           /\ erase.by = erase.subject
           /\ events'[i].kind = "tombstone" /\ events'[i].id \in resigned]_vars

\* verify() rejects a stream of one key holder that nobody erased from only
\* if a rotation came between its two reads; the async one, never.
VerifyRejectsOnlyAcrossARotation ==
  [][/\ verifier.pc = "keys" /\ verifier'.pc = "done" /\ ~verifier'.valid
     /\ resigned = {} /\ ~config.resolver
     => ~config.async /\ verifier.keys # keyMap]_vars

\* After erase_subject() the chain remains verifiable.
ErasedChainVerifies == ~Erasing => ChainIsValid(events, keyMap)

\* erase_subject(): "No PII is retained in the tombstone" -- when it has
\* returned, nothing in the stream mentions the subject until the next append.
NoTombstoneNamesItsSubject ==
  erase.pc = "returned" =>
    \A i \in DOMAIN events :
      events[i].kind = "tombstone" /\ events[i].id \in resigned => events[i].subject # erase.subject

(* verify_chain as the rotate-key command calls it: with one secret and no   *)
(* key map.                                                                  *)
ValidUnder(es, secret) == Gaps(es) = {} /\ \A i \in DOMAIN es : Verifies(es[i], secret)

(* What `audit rotate-key` promises: the file that a rotation ends is signed *)
(* with the new key, and verifies with it.                                   *)
RotatedFileVerifies ==
  ~Erasing /\ Len(events) > 1 /\ Last(events).kind = "rotated" => ValidUnder(events, orgSecret)

-----------------------------------------------------------------------------
(* For TLC: the streams to consider, and a resolver that has another key     *)
(* than the stream's own for every organisation.                             *)
Plain == [async |-> FALSE, resolver |-> FALSE, orgs |-> FALSE]
OnePlainStream == {Plain}
StreamsOfEachKind == {Plain, [Plain EXCEPT !.async = TRUE], [Plain EXCEPT !.resolver = TRUE],
                      [Plain EXCEPT !.resolver = TRUE, !.orgs = TRUE]}
KeysOfTheirOwn == [o \in Orgs |-> CHOOSE k \in Secrets : k # Initial]
=============================================================================
