------------------------- MODULE AuditStreamProofs -------------------------
(***************************************************************************)
(* Proofs about AuditStream, for any keys, subjects, organisations, key    *)
(* resolver and length of the chain.                                       *)
(*                                                                         *)
(* The argument: the event at position i has event_id i and prev_id i - 1, *)
(* whatever an erasure does to it (Placed); so the secret that verify_chain *)
(* has when it comes to position i is a function of the key map alone      *)
(* (Current), and the open segment is the one signed with _org_secret.     *)
(***************************************************************************)
EXTENDS AuditStream, SequenceTheorems, TLAPS

----------------------------------------------------------------------------
(* The invariant.                                                           *)

\* Events stay where they were appended, linked to the one before.
Placed == \A i \in 1 .. Len(events) : events[i].id = i /\ events[i].prev = i - 1

KeysOK == keyMap \in [DOMAIN keyMap -> Secrets] /\ DOMAIN keyMap \subseteq 1 .. Len(events)

\* The secret of the segment that position i lies in.
Current(keys, i, secret) ==
  \/ secret = Initial /\ \A j \in 1 .. i - 1 : j \notin DOMAIN keys
  \/ \E j \in 1 .. i - 1 :
       /\ j \in DOMAIN keys
       /\ secret = keys[j]
       /\ \A l \in j + 1 .. i - 1 : l \notin DOMAIN keys

ChainTypeOK ==
  /\ config \in Configs
  /\ events \in Seq(Event)
  /\ Len(events) <= MaxEvents
  /\ orgSecret \in Secrets
  /\ resigned \subseteq Ids
  /\ erase \in [pc : {"idle", "scan", "relink", "returned", "raised"},
                subject : Subjects \cup {NoSubject}, by : Subjects \cup {NoSubject}, idx : Nat]

ChainInv ==
  /\ ChainTypeOK
  /\ Placed
  /\ KeysOK
  /\ erase.pc \in {"scan", "relink"} => erase.idx >= 1

\* What is signed: see OnlyErasureBehindARotationBreaksSignatures and
\* TenantEventsVerifyByResolver, of which this is the inductive form.
SegmentOK(i) ==
  \/ \E secret \in Secrets : Current(keyMap, i, secret) /\ Verifies(events[i], secret)
  \/ config.resolver /\ events[i].org # NoOrg
  \/ i \in resigned /\ \E j \in i .. Len(events) : j \in DOMAIN keyMap

TenantOK(i) ==
  config.resolver /\ events[i].org # NoOrg =>
    i \in resigned \/ Verifies(events[i], Resolver[events[i].org])

SignedInv ==
  /\ Current(keyMap, Len(events) + 1, orgSecret)
  /\ \A i \in 1 .. Len(events) : SegmentOK(i) /\ TenantOK(i)

----------------------------------------------------------------------------
(* Facts about the operators.                                               *)

\* The walk of verify_chain over a chain in place is a function of the keys.
LEMMA CurrentSecretIsCurrent ==
  ASSUME ChainInv, NEW keys, NEW i \in 1 .. Len(events) + 1, NEW secret
  PROVE  CurrentSecretIs(events, keys, i, secret) <=> Current(keys, i, secret)
<1>1. \A j \in 1 .. i - 1 : j \in 1 .. Len(events) /\ events[j].id = j
  BY DEF ChainInv, ChainTypeOK, Placed
<1>2. ASSUME NEW j \in 1 .. i - 1, NEW l \in j + 1 .. i - 1
      PROVE  l \in 1 .. i - 1
  OBVIOUS
<1> QED
  BY <1>1, <1>2 DEF CurrentSecretIs, Current

\* A segment without rotations has one secret.
LEMMA SegmentHasOneSecret ==
  ASSUME ChainInv, NEW i \in 1 .. Len(events), NEW secret,
         Current(keyMap, Len(events) + 1, secret),
         \A j \in i .. Len(events) : j \notin DOMAIN keyMap
  PROVE  Current(keyMap, i, secret)
<1>0. Len(events) \in Nat
  BY DEF ChainInv, ChainTypeOK
<1>1. CASE secret = Initial /\ \A j \in 1 .. Len(events) + 1 - 1 : j \notin DOMAIN keyMap
  BY <1>0, <1>1 DEF Current
<1>2. ASSUME NEW j \in 1 .. Len(events) + 1 - 1,
             j \in DOMAIN keyMap, secret = keyMap[j],
             \A l \in j + 1 .. Len(events) + 1 - 1 : l \notin DOMAIN keyMap
      PROVE  Current(keyMap, i, secret)
  <2>1. j \in 1 .. i - 1
    BY <1>0, <1>2
  <2>2. \A l \in j + 1 .. i - 1 : l \in j + 1 .. Len(events) + 1 - 1
    BY <1>0, <2>1
  <2> QED
    BY <1>2, <2>1, <2>2 DEF Current
<1> QED
  BY <1>1, <1>2 DEF Current

\* A rotation recorded at position n does not change the segments up to n.
LEMMA OlderSegmentsStay ==
  ASSUME NEW keys, NEW new, NEW n \in Nat, NEW i \in 1 .. n, NEW secret,
         DOMAIN new = DOMAIN keys \cup {n},
         \A j \in DOMAIN keys : j # n => new[j] = keys[j],
         Current(keys, i, secret)
  PROVE  Current(new, i, secret)
<1>1. \A j \in 1 .. i - 1 : j # n /\ (j \in DOMAIN new <=> j \in DOMAIN keys)
  OBVIOUS
<1>2. ASSUME NEW j \in 1 .. i - 1, NEW l \in j + 1 .. i - 1
      PROVE  l \in 1 .. i - 1
  OBVIOUS
<1> QED
  BY <1>1, <1>2 DEF Current

\* The predecessor of a position in a chain in place.
LEMMA PrevIdIsPosition ==
  ASSUME ChainInv, NEW i \in 1 .. Len(events) + 1
  PROVE  PrevId(events, i) = i - 1
<1>0. Len(events) \in Nat
  BY DEF ChainInv, ChainTypeOK
<1>1. CASE i = 1
  BY <1>1 DEF PrevId, NoId
<1>2. CASE i # 1
  <2>1. i - 1 \in 1 .. Len(events)
    BY <1>0, <1>2
  <2> QED
    BY <1>2, <2>1 DEF PrevId, ChainInv, Placed
<1> QED
  BY <1>1, <1>2

\* sign() yields an event that verifies with its secret, keeps the id and the
\* organisation, and links it.
LEMMA SignFacts ==
  ASSUME NEW e \in Event, NEW secret \in Secrets, NEW prev \in Ids \cup {NoId}
  PROVE  /\ Sign(e, secret, prev) \in Event
         /\ Sign(e, secret, prev).id = e.id
         /\ Sign(e, secret, prev).org = e.org
         /\ Sign(e, secret, prev).subject = e.subject
         /\ Sign(e, secret, prev).prev = prev
         /\ Verifies(Sign(e, secret, prev), secret)
<1> DEFINE sig == [id |-> e.id, payload |-> <<e.kind, e.subject>>, prev |-> prev, key |-> secret]
<1> DEFINE f == Sign(e, secret, prev)
<1>1. sig \in Signature
  BY DEF Event, Signature
<1>2. f = [e EXCEPT !.prev = prev, !.sig = sig]
  BY DEF Sign
<1>3. /\ f.id = e.id /\ f.kind = e.kind /\ f.subject = e.subject /\ f.org = e.org
      /\ f.prev = prev /\ f.sig = sig
  BY <1>2 DEF Event
<1>4. f \in Event
  BY <1>1, <1>2 DEF Event
<1> QED
  BY <1>3, <1>4 DEF Verifies

----------------------------------------------------------------------------
(* What the steps do to the list.                                           *)

\* append() and rotate_key(): one event more, in its place.
LEMMA LinkExtends ==
  ASSUME ChainInv, Len(events) < MaxEvents,
         NEW kind \in Kinds, NEW subject \in Subjects \cup {NoSubject}, NEW org \in Orgs \cup {NoOrg},
         NEW secret \in Secrets, Link(NewEvent(kind, subject, org), secret)
  PROVE  /\ events' \in Seq(Event)
         /\ Len(events') = Len(events) + 1
         /\ Len(events) \in Nat /\ Len(events') <= MaxEvents
         /\ \A i \in 1 .. Len(events) : events'[i] = events[i]
         /\ events'[Len(events')].org = org
         /\ events'[Len(events')].subject = subject
         /\ Verifies(events'[Len(events')], secret)
         /\ Placed'
<1> DEFINE n == Len(events) + 1
           new == NewEvent(kind, subject, org)
           e == Sign(new, secret, PrevId(events, n))
<1>1. /\ events \in Seq(Event) /\ Len(events) \in Nat /\ MaxEvents \in Nat
      /\ Initial \in Secrets
  BY AuditAssumption DEF AuditAssumption, ChainInv, ChainTypeOK
<1>2. n \in Ids /\ 1 \in Ids /\ n - 1 \in Ids \cup {NoId} /\ n \in 1 .. Len(events) + 1
  BY <1>1 DEF Ids, NoId
<1>3. PrevId(events, n) = n - 1
  BY <1>2, PrevIdIsPosition
<1>4. [id |-> 1, payload |-> <<kind, subject>>, prev |-> NoId, key |-> Initial] \in Signature
  BY <1>1, <1>2 DEF Signature
<1>5. new \in Event /\ new.id = n /\ new.org = org /\ new.subject = subject
  BY <1>2, <1>4 DEF NewEvent, Event
<1>6. /\ e \in Event /\ e.id = n /\ e.prev = n - 1 /\ e.org = org /\ e.subject = subject
      /\ Verifies(e, secret)
  BY <1>2, <1>3, <1>5, SignFacts
<1>7. events' = Append(events, e)
  BY DEF Link
<1> HIDE DEF e
<1>8. /\ events' \in Seq(Event) /\ Len(events') = n
      /\ \A i \in 1 .. Len(events) : events'[i] = events[i]
      /\ events'[n] = e
  BY <1>1, <1>6, <1>7, AppendProperties
<1>9. Placed'
  <2> SUFFICES ASSUME NEW i \in 1 .. n
               PROVE  events'[i].id = i /\ events'[i].prev = i - 1
    BY <1>8 DEF Placed
  <2>1. CASE i = n
    BY <1>6, <1>8, <2>1
  <2>2. CASE i # n
    <3>1. i \in 1 .. Len(events)
      BY <1>1, <2>2
    <3> QED
      BY <1>8, <3>1 DEF ChainInv, Placed
  <2> QED
    BY <2>1, <2>2
<1> QED
  BY <1>1, <1>6, <1>8, <1>9

\* erase_subject(): an event is signed again where it is.
LEMMA SignReplaces ==
  ASSUME ChainInv, NEW i \in 1 .. Len(events), NEW e \in Event,
         e.id = events[i].id,
         events' = [events EXCEPT ![i] = Sign(e, orgSecret, PrevId(events, i))]
  PROVE  /\ events' \in Seq(Event)
         /\ Len(events') = Len(events)
         /\ \A j \in 1 .. Len(events) : j # i => events'[j] = events[j]
         /\ events'[i].org = e.org
         /\ events'[i].subject = e.subject /\ events'[i].kind = e.kind /\ events'[i].id = e.id
         /\ Verifies(events'[i], orgSecret)
         /\ Placed'
<1> DEFINE f == Sign(e, orgSecret, PrevId(events, i))
<1>1. /\ events \in Seq(Event) /\ Len(events) \in Nat /\ Len(events) <= MaxEvents
      /\ MaxEvents \in Nat /\ orgSecret \in Secrets
  BY AuditAssumption DEF AuditAssumption, ChainInv, ChainTypeOK
<1>2. PrevId(events, i) = i - 1 /\ i - 1 \in Ids \cup {NoId}
  <2>1. i \in 1 .. Len(events) + 1 /\ i - 1 \in Ids \cup {NoId}
    BY <1>1 DEF Ids, NoId
  <2> QED
    BY <2>1, PrevIdIsPosition
<1>3. /\ f \in Event /\ f.id = i /\ f.prev = i - 1 /\ f.org = e.org /\ f.subject = e.subject
      /\ Verifies(f, orgSecret)
  BY <1>1, <1>2, SignFacts DEF ChainInv, Placed
<1>7. f.kind = e.kind /\ e.id = i
  BY DEF Sign, Event, ChainInv, Placed
<1>4. events' = [events EXCEPT ![i] = f]
  OBVIOUS
<1> HIDE DEF f
<1>5. /\ events' \in Seq(Event) /\ Len(events') = Len(events)
      /\ \A j \in 1 .. Len(events) : j # i => events'[j] = events[j]
      /\ events'[i] = f
  BY <1>1, <1>3, <1>4
<1>6. Placed'
  BY <1>1, <1>3, <1>5 DEF ChainInv, Placed
<1> QED
  BY <1>3, <1>5, <1>6, <1>7

\* The tombstone keeps the place of the event it stands for.
LEMMA TombstoneFacts ==
  ASSUME NEW e \in Event, erase.by \in Subjects \cup {NoSubject}
  PROVE  /\ Tombstone(e) \in Event /\ Tombstone(e).id = e.id
         /\ Tombstone(e).org = e.org /\ Tombstone(e).subject = erase.by
         /\ Tombstone(e).kind = "tombstone"
BY DEF Tombstone, Event, Kinds

----------------------------------------------------------------------------
(* The chain is linked.                                                     *)

LEMMA ChainInit == Init => ChainInv
<1> SUFFICES ASSUME Init
             PROVE  ChainInv
  OBVIOUS
<1>1. events = <<>> /\ Len(events) = 0 /\ MaxEvents \in Nat /\ Initial \in Secrets
  BY AuditAssumption DEF AuditAssumption, Init
<1>2. ChainTypeOK
  BY <1>1 DEF Init, ChainTypeOK
<1>3. KeysOK
  BY DEF Init, KeysOK
<1> QED
  BY <1>1, <1>2, <1>3 DEF Init, ChainInv, Placed

\* What EraseTombstone and EraseRelink do: one event is signed again.
Resigns(i, e) ==
  /\ i \in 1 .. Len(events)
  /\ e \in Event /\ e.id = events[i].id /\ e.org = events[i].org
  /\ events' = [events EXCEPT ![i] = Sign(e, orgSecret, PrevId(events, i))]
  /\ resigned' = resigned \cup {i}
  /\ UNCHANGED <<config, orgSecret, keyMap, verifier>>

LEMMA EraseResigns ==
  ASSUME ChainInv, EraseTombstone \/ EraseRelink
  PROVE  /\ \E i, e : Resigns(i, e)
         /\ erase' \in [pc : {"idle", "scan", "relink", "returned", "raised"},
                        subject : Subjects \cup {NoSubject}, by : Subjects \cup {NoSubject}, idx : Nat]
         /\ erase'.idx >= 1
         /\ Erasing
<1>0. /\ events \in Seq(Event) /\ Len(events) \in Nat /\ DOMAIN events = 1 .. Len(events)
      /\ erase \in [pc : {"idle", "scan", "relink", "returned", "raised"},
                    subject : Subjects \cup {NoSubject}, by : Subjects \cup {NoSubject}, idx : Nat]
  BY DEF ChainInv, ChainTypeOK
<1>1. CASE EraseTombstone
  <2>1. PICK i \in Mentions :
          /\ events' = [events EXCEPT ![i] = Sign(Tombstone(events[i]), orgSecret, PrevId(events, i))]
          /\ resigned' = resigned \cup {events[i].id}
          /\ erase' = [erase EXCEPT !.pc = "relink", !.idx = i + 1]
    BY <1>1 DEF EraseTombstone
  <2>2. i \in 1 .. Len(events) /\ events[i] \in Event /\ events[i].id = i
    BY <1>0 DEF Mentions, ChainInv, Placed
  <2>3. Resigns(i, Tombstone(events[i]))
    BY <1>0, <1>1, <2>1, <2>2, TombstoneFacts DEF Resigns, EraseTombstone
  <2>4. erase' \in [pc : {"idle", "scan", "relink", "returned", "raised"},
                    subject : Subjects \cup {NoSubject}, by : Subjects \cup {NoSubject}, idx : Nat]
        /\ erase'.idx >= 1
    <3>1. i + 1 \in Nat /\ i + 1 >= 1
      BY <1>0, <2>2
    <3> QED
      BY <1>0, <2>1, <3>1
  <2> QED
    BY <1>1, <2>3, <2>4 DEF EraseTombstone, Erasing
<1>2. CASE EraseRelink
  <2> DEFINE i == erase.idx
  <2>1. i \in 1 .. Len(events) /\ events[i] \in Event /\ events[i].id = i
    BY <1>0, <1>2 DEF EraseRelink, ChainInv, Placed
  <2>2. Resigns(i, events[i])
    BY <1>2, <2>1 DEF Resigns, EraseRelink
  <2>3. erase' \in [pc : {"idle", "scan", "relink", "returned", "raised"},
                    subject : Subjects \cup {NoSubject}, by : Subjects \cup {NoSubject}, idx : Nat]
        /\ erase'.idx >= 1
    BY <1>0, <1>2, <2>1 DEF EraseRelink
  <2> QED
    BY <1>2, <2>2, <2>3 DEF EraseRelink, Erasing
<1> QED
  BY <1>1, <1>2

LEMMA ChainStep == ChainInv /\ [Next]_vars => ChainInv'
<1> SUFFICES ASSUME ChainInv, [Next]_vars
             PROVE  ChainInv'
  OBVIOUS
<1>0. /\ ChainTypeOK /\ KeysOK /\ Placed
      /\ Len(events) \in Nat
      /\ erase \in [pc : {"idle", "scan", "relink", "returned", "raised"},
                    subject : Subjects \cup {NoSubject}, by : Subjects \cup {NoSubject}, idx : Nat]
  BY DEF ChainInv, ChainTypeOK
\* A step that leaves the chain alone.
<1>a. ASSUME UNCHANGED <<config, events, orgSecret, keyMap, resigned>>,
             erase' \in [pc : {"idle", "scan", "relink", "returned", "raised"},
                         subject : Subjects \cup {NoSubject}, by : Subjects \cup {NoSubject}, idx : Nat],
             erase'.pc \in {"scan", "relink"} => erase'.idx >= 1
      PROVE  ChainInv'
  BY <1>0, <1>a DEF ChainInv, ChainTypeOK, KeysOK, Placed
<1>1. ASSUME NEW s \in Subjects \cup {NoSubject}, NEW o \in Orgs \cup {NoOrg}, AppendEvent(s, o)
      PROVE  ChainInv'
  <2>1. SecretFor(o) \in Secrets
    BY <1>0, <1>1, AuditAssumption DEF AuditAssumption, SecretFor, AppendEvent, ChainTypeOK
  <2>2. /\ events' \in Seq(Event) /\ Len(events') = Len(events) + 1 /\ Len(events') <= MaxEvents
        /\ Placed'
    BY <1>1, <2>1, LinkExtends DEF AppendEvent, Kinds
  <2>3. UNCHANGED <<config, orgSecret, keyMap, erase, resigned>>
    BY <1>1 DEF AppendEvent
  <2>4. KeysOK'
    BY <1>0, <2>2, <2>3 DEF KeysOK
  <2> QED
    BY <1>0, <2>2, <2>3, <2>4 DEF ChainInv, ChainTypeOK
<1>2. ASSUME NEW k \in Secrets, NEW s \in Subjects \cup {NoSubject}, RotateKey(k, s)
      PROVE  ChainInv'
  <2>1. /\ events' \in Seq(Event) /\ Len(events') = Len(events) + 1 /\ Len(events') <= MaxEvents
        /\ Placed'
    BY <1>0, <1>2, LinkExtends DEF RotateKey, Kinds, ChainTypeOK
  <2>2. UNCHANGED <<config, erase, resigned>> /\ orgSecret' = k
    BY <1>2 DEF RotateKey
  <2>3. KeysOK'
    BY <1>0, <1>2, <2>1 DEF KeysOK, RotateKey
  <2> QED
    BY <1>0, <2>1, <2>2, <2>3 DEF ChainInv, ChainTypeOK
<1>3. ASSUME NEW s \in Subjects, NEW b \in Subjects \cup {NoSubject}, EraseSubject(s, b)
      PROVE  ChainInv'
  BY <1>3, <1>a DEF EraseSubject
<1>4. CASE EraseTombstone \/ EraseRelink
  <2>1. /\ erase' \in [pc : {"idle", "scan", "relink", "returned", "raised"},
                       subject : Subjects \cup {NoSubject}, by : Subjects \cup {NoSubject}, idx : Nat]
        /\ erase'.idx >= 1
    BY <1>4, EraseResigns
  <2>2. PICK i, e : Resigns(i, e)
    BY <1>4, EraseResigns
  <2>3. /\ events' \in Seq(Event) /\ Len(events') = Len(events) /\ Placed'
    BY <2>2, SignReplaces DEF Resigns
  <2>4. resigned' \subseteq Ids /\ UNCHANGED <<config, orgSecret, keyMap>>
    BY <1>0, <2>2, AuditAssumption DEF AuditAssumption, Resigns, Ids, ChainTypeOK
  <2> QED
    BY <1>0, <2>1, <2>3, <2>4 DEF ChainInv, ChainTypeOK, KeysOK
<1>5. CASE EraseReturn \/ EraseRaise
  <2>1. /\ erase' \in [pc : {"idle", "scan", "relink", "returned", "raised"},
                       subject : Subjects \cup {NoSubject}, by : Subjects \cup {NoSubject}, idx : Nat]
        /\ erase'.pc \notin {"scan", "relink"}
    BY <1>0, <1>5 DEF EraseReturn, EraseRaise
  <2> QED
    BY <1>5, <1>a, <2>1 DEF EraseReturn, EraseRaise
<1>6. CASE VerifyCopyKeys \/ VerifyCopyEvents
  BY <1>0, <1>6, <1>a DEF VerifyCopyKeys, VerifyCopyEvents, ChainInv
<1>7. CASE UNCHANGED vars
  BY <1>0, <1>7, <1>a DEF vars, ChainInv
<1> QED
  BY <1>1, <1>2, <1>3, <1>4, <1>5, <1>6, <1>7 DEF Next, Erase

----------------------------------------------------------------------------
(* What is signed.                                                          *)

LEMMA SignedInit == Init => SignedInv
<1> SUFFICES ASSUME Init
             PROVE  SignedInv
  OBVIOUS
<1>1. Len(events) = 0 /\ orgSecret = Initial
  BY DEF Init
<1>2. \A i \in 1 .. Len(events) + 1 - 1 : FALSE
  BY <1>1
<1> QED
  BY <1>1, <1>2 DEF SignedInv, Current

\* A longer chain, the same keys: the segments of the older events stay.
LEMMA OlderEventsStaySigned ==
  ASSUME ChainInv, SignedInv,
         Len(events') = Len(events) + 1,
         \A i \in 1 .. Len(events) : events'[i] = events[i],
         config' = config, resigned' = resigned,
         \A i \in 1 .. Len(events), s \in Secrets : Current(keyMap, i, s) => Current(keyMap', i, s),
         DOMAIN keyMap \subseteq DOMAIN keyMap'
  PROVE  \A i \in 1 .. Len(events) : SegmentOK(i)' /\ TenantOK(i)'
<1> SUFFICES ASSUME NEW i \in 1 .. Len(events)
             PROVE  SegmentOK(i)' /\ TenantOK(i)'
  OBVIOUS
<1>0. Len(events) \in Nat /\ events'[i] = events[i]
  BY DEF ChainInv, ChainTypeOK
<1>1. SegmentOK(i) /\ TenantOK(i)
  BY DEF SignedInv
<1>2. \A j \in i .. Len(events) : j \in i .. Len(events')
  BY <1>0
<1>3. SegmentOK(i)'
  <2>1. CASE \E s \in Secrets : Current(keyMap, i, s) /\ Verifies(events[i], s)
    BY <1>0, <2>1 DEF SegmentOK
  <2>2. CASE config.resolver /\ events[i].org # NoOrg
    BY <1>0, <2>2 DEF SegmentOK
  <2>3. CASE i \in resigned /\ \E j \in i .. Len(events) : j \in DOMAIN keyMap
    BY <1>2, <2>3 DEF SegmentOK
  <2> QED
    BY <1>1, <2>1, <2>2, <2>3 DEF SegmentOK
<1>4. TenantOK(i)'
  BY <1>0, <1>1 DEF TenantOK
<1> QED
  BY <1>3, <1>4

LEMMA SignedAppend ==
  ASSUME ChainInv, SignedInv,
         NEW s \in Subjects \cup {NoSubject}, NEW o \in Orgs \cup {NoOrg}, AppendEvent(s, o)
  PROVE  SignedInv'
<1> DEFINE n == Len(events) + 1
<1>0. /\ orgSecret \in Secrets /\ SecretFor(o) \in Secrets /\ Len(events) \in Nat
      /\ KeysOK
  BY AuditAssumption DEF AuditAssumption, SecretFor, AppendEvent, ChainInv, ChainTypeOK
<1>1. /\ Len(events') = n
      /\ \A i \in 1 .. Len(events) : events'[i] = events[i]
      /\ events'[n].org = o
      /\ Verifies(events'[n], SecretFor(o))
  BY <1>0, LinkExtends DEF AppendEvent, Kinds
<1>2. UNCHANGED <<config, orgSecret, keyMap, resigned>>
  BY DEF AppendEvent
<1>3. \A i \in 1 .. Len(events) : SegmentOK(i)' /\ TenantOK(i)'
  BY <1>1, <1>2, OlderEventsStaySigned
<1>4. Current(keyMap, n, orgSecret)
  BY DEF SignedInv
<1>5. Current(keyMap, n + 1, orgSecret)
  <2>1. n \notin DOMAIN keyMap
    BY <1>0 DEF KeysOK
  <2>2. \A j \in 1 .. n + 1 - 1 : j \in 1 .. n - 1 \/ j = n
    BY <1>0
  <2>3. CASE orgSecret = Initial /\ \A j \in 1 .. n - 1 : j \notin DOMAIN keyMap
    BY <2>1, <2>2, <2>3 DEF Current
  <2>4. ASSUME NEW j \in 1 .. n - 1,
               j \in DOMAIN keyMap, orgSecret = keyMap[j],
               \A l \in j + 1 .. n - 1 : l \notin DOMAIN keyMap
        PROVE  Current(keyMap, n + 1, orgSecret)
    <3>1. j \in 1 .. n + 1 - 1
      BY <1>0
    <3>2. \A l \in j + 1 .. n + 1 - 1 : l \in j + 1 .. n - 1 \/ l = n
      BY <1>0
    <3> QED
      BY <2>1, <2>4, <3>1, <3>2 DEF Current
  <2> QED
    BY <1>4, <2>3, <2>4 DEF Current
<1>6. ASSUME NEW i, i = n
      PROVE  SegmentOK(i)'
  <2>1. CASE config.resolver /\ o # NoOrg
    BY <1>1, <1>2, <1>6, <2>1 DEF SegmentOK
  <2>2. CASE ~(config.resolver /\ o # NoOrg)
    <3>1. Current(keyMap', n, orgSecret) /\ Verifies(events'[n], orgSecret)
      BY <1>1, <1>2, <1>4, <2>2 DEF SecretFor
    <3> QED
      BY <1>0, <1>2, <1>6, <3>1 DEF SegmentOK
  <2> QED
    BY <2>1, <2>2
<1>7. ASSUME NEW i, i = n
      PROVE  TenantOK(i)'
  BY <1>1, <1>2, <1>7 DEF TenantOK, SecretFor
<1>8. \A i \in 1 .. Len(events') : i \in 1 .. Len(events) \/ i = n
  BY <1>0, <1>1
<1> QED
  BY <1>1, <1>2, <1>3, <1>5, <1>6, <1>7, <1>8 DEF SignedInv

LEMMA SignedRotate ==
  ASSUME ChainInv, SignedInv,
         NEW k \in Secrets, NEW s \in Subjects \cup {NoSubject}, RotateKey(k, s)
  PROVE  SignedInv'
<1> DEFINE n == Len(events) + 1
<1>0. orgSecret \in Secrets /\ Len(events) \in Nat /\ KeysOK
  BY DEF ChainInv, ChainTypeOK
<1>1. /\ Len(events') = n
      /\ \A i \in 1 .. Len(events) : events'[i] = events[i]
      /\ events'[n].org = NoOrg
      /\ Verifies(events'[n], orgSecret)
  BY <1>0, LinkExtends DEF RotateKey, Kinds
<1>2. /\ UNCHANGED <<config, resigned>> /\ orgSecret' = k
      /\ DOMAIN keyMap' = DOMAIN keyMap \cup {n}
      /\ keyMap'[n] = k
      /\ \A j \in DOMAIN keyMap : j # n => keyMap'[j] = keyMap[j]
  BY DEF RotateKey
<1>3. \A i \in 1 .. n, t \in Secrets : Current(keyMap, i, t) => Current(keyMap', i, t)
  BY SMTT(30), <1>0, <1>2, OlderSegmentsStay
<1>4. \A i \in 1 .. Len(events) : SegmentOK(i)' /\ TenantOK(i)'
  <2>1. \A i \in 1 .. Len(events), t \in Secrets : Current(keyMap, i, t) => Current(keyMap', i, t)
    BY <1>0, <1>3
  <2> QED
    BY <1>1, <1>2, <2>1, OlderEventsStaySigned
<1>5. Current(keyMap', n + 1, k)
  <2>1. n \in 1 .. n + 1 - 1 /\ \A l \in n + 1 .. n + 1 - 1 : FALSE
    BY <1>0
  <2> QED
    BY <1>2, <2>1 DEF Current
<1>6. ASSUME NEW i, i = n
      PROVE  SegmentOK(i)'
  <2>1. n \in 1 .. n /\ Current(keyMap, n, orgSecret)
    BY <1>0 DEF SignedInv
  <2>2. Current(keyMap', n, orgSecret)
    BY <1>0, <1>3, <2>1
  <2> QED
    BY <1>0, <1>1, <1>6, <2>2 DEF SegmentOK
<1>7. ASSUME NEW i, i = n
      PROVE  TenantOK(i)'
  BY <1>1, <1>7 DEF TenantOK
<1>8. \A i \in 1 .. Len(events') : i \in 1 .. Len(events) \/ i = n
  BY <1>0, <1>1
<1> QED
  BY <1>1, <1>2, <1>4, <1>5, <1>6, <1>7, <1>8 DEF SignedInv

\* An erasure signs with the secret of the open segment.
LEMMA SignedErase ==
  ASSUME ChainInv, SignedInv, NEW i, NEW e, Resigns(i, e)
  PROVE  SignedInv'
<1>0. /\ orgSecret \in Secrets /\ Len(events) \in Nat
      /\ i \in 1 .. Len(events) /\ e \in Event /\ e.org = events[i].org
      /\ UNCHANGED <<config, orgSecret, keyMap>> /\ resigned' = resigned \cup {i}
  BY DEF ChainInv, ChainTypeOK, Resigns
<1>1. /\ Len(events') = Len(events)
      /\ \A j \in 1 .. Len(events) : j # i => events'[j] = events[j]
      /\ events'[i].org = events[i].org
      /\ Verifies(events'[i], orgSecret)
  BY <1>0, SignReplaces DEF Resigns
<1>2. Current(keyMap, Len(events) + 1, orgSecret)
  BY DEF SignedInv
<1>3. SegmentOK(i)'
  <2>1. CASE \E j \in i .. Len(events) : j \in DOMAIN keyMap
    BY <1>0, <1>1, <2>1 DEF SegmentOK
  <2>2. CASE \A j \in i .. Len(events) : j \notin DOMAIN keyMap
    <3>1. Current(keyMap, i, orgSecret)
      BY <1>0, <1>2, <2>2, SegmentHasOneSecret
    <3> QED
      BY <1>0, <1>1, <3>1 DEF SegmentOK
  <2> QED
    BY <2>1, <2>2
<1>4. TenantOK(i)'
  BY <1>0 DEF TenantOK
<1>5. ASSUME NEW j \in 1 .. Len(events), j # i
      PROVE  SegmentOK(j)' /\ TenantOK(j)'
  <2>1. SegmentOK(j) /\ TenantOK(j) /\ events'[j] = events[j]
    BY <1>1, <1>5 DEF SignedInv
  <2> QED
    BY <1>0, <1>1, <2>1 DEF SegmentOK, TenantOK
<1> QED
  BY <1>0, <1>1, <1>2, <1>3, <1>4, <1>5 DEF SignedInv

LEMMA SignedStep == ChainInv /\ SignedInv /\ [Next]_vars => SignedInv'
<1> SUFFICES ASSUME ChainInv, SignedInv, [Next]_vars
             PROVE  SignedInv'
  OBVIOUS
<1>a. ASSUME UNCHANGED <<config, events, orgSecret, keyMap, resigned>>
      PROVE  SignedInv'
  BY <1>a DEF SignedInv, SegmentOK, TenantOK
<1>1. ASSUME NEW s \in Subjects \cup {NoSubject}, NEW o \in Orgs \cup {NoOrg}, AppendEvent(s, o)
      PROVE  SignedInv'
  BY <1>1, SignedAppend
<1>2. ASSUME NEW k \in Secrets, NEW s \in Subjects \cup {NoSubject}, RotateKey(k, s)
      PROVE  SignedInv'
  BY <1>2, SignedRotate
<1>3. CASE EraseTombstone \/ EraseRelink
  <2>1. PICK i, e : Resigns(i, e)
    BY <1>3, EraseResigns
  <2> QED
    BY <2>1, SignedErase
<1>4. ASSUME NEW s \in Subjects, NEW b \in Subjects \cup {NoSubject}, EraseSubject(s, b)
      PROVE  SignedInv'
  BY <1>4, <1>a DEF EraseSubject
<1>5. CASE EraseReturn \/ EraseRaise
  BY <1>5, <1>a DEF EraseReturn, EraseRaise
<1>6. CASE VerifyCopyKeys \/ VerifyCopyEvents
  BY <1>6, <1>a DEF VerifyCopyKeys, VerifyCopyEvents
<1>7. CASE UNCHANGED vars
  BY <1>7, <1>a DEF vars
<1> QED
  BY <1>1, <1>2, <1>3, <1>4, <1>5, <1>6, <1>7 DEF Next, Erase

----------------------------------------------------------------------------
(* The verifier: while an asynchronous verify() holds the lock, the keys it *)
(* has read are those of the stream.                                        *)

VerifierInv == config.async /\ verifier.pc = "keys" => verifier.keys = keyMap

LEMMA VerifierStep == VerifierInv /\ [Next]_vars => VerifierInv'
<1> SUFFICES ASSUME VerifierInv, [Next]_vars
             PROVE  VerifierInv'
  OBVIOUS
<1>1. ASSUME NEW k \in Secrets, NEW s \in Subjects \cup {NoSubject}, RotateKey(k, s)
      PROVE  VerifierInv'
  BY <1>1 DEF RotateKey, LockIsFree, VerifierInv
<1>2. CASE VerifyCopyKeys \/ VerifyCopyEvents
  BY <1>2 DEF VerifyCopyKeys, VerifyCopyEvents, VerifierInv
<1>3. CASE UNCHANGED <<config, keyMap, verifier>>
  BY <1>3 DEF VerifierInv
<1> QED
  BY <1>1, <1>2, <1>3 DEF Next, AppendEvent, EraseSubject, Erase, EraseTombstone, EraseRelink,
     EraseReturn, EraseRaise, vars

VerifierTypeOK ==
  /\ verifier.pc \in {"idle", "keys", "done"}
  /\ verifier.valid \in BOOLEAN
  /\ \E D \in SUBSET Ids : verifier.keys \in [D -> Secrets]

LEMMA KeysAreTyped == ChainInv => \E D \in SUBSET Ids : keyMap \in [D -> Secrets]
<1> SUFFICES ASSUME ChainInv
             PROVE  \E D \in SUBSET Ids : keyMap \in [D -> Secrets]
  OBVIOUS
<1>1. /\ keyMap \in [DOMAIN keyMap -> Secrets] /\ DOMAIN keyMap \subseteq 1 .. Len(events)
      /\ Len(events) \in Nat /\ Len(events) <= MaxEvents /\ MaxEvents \in Nat
  BY AuditAssumption DEF AuditAssumption, ChainInv, ChainTypeOK, KeysOK
<1>2. DOMAIN keyMap \in SUBSET Ids
  BY <1>1 DEF Ids
<1> QED
  BY <1>1, <1>2

LEMMA VerifierTypeInit == Init => VerifierTypeOK
<1> SUFFICES ASSUME Init
             PROVE  VerifierTypeOK
  OBVIOUS
<1>1. verifier.pc = "idle" /\ verifier.valid = TRUE /\ verifier.keys = <<>>
  BY DEF Init
<1>2. <<>> \in [{} -> Secrets] /\ {} \in SUBSET Ids
  OBVIOUS
<1> QED
  BY <1>1, <1>2 DEF VerifierTypeOK

LEMMA VerifierTypeStep == ChainInv /\ VerifierTypeOK /\ [Next]_vars => VerifierTypeOK'
<1> SUFFICES ASSUME ChainInv, VerifierTypeOK, [Next]_vars
             PROVE  VerifierTypeOK'
  OBVIOUS
<1>1. CASE VerifyCopyKeys
  <2>1. verifier' = [pc |-> "keys", keys |-> keyMap, valid |-> verifier.valid]
    BY <1>1 DEF VerifyCopyKeys
  <2>2. verifier'.pc = "keys" /\ verifier'.keys = keyMap
    BY <2>1
  <2>3. verifier'.valid = verifier.valid
    BY <2>1, Zenon
  <2>4. verifier'.valid \in BOOLEAN
    BY <2>3, Zenon DEF VerifierTypeOK
  <2>5. \E D \in SUBSET Ids : verifier'.keys \in [D -> Secrets]
    BY <2>2, KeysAreTyped
  <2> QED
    BY <2>2, <2>4, <2>5 DEF VerifierTypeOK
<1>2. CASE VerifyCopyEvents
  <2>1. verifier' = [pc |-> "done", keys |-> <<>>, valid |-> ChainIsValid(events, verifier.keys)]
    BY <1>2 DEF VerifyCopyEvents
  <2>2. verifier'.pc = "done" /\ verifier'.keys = <<>>
    BY <2>1
  <2>3. verifier'.valid = ChainIsValid(events, verifier.keys)
    BY <2>1, Zenon
  <2>4. verifier'.valid \in BOOLEAN
    BY <2>3, Zenon DEF ChainIsValid
  <2>5. <<>> \in [{} -> Secrets] /\ {} \in SUBSET Ids
    OBVIOUS
  <2> QED
    BY <2>2, <2>4, <2>5 DEF VerifierTypeOK
<1>3. CASE UNCHANGED verifier
  BY <1>3, Zenon DEF VerifierTypeOK
<1> QED
  BY <1>1, <1>2, <1>3 DEF Next, AppendEvent, RotateKey, EraseSubject, Erase, EraseTombstone,
     EraseRelink, EraseReturn, EraseRaise, vars

----------------------------------------------------------------------------
(* An erasure in progress has left no mention of its subject behind it, but *)
(* for what its own texts say.                                              *)

\* The event at i mentions the subject being erased only as a tombstone.
Erased(i) ==
  events[i].subject = erase.subject =>
    /\ erase.by = erase.subject
    /\ events[i].kind = "tombstone" /\ events[i].id \in resigned

ErasedInv ==
  Erasing =>
    /\ erase.subject \in Subjects
    /\ \A i \in 1 .. Len(events) : i < erase.idx => Erased(i)

LEMMA ErasedStep == ChainInv /\ ErasedInv /\ [Next]_vars => ErasedInv'
<1> SUFFICES ASSUME ChainInv, ErasedInv, [Next]_vars, Erasing'
             PROVE  /\ erase'.subject \in Subjects
                    /\ \A i \in 1 .. Len(events') : i < erase'.idx => Erased(i)'
  BY DEF ErasedInv
<1>0. /\ events \in Seq(Event) /\ Len(events) \in Nat /\ DOMAIN events = 1 .. Len(events)
      /\ erase \in [pc : {"idle", "scan", "relink", "returned", "raised"},
                    subject : Subjects \cup {NoSubject}, by : Subjects \cup {NoSubject}, idx : Nat]
      /\ \A i \in 1 .. Len(events) : events[i] \in Event /\ events[i].id = i
  BY DEF ChainInv, ChainTypeOK, Placed
<1>1. CASE EraseTombstone
  <2>1. PICK i \in Mentions :
          /\ \A j \in Mentions : i <= j
          /\ events' = [events EXCEPT ![i] = Sign(Tombstone(events[i]), orgSecret, PrevId(events, i))]
          /\ resigned' = resigned \cup {events[i].id}
          /\ erase' = [erase EXCEPT !.pc = "relink", !.idx = i + 1]
    BY <1>1 DEF EraseTombstone
  <2>2. i \in 1 .. Len(events) /\ i >= erase.idx
    BY <1>0 DEF Mentions
  <2>3. /\ Tombstone(events[i]) \in Event /\ Tombstone(events[i]).id = events[i].id
        /\ Tombstone(events[i]).subject = erase.by
        /\ Tombstone(events[i]).kind = "tombstone"
    BY <1>0, <2>2, TombstoneFacts
  <2>4. /\ Len(events') = Len(events)
        /\ \A j \in 1 .. Len(events) : j # i => events'[j] = events[j]
        /\ events'[i].subject = erase.by /\ events'[i].kind = "tombstone"
        /\ events'[i].id = events[i].id
    BY <2>1, <2>2, <2>3, SignReplaces
  <2>5. erase'.subject = erase.subject /\ erase'.by = erase.by /\ erase'.idx = i + 1
    BY <1>0, <2>1
  <2>6. erase.subject \in Subjects
        /\ \A j \in 1 .. Len(events) : j < erase.idx => Erased(j)
    BY <1>1 DEF EraseTombstone, ErasedInv, Erasing
  <2>7. ASSUME NEW j \in 1 .. Len(events), j < i
        PROVE  Erased(j)
    <3>1. CASE j < erase.idx
      BY <2>6, <3>1
    <3>2. CASE j >= erase.idx
      <4>1. j \notin Mentions
        BY <1>0, <2>1, <2>2, <2>7
      <4> QED
        BY <1>0, <3>2, <4>1 DEF Mentions, Erased
    <3> QED
      BY <1>0, <3>1, <3>2
  <2>8. resigned \subseteq resigned' /\ events[i].id \in resigned'
    BY <2>1
  <2>9. ASSUME NEW j \in 1 .. Len(events), j < i + 1
        PROVE  Erased(j)'
    <3>1. CASE j = i
      BY <2>4, <2>5, <2>8, <3>1 DEF Erased
    <3>2. CASE j < i
      <4>1. Erased(j) /\ events'[j] = events[j]
        BY <1>0, <2>2, <2>4, <2>7, <3>2
      <4> QED
        BY <2>5, <2>8, <4>1 DEF Erased
    <3> QED
      BY <1>0, <2>2, <2>9, <3>1, <3>2
  <2> QED
    BY <2>4, <2>5, <2>6, <2>9
<1>2. CASE EraseRelink
  <2> DEFINE i == erase.idx
  <2>1. i \in 1 .. Len(events) /\ events[i] \in Event
    BY <1>0, <1>2 DEF EraseRelink
  <2>2. events' = [events EXCEPT ![i] = Sign(events[i], orgSecret, PrevId(events, i))]
    BY <1>2 DEF EraseRelink
  <2>3. /\ Len(events') = Len(events)
        /\ \A j \in 1 .. Len(events) : j # i => events'[j] = events[j]
    BY <2>1, <2>2, SignReplaces
  <2>4. /\ erase'.subject = erase.subject /\ erase'.by = erase.by /\ erase'.idx = erase.idx
        /\ resigned \subseteq resigned'
    BY <1>0, <1>2 DEF EraseRelink
  <2>5. Erasing
    BY <1>2 DEF EraseRelink, Erasing
  <2> QED
    BY <1>0, <2>3, <2>4, <2>5 DEF ErasedInv, Erased
<1>3. ASSUME NEW s \in Subjects, NEW b \in Subjects \cup {NoSubject}, EraseSubject(s, b)
      PROVE  erase'.subject \in Subjects /\ erase'.idx = 1 /\ events' = events
  BY <1>3 DEF EraseSubject
<1>4. CASE \E s \in Subjects, b \in Subjects \cup {NoSubject} : EraseSubject(s, b)
  BY <1>0, <1>3, <1>4
<1>5. CASE UNCHANGED <<events, erase, resigned>>
  BY <1>5 DEF ErasedInv, Erasing, Erased
<1>6. ~(EraseReturn \/ EraseRaise)
  BY <1>0 DEF EraseReturn, EraseRaise, Erasing
<1>7. ASSUME NEW s \in Subjects \cup {NoSubject}, NEW o \in Orgs \cup {NoOrg}
      PROVE  ~AppendEvent(s, o)
  BY DEF AppendEvent, LockIsFree, Erasing
<1>8. ASSUME NEW k \in Secrets, NEW s \in Subjects \cup {NoSubject}
      PROVE  ~RotateKey(k, s)
  BY DEF RotateKey, LockIsFree, Erasing
<1>9. VerifyCopyKeys \/ VerifyCopyEvents => UNCHANGED <<events, erase, resigned>>
  BY DEF VerifyCopyKeys, VerifyCopyEvents
<1> QED
  BY <1>1, <1>2, <1>4, <1>5, <1>6, <1>7, <1>8, <1>9 DEF Next, Erase, vars

----------------------------------------------------------------------------
(* The theorems.                                                            *)

LEMMA ChainInvariance == Spec => []ChainInv
<1> QED
  BY ChainInit, ChainStep, PTL DEF Spec

LEMMA SignedInvariance == Spec => []SignedInv
<1> QED
  BY ChainInvariance, SignedInit, SignedStep, PTL DEF Spec

LEMMA VerifierInvariance == Spec => []VerifierInv
<1>1. Init => VerifierInv
  BY DEF Init, VerifierInv
<1> QED
  BY <1>1, VerifierStep, PTL DEF Spec

LEMMA VerifierTypeInvariance == Spec => []VerifierTypeOK
<1> QED
  BY ChainInvariance, VerifierTypeInit, VerifierTypeStep, PTL DEF Spec

\* The chain, the keys and what a verifier has read keep their types; the chain
\* never outgrows its bound, nor the keys the chain.
THEOREM TypeCorrect == Spec => []TypeOK
<1>1. ChainInv /\ VerifierTypeOK => TypeOK
  BY KeysAreTyped, Zenon DEF ChainInv, ChainTypeOK, VerifierTypeOK, TypeOK
<1> QED
  BY <1>1, ChainInvariance, VerifierTypeInvariance, PTL

\* The positions of the chain are those the properties speak of.
LEMMA PositionOK ==
  ASSUME ChainInv
  PROVE  /\ DOMAIN events = 1 .. Len(events)
         /\ \A i \in 1 .. Len(events) : events[i].id = i
         /\ \A i \in 1 .. Len(events) :
              (\E s \in Secrets : Current(keyMap, i, s) /\ Verifies(events[i], s))
                => SignatureOK(events, keyMap, i)
<1>0. Len(events) \in Nat /\ DOMAIN events = 1 .. Len(events)
  BY DEF ChainInv, ChainTypeOK
<1>1. ASSUME NEW i \in 1 .. Len(events), NEW s \in Secrets, Current(keyMap, i, s),
             Verifies(events[i], s)
      PROVE  SignatureOK(events, keyMap, i)
  <2>1. i \in 1 .. Len(events) + 1
    BY <1>0
  <2>2. CurrentSecretIs(events, keyMap, i, s)
    BY <1>1, <2>1, CurrentSecretIsCurrent
  <2> QED
    BY <1>1, <2>2 DEF SignatureOK
<1> QED
  BY <1>0, <1>1 DEF ChainInv, Placed

\* prev_id always names the predecessor, wherever an erasure stands.
LEMMA NoGaps == ChainInv => Gaps(events) = {}
<1> SUFFICES ASSUME ChainInv, NEW i \in 1 .. Len(events)
             PROVE  events[i].prev = PrevId(events, i)
  BY PositionOK DEF Gaps
<1>1. Len(events) \in Nat /\ i \in 1 .. Len(events) + 1
  BY DEF ChainInv, ChainTypeOK
<1> QED
  BY <1>1, PrevIdIsPosition DEF ChainInv, Placed

\* Whatever is appended, rotated and erased, the chain stays linked.
THEOREM LinkageCorrect == Spec => []LinkageNeverBreaks
<1>1. ChainInv => LinkageNeverBreaks
  BY NoGaps DEF LinkageNeverBreaks
<1> QED
  BY <1>1, ChainInvariance, PTL

\* Only an erasure behind a rotation makes a signature fail.
THEOREM SignaturesCorrect == Spec => []OnlyErasureBehindARotationBreaksSignatures
<1>1. ChainInv /\ SignedInv => OnlyErasureBehindARotationBreaksSignatures
  <2> SUFFICES ASSUME ChainInv, SignedInv, NEW i \in 1 .. Len(events)
               PROVE  \/ SignatureOK(events, keyMap, i)
                      \/ config.resolver /\ events[i].org # NoOrg
                      \/ /\ events[i].id \in resigned
                         /\ \E j \in i .. Len(events) : events[j].id \in DOMAIN keyMap
    BY PositionOK DEF OnlyErasureBehindARotationBreaksSignatures
  <2>1. SegmentOK(i)
    BY DEF SignedInv
  <2>2. events[i].id = i /\ \A j \in i .. Len(events) : events[j].id = j
    BY PositionOK DEF ChainInv, ChainTypeOK
  <2> QED
    BY <2>1, <2>2, PositionOK DEF SegmentOK
<1> QED
  BY <1>1, ChainInvariance, SignedInvariance, PTL

\* The events of an organisation verify with its own key across rotations.
THEOREM TenantCorrect == Spec => []TenantEventsVerifyByResolver
<1>1. ChainInv /\ SignedInv => TenantEventsVerifyByResolver
  BY PositionOK DEF SignedInv, TenantOK, TenantEventsVerifyByResolver
<1> QED
  BY <1>1, ChainInvariance, SignedInvariance, PTL

\* verify() rejects a stream nobody erased from only across a rotation.
THEOREM VerdictCorrect == Spec => VerifyRejectsOnlyAcrossARotation
<1> DEFINE Verdict == /\ verifier.pc = "keys" /\ verifier'.pc = "done" /\ ~verifier'.valid
                      /\ resigned = {} /\ ~config.resolver
                      => ~config.async /\ verifier.keys # keyMap
<1>1. ChainInv /\ SignedInv /\ VerifierInv /\ [Next]_vars => [Verdict]_vars
  <2> SUFFICES ASSUME ChainInv, SignedInv, VerifierInv, [Next]_vars,
                      verifier.pc = "keys", verifier'.pc = "done", ~verifier'.valid,
                      resigned = {}, ~config.resolver
               PROVE  ~config.async /\ verifier.keys # keyMap
    OBVIOUS
  <2>1. VerifyCopyEvents
    BY DEF Next, AppendEvent, RotateKey, EraseSubject, Erase, EraseTombstone, EraseRelink,
       EraseReturn, EraseRaise, VerifyCopyKeys, vars
  <2>2. ~ChainIsValid(events, verifier.keys)
    BY <2>1 DEF VerifyCopyEvents
  <2>3. \A i \in DOMAIN events : SignatureOK(events, keyMap, i)
    BY PositionOK DEF SignedInv, SegmentOK
  <2>4. verifier.keys # keyMap
    BY <2>2, <2>3, NoGaps DEF ChainIsValid
  <2> QED
    BY <2>4 DEF VerifierInv
<1> QED
  BY <1>1, ChainInvariance, SignedInvariance, VerifierInvariance, PTL
     DEF Spec, VerifyRejectsOnlyAcrossARotation

\* Whenever erase_subject() returns, the subject is mentioned nowhere but in the
\* tombstones it wrote, and there only if its own texts name the subject.
THEOREM ErasureCorrect == Spec => ErasureIsComplete
<1> DEFINE Complete ==
             erase'.pc = "returned" /\ erase.pc # "returned" =>
               \A i \in DOMAIN events' :
                 events'[i].subject = erase.subject =>
                   /\ erase.by = erase.subject
                   /\ events'[i].kind = "tombstone" /\ events'[i].id \in resigned
<1>1. Init => ErasedInv
  BY DEF Init, ErasedInv, Erasing
<1>2. ChainInv /\ ErasedInv /\ [Next]_vars => [Complete]_vars
  <2> SUFFICES ASSUME ChainInv, ErasedInv, [Next]_vars,
                      erase'.pc = "returned", erase.pc # "returned",
                      NEW i \in DOMAIN events', events'[i].subject = erase.subject
               PROVE  /\ erase.by = erase.subject
                      /\ events'[i].kind = "tombstone" /\ events'[i].id \in resigned
    OBVIOUS
  <2>1. /\ DOMAIN events = 1 .. Len(events) /\ Len(events) \in Nat
        /\ erase \in [pc : {"idle", "scan", "relink", "returned", "raised"},
                      subject : Subjects \cup {NoSubject}, by : Subjects \cup {NoSubject}, idx : Nat]
    BY DEF ChainInv, ChainTypeOK
  <2>a. EraseTombstone => erase'.pc = "relink"
    BY <2>1 DEF EraseTombstone
  <2>b. EraseRelink => erase'.pc = "scan"
    BY <2>1 DEF EraseRelink
  <2>c. EraseRaise => erase'.pc = "raised"
    BY <2>1 DEF EraseRaise
  <2>d. \A s \in Subjects, b \in Subjects \cup {NoSubject} : EraseSubject(s, b) => erase'.pc = "scan"
    BY DEF EraseSubject
  <2>e. UNCHANGED erase => erase'.pc = erase.pc
    OBVIOUS
  <2>2. EraseReturn
    BY <2>a, <2>b, <2>c, <2>d, <2>e
       DEF Next, AppendEvent, RotateKey, Erase, VerifyCopyKeys, VerifyCopyEvents, vars
  <2>3. events' = events /\ Erasing
    BY <2>2 DEF EraseReturn, Erasing
  <2>4. i < erase.idx
    BY <2>1, <2>2, <2>3 DEF EraseReturn, Mentions, ChainInv
  <2> QED
    BY <2>1, <2>3, <2>4 DEF ErasedInv, Erased
<1> QED
  BY <1>1, <1>2, ChainInvariance, ErasedStep, PTL DEF Spec, ErasureIsComplete
=============================================================================
