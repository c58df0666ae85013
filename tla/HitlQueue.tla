------------------------------ MODULE HitlQueue ------------------------------
(***************************************************************************)
(* The human review queue (hitl.py).  Every operation changes an item under *)
(* the queue's lock and emits its event from the same mutable item after    *)
(* the lock is released, so an event shows the item as it is by then.  The  *)
(* reviewer is the caller who reviewed, and nobody before.                  *)
(***************************************************************************)
EXTENDS Naturals, Sequences, FiniteSets

CONSTANTS HitlIds,      \* decision ids
          HitlThreads,  \* callers
          HitlItemCap,  \* bound: items ever created
          HitlTierCap   \* bound: escalations of one item

(* Items and tiers are counted.                                              *)
ASSUME TierAssumption == HitlItemCap \in Nat /\ HitlTierCap \in Nat

VARIABLES hitlObjects,  \* every HITLItem ever created, by creation
          hitlItems,    \* _items: decision id -> index of its item, 0 if none
          hitlEmits,    \* thread -> the event it still has to emit
          hitlEvent     \* the event the last step wrote, or NoEvent

hitlVars == <<hitlObjects, hitlItems, hitlEmits, hitlEvent>>

HitlStatus == {"queued", "approved", "rejected", "escalated", "timeout"}
HitlActions == {"queued", "reviewed", "escalated", "timeout"}
HITLItem == [id : HitlIds, status : HitlStatus, reviewer : SUBSET HitlThreads,
             resolved : BOOLEAN, tier : 0..HitlTierCap]

(* What a call has to emit: the item it holds, its action, and two things   *)
(* kept for the properties: the item as the call left it, and whether       *)
(* another call has changed the same item since.                            *)
Emission == [index : 1..HitlItemCap, action : HitlActions, decided : HITLItem, raced : BOOLEAN]
HitlIdle == [index |-> 0]
NoEvent == [action |-> "none"]

HitlInit == /\ hitlObjects = <<>>
            /\ hitlItems = [d \in HitlIds |-> 0]
            /\ hitlEmits = [t \in HitlThreads |-> HitlIdle]
            /\ hitlEvent = NoEvent

Fresh(d) == [id |-> d, status |-> "queued", reviewer |-> {}, resolved |-> FALSE, tier |-> 0]

(* enqueue: a fresh item takes the place of any item with the same id. *)
enqueue(t, d) ==
    /\ hitlEmits[t] = HitlIdle
    /\ Len(hitlObjects) < HitlItemCap
    /\ hitlObjects' = Append(hitlObjects,
           Fresh(d))
    /\ hitlItems' = [hitlItems EXCEPT ![d] = Len(hitlObjects) + 1]
    /\ hitlEmits' = [hitlEmits EXCEPT ![t] =
           [index |-> Len(hitlObjects) + 1, action |-> "queued", decided |-> Fresh(d),
            raced |-> FALSE]]
    /\ hitlEvent' = NoEvent

Change(t, d, item, action) ==
    /\ hitlEmits[t] = HitlIdle
    /\ hitlObjects' = [hitlObjects EXCEPT ![hitlItems[d]] = item]
    /\ hitlEmits' = [u \in HitlThreads |->
           IF u = t THEN [index |-> hitlItems[d], action |-> action, decided |-> item,
                          raced |-> FALSE]
           ELSE IF hitlEmits[u].index = hitlItems[d] THEN [hitlEmits[u] EXCEPT !.raced = TRUE]
           ELSE hitlEmits[u]]
    /\ hitlEvent' = NoEvent
    /\ UNCHANGED hitlItems

Known(d) == hitlItems[d] # 0
Current(d) == hitlObjects[hitlItems[d]]

(* review: the outcome replaces whatever status the item has. *)
review(t, d, outcome) ==
    /\ Known(d)
    /\ Change(t, d, [Current(d) EXCEPT !.status = outcome, !.reviewer = {t},
                                       !.resolved = TRUE], "reviewed")

escalate(t, d) ==
    /\ Known(d) /\ Current(d).tier < HitlTierCap
    /\ Change(t, d, [Current(d) EXCEPT !.status = "escalated", !.tier = @ + 1],
              "escalated")

timeout(t, d) ==
    /\ Known(d)
    /\ Change(t, d, [Current(d) EXCEPT !.status = "timeout", !.resolved = TRUE],
              "timeout")

clear_items == /\ hitlItems' = [d \in HitlIds |-> 0]
               /\ \E d \in HitlIds : Known(d)
               /\ hitlEvent' = NoEvent
               /\ UNCHANGED <<hitlObjects, hitlEmits>>

Emitted(e, item) == [action |-> e.action, item |-> item, decided |-> e.decided,
                     raced |-> e.raced]

(* A mutant of _emit_event: it looks the item up by its id. *)
EmitLooksUp(t) ==
    /\ hitlEmits[t] # HitlIdle
    /\ LET e == hitlEmits[t]
           d == hitlObjects[e.index].id
       IN hitlEvent' = IF Known(d) THEN Emitted(e, Current(d)) ELSE NoEvent
    /\ hitlEmits' = [hitlEmits EXCEPT ![t] = HitlIdle]
    /\ UNCHANGED <<hitlObjects, hitlItems>>

(* _emit_event: outside the lock, from the item the call holds; a failing   *)
(* exporter is suppressed, and the event is lost.                           *)
emit_event(t) ==
    /\ hitlEmits[t] # HitlIdle
    /\ hitlEvent' \in {NoEvent, Emitted(hitlEmits[t], hitlObjects[hitlEmits[t].index])}
    /\ hitlEmits' = [hitlEmits EXCEPT ![t] = HitlIdle]
    /\ UNCHANGED <<hitlObjects, hitlItems>>

HitlNext == \/ clear_items
            \/ \E t \in HitlThreads :
                 \/ emit_event(t)
                 \/ \E d \in HitlIds :
                      \/ enqueue(t, d)
                      \/ \E o \in {"approved", "rejected"} : review(t, d, o)
                      \/ escalate(t, d)
                      \/ timeout(t, d)

HitlSpec == HitlInit /\ [][HitlNext]_hitlVars

HitlTypeOK ==
    /\ hitlObjects \in Seq(HITLItem)
    /\ hitlItems \in [HitlIds -> 0..Len(hitlObjects)]
    /\ hitlEmits \in [HitlThreads -> {HitlIdle} \cup Emission]
    /\ hitlEvent = NoEvent \/ hitlEvent \in
           [action : HitlActions, item : HITLItem, decided : HITLItem, raced : BOOLEAN]

(* An event shows exactly the item its call left, its status and reviewer   *)
(* included, unless another call changed that very item before the event    *)
(* left: replacing the item under its id, clearing the queue and changes to *)
(* other items never reach it.  What a race cannot undo is that somebody    *)
(* reviewed, that the item is resolved, and the tier it had reached.        *)
HitlEventsCarryTheDecision ==
    hitlEvent # NoEvent =>
        /\ ~hitlEvent.raced => hitlEvent.item = hitlEvent.decided
        /\ hitlEvent.item.id = hitlEvent.decided.id
        /\ hitlEvent.decided.reviewer # {} => hitlEvent.item.reviewer # {}
        /\ hitlEvent.decided.resolved => hitlEvent.item.resolved
        /\ hitlEvent.decided.tier <= hitlEvent.item.tier

(* hitl.py:145: "Record a reviewer's decision and emit hitl.reviewed."  The *)
(* event shows another outcome or another reviewer when a second call gets  *)
(* at the item before the event leaves.                                     *)
ReviewedEventsShowTheDecision ==
    hitlEvent # NoEvent /\ hitlEvent.action = "reviewed" =>
        /\ hitlEvent.item.status = hitlEvent.decided.status
        /\ hitlEvent.item.reviewer = hitlEvent.decided.reviewer
=============================================================================
