------------------------------ MODULE TraceStore ------------------------------
(***************************************************************************)
(* The in-memory store of recent traces (_store.py): a map in order of      *)
(* activity with at most max_traces traces, and the global instance that    *)
(* trace_store() replaces for the time of a block.                          *)
(***************************************************************************)
EXTENDS Naturals, Sequences, FiniteSets, SequencesExt

CONSTANTS StTraces,   \* trace ids
          StThreads,  \* threads that use trace_store()
          max_traces, \* capacity of a store
          StStoreCap, StEventCap  \* bounds: stores created, events held

VARIABLES stStores,   \* every TraceStore ever created
          stGlobal,   \* _store: the index of the global one
          stPrevious  \* thread -> stores its open blocks will put back

storeVars == <<stStores, stGlobal, stPrevious>>

EmptyStore == [order |-> <<>>, last |-> "None", history |-> <<>>]

Init == stStores = <<EmptyStore>> /\ stGlobal = 1 /\ stPrevious = [t \in StThreads |-> <<>>]

Without(order, id) == SelectSeq(order, LAMBDA x : x # id)

Recorded == FoldLeft(LAMBDA n, s : n + Len(s.history), 0, stStores)

(* A mutant of record: a trace that is active again keeps its place.        *)
RecordFifo(id, agentDone) ==
    /\ Recorded < StEventCap
    /\ LET s == stStores[stGlobal]
           room == IF Len(s.order) >= max_traces THEN Tail(s.order) ELSE s.order
       IN stStores' = [stStores EXCEPT ![stGlobal] =
             [order |-> IF id \in Range(s.order) THEN s.order ELSE Append(room, id),
              last |-> IF agentDone THEN id ELSE s.last,
              history |-> Append(s.history, id)]]
    /\ UNCHANGED <<stGlobal, stPrevious>>

(* record: a new trace evicts the oldest of a full store, a known one moves *)
(* to the end; a completed agent run is remembered.                         *)
record(id, agentDone) ==
    /\ Recorded < StEventCap
    /\ LET s == stStores[stGlobal]
           room == IF id \notin Range(s.order) /\ Len(s.order) >= max_traces
                   THEN Tail(s.order) ELSE Without(s.order, id)
       IN stStores' = [stStores EXCEPT ![stGlobal] =
             [order |-> Append(room, id),
              last |-> IF agentDone THEN id ELSE s.last,
              history |-> Append(s.history, id)]]
    /\ UNCHANGED <<stGlobal, stPrevious>>

clear_store == /\ stStores[stGlobal] # EmptyStore
               /\ stStores' = [stStores EXCEPT ![stGlobal] = EmptyStore]
               /\ UNCHANGED <<stGlobal, stPrevious>>

(* get_last_agent_run: None also when the run's trace has been evicted.     *)
get_last_agent_run == LET s == stStores[stGlobal]
                      IN IF s.last \in Range(s.order) THEN s.last ELSE "None"

(* trace_store: a fresh store for the block, then the one seen on entry.    *)
enter_store(t) == /\ Len(stStores) < StStoreCap
                  /\ stStores' = Append(stStores, EmptyStore)
                  /\ stGlobal' = Len(stStores) + 1
                  /\ stPrevious' = [stPrevious EXCEPT ![t] = Append(@, stGlobal)]

exit_store(t) == /\ stPrevious[t] # <<>>
                 /\ stGlobal' = Last(stPrevious[t])
                 /\ stPrevious' = [stPrevious EXCEPT ![t] = Front(@)]
                 /\ UNCHANGED stStores

Next == \/ \E id \in StTraces, b \in BOOLEAN : record(id, b)
        \/ clear_store
        \/ \E t \in StThreads : enter_store(t) \/ exit_store(t)

Spec == Init /\ [][Next]_storeVars

StoreTypeOK == /\ stGlobal \in 1..Len(stStores)
               /\ \A s \in Range(stStores) : Range(s.order) \subseteq StTraces

(* Every store holds exactly the max_traces traces active most recently, in *)
(* order of their last event; the last agent run is lost only when as many  *)
(* other traces were active after it.                                       *)
RecentTracesAreKept == \A s \in Range(stStores) :
    LET lastUse(id) == CHOOSE i \in 1..Len(s.history) :
                         /\ s.history[i] = id
                         /\ \A j \in i + 1..Len(s.history) : s.history[j] # id
        seen == Range(s.history)
        recent == {id \in seen : Cardinality({o \in seen : lastUse(o) > lastUse(id)}) < max_traces}
    IN /\ Range(s.order) = recent /\ IsInjective(s.order)
       /\ \A i, j \in 1..Len(s.order) : i < j => lastUse(s.order[i]) < lastUse(s.order[j])
       /\ s = stStores[stGlobal] /\ s.last # "None" /\ get_last_agent_run = "None" =>
            Cardinality({o \in seen : lastUse(o) > lastUse(s.last)}) >= max_traces
=============================================================================
