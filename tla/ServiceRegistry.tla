--------------------------- MODULE ServiceRegistry ---------------------------
(***************************************************************************)
(* The service registry (sdk/registry.py): the one instance that threads    *)
(* create lazily, the health of the services, and the background checker,    *)
(* a thread that stops only when it looks at its event between two rounds.   *)
(***************************************************************************)
EXTENDS Naturals, Sequences, FiniteSets

CONSTANTS SrThreads,    \* threads that ask for the instance
          SrServices,   \* number of services, checked in this order
          SrCheckerCap  \* bound: background threads ever started

VARIABLES srInstance,  \* _instance: 0, or the number of the object
          srLock,      \* holder of _instance_lock, "free" otherwise
          srGet,       \* thread -> <<where it is in get_instance, what it got>>
          srMade,      \* history: instances made
          srHealth,    \* _health
          srStop,      \* _stop_event
          srCheckers,  \* background threads; "raced" (history): it was replaced
                       \* by a start that overlapped another
          srStartup,   \* the startup check: next service, and the statuses found
          srLast,      \* _bg_thread: 0, or its place in srCheckers
          srStarts     \* thread -> where it is in start_background_checker

instanceVars == <<srInstance, srLock, srGet, srMade>>
healthVars == <<srHealth, srStop, srCheckers, srStartup, srLast, srStarts>>
srVars == <<instanceVars, healthVars>>

ServiceStatus == {"up", "degraded", "down"}
Services == 1..SrServices
NoStart == [pc |-> "idle", overlaps |-> FALSE]
NoStartup == [next |-> 0, found |-> {}, fallback |-> TRUE, raised |-> FALSE]

Init == /\ srInstance = 0 /\ srLock = "free" /\ srMade = 0
        /\ srGet = [t \in SrThreads |-> <<"idle", 0>>]
        /\ srHealth = [s \in Services |-> "down"]
        /\ srStop = FALSE /\ srCheckers = <<>> /\ srLast = 0
        /\ srStarts = [t \in SrThreads |-> NoStart] /\ srStartup = NoStartup

At(t, pc) == srGet[t][1] = pc
Goto(t, pc) == srGet' = [srGet EXCEPT ![t] = <<pc, 0>>]

(* get_instance, double-checked: a test without the lock ... *)
get_instance(t) == /\ At(t, "idle")
                   /\ Goto(t, IF srInstance = 0 THEN "lock" ELSE "return")
                   /\ UNCHANGED <<srInstance, srLock, srMade, healthVars>>

get_lock(t) == /\ At(t, "lock") /\ srLock = "free"
               /\ srLock' = t /\ Goto(t, "create")
               /\ UNCHANGED <<srInstance, srMade, healthVars>>

(* ... and one with it. *)
get_create(t) == /\ At(t, "create")
                 /\ IF srInstance = 0
                    THEN srMade' = srMade + 1 /\ srInstance' = srMade + 1
                    ELSE UNCHANGED <<srMade, srInstance>>
                 /\ srLock' = "free" /\ Goto(t, "return")
                 /\ UNCHANGED healthVars

get_return(t) == /\ At(t, "return")
                 /\ srGet' = [srGet EXCEPT ![t] = <<"got", srInstance>>]
                 /\ UNCHANGED <<srInstance, srLock, srMade, healthVars>>

update_health(s, status) == /\ srHealth[s] # status
                            /\ srHealth' = [srHealth EXCEPT ![s] = status]
                            /\ UNCHANGED <<instanceVars, srStop, srCheckers, srLast, srStarts, srStartup>>

(* _check_service: up without an endpoint; else what the answer and its      *)
(* latency say, and down for every exception.                                *)
check_service == {"up", "degraded", "down"}

(* run_startup_check: one service after the other, then the verdict. *)
startup_check(status, fallback) ==
    /\ srStartup.next < SrServices
    /\ LET s == srStartup.next + 1
           found == srStartup.found \cup {status}
       IN /\ srHealth' = [srHealth EXCEPT ![s] = status]
          /\ srStartup' = [next |-> s, found |-> found, fallback |-> fallback,
                           raised |-> s = SrServices /\ ~fallback /\ "down" \in found]
    /\ UNCHANGED <<instanceVars, srStop, srCheckers, srLast, srStarts>>

Alive(c) == srCheckers[c].pc \in {"wait", "round"}
InStart(t) == srStarts[t].pc # "idle"

(* start_background_checker takes no lock: it looks whether the last thread  *)
(* is alive (also one that was told to stop), ...                            *)
Begin(t) ==
    /\ ~InStart(t)
    /\ srStarts' = [u \in SrThreads |->
           IF u = t THEN [pc |-> "make", overlaps |-> \E v \in SrThreads : InStart(v)]
           ELSE IF InStart(u) THEN [srStarts[u] EXCEPT !.overlaps = TRUE] ELSE srStarts[u]]
    /\ UNCHANGED <<instanceVars, srHealth, srStop, srCheckers, srLast, srStartup>>

(* A mutant of start_test: a thread that is told to stop does not count.     *)
StartWhileStopping(t) == (srLast # 0 => ~Alive(srLast) \/ srStop) /\ Begin(t)

start_test(t) == (srLast # 0 => ~Alive(srLast)) /\ Begin(t)

(* ... clears the event and makes a thread, ...                              *)
start_make(t) ==
    /\ srStarts[t].pc = "make" /\ Len(srCheckers) < SrCheckerCap
    /\ srStop' = FALSE
    /\ srCheckers' = Append(IF srLast = 0 THEN srCheckers
                            ELSE [srCheckers EXCEPT ![srLast].raced = srStarts[t].overlaps],
                            [pc |-> "made", at |-> 0, raced |-> FALSE])
    /\ srLast' = Len(srCheckers) + 1
    /\ srStarts' = [srStarts EXCEPT ![t].pc = "launch"]
    /\ UNCHANGED <<instanceVars, srHealth, srStartup>>

(* ... and starts the thread it finds in _bg_thread, which raises when       *)
(* another caller has put a thread there and started it.                     *)
start_launch(t) ==
    /\ srStarts[t].pc = "launch"
    /\ srCheckers' = IF srCheckers[srLast].pc = "made"
                     THEN [srCheckers EXCEPT ![srLast].pc = "wait"] ELSE srCheckers
    /\ srStarts' = [srStarts EXCEPT ![t] = NoStart]
    /\ UNCHANGED <<instanceVars, srHealth, srStop, srLast, srStartup>>

stop_background_checker == /\ ~srStop /\ srStop' = TRUE
                           /\ UNCHANGED <<instanceVars, srHealth, srCheckers, srLast, srStarts, srStartup>>

(* _loop: the event is looked at between two rounds only. *)
checker_wakes(c) ==
    /\ srCheckers[c].pc = "wait"
    /\ srCheckers' = [srCheckers EXCEPT ![c].pc = IF srStop THEN "ended" ELSE "round",
                                        ![c].at = IF srStop THEN 0 ELSE 1]
    /\ UNCHANGED <<instanceVars, srHealth, srStop, srLast, srStarts, srStartup>>

(* _run_background_check: the status found outside the lock replaces the     *)
(* entry, whoever has updated it meanwhile.                                  *)
background_check(c, status) ==
    /\ srCheckers[c].pc = "round"
    /\ srHealth' = [srHealth EXCEPT ![srCheckers[c].at] = status]
    /\ LET last == srCheckers[c].at = SrServices
       IN srCheckers' = [srCheckers EXCEPT ![c].pc = IF last THEN "wait" ELSE "round",
                                           ![c].at = IF last THEN 0 ELSE @ + 1]
    /\ UNCHANGED <<instanceVars, srStop, srLast, srStarts, srStartup>>

Next == \/ \E t \in SrThreads : get_instance(t) \/ get_lock(t) \/ get_create(t) \/ get_return(t)
        \/ \E t \in SrThreads : start_test(t) \/ start_make(t) \/ start_launch(t)
        \/ stop_background_checker
        \/ \E c \in 1..Len(srCheckers) :
             \/ checker_wakes(c)
             \/ \E status \in check_service : background_check(c, status)
        \/ \E status \in check_service :
             \/ \E s \in Services : update_health(s, status)
             \/ \E fallback \in BOOLEAN :
                  /\ srStartup.next > 0 => fallback = srStartup.fallback
                  /\ startup_check(status, fallback)

Spec == Init /\ [][Next]_srVars

RegistryTypeOK ==
    /\ srInstance \in 0..srMade /\ srLock \in SrThreads \cup {"free"}
    /\ srHealth \in [Services -> ServiceStatus] /\ srStop \in BOOLEAN
    /\ srCheckers \in Seq([pc : {"made", "wait", "round", "ended"}, at : 0..SrServices,
                            raced : BOOLEAN])
    /\ srLast \in 0..Len(srCheckers)
    /\ srStarts \in [SrThreads -> [pc : {"idle", "make", "launch"}, overlaps : BOOLEAN]]
    /\ srStartup \in [next : 0..SrServices, found : SUBSET ServiceStatus,
                      fallback : BOOLEAN, raised : BOOLEAN]

(* All threads share one registry.  However starts, stops and slow rounds    *)
(* overlap, no checker lives beside the last one unless the start that       *)
(* replaced it overlapped another start: one start at a time never leaves    *)
(* two threads writing health, and two at a time may.                        *)
OneRegistryOneChecker ==
    /\ \A t, u \in SrThreads : At(t, "got") /\ At(u, "got") => srGet[t] = srGet[u]
    /\ \A c \in 1..Len(srCheckers) : Alive(c) => c = srLast \/ srCheckers[c].raced
    /\ srStartup.raised => ~srStartup.fallback /\ srStartup.next = SrServices
=============================================================================
