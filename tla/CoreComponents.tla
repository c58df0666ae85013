--------------------------- MODULE CoreComponents ----------------------------
(***************************************************************************)
(* The components around the pipeline that ComponentProofs is about: each   *)
(* rations or guards calls that several threads make.  A behaviour chooses  *)
(* one of them and exercises it; they share no state in the code either, so *)
(* their variables share the places p1, p2, ... in the order of each         *)
(* instance.  MCComponents checks them together with the others.            *)
(***************************************************************************)
EXTENDS Integers, Sequences, FiniteSets

CONSTANTS
    ScThreads, THRESHOLD, max_retries, local_fallback_enabled, ScDepth,  \* ServiceClient
    RlLimit, RlWindow, RlEnd,  \* RateLimiter
    SrThreads, SrServices, SrCheckerCap,  \* ServiceRegistry
    AdTopics, AdDedup, AdMinute, AdRateLimit, AdThreshold, AdEnd,  \* AlertAdmission
    ExCallers, ExBatchSize, ExQueueSize, ExRetries, ExCalls,  \* RemoteExport
    CbThreads, CbThreshold, CbCap, CbResets   \* CostBudget

ASSUME ClientAssumption ==
    /\ THRESHOLD \in Nat \ {0} /\ max_retries \in Nat
    /\ local_fallback_enabled \in BOOLEAN /\ ScDepth \in Nat \ {0}

ASSUME LimiterAssumption ==
    /\ RlLimit \in Nat \ {0} /\ RlWindow \in Nat \ {0} /\ RlEnd \in Nat

ASSUME RegistryAssumption ==
    /\ SrServices \in Nat \ {0} /\ SrCheckerCap \in Nat

ASSUME AdmissionAssumption ==
    /\ AdDedup \in Nat /\ AdMinute \in Nat \ {0}
    /\ AdRateLimit \in Nat \ {0} /\ AdThreshold \in Nat \ {0} /\ AdEnd \in Nat

ASSUME ShippingAssumption ==
    /\ ExBatchSize \in Nat \ {0} /\ ExQueueSize \in Nat \ {0} /\ ExRetries \in Nat \ {0}
    /\ ExCalls \in Nat

ASSUME BudgetAssumption ==
    /\ IsFiniteSet(CbThreads) /\ CbThreshold \in Nat \ {0}
    /\ CbCap \in Nat /\ CbResets \in Nat

VARIABLES component,  \* the component this behaviour exercises
          p1, p2, p3, p4, p5, p6, p7, p8, p9, p10, p11, p12, p13  \* its variables

coreVars == <<component, p1, p2, p3, p4, p5, p6, p7, p8, p9, p10, p11, p12, p13>>

Client == INSTANCE ServiceClient
    WITH scBreaker <- p1, scStack <- p2, scAnswered <- p3, scLost <- p4, scReading <- p5
Limiter == INSTANCE RateLimiter
    WITH rlNow <- p1, rlTimes <- p2, rlAllowed <- p3
Registry == INSTANCE ServiceRegistry
    WITH srInstance <- p1, srLock <- p2, srGet <- p3, srMade <- p4, srHealth <- p5,
         srStop <- p6, srCheckers <- p7, srStartup <- p8, srLast <- p9, srStarts <- p10
Admission == INSTANCE AlertAdmission
    WITH adNow <- p1, adWindow <- p2, adTimes <- p3, adDedup <- p4, adCounts <- p5,
         adPassed <- p6, adSink <- p7, adFired <- p8, adAlerts <- p9
Shipping == INSTANCE RemoteExport
    WITH exKind <- p1, exQueue <- p2, exClosed <- p3, exStop <- p4, exRef <- p5,
         exProc <- p6, exBegun <- p7, exNext <- p8, exCounts <- p9, exReceived <- p10,
         exInOrder <- p11, exRejected <- p12, exOverlap <- p13
Budget == INSTANCE CostBudget
    WITH cbRecords <- p1, cbFired <- p2, cbCalls <- p3, cbResets <- p4, cbNotified <- p5,
         cbStale <- p6

(* The places a component leaves free. *)
Unused == "unused"

CoreInit ==
    \/ /\ component = "client" /\ Client!Init
       /\ p6 = Unused /\ p7 = Unused /\ p8 = Unused /\ p9 = Unused /\ p10 = Unused /\
          p11 = Unused /\ p12 = Unused /\ p13 = Unused
    \/ /\ component = "limiter" /\ Limiter!Init
       /\ p4 = Unused /\ p5 = Unused /\ p6 = Unused /\ p7 = Unused /\ p8 = Unused /\
          p9 = Unused /\ p10 = Unused /\ p11 = Unused /\ p12 = Unused /\ p13 = Unused
    \/ /\ component = "registry" /\ Registry!Init
       /\ p11 = Unused /\ p12 = Unused /\ p13 = Unused
    \/ /\ component = "admission" /\ Admission!Init
       /\ p10 = Unused /\ p11 = Unused /\ p12 = Unused /\ p13 = Unused
    \/ /\ component = "shipping" /\ Shipping!Init
    \/ /\ component = "budget" /\ Budget!Init
       /\ p7 = Unused /\ p8 = Unused /\ p9 = Unused /\ p10 = Unused /\ p11 = Unused /\
          p12 = Unused /\ p13 = Unused

ClientStep ==
    /\ component = "client" /\ Client!Next
    /\ UNCHANGED <<component, p6, p7, p8, p9, p10, p11, p12, p13>>

LimiterStep ==
    /\ component = "limiter" /\ Limiter!Next
    /\ UNCHANGED <<component, p4, p5, p6, p7, p8, p9, p10, p11, p12, p13>>

RegistryStep ==
    /\ component = "registry" /\ Registry!Next
    /\ UNCHANGED <<component, p11, p12, p13>>

AdmissionStep ==
    /\ component = "admission" /\ Admission!Next
    /\ UNCHANGED <<component, p10, p11, p12, p13>>

ShippingStep ==
    /\ component = "shipping" /\ Shipping!Next
    /\ UNCHANGED component

BudgetStep ==
    /\ component = "budget" /\ Budget!Next
    /\ UNCHANGED <<component, p7, p8, p9, p10, p11, p12, p13>>

CoreNext == \/ ClientStep
            \/ LimiterStep
            \/ RegistryStep
            \/ AdmissionStep
            \/ ShippingStep
            \/ BudgetStep

CoreSpec == CoreInit /\ [][CoreNext]_coreVars

(* Every component's variables stay in their types.                          *)
CoreTypesOK ==
    /\ component = "client"    => Client!ServiceTypeOK
    /\ component = "limiter"   => Limiter!LimiterTypeOK
    /\ component = "registry"  => Registry!RegistryTypeOK
    /\ component = "admission" => Admission!AdmissionTypeOK
    /\ component = "shipping"  => Shipping!ExportTypeOK
    /\ component = "budget"    => Budget!BudgetTypeOK

(* An answered request is sent again only after its answer was lost; no      *)
(* window holds more requests or alerts than its limit; one registry lives,  *)
(* and a second checker only when two starts overlapped; an exceeded budget  *)
(* is never missed.                                                          *)
CallsAreRationed ==
    /\ component = "client"    => Client!ResentOnlyAfterALostAnswer
    /\ component = "limiter"   => Limiter!NoWindowExceedsTheLimit
    /\ component = "registry"  => Registry!OneRegistryOneChecker
    /\ component = "admission" => Admission!AdmissionIsSpaced
    /\ component = "budget"    => Budget!BudgetIsNeverMissed

(* An event a remote exporter accepted is in one place, and gone only if the *)
(* endpoint received it, its post ended in a refusal or another exception, or*)
(* the failure was counted; as long as one batch is under way at a time, the *)
(* endpoint receives the events in order.                                    *)
ShipmentsAddUp ==
    /\ component = "shipping" => Shipping!ShipmentsAddUp
=============================================================================
