---------------------------- MODULE MCComponents -----------------------------
(***************************************************************************)
(* The components around the pipeline, checked in one run: a behaviour      *)
(* chooses one of them, or one of CoreComponents, and exercises it.  They    *)
(* share no state in the code either; TraceContext and SpanLifecycle, and   *)
(* TraceStore, see the same spans from the side of the task, the hooks and  *)
(* the store.                                                               *)
(***************************************************************************)
EXTENDS CoreComponents

vars == coreVars

Tracing == INSTANCE TraceContext
    WITH trSpans <- p1, trRuns <- p2, trSteps <- p3, trStacks <- p4, trBlocks <- p5,
         trLive <- p6,
         TrTasks <- {"main", "child"}, TrMain <- "main", TrSpanCap <- 1,
         TrRunCap <- 2, TrStepCap <- 2, TrNested <- TRUE
Lifecycle == INSTANCE SpanLifecycle
    WITH lcPhase <- p1, lcPlan <- p2, lcTodo <- p3, lcRegistered <- p4, lcCalls <- p5,
         lcExpected <- p6, lcStatus <- p7, lcCategory <- p8, lcEndStatus <- p9,
         lcTimers <- p10,
         LcHooks <- {"h1", "h2"}, LcLoop <- TRUE
Store == INSTANCE TraceStore
    WITH stStores <- p1, stGlobal <- p2, stPrevious <- p3,
         StTraces <- {"t1", "t2", "t3"}, StThreads <- {"a", "b"},
         max_traces <- 2, StStoreCap <- 2, StEventCap <- 4
AuditTrail == INSTANCE AuditStore
    WITH asClock <- p1, asCalls <- p2, asPosition <- p3, asRecords <- p4, asIndex <- p5,
         asOpen <- p6, asTrust <- p7, asSink <- p8,
         AsThreads <- {"a", "b"}, AsSchemas <- {"score", "rbac"}, AsTrusted <- {"score"},
         AsSinks <- {"a"}, AsCap <- 3, AsClockCap <- 1
Governance == INSTANCE GovernanceDecisions
    WITH gvLoaded <- p1, gvActive <- p2, gvPermitted <- p3, gvCalls <- p4,
         gvOutcomes <- p5, gvScope <- p6, gvBreaker <- p7, gvBegun <- p8,
         GvThreads <- {"a", "b"}, GvThreshold <- 1, GvCheckCap <- 2,
         GvBundles <- [staging |-> {<<[service |-> "scope", enabled |-> FALSE, action |-> "redact",
                                       threshold |-> 1, comparator |-> "lt"],
                                      [service |-> "scope", enabled |-> TRUE, action |-> "block",
                                       threshold |-> 1, comparator |-> "lt"]>>},
                       prod |-> {<<[service |-> "scope", enabled |-> TRUE, action |-> "allow+log",
                                    threshold |-> 1, comparator |-> "lt"],
                                   [service |-> "scope", enabled |-> TRUE, action |-> "redact",
                                    threshold |-> 0, comparator |-> "gt"]>>}]
Gate == INSTANCE CiGate
    WITH cgPc <- p1, cgThreads <- p2, cgOut <- p3, cgResults <- p4, cgArtifacts <- p5,
         cgLate <- p6, cgNow <- p7, cgAlerted <- p8, cgFailures <- p9, cgAlerts <- p10,
         CgWorkers <- 2, CgTrustCap <- 2, CgPipelines <- {"p"}, CgDedup <- 1, CgEnd <- 1,
         CgGates <- <<[id |-> "a", type |-> "secrets_scan", parallel |-> TRUE, on_fail |-> "block", skip |-> FALSE],
                      [id |-> "b", type |-> "halluccheck_trust", parallel |-> TRUE, on_fail |-> "warn", skip |-> FALSE],
                      [id |-> "c", type |-> "halluccheck_prri", parallel |-> TRUE, on_fail |-> "block", skip |-> FALSE],
                      [id |-> "b", type |-> "dependency_security", parallel |-> FALSE, on_fail |-> "block", skip |-> FALSE]>>
Command == INSTANCE CommandLine
    WITH clRun <- p1, clFiles <- p2, clExit <- p3, clDb <- p4, clShell <- p5, clSets <- p6,
         clKept <- p7, clExcuse <- p8,
         ClFaults <- 2, ClShells <- {"a", "b"}, ClKeys <- {"k", "l"}, ClSets <- 3
Evidence == INSTANCE ComplianceEvidence
    WITH ceKey <- p1, cePackage <- p2, ceEdits <- p3, cePdf <- p4, ceTrail <- p5,
         ceBuild <- p6, ceZips <- p7, ceBundles <- p8, ceCount <- p9, ceDay <- p10,
         ceOver <- p11,
         CeFrameworks <- {"hipaa"}, CeCounts <- {4, 10}, CeEdits <- 1,
         CeThreads <- {"a", "b"}, CeProjects <- {"p", "q"}, CeBuilds <- 2
Guards == INSTANCE DataGuards
    WITH dgScan <- p1, dgEvent <- p2, dgFloor <- p3, dgSteps <- p4, dgStore <- p5,
         dgReceipts <- p6,
         DgLength <- 4, DgSubjects <- {"s", "u"}, DgLeaves <- 2
Answers == INSTANCE AnswerServices
    WITH anPart <- p1, anCalls <- p2, anAudit <- p3, anCheck <- p4, anRecords <- p5,
         anByTrace <- p6, anThread <- p7, anReturned <- p8, anSession <- p9,
         anTotals <- p10, anEnded <- p11, anRun <- p12,
         AnThreads <- {"a", "b"}, AnIds <- {"x", "y"}, AnTraces <- {"t", "u"},
         AnSessions <- {"s", "r"}, AnPasses <- 2, AnRetries <- 1, AnCap <- 3
Platform == INSTANCE PlatformServices
    WITH psSetup <- p1, psCalls <- p2, psObserver <- p3, psFate <- p4, psTrace <- p5,
         psThread <- p6, psTenant <- p7, psSetting <- p8, psPackages <- p9, psAudit <- p10,
         PsThreads <- {"a", "b"}, PsBufferMax <- 2, PsTraces <- {"t"}, PsProjects <- {"p"},
         PsRegions <- {"eu"}, PsCap <- 3
Cache == INSTANCE SemanticCache
    WITH mcBackend <- p1, mcStore <- p2, mcNow <- p3, mcUsed <- p4, mcCaller <- p5,
         mcBegun <- p6, mcOver <- p7, mcAnswers <- p8,
         McThreads <- {"a", "b"}, McPrompts <- {"p", "q", "r"}, McAlike <- {{"p", "q"}}, McTwins <- {{"q", "r"}}, McTags <- {"v"},
         McMaxSize <- 2, McTtl <- 0, McEnd <- 1, McCalls <- 3
Configured == INSTANCE Configuration
    WITH cfPart <- p1, cfConf <- p2, cfCached <- p3, cfAt <- p4, cfUsed <- p5,
         cfBroken <- p6, cfFates <- p7, cfBypass <- p8, cfVerdicts <- p9, cfProcs <- p10,
         CfThreads <- {"a", "b"}, CfCap <- 3, CfBucket <- [t |-> 2],
         CfEvents <- {[trace |-> "t", error |-> TRUE, recorded |-> FALSE, traceparent |-> "none", child |-> TRUE],
                      [trace |-> "", error |-> FALSE, recorded |-> TRUE, traceparent |-> "corrupt", child |-> TRUE],
                      [trace |-> "t", error |-> FALSE, recorded |-> FALSE, traceparent |-> "sampled", child |-> FALSE]}
Migrated == INSTANCE Migration
    WITH mgSource <- p1, mgTarget <- p2, mgRun <- p3, mgNext <- p4, mgBegun <- p5,
         mgLate <- p6, mgTorn <- p7, mgDone <- p8,
         MgLines <- 2, MgRuns <- 3,
         MgShapes <- {[form |-> "event", version |-> 1, old |-> TRUE, sum |-> "good", sig |-> "good"],
                      [form |-> "event", version |-> 1, old |-> FALSE, sum |-> "md5", sig |-> "none"],
                      [form |-> "event", version |-> 1, old |-> FALSE, sum |-> "null", sig |-> "none"]}
Drift == INSTANCE DriftDetection
    WITH ddBaseline <- p1, ddFit <- p2, ddWindow <- p3, ddBreach <- p4, ddSeen <- p5,
         ddNow <- p6, ddHeld <- p7, ddDecided <- p8, ddEmitted <- p9, ddLost <- p10,
         ddOverlap <- p11,
         DdThreads <- {"a", "b"}, DdOps <- {"chat"}, DdMinSamples <- 2,
         window_size <- 2, z_threshold <- 3, metric_ttl <- 1, DdCalls <- 2, DdEnd <- 2,
         DdEvents <- {[type |-> "span", op |-> "chat", total |-> 2, latency |-> 4, score |-> -1],
                      [type |-> "span", op |-> "chat", total |-> 9, latency |-> -1, score |-> -1]},
         DdStreams <- {<<>>,
                       <<[type |-> "span", op |-> "chat", total |-> 1, latency |-> 3, score |-> -1],
                         [type |-> "span", op |-> "chat", total |-> 3, latency |-> 3, score |-> -1]>>}
Envelope == INSTANCE EventEnvelope
    WITH evPart <- p1, evClock <- p2, evMoves <- p3, evLast <- p4, evSpin <- p5,
         evIssued <- p6, evFile <- p7, evRead <- p8, evQueue <- p9, evPut <- p10,
         evGot <- p11, evOffset <- p12, evFetched <- p13,
         EvRandMax <- 1, EvMsMax <- 2, EvIssued <- 4, EvLines <- <<"good", "bad", "good">>,
         EvReaders <- {"a", "b"}, EvItems <- <<"x", "end", "y", "end">>,
         EvMessages <- <<"good", "bad", "good", "end", "good">>, EvCalls <- 3

Init ==
    \/ /\ CoreInit
    \/ /\ component = "tracing" /\ Tracing!Init
       /\ p7 = Unused /\ p8 = Unused /\ p9 = Unused /\ p10 = Unused /\ p11 = Unused /\
          p12 = Unused /\ p13 = Unused
    \/ /\ component = "span" /\ Lifecycle!Init
       /\ p11 = Unused /\ p12 = Unused /\ p13 = Unused
    \/ /\ component = "store" /\ Store!Init
       /\ p4 = Unused /\ p5 = Unused /\ p6 = Unused /\ p7 = Unused /\ p8 = Unused /\
          p9 = Unused /\ p10 = Unused /\ p11 = Unused /\ p12 = Unused /\ p13 = Unused
    \/ /\ component = "audit" /\ AuditTrail!Init
       /\ p9 = Unused /\ p10 = Unused /\ p11 = Unused /\ p12 = Unused /\ p13 = Unused
    \/ /\ component = "governance" /\ Governance!Init
       /\ p9 = Unused /\ p10 = Unused /\ p11 = Unused /\ p12 = Unused /\ p13 = Unused
    \/ /\ component = "gate" /\ Gate!Init
       /\ p11 = Unused /\ p12 = Unused /\ p13 = Unused
    \/ /\ component = "command" /\ Command!Init
       /\ p9 = Unused /\ p10 = Unused /\ p11 = Unused /\ p12 = Unused /\ p13 = Unused
    \/ /\ component = "evidence" /\ Evidence!Init
       /\ p12 = Unused /\ p13 = Unused
    \/ /\ component = "guards" /\ Guards!Init
       /\ p7 = Unused /\ p8 = Unused /\ p9 = Unused /\ p10 = Unused /\ p11 = Unused /\
          p12 = Unused /\ p13 = Unused
    \/ /\ component = "answers" /\ Answers!Init
       /\ p13 = Unused
    \/ /\ component = "platform" /\ Platform!Init
       /\ p11 = Unused /\ p12 = Unused /\ p13 = Unused
    \/ /\ component = "cache" /\ Cache!Init
       /\ p9 = Unused /\ p10 = Unused /\ p11 = Unused /\ p12 = Unused /\ p13 = Unused
    \/ /\ component = "settings" /\ Configured!Init
       /\ p11 = Unused /\ p12 = Unused /\ p13 = Unused
    \/ /\ component = "migration" /\ Migrated!Init
       /\ p9 = Unused /\ p10 = Unused /\ p11 = Unused /\ p12 = Unused /\ p13 = Unused
    \/ /\ component = "drift" /\ Drift!Init
       /\ p12 = Unused /\ p13 = Unused
    \/ /\ component = "envelope" /\ Envelope!Init

TracingStep ==
    /\ component = "tracing" /\ Tracing!Next
    /\ UNCHANGED <<component, p7, p8, p9, p10, p11, p12, p13>>

LifecycleStep ==
    /\ component = "span" /\ Lifecycle!Next
    /\ UNCHANGED <<component, p11, p12, p13>>

StoreStep ==
    /\ component = "store" /\ Store!Next
    /\ UNCHANGED <<component, p4, p5, p6, p7, p8, p9, p10, p11, p12, p13>>

AuditTrailStep ==
    /\ component = "audit" /\ AuditTrail!Next
    /\ UNCHANGED <<component, p9, p10, p11, p12, p13>>

GovernanceStep ==
    /\ component = "governance" /\ Governance!Next
    /\ UNCHANGED <<component, p9, p10, p11, p12, p13>>

GateStep ==
    /\ component = "gate" /\ Gate!Next
    /\ UNCHANGED <<component, p11, p12, p13>>

CommandStep ==
    /\ component = "command" /\ Command!Next
    /\ UNCHANGED <<component, p9, p10, p11, p12, p13>>

EvidenceStep ==
    /\ component = "evidence" /\ Evidence!Next
    /\ UNCHANGED <<component, p12, p13>>

GuardsStep ==
    /\ component = "guards" /\ Guards!Next
    /\ UNCHANGED <<component, p7, p8, p9, p10, p11, p12, p13>>

AnswersStep ==
    /\ component = "answers" /\ Answers!Next
    /\ UNCHANGED <<component, p13>>

PlatformStep ==
    /\ component = "platform" /\ Platform!Next
    /\ UNCHANGED <<component, p11, p12, p13>>

CacheStep ==
    /\ component = "cache" /\ Cache!Next
    /\ UNCHANGED <<component, p9, p10, p11, p12, p13>>

ConfiguredStep ==
    /\ component = "settings" /\ Configured!Next
    /\ UNCHANGED <<component, p11, p12, p13>>

MigratedStep ==
    /\ component = "migration" /\ Migrated!Next
    /\ UNCHANGED <<component, p9, p10, p11, p12, p13>>

DriftStep ==
    /\ component = "drift" /\ Drift!Next
    /\ UNCHANGED <<component, p12, p13>>

EnvelopeStep ==
    /\ component = "envelope" /\ Envelope!Next
    /\ UNCHANGED component

Next == \/ CoreNext
        \/ TracingStep
        \/ LifecycleStep
        \/ StoreStep
        \/ AuditTrailStep
        \/ GovernanceStep
        \/ GateStep
        \/ CommandStep
        \/ EvidenceStep
        \/ GuardsStep
        \/ AnswersStep
        \/ PlatformStep
        \/ CacheStep
        \/ ConfiguredStep
        \/ MigratedStep
        \/ DriftStep
        \/ EnvelopeStep

Spec == Init /\ [][Next]_vars

(* Every component's variables stay in their types.                          *)
ComponentsTypesOK ==
    /\ CoreTypesOK
    /\ component = "tracing"    => Tracing!TraceTypeOK
    /\ component = "span"       => Lifecycle!LifecycleTypeOK
    /\ component = "store"      => Store!StoreTypeOK
    /\ component = "audit"      => AuditTrail!StoreTypeOK
    /\ component = "governance" => Governance!GovernanceTypeOK
    /\ component = "gate"       => Gate!GateTypeOK
    /\ component = "command"    => Command!CommandTypeOK
    /\ component = "evidence"   => Evidence!EvidenceTypeOK
    /\ component = "guards"     => Guards!GuardsTypeOK
    /\ component = "answers"    => Answers!AnswersTypeOK
    /\ component = "platform"   => Platform!PlatformTypeOK
    /\ component = "cache"      => Cache!CacheTypeOK
    /\ component = "settings"   => Configured!ConfigurationTypeOK
    /\ component = "migration"  => Migrated!MigrationTypeOK
    /\ component = "drift"      => Drift!DriftTypeOK
    /\ component = "envelope"   => Envelope!EnvelopeTypeOK

(* What the process reports of its traces: a run reports the cost of the     *)
(* steps inside it once each; span-end hooks run once, whoever registers or  *)
(* clears meanwhile; the store keeps the traces active most recently.        *)
TracesAddUp ==
    /\ component = "tracing" => Tracing!RunTotalsCountEveryStep
    /\ component = "span"    => Lifecycle!EndHooksRunOnce
    /\ component = "store"   => Store!RecentTracesAreKept

(* A scope or role check is allowed exactly when the manifest permits it as  *)
(* it decides, a denied one gets what the rules of one moment say of a denied*)
(* action, or of a permitted one only if the manifest changed meanwhile; it  *)
(* is recorded unless the breaker refused it, and the operator sees an       *)
(* outcome at least as strict as every recorded one; replay and comparison   *)
(* agree.                                                                    *)
GovernanceIsDecidedOnce ==
    /\ component = "governance" => Governance!ChecksDecideOnce
    /\ component = "drift"      => Drift!DriftIsAccounted

(* A verdict is what was seen: overlapping appends use every chain position  *)
(* once, and queries answer what is indexed; a gate run passes exactly when  *)
(* no recorded gate blocks, the files and exit code of a command fit each    *)
(* other; grades follow evidence, a bundle names a file of its own unless it *)
(* was written over, and a migrated file is what was read; identifiers       *)
(* increase, and what is read, judged and streamed is accounted for.         *)
EvidenceIsHonest ==
    /\ component = "audit"     => AuditTrail!AuditHolds
    /\ component = "gate"      => Gate!GateBlocksWhatItSaw
    /\ component = "command"   => Command!CommandsAreAccountable
    /\ component = "evidence"  => Evidence!EvidenceHolds
    /\ component = "migration" => Migrated!MigrationsHold
    /\ component = "envelope"  => Envelope!EnvelopeHolds

(* The secrets a scan kept are gone from the text it hands on, and it drops  *)
(* one only for an overlapping one at least as sure; matches of personal data*)
(* that do not overlap are gone, and anonymize() and Safe Harbor leave no    *)
(* match whole; what a redaction asked for is gone from the event; an        *)
(* unreadable file changes no clause of a dataset.                           *)
DataIsGuarded ==
    /\ component = "guards" => Guards!DataIsCovered

(* A passed response was checked, records are listed and logged as often as  *)
(* they were given, sessions add up to the totals, a pipeline that succeeded *)
(* wrote its record, a scorecard lies between its dimensions, and a cached   *)
(* answer is fresh and not one that was invalidated.                         *)
AnswersAddUp ==
    /\ component = "answers" => Answers!AnswersAreAccounted
    /\ component = "cache"   => Cache!CacheIsCoherent

(* Exported spans add up with what was sent, buffered and dropped, sampled   *)
(* traces are whole, an evidence package nobody disturbed agrees with itself;*)
(* the exporter, the samplers and the processors follow the configuration.   *)
PlatformHolds ==
    /\ component = "platform" => Platform!PlatformHolds
    /\ component = "settings" => Configured!ConfigurationHolds

(* docs/api/explain.md: the record that explain() returns is always signed.  *)
ExplainRecordsAreSigned ==
    /\ component = "answers" => Answers!ExplainRecordsAreSigned
=============================================================================
