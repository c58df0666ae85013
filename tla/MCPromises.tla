----------------------------- MODULE MCPromises -----------------------------
(***************************************************************************)
(* What comments and documents promise and the code does not keep, one after *)
(* the other: a behaviour exercises the component of a promise until it has  *)
(* broken it, then starts with a fresh component at the next one.  Each       *)
(* promise is stated, with the line that makes it, at the end of the module  *)
(* of its component; here are the smallest instances that break it.  The     *)
(* components share the places p1, p2, ... in the order of each instance.    *)
(***************************************************************************)
EXTENDS Integers, Sequences, TLC

VARIABLES at,  \* which promise of the tour is under test
          p1, p2, p3, p4, p5, p6, p7, p8, p9, p10, p11, p12, p13, p14, p15  \* the variables of its component

vars == <<at, p1, p2, p3, p4, p5, p6, p7, p8, p9, p10, p11, p12, p13, p14, p15>>

Batch == INSTANCE BatchExporter
    WITH putPc <- p1, flushPc <- p2, shutdownPc <- p3, queue <- p4, stop <- p5, done <- p6,
         wpc <- p7, item <- p8, batch <- p9, reason <- p10, cbOpen <- p11,
         cbFailures <- p12, order <- p13, attempted <- p14, failed <- p15,
         Events <- {"e1", "e2"}, Flushes <- {"f1", "f2"}, Shutdowns <- {"s"},
         Sentinel <- "Sentinel", MaxQueueSize <- 3, BatchSize <- 2, Threshold <- 2
Chain == INSTANCE AuditStream
    WITH config <- p1, events <- p2, orgSecret <- p3, keyMap <- p4, erase <- p5,
         verifier <- p6, resigned <- p7,
         Secrets <- {"k"}, Initial <- "k", Subjects <- {"s"}, NoSubject <- "nobody",
         Orgs <- {}, NoOrg <- "none", Resolver <- <<>>,
         Configs <- {[async |-> FALSE, resolver |-> FALSE, orgs |-> FALSE]}, MaxEvents <- 2
Router == INSTANCE AlertRouter
    WITH published <- p1, open <- p2, buffer <- p3, groupTimer <- p4, queue <- p5,
         timers <- p6, pending <- p7, timer <- p8, runner <- p9, worker <- p10,
         shut <- p11, sent <- p12, acked <- p13, dropped <- p14, coalesced <- p15,
         Runners <- {"r"}, Groups <- {"gate"}, MaxQueue <- 1, MaxAlerts <- 2
Hitl == INSTANCE HitlQueue
    WITH hitlObjects <- p1, hitlItems <- p2, hitlEmits <- p3, hitlEvent <- p4,
         HitlIds <- {"d"}, HitlThreads <- {"a", "b"}, HitlItemCap <- 1, HitlTierCap <- 1
Keys == INSTANCE IdentityCredentials
    WITH ikKeys <- p1, ikLink <- p2, ikMfa <- p3, ikCalls <- p4, ifPart <- p5,
         ifTotp <- p6, ifCalls <- p7, ifTier <- p8, ifCount <- p9, ifHigh <- p10,
         IkThreads <- {"a", "b"}, IkKeyCap <- 2, IfCodes <- {}, MAX_FAILURES <- 1,
         IfEnrolCap <- 1, IfExpiryCap <- 0
Span == INSTANCE SpanLifecycle
    WITH lcPhase <- p1, lcPlan <- p2, lcTodo <- p3, lcRegistered <- p4, lcCalls <- p5,
         lcExpected <- p6, lcStatus <- p7, lcCategory <- p8, lcEndStatus <- p9,
         lcTimers <- p10,
         LcHooks <- {}, LcLoop <- FALSE
Tasks == INSTANCE TraceContext
    WITH trSpans <- p1, trRuns <- p2, trSteps <- p3, trStacks <- p4, trBlocks <- p5,
         trLive <- p6,
         TrTasks <- {"main", "child"}, TrMain <- "main", TrSpanCap <- 0, TrRunCap <- 1,
         TrStepCap <- 1, TrNested <- TRUE
Scope == INSTANCE GovernanceDecisions
    WITH gvLoaded <- p1, gvActive <- p2, gvPermitted <- p3, gvCalls <- p4,
         gvOutcomes <- p5, gvScope <- p6, gvBreaker <- p7, gvBegun <- p8,
         GvThreads <- {"a"}, GvBundles <- [staging |-> {}, prod |-> {}], GvThreshold <- 1,
         GvCheckCap <- 2
Cloud == INSTANCE RemoteExport
    WITH exKind <- p1, exQueue <- p2, exClosed <- p3, exStop <- p4, exRef <- p5,
         exProc <- p6, exBegun <- p7, exNext <- p8, exCounts <- p9, exReceived <- p10,
         exInOrder <- p11, exRejected <- p12, exOverlap <- p13,
         ExCallers <- {"a"}, ExBatchSize <- 1, ExQueueSize <- 2, ExRetries <- 1,
         ExCalls <- 2
Gates == INSTANCE CiGate
    WITH cgPc <- p1, cgThreads <- p2, cgOut <- p3, cgResults <- p4, cgArtifacts <- p5,
         cgLate <- p6, cgNow <- p7, cgAlerted <- p8, cgFailures <- p9, cgAlerts <- p10,
         CgWorkers <- 1, CgTrustCap <- 0, CgPipelines <- {}, CgDedup <- 1, CgEnd <- 0,
         CgGates <- <<[id |-> "a", type |-> "secrets_scan", parallel |-> TRUE, on_fail |-> "warn", skip |-> FALSE],
                      [id |-> "b", type |-> "secrets_scan", parallel |-> TRUE, on_fail |-> "warn", skip |-> FALSE]>>
Shell == INSTANCE CommandLine
    WITH clRun <- p1, clFiles <- p2, clExit <- p3, clDb <- p4, clShell <- p5, clSets <- p6,
         clKept <- p7, clExcuse <- p8,
         ClFaults <- 0, ClShells <- {"a", "b"}, ClKeys <- {"k", "l"}, ClSets <- 2
Guards == INSTANCE DataGuards
    WITH dgScan <- p1, dgEvent <- p2, dgFloor <- p3, dgSteps <- p4, dgStore <- p5,
         dgReceipts <- p6,
         DgLength <- 3, DgSubjects <- {"s"}, DgLeaves <- 1
Cache == INSTANCE SemanticCache
    WITH mcBackend <- p1, mcStore <- p2, mcNow <- p3, mcUsed <- p4, mcCaller <- p5,
         mcBegun <- p6, mcOver <- p7, mcAnswers <- p8,
         McThreads <- {"a"}, McPrompts <- {"p", "q"}, McAlike <- {}, McTwins <- {},
         McTags <- {}, McMaxSize <- 2, McTtl <- 2, McEnd <- 2, McCalls <- 3
Answers == INSTANCE AnswerServices
    WITH anPart <- p1, anCalls <- p2, anAudit <- p3, anCheck <- p4, anRecords <- p5,
         anByTrace <- p6, anThread <- p7, anReturned <- p8, anSession <- p9,
         anTotals <- p10, anEnded <- p11, anRun <- p12,
         AnThreads <- {"a"}, AnIds <- {"x"}, AnTraces <- {"t"}, AnSessions <- {"s"},
         AnPasses <- 1, AnRetries <- 0, AnCap <- 1
Observer == INSTANCE PlatformServices
    WITH psSetup <- p1, psCalls <- p2, psObserver <- p3, psFate <- p4, psTrace <- p5,
         psThread <- p6, psTenant <- p7, psSetting <- p8, psPackages <- p9, psAudit <- p10,
         PsThreads <- {"a"}, PsBufferMax <- 1, PsTraces <- {"t"}, PsProjects <- {},
         PsRegions <- {}, PsCap <- 3
Settings == INSTANCE Configuration
    WITH cfPart <- p1, cfConf <- p2, cfCached <- p3, cfAt <- p4, cfUsed <- p5,
         cfBroken <- p6, cfFates <- p7, cfBypass <- p8, cfVerdicts <- p9, cfProcs <- p10,
         CfThreads <- {"a", "b"}, CfCap <- 3, CfBucket <- [t |-> 2],
         CfEvents <- {[trace |-> "t", error |-> FALSE, recorded |-> TRUE, traceparent |-> "none", child |-> FALSE]}
Migrated == INSTANCE Migration
    WITH mgSource <- p1, mgTarget <- p2, mgRun <- p3, mgNext <- p4, mgBegun <- p5,
         mgLate <- p6, mgTorn <- p7, mgDone <- p8,
         MgLines <- 1, MgRuns <- 1,
         MgShapes <- {[form |-> "event", version |-> 1, old |-> FALSE, sum |-> "good", sig |-> "none"],
                      [form |-> "event", version |-> 1, old |-> FALSE, sum |-> "null", sig |-> "none"]}

(* The tour: components and their promises.                                  *)
Tour == <<
    <<"Batch", "FlushReturnsAfterItsExports">>,
    <<"Batch", "ShutdownFlushesTheRest">>,
    <<"Chain", "NoTombstoneNamesItsSubject">>,
    <<"Router", "FiredTimersRedispatch">>,
    <<"Hitl", "ReviewedEventsShowTheDecision">>,
    <<"Keys", "LinksAreExchangedOnce">>,
    <<"Span", "EndedSpansKeepTheirStatus">>,
    <<"Tasks", "RunsAggregateAllSteps">>,
    <<"Scope", "EveryScopeCheckIsAudited">>,
    <<"Cloud", "CloseFlushesTheRest">>,
    <<"Gates", "EveryGateIsExecuted">>,
    <<"Shell", "StoredSecretsStay">>,
    <<"Guards", "ZeroToleranceBlocks">>,
    <<"Guards", "QualifyingHitsAreReplaced">>,
    <<"Guards", "EntitiesAreReplaced">>,
    <<"Guards", "ErasureReachesTheStore">>,
    <<"Cache", "TaggedEntriesAreRemoved">>,
    <<"Cache", "TheLeastRecentlyUsedGoesFirst">>,
    <<"Answers", "PassedTextsAreClean">>,
    <<"Observer", "BufferIsBounded">>,
    <<"Settings", "FieldsAffectWhatFollows">>,
    <<"Settings", "CompliantEventsAreKept">>,
    <<"Migrated", "MigratedEventsAreSigned">>>>

Component == IF at \in DOMAIN Tour THEN Tour[at][1] ELSE "none"
Promise == IF at \in DOMAIN Tour THEN Tour[at][2] ELSE "none"

Kept ==
    CASE Promise = "FlushReturnsAfterItsExports" -> Batch!FlushReturnsAfterItsExports
      [] Promise = "ShutdownFlushesTheRest" -> Batch!ShutdownFlushesTheRest
      [] Promise = "NoTombstoneNamesItsSubject" -> Chain!NoTombstoneNamesItsSubject
      [] Promise = "FiredTimersRedispatch" -> Router!FiredTimersRedispatch
      [] Promise = "ReviewedEventsShowTheDecision" -> Hitl!ReviewedEventsShowTheDecision
      [] Promise = "LinksAreExchangedOnce" -> Keys!LinksAreExchangedOnce
      [] Promise = "EndedSpansKeepTheirStatus" -> Span!EndedSpansKeepTheirStatus
      [] Promise = "RunsAggregateAllSteps" -> Tasks!RunsAggregateAllSteps
      [] Promise = "EveryScopeCheckIsAudited" -> Scope!EveryScopeCheckIsAudited
      [] Promise = "CloseFlushesTheRest" -> Cloud!CloseFlushesTheRest
      [] Promise = "EveryGateIsExecuted" -> Gates!EveryGateIsExecuted
      [] Promise = "StoredSecretsStay" -> Shell!StoredSecretsStay
      [] Promise = "ZeroToleranceBlocks" -> Guards!ZeroToleranceBlocks
      [] Promise = "QualifyingHitsAreReplaced" -> Guards!QualifyingHitsAreReplaced
      [] Promise = "EntitiesAreReplaced" -> Guards!EntitiesAreReplaced
      [] Promise = "ErasureReachesTheStore" -> Guards!ErasureReachesTheStore
      [] Promise = "TaggedEntriesAreRemoved" -> Cache!TaggedEntriesAreRemoved
      [] Promise = "TheLeastRecentlyUsedGoesFirst" -> Cache!TheLeastRecentlyUsedGoesFirst
      [] Promise = "PassedTextsAreClean" -> Answers!PassedTextsAreClean
      [] Promise = "BufferIsBounded" -> Observer!BufferIsBounded
      [] Promise = "FieldsAffectWhatFollows" -> Settings!FieldsAffectWhatFollows
      [] Promise = "CompliantEventsAreKept" -> Settings!CompliantEventsAreKept
      [] Promise = "MigratedEventsAreSigned" -> Migrated!MigratedEventsAreSigned
      [] OTHER -> TRUE

(* Where each component starts: an initial state of its module.              *)
Start == [
    Batch |-> <<[e1 |-> "idle", e2 |-> "idle"], [f1 |-> "idle", f2 |-> "idle"],
                [s |-> "idle"], <<>>, FALSE, {}, "get", "Sentinel", <<>>, "full", FALSE, 0,
                <<>>, <<>>, {}>>,
    Chain |-> <<[async |-> FALSE, resolver |-> FALSE, orgs |-> FALSE], <<>>, "k", <<>>,
                [subject |-> "nobody", pc |-> "idle", by |-> "nobody", idx |-> 0],
                [pc |-> "idle", valid |-> TRUE, keys |-> <<>>], {}>>,
    Router |-> <<0, {}, [gate |-> <<>>], [gate |-> "none"], <<>>, {}, {}, <<"none",
                 "none">>, [r |-> [pc |-> "idle", item |-> [alert |-> 0,
                 critical |-> FALSE, escalation |-> FALSE], groups |-> {}, alerts |-> {},
                 after |-> "idle", group |-> "gate"]], [pc |-> "get",
                 item |-> [alert |-> 0, critical |-> FALSE, escalation |-> FALSE]], FALSE,
                 {}, {}, {}, {}>>,
    Hitl |-> <<<<>>, [d |-> 0], [a |-> [index |-> 0], b |-> [index |-> 0]],
               [action |-> "none"]>>,
    Keys |-> <<<<>>, [issued |-> FALSE, used |-> FALSE, expired |-> FALSE], FALSE,
               [a |-> <<"idle", 0, 0>>, b |-> <<"idle", 0, 0>>], "none", <<>>, [a |-> 0,
               b |-> 0], 1, 0, 1>>,
    Span |-> <<"new", <<>>, <<"none", <<>>>>, [agent_start |-> <<>>, agent_end |-> <<>>,
               llm_call |-> <<>>, llm_call_async |-> <<>>, span_end |-> <<>>], <<>>, {},
               "ok", "None", "open", {}>>,
    Tasks |-> <<<<>>, <<>>, <<>>, [main |-> [spans |-> <<>>, runs |-> <<>>],
                child |-> [spans |-> <<>>, runs |-> <<>>]], [main |-> <<>>,
                child |-> <<>>], {"main"}>>,
    Scope |-> <<[staging |-> <<>>, prod |-> <<>>], {}, [scope |-> FALSE, rbac |-> FALSE],
                [a |-> [action |-> "none", pc |-> "idle", kind |-> "scope", seen |-> FALSE,
                outcome |-> "allow", rules |-> <<>>, moved |-> FALSE]], {}, [total |-> 0,
                blocked |-> 0, records |-> 0, denied |-> 0, audited |-> 0],
                [failures |-> 0, due |-> FALSE], 0>>,
    Cloud |-> <<"none", <<>>, FALSE, FALSE, "none", (<<"a", "caller">> :> [at |-> "idle",
                batch |-> <<>>, tries |-> 0, flush |-> FALSE, closing |-> FALSE] @@ <<"a",
                "loop">> :> [at |-> "off", batch |-> <<>>, tries |-> 0, flush |-> FALSE,
                closing |-> FALSE]), 0, 1, [sent |-> 0, errors |-> 0], {}, TRUE, {}, FALSE>>,
    Gates |-> <<<<"start", 1>>, <<"new", "new">>, <<<<>>, <<>>>>, <<>>, [a |-> "none",
                b |-> "none"], {}, 0, <<>>, <<>>, <<>>>>,
    Shell |-> <<<<>>, <<>>, <<>>, [readable |-> TRUE, entries |-> {}], [a |-> <<>>,
                b |-> <<>>], 0, {}, {}>>,
    Guards |-> <<[of |-> "none"], [payload |-> <<>>, signed |-> <<>>], 5, 0, {}, <<>>>>,
    Cache |-> <<"new", <<>>, 0, 0, [a |-> [at |-> "idle"]], 0, [comma |-> 0], {}>>,
    Answers |-> <<"none", 0, <<>>, [at |-> "none"], [x |-> "none"], [t |-> <<>>],
                  [a |-> [at |-> "idle", id |-> "none", tries |-> 0, sign |-> FALSE]],
                  <<>>, [s |-> [open |-> FALSE, queries |-> 0, spans |-> 0,
                  chunks |-> {}]], [queries |-> 0, spans |-> 0, lost |-> 0,
                  feedback |-> [s |-> 0]], <<>>, [of |-> "none"]>>,
    Observer |-> <<[use |-> "new"], 0, [buffer |-> 0, spans |-> 0, healthy |-> TRUE,
                   exports |-> 0, annotations |-> 0, counted |-> 0], [dropped |-> 0,
                   sent |-> 0, fallbacks |-> 0, reported |-> 0], [t |-> [kept |-> 0,
                   out |-> 0]], [a |-> [at |-> "idle"]], <<>>, [encrypt |-> FALSE,
                   offline |-> FALSE, require |-> FALSE], {}, [status |-> [API2 |-> "pass",
                   API4 |-> "pass", API7 |-> "pass", API8 |-> "pass", API1 |-> "pass",
                   API3 |-> "pass", API5 |-> "pass", API6 |-> "pass", API9 |-> "pass",
                   API10 |-> "pass"], pass |-> TRUE, model |-> 0, threats |-> 0,
                   scan |-> "none"]>>,
    Settings |-> <<"new", [sampler |-> <<>>, compliance_sampling |-> TRUE,
                   sample_rate |-> 3, on_export_error |-> "warn", exporters |-> <<>>,
                   exporter |-> "console", trace_filters |-> <<>>,
                   always_sample_errors |-> TRUE], <<>>, [a |-> [at |-> "idle"],
                   b |-> [at |-> "idle"]], 0, FALSE, {}, [a |-> [now |-> FALSE,
                   before |-> <<>>], b |-> [now |-> FALSE, before |-> <<>>]], {}, <<>>>>,
    Migrated |-> <<<<>>, <<>>, [at |-> "idle"], 1, 0, {}, FALSE, <<>>>>]

IsInitial ==
    CASE Component = "Batch" -> Batch!Init
      [] Component = "Chain" -> Chain!Init
      [] Component = "Router" -> Router!RouterInit
      [] Component = "Hitl" -> Hitl!HitlInit
      [] Component = "Keys" -> Keys!CredentialsInit
      [] Component = "Span" -> Span!Init
      [] Component = "Tasks" -> Tasks!Init
      [] Component = "Scope" -> Scope!Init
      [] Component = "Cloud" -> Cloud!Init
      [] Component = "Gates" -> Gates!Init
      [] Component = "Shell" -> Shell!Init
      [] Component = "Guards" -> Guards!Init
      [] Component = "Cache" -> Cache!Init
      [] Component = "Answers" -> Answers!Init
      [] Component = "Observer" -> Observer!Init
      [] Component = "Settings" -> Settings!Init
      [] Component = "Migrated" -> Migrated!Init
      [] OTHER -> TRUE

(* What the i-th place holds when the component starts.                      *)
Place(i) == IF Component \in DOMAIN Start /\ i \in DOMAIN Start[Component] THEN Start[Component][i] ELSE "unused"

Init ==
    /\ at = 1
    /\ p1 = Place(1) /\ p2 = Place(2) /\ p3 = Place(3) /\ p4 = Place(4) /\ p5 = Place(5) /\
       p6 = Place(6) /\ p7 = Place(7) /\ p8 = Place(8) /\ p9 = Place(9) /\
       p10 = Place(10) /\ p11 = Place(11) /\ p12 = Place(12) /\ p13 = Place(13) /\
       p14 = Place(14) /\ p15 = Place(15)
    /\ IsInitial

NextPromise ==
    /\ ~Kept /\ at' = at + 1
    /\ p1' = Place(1)' /\ p2' = Place(2)' /\ p3' = Place(3)' /\ p4' = Place(4)' /\
       p5' = Place(5)' /\ p6' = Place(6)' /\ p7' = Place(7)' /\ p8' = Place(8)' /\
       p9' = Place(9)' /\ p10' = Place(10)' /\ p11' = Place(11)' /\ p12' = Place(12)' /\
       p13' = Place(13)' /\ p14' = Place(14)' /\ p15' = Place(15)'
    /\ IsInitial'

BatchStep == /\ Component = "Batch" /\ Batch!Next
             /\ UNCHANGED at
ChainStep == /\ Component = "Chain" /\ Chain!Next
             /\ UNCHANGED <<at, p8, p9, p10, p11, p12, p13, p14, p15>>
RouterStep == /\ Component = "Router" /\ Router!RouterNext
              /\ UNCHANGED at
HitlStep == /\ Component = "Hitl" /\ Hitl!HitlNext
            /\ UNCHANGED <<at, p5, p6, p7, p8, p9, p10, p11, p12, p13, p14, p15>>
KeysStep == /\ Component = "Keys" /\ Keys!CredentialsNext
            /\ UNCHANGED <<at, p11, p12, p13, p14, p15>>
SpanStep == /\ Component = "Span" /\ Span!Next
            /\ UNCHANGED <<at, p11, p12, p13, p14, p15>>
TasksStep == /\ Component = "Tasks" /\ Tasks!Next
             /\ UNCHANGED <<at, p7, p8, p9, p10, p11, p12, p13, p14, p15>>
ScopeStep == /\ Component = "Scope" /\ Scope!Next
             /\ UNCHANGED <<at, p9, p10, p11, p12, p13, p14, p15>>
CloudStep == /\ Component = "Cloud" /\ Cloud!Next
             /\ UNCHANGED <<at, p14, p15>>
GatesStep == /\ Component = "Gates" /\ Gates!Next
             /\ UNCHANGED <<at, p11, p12, p13, p14, p15>>
ShellStep == /\ Component = "Shell" /\ Shell!Next
             /\ UNCHANGED <<at, p9, p10, p11, p12, p13, p14, p15>>
GuardsStep == /\ Component = "Guards" /\ Guards!Next
              /\ UNCHANGED <<at, p7, p8, p9, p10, p11, p12, p13, p14, p15>>
CacheStep == /\ Component = "Cache" /\ Cache!Next
             /\ UNCHANGED <<at, p9, p10, p11, p12, p13, p14, p15>>
AnswersStep == /\ Component = "Answers" /\ Answers!Next
               /\ UNCHANGED <<at, p13, p14, p15>>
ObserverStep == /\ Component = "Observer" /\ Observer!Next
                /\ UNCHANGED <<at, p11, p12, p13, p14, p15>>
SettingsStep == /\ Component = "Settings" /\ Settings!Next
                /\ UNCHANGED <<at, p11, p12, p13, p14, p15>>
MigratedStep == /\ Component = "Migrated" /\ Migrated!Next
                /\ UNCHANGED <<at, p9, p10, p11, p12, p13, p14, p15>>

Next ==
    \/ NextPromise
    \/ /\ Kept
       /\ BatchStep \/ ChainStep \/ RouterStep \/ HitlStep \/ KeysStep \/ SpanStep \/
          TasksStep \/ ScopeStep \/ CloudStep \/ GatesStep \/ ShellStep \/ GuardsStep \/
          CacheStep \/ AnswersStep \/ ObserverStep \/ SettingsStep \/ MigratedStep

Spec == Init /\ [][Next]_vars

(* Some promise of the tour is one that no behaviour breaks.  A behaviour     *)
(* that gets past the last one breaks them all, in the order of the tour.    *)
SomePromiseIsKept == at \in DOMAIN Tour
=============================================================================
