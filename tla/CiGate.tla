-------------------------------- MODULE CiGate --------------------------------
(***************************************************************************)
(* The CI gate: gate.py runs the gates of a file, the parallel ones in      *)
(* threads, and decides the exit code; sdk/gate.py judges single payloads   *)
(* and runs the trust gate over the audit records.  Both leave one artifact *)
(* per gate id.  What the outside world answers is an input of the action.  *)
(* A condition that is no string, a number of the YAML file, raises.         *)
(***************************************************************************)
EXTENDS Integers, Sequences, SequencesExt, FiniteSets

CONSTANTS CgGates,       \* the gates of the file, in its order
          CgWorkers,     \* max_workers
          CgTrustCap,    \* bound: runs of the trust gate
          CgPipelines,
          CgDedup,       \* _ALERT_DEDUP_WINDOW_SECONDS
          CgEnd          \* bound: the monotonic clock

VARIABLES cgPc,          \* "start", "join", "sequential" or "done", and a position
          cgThreads,     \* parallel gate -> "new", "running", "written", "ended" or "raised"
          cgOut,         \* parallel gate -> its verdict, <<>> before it is out
          cgResults,     \* <<gate, verdict>> in the order of the run's result
          cgArtifacts,   \* gate id -> the last verdict written, "none" before this run's
          cgLate,        \* gates whose join timed out
          cgNow, cgAlerted, \* the clock; pipeline -> time in _alerted_trust_gates, or -1
          cgFailures, cgAlerts \* history of the trust gate: <<pipeline, time>> of the
                         \* failed runs, in their order, and of the publish calls

runVars == <<cgPc, cgThreads, cgOut, cgResults, cgLate>>
trustVars == <<cgNow, cgAlerted, cgFailures, cgAlerts>>
cgVars == <<runVars, cgArtifacts, trustVars>>

GateVerdict == {"PASS", "FAIL", "WARN", "SKIPPED", "ERROR"}
Commands == {"none", "ok", "nonzero", "timeout", "missing", "raises"}
Files == {"none", "broken", "good", "bad"}
Conditions == {"none", "met", "failed"}   \* of the metrics that are there
Windows == {"clean", "dirty", "failed"}   \* a query of the audit records

GateConfig == [id : STRING, type : STRING, parallel : BOOLEAN, on_fail : {"block", "warn"},
               skip : BOOLEAN]

Gates == 1..Len(CgGates)
Ids == {CgGates[g].id : g \in Gates}
Parallel == SelectSeq([g \in Gates |-> g], LAMBDA g : CgGates[g].parallel)
Started == SubSeq(Parallel, 1, CgWorkers)
Sequential == SelectSeq([g \in Gates |-> g], LAMBDA g : ~CgGates[g].parallel)

Init == /\ cgPc = <<"start", 1>> /\ cgThreads = [g \in ToSet(Parallel) |-> "new"]
        /\ cgOut = [g \in ToSet(Parallel) |-> <<>>] /\ cgResults = <<>> /\ cgLate = {}
        /\ cgArtifacts = [i \in Ids |-> "none"]
        /\ cgNow = 0 /\ cgAlerted = [p \in CgPipelines |-> -1] /\ cgFailures = <<>> /\ cgAlerts = <<>>

exec_schema_validation(cmd) == CASE cmd \in {"none", "ok"}         -> "PASS"
                                 [] cmd \in {"nonzero", "timeout"} -> "FAIL"
                                 [] OTHER                          -> "ERROR"
(* Without a command pip-audit is run; a command that is not there warns.    *)
exec_dependency_security(cmd) == IF cmd = "missing" THEN "WARN" ELSE exec_schema_validation(cmd)
(* A file that cannot be read or scanned counts as clean.                    *)
exec_secrets_scan(cmd, file) == CASE cmd = "raises" -> "ERROR"
                                  [] file = "bad"   -> "FAIL"
                                  [] OTHER          -> "PASS"
exec_performance_regression(cmd) == exec_schema_validation(cmd)
(* The exit code of the command does not count, only the file it leaves.     *)
exec_halluccheck_prri(cmd, file) ==
    CASE cmd = "timeout"               -> "FAIL"
      [] cmd \in {"missing", "raises"} -> "ERROR"
      [] file = "none"                 -> "WARN"
      [] file = "broken"               -> "ERROR"
      [] OTHER                         -> IF file = "bad" THEN "FAIL" ELSE "PASS"

(* A query that fails counts as clean.                                       *)
trust_passes(hri, pii, secrets) == "dirty" \notin {hri, pii, secrets}

(* The client's answer, and the artifact file when the client raises.        *)
exec_halluccheck_trust(cmd, file) ==
    CASE cmd = "ok"      -> "PASS"
      [] cmd = "nonzero" -> "FAIL"
      [] file = "none"   -> "WARN"
      [] file = "broken" -> "ERROR"
      [] OTHER           -> IF file = "good" THEN "PASS" ELSE "FAIL"

executor(type, cmd, file) ==
    CASE type = "schema_validation"      -> exec_schema_validation(cmd)
      [] type = "dependency_security"    -> exec_dependency_security(cmd)
      [] type = "secrets_scan"           -> exec_secrets_scan(cmd, file)
      [] type = "performance_regression" -> exec_performance_regression(cmd)
      [] type = "halluccheck_prri"       -> exec_halluccheck_prri(cmd, file)
      [] OTHER                           -> exec_halluccheck_trust(cmd, file)

(* _execute_gate: an unknown type is an ERROR that on_fail does not soften;  *)
(* conditions on the metrics turn anything but SKIPPED and ERROR to failure. *)
execute_gate(g, cmd, file, condition) ==
    LET cfg == CgGates[g]
        raw == executor(cfg.type, cmd, file)
        soft == IF cfg.on_fail = "warn" THEN "WARN" ELSE "FAIL"
    IN CASE cfg.skip                                    -> "SKIPPED"
         [] cfg.type = "unknown"                        -> "ERROR"
         [] raw # "ERROR" /\ condition = "failed"       -> soft
         [] raw = "FAIL"                                -> soft
         [] raw = "ERROR" /\ cfg.on_fail = "warn"       -> "WARN"
         [] OTHER                                       -> raw

(* The conditions are looked at after the executor has answered.             *)
CanRaise(g) == ~CgGates[g].skip /\ CgGates[g].type # "unknown"
Verdicts(g) == {execute_gate(g, c, f, n) : c \in Commands, f \in Files, n \in Conditions}

(* run: no more than max_workers threads are ever started.                   *)
start_threads ==
    /\ cgPc[1] = "start"
    /\ cgPc' = <<"join", 1>>
    /\ cgThreads' = [g \in DOMAIN cgThreads |-> IF g \in ToSet(Started) THEN "running" ELSE "new"]
    /\ UNCHANGED <<cgOut, cgResults, cgLate, cgArtifacts, trustVars>>

(* _write_artifact passes over a disk that refuses.                          *)
write_artifact(g, v, saved) ==
    cgArtifacts' = IF saved THEN [cgArtifacts EXCEPT ![CgGates[g].id] = v] ELSE cgArtifacts

(* _run_one: the artifact is written before the result is handed over.       *)
thread_writes(g) ==
    /\ cgThreads[g] = "running" /\ cgThreads' = [cgThreads EXCEPT ![g] = "written"]
    /\ \E v \in Verdicts(g), saved \in BOOLEAN : /\ write_artifact(g, v, saved)
                                                 /\ cgOut' = [cgOut EXCEPT ![g] = <<"held", v>>]
    /\ UNCHANGED <<cgPc, cgResults, cgLate, trustVars>>

(* The thread dies with its slot empty: the join finds it ended.             *)
thread_raises(g) ==
    /\ cgThreads[g] = "running" /\ CanRaise(g) /\ cgThreads' = [cgThreads EXCEPT ![g] = "raised"]
    /\ UNCHANGED <<cgPc, cgOut, cgResults, cgLate, cgArtifacts, trustVars>>

thread_ends(g) ==
    /\ cgThreads[g] = "written" /\ cgThreads' = [cgThreads EXCEPT ![g] = "ended"]
    /\ cgOut' = [cgOut EXCEPT ![g] = <<"out", @[2]>>]
    /\ UNCHANGED <<cgPc, cgResults, cgLate, cgArtifacts, trustVars>>

join_thread ==
    /\ cgPc[1] = "join" /\ cgPc[2] <= Len(Started)
    /\ LET g == Started[cgPc[2]] IN
         cgLate' = IF cgThreads[g] \in {"ended", "raised"} THEN cgLate ELSE cgLate \cup {g}
    /\ cgPc' = <<"join", cgPc[2] + 1>>
    /\ UNCHANGED <<cgThreads, cgOut, cgResults, cgArtifacts, trustVars>>

(* What is out by now goes into the result, in the order of the file.        *)
collect_results ==
    /\ cgPc = <<"join", Len(Started) + 1>>
    /\ LET arrived == SelectSeq(Parallel, LAMBDA g : cgOut[g] # <<>> /\ cgOut[g][1] = "out")
       IN cgResults' = [k \in DOMAIN arrived |-> <<arrived[k], cgOut[arrived[k]][2]>>]
    /\ cgPc' = <<"sequential", 1>>
    /\ UNCHANGED <<cgThreads, cgOut, cgLate, cgArtifacts, trustVars>>

run_gate ==
    /\ cgPc[1] = "sequential" /\ cgPc[2] <= Len(Sequential)
    /\ LET g == Sequential[cgPc[2]] IN \E v \in Verdicts(g), saved \in BOOLEAN :
         /\ cgResults' = Append(cgResults, <<g, v>>)
         /\ write_artifact(g, v, saved)
    /\ cgPc' = <<"sequential", cgPc[2] + 1>>
    /\ UNCHANGED <<cgThreads, cgOut, cgLate, trustVars>>

(* A sequential gate that raises ends the run without a result.              *)
run_raises == /\ cgPc[1] = "sequential" /\ cgPc[2] <= Len(Sequential) /\ CanRaise(Sequential[cgPc[2]])
              /\ cgPc' = <<"raised", 1>>
              /\ UNCHANGED <<cgThreads, cgOut, cgResults, cgLate, cgArtifacts, trustVars>>

finish_run == /\ cgPc = <<"sequential", Len(Sequential) + 1>> /\ cgPc' = <<"done", 1>>
              /\ UNCHANGED <<cgThreads, cgOut, cgResults, cgLate, cgArtifacts, trustVars>>

(* is_blocking_failure: an ERROR never blocks.                               *)
is_blocking_failure(verdict, cfg) == verdict = "FAIL" /\ cfg.on_fail = "block"
(* The configuration looked at is the first one with the id of the result.   *)
ConfigOf(g) == CgGates[CHOOSE c \in Gates : /\ CgGates[c].id = CgGates[g].id
                                            /\ \A d \in 1..c - 1 : CgGates[d].id # CgGates[g].id]
(* A mutant of overall_pass: an ERROR blocks, too.                           *)
ErrorsBlock == \A r \in ToSet(cgResults) :
    ~is_blocking_failure(r[2], ConfigOf(r[1])) /\ (r[2] = "ERROR" => ConfigOf(r[1]).on_fail = "warn")
overall_pass == \A r \in ToSet(cgResults) : ~is_blocking_failure(r[2], ConfigOf(r[1]))

(* _infer_verdict: a payload that says nothing passes.                       *)
infer_verdict(p) ==
    CASE p.verdict \in GateVerdict \ {"ERROR"}                -> p.verdict
      [] p.pass = "true" \/ p.passed = "true"                 -> "PASS"
      [] p.failed = "true" \/ p.pass = "false"                -> "FAIL"
      [] p.status = "red"                                     -> "FAIL"
      [] p.status = "amber"                                   -> "WARN"
      [] OTHER                                                -> "PASS"
Payload == [verdict : {"PASS", "FAIL", "ERROR", "none"}, status : {"green", "amber", "red", "none"},
            pass : {"true", "false", "none"}, passed : {"true", "false", "none"},
            failed : {"true", "none"}]

evaluate_prri(score, threshold, amber) == CASE score >= threshold -> "RED"
                                            [] score >= amber     -> "AMBER"
                                            [] OTHER              -> "GREEN"

(* A mutant of Suppressed: the window includes its last instant.             *)
SuppressedAtTheEdge(p) == cgAlerted[p] >= 0 /\ cgNow - cgAlerted[p] <= CgDedup

(* Within the window of the last one nothing is sent.                        *)
Suppressed(p) == cgAlerted[p] >= 0 /\ cgNow - cgAlerted[p] < CgDedup

(* The pipeline is noted before the alert is published, and stays noted when *)
(* publishing fails.                                                         *)
send_trust_gate_alert(p) ==
    IF Suppressed(p) THEN UNCHANGED <<cgAlerted, cgAlerts>>
    ELSE /\ cgAlerted' = [cgAlerted EXCEPT ![p] = cgNow]
         /\ cgAlerts' = Append(cgAlerts, <<p, cgNow>>)

(* A gate that passes only writes its artifact.                              *)
run_trust_gate(p, hri, pii, secrets) ==
    /\ Len(cgFailures) < CgTrustCap /\ ~trust_passes(hri, pii, secrets)
    /\ cgFailures' = Append(cgFailures, <<p, cgNow>>) /\ send_trust_gate_alert(p)
    /\ UNCHANGED <<cgNow, runVars, cgArtifacts>>

tick == /\ cgNow < CgEnd /\ cgNow' = cgNow + 1
        /\ UNCHANGED <<cgAlerted, cgFailures, cgAlerts, runVars, cgArtifacts>>

Next == \/ start_threads \/ join_thread \/ collect_results \/ run_gate \/ run_raises \/ finish_run \/ tick
        \/ \E g \in ToSet(Parallel) : thread_writes(g) \/ thread_raises(g) \/ thread_ends(g)
        \/ \E p \in CgPipelines, h, i, s \in Windows : run_trust_gate(p, h, i, s)

Spec == Init /\ [][Next]_cgVars

GateTypeOK ==
    /\ \A r \in ToSet(cgResults) : r \in Gates \X GateVerdict
    /\ \A g \in Gates : CgGates[g] \in GateConfig
    /\ cgArtifacts \in [Ids -> GateVerdict \cup {"none"}] /\ cgLate \subseteq Gates

Recorded == {cgResults[k][1] : k \in DOMAIN cgResults}
Late == {g \in ToSet(Started) : g \in cgLate}
Raised == {g \in ToSet(Parallel) : cgThreads[g] = "raised"}
NeverStarted == ToSet(Parallel) \ ToSet(Started)

(* A run that ends records every gate once, but for the parallel ones whose  *)
(* join timed out, whose thread raised, or that are beyond max_workers and   *)
(* never start (EveryGateIsExecuted below says what is promised instead); it *)
(* passes exactly when no recorded gate failed that, by the first entry of   *)
(* its id, blocks.  The artifact of a recorded gate with an id of its own is *)
(* its verdict or that of an earlier run, however late other threads write.  *)
(* A trust gate that fails has its alert tried, then or less than a window   *)
(* before, and two alerts of a pipeline are a window apart.                  *)
GateBlocksWhatItSaw ==
    /\ IsInjective([k \in DOMAIN cgResults |-> cgResults[k][1]])
    /\ cgPc[1] = "done" =>
         /\ Gates \ Recorded \subseteq Late \cup Raised \cup NeverStarted
         /\ NeverStarted \cap Recorded = {}
         /\ overall_pass => \A r \in ToSet(cgResults) : r[2] = "FAIL" => ConfigOf(r[1]).on_fail = "warn"
         /\ ~overall_pass => \E r \in ToSet(cgResults) : r[2] = "FAIL" /\ CgGates[r[1]].on_fail = "block"
    /\ \A r \in ToSet(cgResults) :
         (\A g \in Gates \ {r[1]} : CgGates[g].id # CgGates[r[1]].id) => cgArtifacts[CgGates[r[1]].id] \in {r[2], "none"}
    /\ \A f \in ToSet(cgFailures) : \E a \in ToSet(cgAlerts) : a[1] = f[1] /\ f[2] - a[2] \in 0..CgDedup - 1
    /\ \A j, k \in DOMAIN cgAlerts : j < k /\ cgAlerts[j][1] = cgAlerts[k][1] =>
         cgAlerts[k][2] - cgAlerts[j][2] >= CgDedup
    /\ cgPc[1] = "start" /\ cgFailures = <<>> =>
         /\ \A p \in Payload : /\ p.verdict \notin {"PASS", "FAIL"}
                               /\ "true" \notin {p.pass, p.passed} /\ infer_verdict(p) = "PASS"
               => p.failed = "none" /\ p.pass # "false" /\ p.status \in {"green", "none"}
         /\ \A s, t, a \in 0..3 : evaluate_prri(s, t, a) = "GREEN" => s < t /\ s < a

(* "Parse config_path and execute all gates" (gate.py:959): a run that ends  *)
(* with no gate late and none that raised has a verdict for every gate.  The *)
(* parallel gates beyond max_workers are never started.                      *)
EveryGateIsExecuted == cgPc[1] = "done" /\ Late \cup Raised = {} => Recorded = Gates
=============================================================================
