----------------------------- MODULE CommandLine -----------------------------
(***************************************************************************)
(* The command line (_cli*.py): what a command looks at, in its order, the  *)
(* exit code each trouble ends it with, and the files it leaves behind when *)
(* it fails or is killed on the way.  A command is a sequence of steps.     *)
(* Beside it, shells that work on the two JSON files that commands read,    *)
(* change and write back: the secrets store and the store of cost briefs.   *)
(* Each command is a process of its own: memory starts empty in each.       *)
(***************************************************************************)
EXTENDS Naturals, Sequences, SequencesExt, FiniteSets

CONSTANTS ClFaults,   \* bound: how many troubles a run meets
          ClShells, ClKeys,
          ClSets      \* bound: how many entries are written

VARIABLES clRun,      \* the command under way: its steps, position, troubles
          clFiles,    \* its outputs: "old", "cut" (opened, not yet written) or "new"
          clExit,     \* how the last command ended
          clDb,       \* the JSON file: its entries, and whether it can be read
          clShell,    \* shell -> what it loaded and is about to write back
          clSets, clKept, \* history: entries written; those reported and not deleted
          clExcuse    \* history: why entries may be missing

runVars == <<clRun, clFiles, clExit>>
dbVars == <<clDb, clShell, clSets, clKept, clExcuse>>
clVars == <<runVars, dbVars>>

Quit(trouble, code) == <<"quit", trouble, code>>  \* ends the command
Fails == Quit("always", 1)
Usage == <<Quit("always", 2)>>
Note(trouble) == <<"note", trouble, 1>>           \* reported at the end
Skip(trouble) == <<"skip", trouble, 0>>           \* caught and passed over
Open(file) == <<"open", file, 0>>
Fill(file) == <<"fill", file, 0>>
Missing == Quit("missing", 2)

----------------------------------------------------------------------------
(* _cli.py                                                                  *)
cmd_check == <<Quit("config", 1), Quit("event", 1), Note("schema"), Note("dispatch"), Note("store"),
               Skip("exporter"), Note("directory")>>
cmd_check_compat == <<Missing, Quit("broken", 2), Quit("event", 2), Skip("notices"), Quit("violation", 1)>>
cmd_list_deprecated == <<Quit("registry", 1)>>
cmd_migration_roadmap == <<Quit("import", 1)>>
cmd_check_consumers == <<Quit("incompatible", 1)>>
(* _read_jsonl_events keeps an exception for a line it cannot read; some      *)
(* commands refuse the file, some count the line, others pass over it.       *)
SkipLine == Skip("line")
cmd_event_create == <<Quit("payload", 2), Skip("schema"), Open("events"), Fill("events")>>
cmd_validate == <<Missing, Quit("empty", 0), Note("line"), Note("schema")>>
cmd_validate_dataset == {<<Missing, Quit("scan", 1), Note("clause")>>,
                         <<Missing, Quit("scan", 1), Quit("import", 1), Open("pdf"), Fill("pdf"), Note("clause")>>}
cmd_inspect == <<Missing, SkipLine, Quit("unknown", 1)>>
cmd_stats == <<Missing, Quit("empty", 0), SkipLine>>
cmd_dev == {Usage, <<>>}
cmd_module_create == <<Quit("scaffold", 1), Open("module"), Fill("module")>>
cmd_serve == <<Quit("missing", 1), Quit("line", 1), Skip("event")>>
cmd_init == {<<Quit("exists", 1), Open("toml"), Fill("toml")>>,
             <<Quit("exists", 1), Open("toml"), Fill("toml"), Open("example"), Fill("example")>>}
cmd_quickstart == <<Quit("interrupt", 1), Open("toml"), Fill("toml"), Skip("span")>>
cmd_report_html == <<Quit("missing", 1), SkipLine, Quit("empty", 0), Open("html"), Fill("html")>>
cmd_ui == <<Quit("missing", 1), SkipLine, Skip("event")>>
cmd_scan == <<Missing, Quit("empty", 0), SkipLine, Note("hit")>>
cmd_migrate == {<<Missing, Quit("key", 2), Note("line")>>,
                <<Missing, Quit("key", 2), Note("line"), Skip("sign"), Open("migrated"), Fill("migrated")>>}
cmd_migrate_langsmith == {<<Missing, Quit("broken", 1), Quit("empty", 1), Open("runs"), Fill("runs")>>,
                          <<Missing, SkipLine, Quit("empty", 1), Open("runs"), Fill("runs")>>}
(* check, review, deprecate and retire look into the memory of a process     *)
(* that has just begun.                                                      *)
cmd_consent == {<<Fails>>, <<>>, Usage}
cmd_hitl == {<<Fails>>, <<>>, Usage}
cmd_model == {<<Fails>>, <<Quit("invalid", 1)>>, <<>>, Usage}
cmd_explain == <<>>
cmd_eval == {<<Quit("missing", 1), SkipLine, Open("dataset"), Fill("dataset")>>,
             <<Quit("missing", 1), SkipLine, Quit("empty", 1), Quit("scorer", 1)>>, Usage}
cmd_export == {<<Quit("missing", 1), SkipLine>>, Usage}
cmd_secrets_scan == <<Missing, Quit("unreadable", 2), Quit("scan", 2), Quit("hit", 1)>>
cmd_secrets_install_hook == <<Quit("repository", 1), Quit("exists", 1), Open("hook"), Fill("hook")>>

----------------------------------------------------------------------------
(* _cli_audit.py: the second definitions of cec, extract and gap-finder      *)
(* replace the first ones.                                                   *)
SignedFile == <<Missing, Quit("key", 2)>>
cmd_audit_chain == SignedFile \o <<Quit("empty", 0), Quit("line", 2), Quit("sign", 2), Quit("invalid", 1)>>
(* A mutant of audit erase: the output is opened before the chain is tried.  *)
EraseOpensFirst ==
    SignedFile \o <<Quit("subject", 2), Quit("same file", 2), Quit("empty", 0), Quit("line", 2),
                    Quit("no tombstone", 0), Open("erased"), Quit("invalid", 2), Fill("erased")>>

cmd_audit_erase ==
    SignedFile \o <<Quit("subject", 2), Quit("same file", 2), Quit("empty", 0), Quit("line", 2),
                    Quit("no tombstone", 0), Quit("invalid", 2), Open("erased"), Fill("erased")>>

cmd_check_health_compliance_report == <<Missing, Note("signature"), Note("clause")>>
cmd_audit_check_health == <<Missing, Quit("empty", 0), Note("line"), Note("invalid"), Note("key"), Note("hit"),
                            Note("config")>>
cmd_audit_verify == <<Quit("key", 2), Missing, SkipLine, Quit("empty", 2), Quit("invalid", 1)>>
(* The file is written before it is tried, and it never verifies.            *)
cmd_audit_rotate_key ==
    SignedFile \o <<Quit("new key", 2), Quit("empty", 0), Quit("line", 2), Open("rotated"), Fill("rotated"), Fails>>
cmd_audit_cec == {Usage, <<Missing, SkipLine, Skip("framework"), Open("bundle"), Fill("bundle")>>,
                  <<Missing, SkipLine, Skip("framework"), Quit("key", 2), Open("bundle"), Fill("bundle")>>}
cmd_audit_extract == {<<Missing, SkipLine>>, <<Missing, SkipLine, Open("extract"), Fill("extract")>>}
cmd_audit_gap_finder == <<Missing, SkipLine, Quit("empty", 0), Note("gap")>>
audit_commands == {cmd_audit_chain, cmd_audit_erase, cmd_check_health_compliance_report, cmd_audit_check_health,
                   cmd_audit_verify, cmd_audit_rotate_key, cmd_audit_gap_finder, Usage}
                  \cup cmd_audit_cec \cup cmd_audit_extract

----------------------------------------------------------------------------
(* _cli_config.py and _cli_cost.py; the commands on secrets are below.       *)
cmd_dev_reset == {<<Skip("delete")>>, <<Quit("declined", 1), Skip("delete")>>}
cmd_config_init == <<Quit("exists", 1), Quit("interrupt", 1), Quit("exporter", 1), Open("yaml"), Fill("yaml")>>
ValidConfig == <<Quit("missing", 1), Quit("unreadable", 1), Quit("invalid", 1)>>
cmd_config_validate == {ValidConfig, ValidConfig \o <<Quit("unreachable", 2)>>}
cmd_cost_run == <<Missing, SkipLine, Quit("unknown", 1)>>
cmd_cost_brief_submit == <<Missing, Quit("broken", 2), Quit("fields", 2), Open("briefs"), Fill("briefs")>>
cost_commands == {cmd_cost_run, cmd_cost_brief_submit, Usage}

----------------------------------------------------------------------------
(* _cli_ops.py                                                               *)
cmd_gate_run == <<Quit("context", 2), Quit("missing", 2), Quit("gate", 2), Quit("blocked", 1)>>
cmd_gate_evaluate == <<Quit("payload", 2), Quit("gate", 2), Quit("blocked", 1)>>
cmd_trust_scorecard == <<Quit("scorecard", 1), Skip("gap")>>
cmd_trust_badge == {<<Quit("badge", 1)>>, <<Quit("badge", 1), Open("svg"), Fill("svg")>>}
cmd_trust_gate == <<Quit("scorecard", 1), Note("score"), Note("blocked"), Note("gate")>>
cmd_ops_config_validate == <<Quit("config", 2), Quit("invalid", 1)>>
cmd_doctor == <<Skip("no config"), Note("config"), Note("service"), Note("pii"), Skip("clause")>>
cmd_operator_inspect == <<Quit("trace", 1)>>
cmd_operator_export == {<<Quit("trace", 1)>>, <<Quit("trace", 1), Open("package"), Fill("package")>>}
(* Violations fail only on request, and a gate that raises finds none.       *)
cmd_gate_audit == {<<Missing, SkipLine, Skip("gate"), Skip("violation")>>,
                   <<Missing, SkipLine, Skip("gate"), Note("violation")>>}
cmd_gate_status == <<Quit("no artifact", 0), Quit("broken", 1)>>
cmd_gate_history == <<Quit("no artifact", 0), Quit("since", 2), Skip("broken")>>
cmd_gate_load_policy == <<Missing, Quit("import", 1), Quit("broken", 2), Quit("bundle", 1)>>
ops_commands == {cmd_gate_run, cmd_gate_evaluate, cmd_trust_scorecard, cmd_trust_gate, cmd_ops_config_validate,
                 cmd_doctor, cmd_operator_inspect, cmd_gate_status, cmd_gate_history, cmd_gate_load_policy, Usage}
                \cup cmd_trust_badge \cup cmd_operator_export \cup cmd_gate_audit

----------------------------------------------------------------------------
(* _cli_compliance.py: lines of the event file that cannot be read are       *)
(* passed over.                                                              *)
Evidence == <<Quit("framework", 2), Missing, SkipLine, Quit("engine", 1)>>
cmd_generate == {Evidence \o <<Open("attestation"), Fill("attestation"), Open("text"), Fill("text")>> \o gaps :
                   gaps \in {<<>>, <<Open("gaps"), Fill("gaps"), Open("clauses"), Fill("clauses")>>}}
cmd_validate_attestation == <<Missing, Quit("broken", 2), Quit("signature", 1)>>
cmd_report == {Evidence \o files \o <<Note("clause")>> :
                 files \in {<<Open("json"), Fill("json")>>, <<Open("html"), Fill("html")>>,
                            <<Open("json"), Fill("json"), Open("md"), Fill("md"), Quit("import", 1), Open("pdf"), Fill("pdf")>>}}
cmd_compliance_check == <<Missing, SkipLine, Quit("framework", 2), Quit("engine", 1), Note("gap")>>
(* One of the checks asks the configuration for a field that it never has.   *)
cmd_readiness == <<Quit("framework", 2), Note("key"), Note("exporter"), Fails>>
cmd_status == <<Missing, SkipLine, Quit("empty", 1), Skip("invalid"), Skip("hit"), Skip("engine")>>
compliance_commands == {cmd_validate_attestation, cmd_compliance_check, cmd_readiness, cmd_status, Usage}
                       \cup cmd_generate \cup cmd_report \cup cmd_validate_dataset

----------------------------------------------------------------------------
(* _cli_phase11.py                                                           *)
cmd_enterprise == {Usage, <<>>, <<Skip("service")>>}
cmd_security == {Usage, <<>>, <<Quit("hit", 1)>>, <<Quit("no file", 0), Quit("unreadable", 2), Quit("hit", 1)>>}

Commands == {cmd_check, cmd_check_compat, cmd_list_deprecated, cmd_migration_roadmap, cmd_check_consumers,
             cmd_event_create, cmd_validate, cmd_inspect, cmd_stats, cmd_module_create, cmd_serve, cmd_quickstart,
             cmd_report_html, cmd_ui, cmd_scan, cmd_explain, cmd_secrets_scan, cmd_secrets_install_hook,
             cmd_config_init}
            \cup UNION {cmd_dev, cmd_init, cmd_migrate, cmd_migrate_langsmith, cmd_consent, cmd_hitl, cmd_model,
                        cmd_eval, cmd_export, cmd_dev_reset, cmd_config_validate, audit_commands, cost_commands,
                        ops_commands, compliance_commands, cmd_enterprise, cmd_security}

----------------------------------------------------------------------------
(* main(): one command, until it ends or is killed.                         *)

Named(steps, kinds) == {steps[k][2] : k \in {j \in DOMAIN steps : steps[j][1] \in kinds}}
Outputs(steps) == Named(steps, {"open"})
(* "disk": an output cannot be opened, or not written to its end.            *)
Troubles(steps) == (Named(steps, {"quit", "note", "skip"}) \ {"always"})
                   \cup (IF Outputs(steps) = {} THEN {} ELSE {"disk"})
QuietEnds(steps) == {steps[k][2] : k \in {j \in DOMAIN steps : steps[j][1] = "quit" /\ steps[j][3] = 0}}

Init == /\ clRun = <<>> /\ clFiles = <<>> /\ clExit = <<>>
        /\ clDb = [readable |-> TRUE, entries |-> {}] /\ clShell = [s \in ClShells |-> <<>>]
        /\ clSets = 0 /\ clKept = {} /\ clExcuse = {}

main(steps) ==
    /\ clRun = <<>> /\ clExit = <<>> /\ clSets = 0
    /\ \E troubles \in SUBSET Troubles(steps) :
         /\ Cardinality(troubles) <= ClFaults
         /\ clRun' = <<[steps |-> steps, at |-> 1, troubles |-> troubles, failed |-> FALSE]>>
    /\ clFiles' = [f \in Outputs(steps) |-> "old"] /\ clExit' = <<>>
    /\ UNCHANGED dbVars

Exit(code) == /\ clRun' = <<>> /\ UNCHANGED <<clFiles, dbVars>>
              /\ clExit' = <<[steps |-> clRun[1].steps, troubles |-> clRun[1].troubles, code |-> code]>>

Goes(run) == clRun' = <<[run EXCEPT !.at = @ + 1]>> /\ UNCHANGED <<clExit, dbVars>>

take_step ==
    /\ clRun # <<>> /\ clRun[1].at <= Len(clRun[1].steps)
    /\ LET run == clRun[1]
           step == run.steps[run.at]
           met == step[2] \in run.troubles \cup {"always"}
       IN \/ step[1] = "quit" /\ met /\ Exit(step[3])
          \/ step[1] = "quit" /\ ~met /\ Goes(run) /\ UNCHANGED clFiles
          \/ step[1] = "note" /\ Goes([run EXCEPT !.failed = @ \/ met]) /\ UNCHANGED clFiles
          \/ step[1] = "skip" /\ Goes(run) /\ UNCHANGED clFiles
          \/ step[1] \in {"open", "fill"} /\ "disk" \in run.troubles /\ Exit(1)  \* OSError
          \/ step[1] = "open" /\ Goes(run) /\ clFiles' = [clFiles EXCEPT ![step[2]] = "cut"]
          \/ step[1] = "fill" /\ Goes(run) /\ clFiles' = [clFiles EXCEPT ![step[2]] = "new"]

end_command == /\ clRun # <<>> /\ clRun[1].at > Len(clRun[1].steps)
               /\ Exit(IF clRun[1].failed THEN 1 ELSE 0)

kill == clRun # <<>> /\ Exit(9)

----------------------------------------------------------------------------
(* The read-modify-write commands on the secrets store.                     *)

load_secrets_db == IF clDb.readable THEN clDb.entries ELSE {}
Busy(s) == clShell[s] # <<>>
WhyNot(s) == (IF clDb.readable THEN {} ELSE {"unreadable"})
             \cup (IF \E t \in ClShells \ {s} : Busy(t) THEN {"overlap"} ELSE {})

Begin(s, op, key, entries) ==
    /\ clRun = <<>> /\ clExit = <<>> /\ ~Busy(s) /\ clSets < ClSets
    /\ clShell' = [clShell EXCEPT ![s] = <<op, key, entries, "loaded">>]
    /\ clSets' = clSets + 1 /\ clExcuse' = clExcuse \cup WhyNot(s)
    /\ UNCHANGED <<runVars, clDb, clKept>>

(* A mutant of secrets set: what was stored before is not loaded.            *)
SetForgets(s, key) == Begin(s, "set", key, {key})

cmd_secrets_set(s, key) == Begin(s, "set", key, load_secrets_db \cup {key})

cmd_secrets_delete(s, key) == key \in load_secrets_db /\ Begin(s, "delete", key, load_secrets_db \ {key})

(* write_bytes empties the file and fills it again.                          *)
save_opens(s) ==
    /\ Busy(s) /\ clShell[s][4] = "loaded"
    /\ clDb' = [readable |-> FALSE, entries |-> {}]
    /\ clShell' = [clShell EXCEPT ![s][4] = "opened"]
    /\ UNCHANGED <<runVars, clSets, clKept, clExcuse>>
save_secrets_db(s) ==
    /\ Busy(s) /\ clShell[s][4] = "opened"
    /\ clDb' = [readable |-> TRUE, entries |-> clShell[s][3]]
    /\ clShell' = [clShell EXCEPT ![s] = <<>>]
    /\ clKept' = IF clShell[s][1] = "set" THEN clKept \cup {clShell[s][2]} ELSE clKept \ {clShell[s][2]}
    /\ UNCHANGED <<runVars, clSets, clExcuse>>
shell_dies(s) == /\ Busy(s) /\ clShell' = [clShell EXCEPT ![s] = <<>>]
                 /\ clExcuse' = clExcuse \cup {"died"}
                 /\ UNCHANGED <<runVars, clDb, clSets, clKept>>
dev_reset == /\ clDb.entries # {} /\ clDb' = [readable |-> TRUE, entries |-> {}] /\ clKept' = {}
             /\ UNCHANGED <<runVars, clShell, clSets, clExcuse>>

Next == \/ \E steps \in Commands : main(steps)
        \/ take_step \/ end_command \/ kill \/ dev_reset
        \/ \E s \in ClShells : \/ \E k \in ClKeys : cmd_secrets_set(s, k) \/ cmd_secrets_delete(s, k)
                               \/ save_opens(s) \/ save_secrets_db(s) \/ shell_dies(s)

Spec == Init /\ [][Next]_clVars

CommandTypeOK ==
    /\ clRun # <<>> => clRun[1].at \in 1..Len(clRun[1].steps) + 1
    /\ \A f \in DOMAIN clFiles : clFiles[f] \in {"old", "cut", "new"}
    /\ clExit # <<>> => clExit[1].code \in {0, 1, 2, 9}
    /\ clDb \in [readable : BOOLEAN, entries : SUBSET ClKeys] /\ clKept \subseteq ClKeys

Left(state) == {f \in DOMAIN clFiles : clFiles[f] = state}
Damning == {"missing", "unreadable", "key", "signature", "invalid"}

(* What a command left behind fits the code it ended with.  Code 0: every    *)
(* output is written, unless there was nothing to do, and what a command     *)
(* exists to find was not there; only compliance status reports a broken     *)
(* chain with 0.  Code 2: nothing was touched.  Code 1: outputs were written *)
(* when the disk failed on the way, and by the commands that judge what they *)
(* have written: these leave the file behind the failing code.  A file is    *)
(* left half-written when the disk failed or the command was killed.         *)
ExitCodesFitTheFiles ==
    clExit # <<>> =>
      LET x == clExit[1] IN
      /\ x.code = 0 =>
           \/ Left("new") = DOMAIN clFiles /\ (x.troubles \cap Damning = {} \/ x.steps = cmd_status)
           \/ Left("old") = DOMAIN clFiles /\ x.troubles \cap QuietEnds(x.steps) # {}
      /\ x.code = 2 => Left("old") = DOMAIN clFiles
      /\ x.code = 1 /\ Left("old") # DOMAIN clFiles =>
           \/ "disk" \in x.troubles
           \/ x.steps \in {cmd_audit_rotate_key} \cup cmd_migrate \cup cmd_report \cup cmd_validate_dataset
      /\ Left("cut") # {} => x.code = 9 \/ (x.code = 1 /\ "disk" \in x.troubles)

(* A secret whose set command answered 0 is there until it is deleted or the *)
(* store reset, unless two writers overlapped, or one died writing and the   *)
(* next took the file it could not read for an empty one: the two ways in    *)
(* which StoredSecretsStay below fails.                                      *)
StoredSecretsAreKept ==
    clShell = [s \in ClShells |-> <<>>] =>
      /\ clDb.readable /\ ~(clKept \subseteq clDb.entries) => clExcuse # {}
      /\ ~clDb.readable => "died" \in clExcuse

CommandsAreAccountable == ExitCodesFitTheFiles /\ StoredSecretsAreKept

(* "0: Secret stored successfully" (docs/cli.md:1382): between commands,     *)
(* none of which died, a secret that set reported stored and nobody deleted  *)
(* is in the store.  Two set commands at the same time keep one of the two.  *)
StoredSecretsStay ==
    clShell = [s \in ClShells |-> <<>>] /\ "died" \notin clExcuse => clKept \subseteq clDb.entries
=============================================================================
