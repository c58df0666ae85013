------------------------------ MODULE Registries ------------------------------
(***************************************************************************)
(* Three registries of a process, which share no state: registered models   *)
(* and their life cycle (model_registry.py), the versions of one prompt     *)
(* name (prompt_registry.py), and which tools read which schema version     *)
(* (consumer.py) with the event governance policy (governance.py).  A       *)
(* behaviour uses one of them; rgPart says which.                           *)
(***************************************************************************)
EXTENDS Naturals, Sequences, SequencesExt

CONSTANTS ModelIds,
          PromptVersions,
          ConsumerTools, ConsumerVersions, \* tools; <<major, minor>> versions
          ConsumerCap                      \* bound: registered consumers

(* Versions are pairs of numbers.                                           *)
ASSUME VersionAssumption == ConsumerVersions \subseteq Nat \X Nat

VARIABLES rgPart,        \* the registry in use
          models,        \* ModelRegistry._models: id -> its entry
          modelFile,     \* the file save() writes and load() reads
          modelSave,     \* the data a save() collected and has yet to write
          promptStore,   \* PromptRegistry._store[name], in insertion order
          promptLatest,  \* PromptRegistry._latest[name], "none" before any
          promptExport,  \* the last export_all()
          consumers,     \* ConsumerRegistry._records, in order of registration
          startup        \* what the last assert_compatible() said

modelVars == <<models, modelFile, modelSave>>
promptVars == <<promptStore, promptLatest, promptExport>>
consumerVars == <<consumers, startup>>
registryVars == <<rgPart, modelVars, promptVars, consumerVars>>

(***************************************************************************)
(* Models                                                                   *)
(***************************************************************************)
NoEntry == [status |-> "absent", decommissioned |-> FALSE]
ModelRegistryEntry ==
    [status : {"absent", "active", "deprecated", "retired"}, decommissioned : BOOLEAN]
NoModels == [m \in ModelIds |-> NoEntry]

InitModels == models = NoModels /\ modelFile = NoModels /\ modelSave = <<>>

(* register: an id already there, a retired one included, is refused. *)
register_model(m) ==
    /\ models[m] = NoEntry
    /\ models' = [models EXCEPT ![m] = [status |-> "active", decommissioned |-> FALSE]]
    /\ UNCHANGED <<modelFile, modelSave>>

(* A mutant of deprecate: it does not refuse a retired entry. *)
DeprecateRetired(m) ==
    /\ models[m] # NoEntry
    /\ models' = [models EXCEPT ![m].status = "deprecated"]
    /\ UNCHANGED <<modelFile, modelSave>>

deprecate_model(m) ==
    /\ models[m] # NoEntry /\ models[m].status # "retired"
    /\ models' = [models EXCEPT ![m].status = "deprecated"]
    /\ UNCHANGED <<modelFile, modelSave>>

retire_model(m) ==
    /\ models[m] # NoEntry
    /\ models' = [models EXCEPT ![m] = [status |-> "retired", decommissioned |-> TRUE]]
    /\ UNCHANGED <<modelFile, modelSave>>

(* save: the entries are collected under the lock and written after it. *)
save_models ==
    \/ /\ modelSave = <<>>
       /\ modelSave' = <<models>>
       /\ UNCHANGED <<models, modelFile>>
    \/ /\ modelSave # <<>>
       /\ modelFile' = modelSave[1] /\ modelSave' = <<>>
       /\ UNCHANGED models

(* load: the file replaces every entry. *)
load_models == models' = modelFile /\ UNCHANGED <<modelFile, modelSave>>

clear_models == models' = NoModels /\ UNCHANGED <<modelFile, modelSave>>

UseModels ==
    \/ \E m \in ModelIds : register_model(m) \/ deprecate_model(m) \/ retire_model(m)
    \/ save_models \/ load_models \/ clear_models

(***************************************************************************)
(* Prompts                                                                  *)
(***************************************************************************)
InitPrompts == promptStore = <<>> /\ promptLatest = "none" /\ promptExport = <<>>

(* Setting a dictionary key keeps its place when it is already there. *)
Inserted(store, v) == IF v \in Range(store) THEN store ELSE Append(store, v)

(* A mutant of register: the latest pointer moves before the store does. *)
RegisterPromptLate(v) ==
    /\ promptLatest' = v
    /\ promptStore' = IF promptLatest = "none" THEN promptStore
                      ELSE Inserted(promptStore, v)
    /\ UNCHANGED promptExport

register_prompt(v) ==
    /\ promptStore' = Inserted(promptStore, v)
    /\ promptLatest' = v
    /\ UNCHANGED promptExport

(* A mutant of export_all: the pointer is exported with the versions. *)
ExportLatest == /\ promptExport' = Append(promptStore, promptLatest)
                /\ UNCHANGED <<promptStore, promptLatest>>

export_prompts == /\ promptExport' = promptStore
                  /\ UNCHANGED <<promptStore, promptLatest>>

(* import_all: the records go in one by one, the last becomes the latest. *)
Imported ==
    LET after[n \in 0..Len(promptExport)] ==
          IF n = 0 THEN promptStore ELSE Inserted(after[n - 1], promptExport[n])
    IN after[Len(promptExport)]

import_prompts ==
    /\ promptExport # <<>>
    /\ promptStore' = Imported
    /\ promptLatest' = Last(promptExport)
    /\ UNCHANGED promptExport

(* get: an explicit version must exist; "none" asks for the latest. *)
get_prompt(v) == LET wanted == IF v = "none" THEN promptLatest ELSE v
                 IN IF wanted \in Range(promptStore) THEN wanted ELSE "KeyError"

UsePrompts == (\E v \in PromptVersions : register_prompt(v)) \/ export_prompts \/ import_prompts

(***************************************************************************)
(* Consumers                                                                *)
(***************************************************************************)
InitConsumers == consumers = <<>> /\ startup = "not asked"

register_consumer(t, v) == /\ Len(consumers) < ConsumerCap
                           /\ consumers' = Append(consumers, [tool |-> t, version |-> v])
                           /\ UNCHANGED startup

clear_consumers == consumers' = <<>> /\ UNCHANGED startup

(* by_tool: the first record of the tool, so a tool that registers again    *)
(* is still known by what it asked for first.                               *)
by_tool(t) ==
    LET mine == {i \in DOMAIN consumers : consumers[i].tool = t}
        first == CHOOSE i \in mine : \A j \in mine : i <= j
    IN IF mine = {} THEN <<>> ELSE <<consumers[first].version>>

(* A mutant of check_compatible: versions are compared as one number.       *)
ByNumber(installed) ==
    {r \in Range(consumers) : 10 * r.version[1] + r.version[2] > 10 * installed[1] + installed[2]}

(* check_compatible: same major, and a minor the installed schema reaches. *)
check_compatible(installed) ==
    {r \in Range(consumers) : r.version[1] # installed[1] \/ r.version[2] > installed[2]}

assert_compatible(installed) ==
    /\ startup' = IF check_compatible(installed) = {} THEN "compatible"
                  ELSE "IncompatibleSchemaError"
    /\ UNCHANGED consumers

(* EventGovernancePolicy.check_event: what an event type meets, in order. *)
check_event(blocked, deprecated, ruleBlocks, strict, known) ==
    CASE blocked           -> "GovernanceViolationError"
      [] ruleBlocks        -> "GovernanceViolationError"
      [] strict /\ ~known  -> "GovernanceViolationError"
      [] deprecated        -> "warned"
      [] OTHER             -> "allowed"

UseConsumers == \/ \E t \in ConsumerTools, v \in ConsumerVersions : register_consumer(t, v)
                \/ clear_consumers
                \/ \E v \in ConsumerVersions : assert_compatible(v)

(***************************************************************************)
(* The specification                                                        *)
(***************************************************************************)
RegistriesInit == rgPart = "none" /\ InitModels /\ InitPrompts /\ InitConsumers

InUse(part) == rgPart \in {"none", part} /\ rgPart' = part

RegistriesNext == \/ InUse("models") /\ UseModels /\ UNCHANGED <<promptVars, consumerVars>>
                  \/ InUse("prompts") /\ UsePrompts /\ UNCHANGED <<modelVars, consumerVars>>
                  \/ InUse("consumers") /\ UseConsumers /\ UNCHANGED <<modelVars, promptVars>>

RegistriesSpec == RegistriesInit /\ [][RegistriesNext]_registryVars

RegistriesTypeOK ==
    /\ rgPart \in {"none", "models", "prompts", "consumers"}
    /\ {models, modelFile} \subseteq [ModelIds -> ModelRegistryEntry]
    /\ Len(modelSave) < 2
    /\ Range(promptStore) \cup Range(promptExport) \subseteq PromptVersions
    /\ promptLatest \in PromptVersions \cup {"none"}
    /\ consumers \in Seq([tool : ConsumerTools, version : ConsumerVersions])
    /\ startup \in {"not asked", "compatible", "IncompatibleSchemaError"}

(* Two fields written at different times agree, across a save and a load    *)
(* that interleave with other changes: an entry has a decommission date     *)
(* exactly when it is retired.                                              *)
RetiredModelsAreDated ==
    \A m \in ModelIds : models[m].decommissioned <=> models[m].status = "retired"

(* The two maps stay in step through every order of registrations, exports  *)
(* and imports: no version is stored twice, and a name that has a latest    *)
(* version resolves to it.                                                  *)
LatestVersionResolves ==
    /\ IsInjective(promptStore)
    /\ promptLatest # "none" => get_prompt("none") = promptLatest

(* A startup check that passed for a version and one that passed for        *)
(* another agree on the major: no set of consumers is compatible with two   *)
(* schema majors at once; the version by_tool gives for a tool is one the   *)
(* check looked at.  Strict mode of the event policy only narrows.          *)
OneMajorServesAll ==
    /\ \A v, w \in ConsumerVersions :
         consumers # <<>> /\ check_compatible(v) = {} /\ check_compatible(w) = {}
             => v[1] = w[1]
    /\ \A v \in ConsumerVersions, t \in ConsumerTools :
         check_compatible(v) = {} /\ by_tool(t) # <<>> =>
             by_tool(t)[1][1] = v[1] /\ by_tool(t)[1][2] <= v[2]
    /\ \A b, d, r, k \in BOOLEAN :
         check_event(b, d, r, TRUE, k) \in {check_event(b, d, r, FALSE, k), "GovernanceViolationError"}
=============================================================================
