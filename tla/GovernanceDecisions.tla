------------------------- MODULE GovernanceDecisions -------------------------
(***************************************************************************)
(* Runtime policy bundles (runtime_policy.py, sdk/policy.py), the scope and  *)
(* role checks that consult them (sdk/scope.py, sdk/rbac.py), and what the   *)
(* operator client makes of a trace (sdk/operator.py).                       *)
(*                                                                         *)
(* One agent, one action, one trace, and one version of one policy in the    *)
(* two environments "staging" and "prod"; checks run in "prod".  A check     *)
(* with a policy reads the manifest, has the policy decide, and then reads   *)
(* the manifest again: other threads may change either in between.           *)
(***************************************************************************)
EXTENDS Naturals, Sequences, FiniteSets, SequencesExt, FiniteSetsExt, TLC

CONSTANTS GvThreads,    \* callers
          GvBundles,    \* environment -> the rules of the bundles loaded there
          GvThreshold,  \* cb_threshold of the scope client
          GvCheckCap    \* bound: checks begun

VARIABLES gvLoaded,     \* _bundles: environment -> the bundle, in a sequence
          gvActive,     \* the environments in _active_by_environment
          gvPermitted,  \* kind of check -> whether the manifest permits the action
          gvCalls,      \* thread -> its check
          gvOutcomes,   \* outcomes recorded for the trace
          gvScope,      \* the counters of the scope client, its records, and
                        \* (history) how many of them reached the audit log
          gvBreaker,    \* its circuit breaker
          gvBegun       \* checks begun, for the bound

gvVars == <<gvLoaded, gvActive, gvPermitted, gvCalls, gvOutcomes, gvScope, gvBreaker, gvBegun>>

Environments == {"staging", "prod"}
Actions == {"allow", "allow+log", "redact", "block", "human_review"}
Comparators == {"lt", "lte", "gt", "gte", "eq", "neq"}
Unset == 2   \* no threshold; observed values and thresholds are 0 or 1 here
RuntimePolicyRule == [service : {"scope", "rbac"}, enabled : BOOLEAN, action : Actions,
                      threshold : {0, 1, Unset}, comparator : Comparators]
RuntimePolicyBundle == Seq(RuntimePolicyRule)
DecisionOutcome == {"allow", "block", "escalate", "human_review", "redact"}

(* "rules", the bundle that decided, and "moved", whether the manifest has    *)
(* changed since it was first read, are history.                             *)
NoCheck == [pc |-> "idle", kind |-> "scope", seen |-> FALSE, action |-> "none",
            outcome |-> "allow", rules |-> <<>>, moved |-> FALSE]

Init == /\ gvLoaded = [e \in Environments |-> <<>>] /\ gvActive = {}
        /\ gvPermitted = [k \in {"scope", "rbac"} |-> FALSE]
        /\ gvCalls = [t \in GvThreads |-> NoCheck]
        /\ gvOutcomes = {}
        /\ gvBegun = 0
        /\ gvScope = [total |-> 0, blocked |-> 0, records |-> 0, denied |-> 0, audited |-> 0]
        /\ gvBreaker = [failures |-> 0, due |-> FALSE]

------------------------------------------------------------------------------
(* Decisions of a bundle.                                                    *)

rule_triggers(rule, observed) ==
    \/ rule.threshold = Unset
    \/ CASE rule.comparator = "lt"  -> observed < rule.threshold
         [] rule.comparator = "lte" -> observed <= rule.threshold
         [] rule.comparator = "gt"  -> observed > rule.threshold
         [] rule.comparator = "gte" -> observed >= rule.threshold
         [] rule.comparator = "eq"  -> observed = rule.threshold
         [] OTHER                   -> observed # rule.threshold

(* A mutant of matching_rule: rules that are switched off count as well. *)
MatchingDisabled(bundle, service) == SelectSeq(bundle, LAMBDA r : r.service = service)

(* The enabled rules for a service; the first one decides. *)
matching_rule(bundle, service) ==
    SelectSeq(bundle, LAMBDA r : r.enabled /\ r.service = service)

decision_from_rule(rule, observed) == IF rule_triggers(rule, observed) THEN rule.action ELSE "allow"

(* Without an active bundle, or without a rule, the action is allowed. *)
evaluate_bundle(bundle, service, observed) ==
    LET rules == matching_rule(bundle, service) IN
    IF rules = <<>> THEN "allow" ELSE decision_from_rule(Head(rules), observed)

get_active_bundle == IF "prod" \in gvActive THEN gvLoaded["prod"][1] ELSE <<>>

(* A decision differs in action; allow and allow+log are the allowed ones.   *)
Allowed(action) == action \in {"allow", "allow+log"}
decision_changed(baseline, candidate) ==
    baseline # candidate \/ Allowed(baseline) # Allowed(candidate)

(* replay and simulate: the historical events, here <<service, observed,     *)
(* production action>>, under a candidate.                                   *)
Candidate(bundle, event) == evaluate_bundle(bundle, event[1], event[2])
simulate(bundle, event) == decision_changed(event[3], Candidate(bundle, event))
replay(bundle, events) ==
    [changed |-> Cardinality({i \in 1..Len(events) : simulate(bundle, events[i])}),
     blocked |-> Cardinality({i \in 1..Len(events) : Candidate(bundle, events[i]) = "block"}),
     review  |-> Cardinality({i \in 1..Len(events) : Candidate(bundle, events[i]) = "human_review"})]

(* compare_policies: the changes by action before and after. *)
ChangedFrom(baseline, candidate, events, before, after) ==
    Cardinality({i \in 1..Len(events) : /\ before # after
                                        /\ Candidate(baseline, events[i]) = before
                                        /\ Candidate(candidate, events[i]) = after})
compare_policies(baseline, candidate, events) ==
    [p \in Actions \X Actions |-> ChangedFrom(baseline, candidate, events, p[1], p[2])]

------------------------------------------------------------------------------
(* Bundles and manifests change, also while checks are under way.            *)

load_bundle(e, b) ==
    /\ gvLoaded[e] # <<b>>
    /\ gvLoaded' = [gvLoaded EXCEPT ![e] = <<b>>]
    /\ UNCHANGED <<gvActive, gvPermitted, gvCalls, gvOutcomes, gvScope, gvBreaker, gvBegun>>

(* promote copies the rules, also over a version that is active. *)
promote == /\ gvLoaded["staging"] # <<>>
           /\ gvLoaded' = [gvLoaded EXCEPT !["prod"] = gvLoaded["staging"]]
           /\ UNCHANGED <<gvActive, gvPermitted, gvCalls, gvOutcomes, gvScope, gvBreaker, gvBegun>>

activate(e) == /\ gvLoaded[e] # <<>> /\ e \notin gvActive
               /\ gvActive' = gvActive \cup {e}
               /\ UNCHANGED <<gvLoaded, gvPermitted, gvCalls, gvOutcomes, gvScope, gvBreaker, gvBegun>>

deactivate(e) == /\ e \in gvActive
                 /\ gvActive' = gvActive \ {e}
                 /\ UNCHANGED <<gvLoaded, gvPermitted, gvCalls, gvOutcomes, gvScope, gvBreaker, gvBegun>>

(* _evaluate_manifest: the actions of the resource, or of "*" if the         *)
(* manifest does not name it; a missing capability denies either way.        *)
evaluate_manifest(manifest, resource, action, capability) ==
    /\ manifest.registered
    /\ capability # "none" => capability \in manifest.capabilities
    /\ IF resource \in DOMAIN manifest.actions THEN action \in manifest.actions[resource]
       ELSE "*" \in DOMAIN manifest.actions /\ action \in manifest.actions["*"]

(* _evaluate_roles with _effective_roles_for_resource. *)
effective_roles(manifest, resource) ==
    manifest.roles \cup (IF resource \in DOMAIN manifest.resource_roles
                         THEN manifest.resource_roles[resource] ELSE {})
evaluate_roles(manifest, resource, required) ==
    manifest.registered /\ required \subseteq effective_roles(manifest, resource)

(* register_agent, register_actor and the readers of YAML and tokens build a *)
(* manifest and replace the old one; what matters is what it permits for the *)
(* one action, here "read" on "db" with the role "editor".                   *)
ScopeManifests == {[registered |-> r, capabilities |-> {}, actions |-> a] :
    r \in BOOLEAN, a \in {"*" :> {"read"}, "db" :> {} @@ "*" :> {"read"}}}
RbacManifests == {[registered |-> r, roles |-> {"viewer"}, resource_roles |-> a] :
    r \in BOOLEAN, a \in {"db" :> {"editor"}, "file" :> {"editor"}}}

Register(k, p) == /\ gvPermitted[k] # p
                  /\ gvPermitted' = [gvPermitted EXCEPT ![k] = p]
                  /\ gvCalls' = [t \in GvThreads |->
                        IF gvCalls[t].pc \in {"policy", "check"} /\ gvCalls[t].kind = k
                        THEN [gvCalls[t] EXCEPT !.moved = TRUE] ELSE gvCalls[t]]
                  /\ UNCHANGED <<gvLoaded, gvActive, gvOutcomes, gvScope, gvBreaker, gvBegun>>
register_agent ==
    \E ok \in {evaluate_manifest(m, "db", "read", "none") : m \in ScopeManifests} : Register("scope", ok)
register_actor ==
    \E ok \in {evaluate_roles(m, "db", {"editor"}) : m \in RbacManifests} : Register("rbac", ok)

------------------------------------------------------------------------------
(* A check.                                                                  *)

Set(t, call) == gvCalls' = [gvCalls EXCEPT ![t] = call]
Begin == gvBegun < GvCheckCap /\ gvBegun' = gvBegun + 1

(* evaluate, authorize: no policy is asked. *)
check_plain(t, k) ==
    /\ gvCalls[t].pc = "idle" /\ Begin
    /\ Set(t, [NoCheck EXCEPT !.pc = "check", !.kind = k])
    /\ UNCHANGED <<gvLoaded, gvActive, gvPermitted, gvOutcomes, gvScope, gvBreaker>>

(* evaluate_with_policy, authorize_with_policy: the manifest is read ... *)
check_with_policy(t, k) ==
    /\ gvCalls[t].pc = "idle" /\ Begin
    /\ Set(t, [NoCheck EXCEPT !.pc = "policy", !.kind = k, !.seen = gvPermitted[k]])
    /\ UNCHANGED <<gvLoaded, gvActive, gvPermitted, gvOutcomes, gvScope, gvBreaker>>

(* ... the policy decides on what was read, and its decision is filed under  *)
(* the trace and handed to the audit log, whose failure ends the check with  *)
(* the decision filed.  (Filing has a section of its own; ids are fresh, so  *)
(* that nothing depends on its place.)                                       *)
evaluate_policy(t, ok) ==
    /\ gvCalls[t].pc = "policy"
    /\ LET c == gvCalls[t]
           action == evaluate_bundle(get_active_bundle, c.kind, IF c.seen THEN 1 ELSE 0)
       IN /\ Set(t, IF ok THEN [c EXCEPT !.pc = "check", !.action = action,
                                         !.rules = get_active_bundle] ELSE NoCheck)
          /\ gvOutcomes' = gvOutcomes \cup {action}
    /\ UNCHANGED <<gvLoaded, gvActive, gvPermitted, gvScope, gvBreaker, gvBegun>>

(* A mutant of resolve_outcome: an unknown action passes. *)
ResolveOpen(allowed, action) ==
    IF allowed THEN "allow"
    ELSE IF action \in {"block", "human_review", "redact"} THEN action ELSE "allow"

resolve_outcome(allowed, action) ==
    IF allowed THEN "allow"
    ELSE IF action \in {"block", "human_review", "redact"} THEN action ELSE "escalate"

IsOpen == gvBreaker.failures >= GvThreshold /\ ~gvBreaker.due

(* The scope client's breaker is open: denied, counted, and not recorded. *)
refuse(t) ==
    /\ gvCalls[t].pc = "check" /\ gvCalls[t].kind = "scope" /\ IsOpen
    /\ gvScope' = [gvScope EXCEPT !.total = @ + 1, !.blocked = @ + 1]
    /\ Set(t, NoCheck)
    /\ UNCHANGED <<gvLoaded, gvActive, gvPermitted, gvOutcomes, gvBreaker, gvBegun>>

(* The manifest is read again (is_open() closes a breaker that is due) ... *)
decide(t) ==
    /\ gvCalls[t].pc = "check"
    /\ gvCalls[t].kind = "scope" => ~IsOpen
    /\ LET c == gvCalls[t]
       IN Set(t, [c EXCEPT !.pc = "record", !.seen = gvPermitted[c.kind],
                           !.outcome = resolve_outcome(gvPermitted[c.kind], c.action)])
    /\ gvBreaker' = IF gvCalls[t].kind = "scope" /\ gvBreaker.due
                    THEN [failures |-> 0, due |-> FALSE] ELSE gvBreaker
    /\ UNCHANGED <<gvLoaded, gvActive, gvPermitted, gvOutcomes, gvScope, gvBegun>>

(* ... and the decision recorded and counted in one section. *)
record_decision(t) ==
    /\ gvCalls[t].pc = "record"
    /\ LET c == gvCalls[t] IN
         /\ gvOutcomes' = gvOutcomes \cup {c.outcome}
         /\ IF c.kind = "scope"
            THEN gvScope' = [total |-> gvScope.total + 1, records |-> gvScope.records + 1,
                             audited |-> gvScope.audited,
                             blocked |-> gvScope.blocked + IF c.seen THEN 0 ELSE 1,
                             denied |-> gvScope.denied + IF c.seen THEN 0 ELSE 1]
            ELSE UNCHANGED gvScope
         /\ Set(t, IF c.kind = "scope" THEN [NoCheck EXCEPT !.pc = "emit"] ELSE NoCheck)
    /\ UNCHANGED <<gvLoaded, gvActive, gvPermitted, gvBreaker, gvBegun>>

(* _emit_signed_record of the scope client: the audit log answers or not. *)
emit_scope(t, ok) ==
    /\ gvCalls[t].pc = "emit"
    /\ gvBreaker' = IF ok THEN [failures |-> 0, due |-> FALSE]
                    ELSE [failures |-> IF gvBreaker.failures + 1 >= GvThreshold THEN GvThreshold
                                       ELSE gvBreaker.failures + 1, due |-> FALSE]
    /\ gvScope' = [gvScope EXCEPT !.audited = @ + IF ok THEN 1 ELSE 0]
    /\ Set(t, NoCheck)
    /\ UNCHANGED <<gvLoaded, gvActive, gvPermitted, gvOutcomes, gvBegun>>

ResetTime == /\ IsOpen
             /\ gvBreaker' = [gvBreaker EXCEPT !.due = TRUE]
             /\ UNCHANGED <<gvLoaded, gvActive, gvPermitted, gvCalls, gvOutcomes, gvScope, gvBegun>>

------------------------------------------------------------------------------
(* _resolve_outcome of the operator client: the strictest of the trace. *)
OutcomePriority(o) == CASE o = "block" -> 5 [] o \in {"human_review", "escalate"} -> 4
                        [] o = "redact" -> 3 [] o = "allow+log" -> 2 [] OTHER -> 1
inspect_trace == IF gvOutcomes = {} THEN "allow"
                 ELSE CHOOSE o \in gvOutcomes : \A p \in gvOutcomes :
                        OutcomePriority(p) <= OutcomePriority(o)

Next == \/ activate("prod") \/ deactivate("prod") \/ promote
        \/ \E e \in Environments : \E b \in GvBundles[e] : load_bundle(e, b)
        \/ ResetTime \/ register_agent \/ register_actor
        \/ \E t \in GvThreads :
             \/ \E k \in {"scope", "rbac"} : check_plain(t, k) \/ check_with_policy(t, k)
             \/ refuse(t) \/ decide(t) \/ record_decision(t)
             \/ \E ok \in BOOLEAN : evaluate_policy(t, ok) \/ emit_scope(t, ok)

Spec == Init /\ [][Next]_gvVars

GovernanceTypeOK ==
    /\ GvBundles \in [Environments -> SUBSET RuntimePolicyBundle]
    /\ \A e \in Environments : /\ Len(gvLoaded[e]) <= 1
                               /\ ToSet(gvLoaded[e]) \subseteq GvBundles["staging"] \cup GvBundles["prod"]
    /\ gvActive \subseteq Environments
    /\ \A t \in GvThreads : gvCalls[t].outcome \in DecisionOutcome
    /\ gvOutcomes \subseteq Actions \cup DecisionOutcome
    /\ gvBreaker.failures \in 0..GvThreshold /\ gvBegun \in 0..GvCheckCap

(* Under every pair of bundles, replaying the events of the one's decisions  *)
(* counts the changes that a comparison finds.                               *)
ReplayAgreesWithComparison ==
    \A b, d \in GvBundles["staging"] \cup GvBundles["prod"] :
       LET events == [i \in 1..2 |-> <<"scope", i - 1, Candidate(b, <<"scope", i - 1>>)>>]
           pairs == {p \in Actions \X Actions : compare_policies(b, d, events)[p] > 0}
       IN replay(d, events).changed =
            FoldSet(LAMBDA p, n : n + compare_policies(b, d, events)[p], 0, pairs)

(* What rules say of a denied action: the first rule in force for the        *)
(* service, if it triggers and restrains; else the action is escalated.      *)
Verdict(rules, service, observed) ==
    LET first == {i \in DOMAIN rules : /\ rules[i].service = service /\ rules[i].enabled
                                       /\ \A j \in 1..(i - 1) : ~(rules[j].service = service
                                                                   /\ rules[j].enabled)}
        restrains == {i \in first : /\ rule_triggers(rules[i], observed)
                                    /\ rules[i].action \in {"block", "human_review", "redact"}}
    IN IF restrains = {} THEN "escalate" ELSE rules[CHOOSE i \in restrains : TRUE].action

(* An active environment always has its bundle.  A check is allowed exactly  *)
(* when the manifest permits it as the decision is taken, whatever the       *)
(* policy says; a denied one gets what the rules of one moment of the check  *)
(* say of a denied action, and only when the manifest changed in between     *)
(* may that be what they say of a permitted one.  The operator sees an       *)
(* outcome at least as strict as every recorded one.  Every counted check is *)
(* recorded, or was refused by the breaker; a replay of a trace agrees with  *)
(* the comparison of the same two policies.                                  *)
ChecksDecideOnce ==
    /\ \A e \in gvActive : gvLoaded[e] # <<>>
    /\ \A t \in GvThreads : LET c == gvCalls[t] IN
         c.pc = "record" =>
            /\ c.outcome = "allow" <=> c.seen
            /\ ~c.seen /\ ~c.moved => c.outcome = Verdict(c.rules, c.kind, 0)
            /\ ~c.seen => \E observed \in {0, 1} : c.outcome = Verdict(c.rules, c.kind, observed)
    /\ gvOutcomes # {} => \A o \in gvOutcomes : OutcomePriority(o) <= OutcomePriority(inspect_trace)
    /\ gvScope.total - gvScope.records = gvScope.blocked - gvScope.denied
    /\ (\A e \in Environments : gvLoaded[e] = <<>>) /\ gvOutcomes = {} => ReplayAgreesWithComparison

(* sdk/scope.py:15: "every evaluate() call (allow *and* deny) appends a      *)
(* signed ScopeDecisionPayload to sf_audit".  A check the open breaker       *)
(* refuses appends nothing, and a failed append is not tried again.          *)
EveryScopeCheckIsAudited ==
    (\A t \in GvThreads : gvCalls[t].pc = "idle") => gvScope.audited = gvScope.total
=============================================================================
