------------------------- MODULE ComplianceEvidence -------------------------
(***************************************************************************)
(* Compliance evidence: the mapping engine (core/compliance_mapping.py)     *)
(* grades the clauses of a framework by counting events, signs the result   *)
(* and prints it; the evidence client (sdk/cec.py) packs audit records into *)
(* a signed bundle; compliance.py tells tenants apart.  The engine and the  *)
(* client share no state: a behaviour exercises one of them.                *)
(***************************************************************************)
EXTENDS Naturals, Sequences, FiniteSets, FiniteSetsExt, TLC

CONSTANTS CeFrameworks, \* the frameworks that are asked for
          CeCounts,     \* how many events of each kind there are
          CeEdits,      \* bound: fields changed after the signature
          CeThreads, CeProjects,
          CeBuilds      \* bound: bundles built

VARIABLES ceKey,     \* SPANFORGE_SIGNING_KEY: "unset" or a key
          cePackage, \* the last evidence package, or NoPackage
          ceEdits,   \* history: the fields changed since
          cePdf,     \* the printed file and its sidecar
          ceTrail,   \* project -> records the process appended to sf_audit
          ceBuild,   \* thread -> the bundle it is building
          ceZips,    \* <<project, day>> -> the file in the temporary directory
          ceBundles, \* _bundle_registry: id -> BundleResult
          ceCount, ceDay,
          ceOver     \* history: bundles whose file another build opened since

engineVars == <<cePackage, ceEdits, cePdf>>
bundleVars == <<ceTrail, ceBuild, ceZips, ceBundles, ceCount, ceDay, ceOver>>
ceVars == <<ceKey, engineVars, bundleVars>>

Key == IF ceKey = "unset" THEN "default" ELSE ceKey

----------------------------------------------------------------------------
(* What a clause counts: kinds of events, how many it wants, and the hours   *)
(* before NOW it looks at, whatever the period (0: all of the period).       *)
Wants(kinds, min) == [kinds |-> kinds, min |-> min, hours |-> 0]

soc2 ==
    "CC6.1" :> Wants({"audit", "trace", "model"}, 5) @@ "CC6.6" :> Wants({"redact"}, 5)
    @@ "CC7.2" :> Wants({"drift", "guard"}, 5) @@ "CC8.1" :> Wants({"trace", "eval"}, 5)
    @@ "CC9.2" :> Wants({"cost"}, 5)
hipaa ==
    "312b" :> Wants({"audit", "trace"}, 10) @@ "312a" :> Wants({"trace", "audit"}, 5)
    @@ "312e" :> Wants({"redact"}, 5)
    @@ "530j" :> [Wants({"trace", "audit", "cost"}, 10) EXCEPT !.hours = 168]
gdpr ==
    "Art.30" :> Wants({"trace", "cost", "audit"}, 10) @@ "Art.35" :> Wants({"redact", "guard", "drift"}, 5)
    @@ "Art.22" :> Wants({"consent", "hitl"}, 5) @@ "Art.25" :> Wants({"redact", "consent"}, 5)
nist_ai_rmf ==
    "MAP.1.1" :> Wants({"trace", "eval", "model", "explanation"}, 5)
    @@ "MEASURE.2.6" :> Wants({"drift", "guard", "eval"}, 5)
    @@ "MANAGE.3.2" :> Wants({"guard", "audit"}, 5) @@ "GOVERN.1.7" :> Wants({"audit", "trace"}, 5)
eu_ai_act ==
    "Art.12" :> Wants({"audit", "hitl"}, 5) @@ "AnnexIV.1" :> Wants({"trace", "eval", "model"}, 5)
    @@ "Art.13" :> Wants({"trace", "eval", "explanation"}, 5) @@ "Art.14" :> Wants({"hitl", "consent"}, 5)
    @@ "AnnexIV.5" :> Wants({"guard", "audit", "hitl"}, 5) @@ "AnnexIV.6" :> Wants({"eval", "drift"}, 5)
iso_42001 ==
    "6.1" :> Wants({"drift", "guard", "eval"}, 5) @@ "9.1" :> Wants({"trace", "eval", "cost"}, 5)
    @@ "10.1" :> Wants({"audit", "guard"}, 5)
dpdp ==
    "S.4" :> Wants({"redact", "consent"}, 5) @@ "S.6" :> Wants({"consent"}, 5)
    @@ "S.7" :> Wants({"audit"}, 5) @@ "S.9" :> Wants({"consent", "redact"}, 5)
    @@ "S.11" :> Wants({"explanation", "audit"}, 5) @@ "S.12" :> Wants({"hitl", "audit"}, 5)
    @@ "S.16" :> Wants({"trace", "audit", "redact", "model"}, 10) @@ "S.18" :> Wants({"guard", "audit"}, 5)
Clauses == [soc2 |-> soc2, hipaa |-> hipaa, gdpr |-> gdpr, nist_ai_rmf |-> nist_ai_rmf,
            eu_ai_act |-> eu_ai_act, iso_42001 |-> iso_42001, dpdp |-> dpdp]

(* map_event_to_frameworks(): a second table, from kinds of events to the    *)
(* controls they are evidence of; it is not derived from the first.          *)
FrameworksFor ==
    [trace |-> {"eu_ai_act", "iso_42001", "soc2", "gdpr", "hipaa", "dpdp", "nist_ai_rmf"},
     audit |-> {"eu_ai_act", "iso_42001", "soc2", "gdpr", "hipaa", "dpdp", "nist_ai_rmf"},
     redact |-> {"soc2", "gdpr", "hipaa", "dpdp"},
     drift |-> {"eu_ai_act", "iso_42001", "soc2", "gdpr", "nist_ai_rmf"},
     guard |-> {"eu_ai_act", "iso_42001", "soc2", "gdpr", "nist_ai_rmf", "dpdp"},
     eval |-> {"eu_ai_act", "iso_42001", "soc2", "nist_ai_rmf"},
     cost |-> {"iso_42001", "soc2", "gdpr", "hipaa"},
     explanation |-> {"eu_ai_act", "dpdp"}, hitl |-> {"eu_ai_act", "gdpr", "dpdp"},
     consent |-> {"eu_ai_act", "gdpr", "dpdp"}, model |-> {"eu_ai_act", "soc2", "dpdp", "nist_ai_rmf"}]
Kinds == DOMAIN FrameworksFor
KindsOf(f) == UNION {Clauses[f][c].kinds : c \in DOMAIN Clauses[f]}

----------------------------------------------------------------------------
(* The events of a package: n of each kind, dated or without a time that can *)
(* be read, within the hours of a window or before, all of one model.        *)
Evidence(f) == [kinds : SUBSET KindsOf(f), n : CeCounts, dated : BOOLEAN, recent : BOOLEAN, model : {"m", "o"}]

_event_matches_model(asked, e) == asked \in {"", e.model}

(* A time that is missing or cannot be read leaves an event out.             *)
_filter_period(e) == e.dated

Counted(want, e, asked) ==
    IF _filter_period(e) /\ (want.hours = 0 \/ e.recent) /\ _event_matches_model(asked, e)
    THEN e.n * Cardinality(want.kinds \cap e.kinds) ELSE 0

Grade(want, count) == IF count >= want.min THEN "pass" ELSE IF count > 0 THEN "partial" ELSE "fail"

(* A mutant: what is not failed is passed.                                   *)
OverallWithoutPartial(status) == IF "fail" \in {status[c] : c \in DOMAIN status} THEN "fail" ELSE "pass"

Overall(status) ==
    LET found == {status[c] : c \in DOMAIN status} IN
    IF found \subseteq {"pass"} THEN "pass" ELSE IF "fail" \in found THEN "fail" ELSE "partial"

(* Explanations are counted whatever model they explain.                     *)
explanation_coverage(e, asked) ==
    LET decisions == IF _filter_period(e) /\ _event_matches_model(asked, e)
                     THEN e.n * Cardinality({"trace", "hitl"} \cap e.kinds) ELSE 0
        explained == IF _filter_period(e) /\ "explanation" \in e.kinds THEN e.n ELSE 0 IN
    IF decisions = 0 THEN {} ELSE {IF explained >= decisions THEN 100 ELSE (100 * explained) \div decisions}

Sum(counts) == MapThenSumSet(LAMBDA c : counts[c], DOMAIN counts)
Signed(p) == [framework |-> p.framework, asked |-> p.asked, status |-> p.status, total |-> Sum(p.counts)]

NoPackage == [framework |-> "none"]

(* The result: its clauses, what failed and what is thin, not yet signed.    *)
ComplianceAttestation(f, asked, counts, status, coverage) ==
    [framework |-> f, asked |-> asked, counts |-> counts, status |-> status, overall |-> Overall(status),
     gaps |-> {c \in DOMAIN status : status[c] = "fail"},
     partials |-> {c \in DOMAIN status : status[c] = "partial"},
     coverage |-> coverage, hmac |-> <<>>]

(* generate_evidence_package(): with no events it grades what is in the      *)
(* trace store of the process instead.                                       *)
generate_evidence_package(f, asked, given, store) ==
    LET e == IF given.kinds = {} THEN store ELSE given
        counts == [c \in DOMAIN Clauses[f] |-> Counted(Clauses[f][c], e, asked)]
        status == [c \in DOMAIN counts |-> Grade(Clauses[f][c], counts[c])]
        p == ComplianceAttestation(f, asked, counts, status, explanation_coverage(e, asked)) IN
    /\ cePackage' = [p EXCEPT !.hmac = <<Key, Signed(p)>>]
    /\ ceEdits' = {}
    /\ UNCHANGED <<ceKey, cePdf, bundleVars>>

generate ==
    \E f \in CeFrameworks, asked \in {"", "m", "*"} : \E e \in Evidence(f), passed \in BOOLEAN :
        LET none == [e EXCEPT !.kinds = {}] IN
        /\ cePackage = NoPackage
        /\ IF passed THEN generate_evidence_package(f, asked, e, none)
                     ELSE generate_evidence_package(f, asked, none, e)

(* The attestation is an ordinary object: its fields can be assigned.        *)
edit ==
    /\ cePackage # NoPackage /\ Cardinality(ceEdits) < CeEdits /\ cePdf.file = <<>>
    /\ \/ \E c \in DOMAIN cePackage.status : \E s \in {"pass", "fail"} \ {cePackage.status[c]} :
            /\ cePackage' = [cePackage EXCEPT !.status[c] = s]
            /\ ceEdits' = ceEdits \cup {"status"}
       \/ /\ cePackage.overall # "pass"
          /\ cePackage' = [cePackage EXCEPT !.overall = "pass"]
          /\ ceEdits' = ceEdits \cup {"overall"}
       \/ \E c, d \in DOMAIN cePackage.counts :
            /\ c # d /\ cePackage.counts[c] > 0
            /\ cePackage' = [cePackage EXCEPT !.counts[c] = 0, !.counts[d] = @ + cePackage.counts[c]]
            /\ ceEdits' = ceEdits \cup {"counts"}
    /\ UNCHANGED <<ceKey, cePdf, bundleVars>>

(* A mutant: the key that signed is not compared.                            *)
VerifiesWithAnyKey(p) == p.hmac[2] = Signed(p)

verify_attestation_signature(p) == p.hmac = <<Key, Signed(p)>>

(* to_pdf(): the file, then its sidecar; the process may die in between.     *)
Printed(p) == [overall |-> p.overall, status |-> p.status, gaps |-> p.gaps, hmac |-> p.hmac]
to_pdf_file ==
    /\ cePackage # NoPackage /\ cePdf.file # <<Printed(cePackage)>>
    /\ cePdf' = [cePdf EXCEPT !.file = <<Printed(cePackage)>>]
    /\ UNCHANGED <<ceKey, cePackage, ceEdits, bundleVars>>
to_pdf_sidecar ==
    /\ cePackage # NoPackage /\ cePdf.file = <<Printed(cePackage)>>
    /\ cePdf.sidecar # <<Key, cePdf.file>>
    /\ cePdf' = [cePdf EXCEPT !.sidecar = <<Key, cePdf.file>>]
    /\ UNCHANGED <<ceKey, cePackage, ceEdits, bundleVars>>

(* Without a key it raises; a file without a sidecar is not attested.        *)
verify_pdf_attestation == IF cePdf.sidecar = <<>> THEN "false"
                          ELSE IF ceKey = "unset" THEN "raises"
                          ELSE IF cePdf.sidecar = <<ceKey, cePdf.file>> THEN "true" ELSE "false"

set_key(k) == ceKey = (IF k = "k" THEN "unset" ELSE "k") /\ ceKey' = k /\ UNCHANGED <<engineVars, bundleVars>>

----------------------------------------------------------------------------
(* sdk/cec.py.  A build makes an audit client of its own, whose index is a   *)
(* file of its own: it exports none of what the process appended.            *)
_collect_records(project) == 0
_get_chain_proof(records) == TRUE  \* no records, or an export that failed: valid

_SCHEMA_TO_DIR == {"score", "bias", "prri", "drift", "pii", "gate"}
_EU_AI_ACT_CLAUSES ==
    "Art.9" :> Wants({"score", "drift", "gate"}, 5) @@ "Art.10" :> Wants({"pii", "bias"}, 5)
    @@ "Art.12" :> Wants(_SCHEMA_TO_DIR, 10) @@ "Art.13" :> Wants({"score", "prri"}, 5)
    @@ "Art.14" :> Wants({"gate", "drift"}, 5) @@ "Art.15" :> Wants({"score", "drift", "bias"}, 5)
_ISO_42001_CLAUSES ==
    "6.1" :> Wants({"drift", "gate", "score"}, 5) @@ "8.3" :> Wants({"pii", "bias"}, 5)
    @@ "9.1" :> Wants({"score", "drift", "gate"}, 5) @@ "10" :> Wants({"gate", "score"}, 5)
_NIST_AI_RMF_CLAUSES ==
    "GOVERN" :> Wants({"gate", "score"}, 5) @@ "MAP" :> Wants({"prri", "bias", "drift"}, 5)
    @@ "MEASURE" :> Wants({"score", "drift", "gate"}, 5) @@ "MANAGE" :> Wants({"gate", "drift"}, 5)
_ISO_27001_CLAUSES ==
    "A.12.4.1" :> Wants(_SCHEMA_TO_DIR, 10) @@ "A.12.4.2" :> Wants(_SCHEMA_TO_DIR, 10)
    @@ "A.12.4.3" :> Wants({"gate", "score"}, 5)
_SOC2_CLAUSES ==
    "CC6" :> Wants({"pii", "gate"}, 5) @@ "CC7" :> Wants({"drift", "gate"}, 5)
    @@ "CC9" :> Wants({"score", "gate"}, 5)
_FRAMEWORK_CLAUSES ==
    [eu_ai_act |-> _EU_AI_ACT_CLAUSES, iso_42001 |-> _ISO_42001_CLAUSES,
     nist_ai_rmf |-> _NIST_AI_RMF_CLAUSES, iso27001 |-> _ISO_27001_CLAUSES, soc2 |-> _SOC2_CLAUSES]

_compute_clause_map(framework, record_counts) ==
    [c \in DOMAIN _FRAMEWORK_CLAUSES[framework] |->
       LET want == _FRAMEWORK_CLAUSES[framework][c]
           count == MapThenSumSet(LAMBDA k : record_counts[k], want.kinds) IN
       IF count >= want.min THEN "SATISFIED" ELSE IF count > 0 THEN "PARTIAL" ELSE "GAP"]

(* The clauses of all frameworks asked for are judged together.              *)
_build_attestation(maps) ==
    LET found == UNION {{m[c] : c \in DOMAIN m} : m \in maps} IN
    IF found \subseteq {"SATISFIED"} THEN "SATISFIED" ELSE IF "GAP" \in found THEN "GAP" ELSE "PARTIAL"

Idle == [step |-> "idle"]

(* A mutant: all projects share a file.                                      *)
ZipOfTheDay(project, day) == <<"default", day>>

zip_name(project, day) == <<project, day>>

append(project) ==
    /\ ceTrail[project] = 0 /\ \A t \in CeThreads : ceBuild[t] = Idle
    /\ ceTrail' = [ceTrail EXCEPT ![project] = 1]
    /\ UNCHANGED <<ceKey, engineVars, ceBuild, ceZips, ceBundles, ceCount, ceDay, ceOver>>

(* build_bundle(): the file is named for the project and the day; opening it *)
(* empties what an earlier bundle of that day left there.                    *)
open_zip(t, project) ==
    LET id == Cardinality({u \in CeThreads : ceBuild[u].step # "idle"}) + Cardinality(DOMAIN ceBundles) + 1
        zip == zip_name(project, ceDay)
        records == _collect_records(project)
        clauses == _compute_clause_map("soc2", [k \in _SCHEMA_TO_DIR |-> records]) IN
    /\ ceBuild[t] = Idle /\ id <= CeBuilds
    /\ ceBuild' = [ceBuild EXCEPT ![t] = [step |-> "open", id |-> id, project |-> project,
                                          day |-> ceDay, zip |-> zip,
                                          overall |-> _build_attestation({clauses}), records |-> records,
                                          key |-> Key]]
    /\ ceZips' = (zip :> [of |-> 0, key |-> Key, chain |-> FALSE]) @@ ceZips
    /\ ceOver' = ceOver
         \cup {b \in DOMAIN ceBundles : ceBundles[b].project = project /\ ceBundles[b].day = ceDay}
         \cup UNION {{ceBuild[u].id, id} : u \in {u \in CeThreads :
                       ceBuild[u].step = "open" /\ ceBuild[u].project = project /\ ceBuild[u].day = ceDay}}
         \cup {ceBuild[u].id : u \in {u \in CeThreads :
                       ceBuild[u].step \in {"closed", "counted"} /\ ceBuild[u].project = project
                       /\ ceBuild[u].day = ceDay}}
    /\ UNCHANGED <<ceKey, engineVars, ceTrail, ceBundles, ceCount, ceDay>>

(* The directory of the archive is written when it is closed: two archives   *)
(* written to one file leave one of them, or neither (of = 0).               *)
close_zip(t) ==
    /\ ceBuild[t].step = "open"
    /\ \E of \in {ceBuild[t].id} \cup (IF ceBuild[t].id \in ceOver THEN {0} ELSE {}) :
         ceZips' = (ceBuild[t].zip :> [of |-> of, key |-> ceBuild[t].key,
                                       chain |-> _get_chain_proof(ceBuild[t].records)]) @@ ceZips
    /\ ceBuild' = [ceBuild EXCEPT ![t].step = "closed"]
    /\ UNCHANGED <<ceKey, engineVars, ceTrail, ceBundles, ceCount, ceDay, ceOver>>
count_bundle(t) ==
    /\ ceBuild[t].step = "closed"
    /\ ceCount' = ceCount + 1
    /\ ceBuild' = [ceBuild EXCEPT ![t].step = "counted"]
    /\ UNCHANGED <<ceKey, engineVars, ceTrail, ceZips, ceBundles, ceDay, ceOver>>
register_bundle(t) ==
    /\ ceBuild[t].step = "counted"
    /\ ceBundles' = (ceBuild[t].id :> ceBuild[t]) @@ ceBundles
    /\ ceBuild' = [ceBuild EXCEPT ![t] = Idle]
    /\ UNCHANGED <<ceKey, engineVars, ceTrail, ceZips, ceCount, ceDay, ceOver>>

next_day ==
    /\ ceDay = 1 /\ ceZips # <<>> /\ ceDay' = 2
    /\ UNCHANGED <<ceKey, engineVars, ceTrail, ceBuild, ceZips, ceBundles, ceCount, ceOver>>
(* The temporary directory is emptied: the bundles stay registered.          *)
clean_up ==
    /\ ceDay = 2 /\ \E z \in DOMAIN ceZips :
         /\ \A t \in CeThreads : ceBuild[t] = Idle
         /\ ceZips' = [y \in DOMAIN ceZips \ {z} |-> ceZips[y]]
    /\ UNCHANGED <<ceKey, engineVars, ceTrail, ceBuild, ceBundles, ceCount, ceDay, ceOver>>

reissue_download_url(b) == IF b \notin DOMAIN ceBundles \/ ceBundles[b].zip \notin DOMAIN ceZips
                           THEN "raises" ELSE ceBundles[b].zip
(* verify_bundle() tries the manifest, the flag of the chain proof and the   *)
(* shape of the time stamp, and no record.                                   *)
verify_bundle(z) == IF z \notin DOMAIN ceZips \/ ceZips[z].of = 0 THEN "raises"
                    ELSE IF ceZips[z].key = Key /\ ceZips[z].chain THEN "valid" ELSE "invalid"

----------------------------------------------------------------------------
(* compliance.py: a group of events is the sequence of their org_ids ("" for *)
(* none).                                                                    *)
verify_tenant_isolation(a, b, strict) ==
    /\ {a[i] : i \in DOMAIN a} \cap {b[i] : i \in DOMAIN b} \subseteq {""}
    /\ strict => "" \notin {a[i] : i \in DOMAIN a} \cup {b[i] : i \in DOMAIN b}
verify_events_scoped(group, org) == \A i \in DOMAIN group : group[i] = org
(* A time that is missing (0) is compared with nothing.                      *)
monotonic_timestamps(times) ==
    \A i \in 2..Len(times) : times[i - 1] # 0 /\ times[i] # 0 => times[i] >= times[i - 1]

----------------------------------------------------------------------------
Init ==
    /\ ceKey = "unset"
    /\ cePackage = NoPackage /\ ceEdits = {} /\ cePdf = [file |-> <<>>, sidecar |-> <<>>]
    /\ ceTrail = [p \in CeProjects |-> 0]
    /\ ceBuild = [t \in CeThreads |-> Idle]
    /\ ceZips = <<>> /\ ceBundles = <<>>
    /\ ceCount = 0 /\ ceDay = 1 /\ ceOver = {}

Untouched == ceZips = <<>> /\ ceBundles = <<>> /\ ceDay = 1 /\ ceTrail = [p \in CeProjects |-> 0]
EngineStep == Untouched /\ (generate \/ edit \/ to_pdf_file \/ to_pdf_sidecar)
BundleStep ==
    /\ cePackage = NoPackage
    /\ \/ \E p \in CeProjects : append(p)
       \/ \E t \in CeThreads, p \in CeProjects : open_zip(t, p)
       \/ \E t \in CeThreads : close_zip(t) \/ count_bundle(t) \/ register_bundle(t)
       \/ next_day \/ clean_up
Next == EngineStep \/ BundleStep \/ \E k \in {"k", "l"} : set_key(k)
Spec == Init /\ [][Next]_ceVars

----------------------------------------------------------------------------
EvidenceTypeOK ==
    /\ ceKey \in {"unset", "k", "l"}
    /\ cePackage = NoPackage \/ cePackage.framework \in CeFrameworks
    /\ ceEdits \subseteq {"status", "overall", "counts"}
    /\ ceCount <= CeBuilds /\ ceDay \in 1..2 /\ ceOver \subseteq 1..CeBuilds
    /\ \A t \in CeThreads : ceBuild[t].step \in {"idle", "open", "closed", "counted"}

(* The grades of a package follow its evidence: it passes exactly when       *)
(* nothing is missing, and a clause that asks for no more, of no fewer       *)
(* kinds, grades no lower; an attestation whose signature is accepted has    *)
(* the clause grades it was signed with, under the key of now; and a printed *)
(* attestation that is accepted is the printed file, whole and unchanged.    *)
AttestationsHold ==
    /\ cePackage # NoPackage /\ ceEdits = {} =>
         LET wants == Clauses[cePackage.framework] IN
         /\ (cePackage.overall = "pass") = (cePackage.gaps \cup cePackage.partials = {})
         /\ (cePackage.overall = "fail") = (cePackage.gaps # {})
         /\ cePackage.asked = "*" => cePackage.gaps = DOMAIN wants
         /\ \A c, d \in DOMAIN wants :
              /\ wants[c].kinds \subseteq wants[d].kinds /\ wants[c].min >= wants[d].min
              /\ wants[d].hours = 0 /\ cePackage.status[c] = "pass"
              => cePackage.status[d] = "pass"
    /\ cePackage # NoPackage /\ verify_attestation_signature(cePackage) =>
         /\ cePackage.hmac[1] = Key
         /\ cePackage.status = cePackage.hmac[2].status
    /\ verify_pdf_attestation = "true" => cePdf.sidecar[2] = cePdf.file /\ cePdf.sidecar[1] = ceKey

(* A registered bundle names a file that is its own and whole, unless        *)
(* another build for its project opened the file on the same day, or the     *)
(* file was cleaned up; the counter counts the bundles that are registered   *)
(* or about to be.                                                           *)
BundlesAreServed ==
    /\ \A b \in DOMAIN ceBundles :
         \/ b \in ceOver \/ ceBundles[b].zip \notin DOMAIN ceZips
         \/ ceZips[ceBundles[b].zip].of = b
    /\ ceCount = Cardinality(DOMAIN ceBundles) + Cardinality({t \in CeThreads : ceBuild[t].step = "counted"})
    /\ \A b \in DOMAIN ceBundles : b \notin ceOver /\ reissue_download_url(b) # "raises" =>
         (verify_bundle(ceBundles[b].zip) = "valid") = (ceBundles[b].key = Key)

(* A kind of events is evidence for the frameworks that count it in a        *)
(* clause; the two tables differ in one place.                               *)
TablesAgree == ~Untouched \/ ceKey # "unset" \/ cePackage # NoPackage \/
    /\ \A k \in Kinds : \A f \in FrameworksFor[k] : k \in KindsOf(f)
    /\ \A f \in DOMAIN Clauses : \A k \in KindsOf(f) : 
         f \in FrameworksFor[k] \/ <<f, k>> = <<"nist_ai_rmf", "explanation">>

(* A further record, of whatever kind, lowers no clause of a bundle, and     *)
(* raises only those that ask for its kind; ten records of each kind satisfy *)
(* every framework, and an attestation of several frameworks says no more    *)
(* than that of each of them.                                                *)
Rank == [GAP |-> 0, PARTIAL |-> 1, SATISFIED |-> 2]
BundlesAreGraded == ~Untouched \/ ceKey # "unset" \/ cePackage # NoPackage \/
    /\ \A n \in [_SCHEMA_TO_DIR -> {0, 4}], k \in _SCHEMA_TO_DIR, f \in DOMAIN _FRAMEWORK_CLAUSES :
         LET before == _compute_clause_map(f, n)
             after == _compute_clause_map(f, [n EXCEPT ![k] = @ + 1]) IN
         /\ \A c \in DOMAIN before : /\ Rank[after[c]] >= Rank[before[c]]
                                      /\ k \notin _FRAMEWORK_CLAUSES[f][c].kinds => after[c] = before[c]
         /\ \A g \in DOMAIN _FRAMEWORK_CLAUSES :
              Rank[_build_attestation({before, _compute_clause_map(g, n)})] <= Rank[_build_attestation({before})]
    /\ \A f \in DOMAIN _FRAMEWORK_CLAUSES :
         _build_attestation({_compute_clause_map(f, [k \in _SCHEMA_TO_DIR |-> 10])}) = "SATISFIED"

(* Events scoped to two tenants pass strict isolation, and strict isolation  *)
(* is isolation; times that none is missing from are in order throughout.    *)
Groups == {<<>>} \cup [1..2 -> {"", "a", "b"}]
TenantsAreTold == ~Untouched \/ ceKey # "unset" \/ cePackage # NoPackage \/
    /\ \A times \in [1..3 -> 0..2] : 0 \notin {times[i] : i \in 1..3} /\ monotonic_timestamps(times) => times[1] <= times[3]
    /\ \A x, y \in Groups :
      /\ verify_events_scoped(x, "a") /\ verify_events_scoped(y, "b") => verify_tenant_isolation(x, y, TRUE)
      /\ verify_tenant_isolation(x, y, TRUE) => verify_tenant_isolation(x, y, FALSE)
      /\ verify_tenant_isolation(x, y, FALSE) = verify_tenant_isolation(y, x, FALSE)
EvidenceHolds == AttestationsHold /\ BundlesAreServed /\ TenantsAreTold /\ TablesAgree /\ BundlesAreGraded
=============================================================================
