-------------------------- MODULE PlatformServices --------------------------
(***************************************************************************)
(* The clients that keep a deployment's own state: the observer with its    *)
(* local buffer, sampling and statistics (sdk/observe.py), the tenants,     *)
(* settings and signed evidence packages of an enterprise                   *)
(* (sdk/enterprise.py), and the security audits (sdk/security.py).          *)
(* Every client has one lock and takes it for each read or write; what is   *)
(* read under it is used after it.                                          *)
(***************************************************************************)
EXTENDS Naturals, Sequences, FiniteSetsExt

CONSTANTS PsThreads,
          PsBufferMax,   \* _LOCAL_BUFFER_MAX
          PsTraces,
          PsProjects,
          PsRegions,     \* the regions but "global"
          PsCap          \* bound: calls of a behaviour

VARIABLES psSetup,     \* the observer's configuration, or what else is exercised
          psCalls,     \* bound: calls so far
          psObserver,  \* buffered spans and the statistics
          psFate,      \* history: spans whose post returned, dropped for want of room, reported; fallbacks
          psTrace,     \* trace -> history: its spans that were kept and left out
          psThread,    \* thread -> the call it is in
          psTenant,    \* project -> whether it is registered, and its region
          psSetting,   \* the enterprise's settings
          psPackages,  \* the evidence packages returned
          psAudit      \* the last security audit

observerVars == <<psObserver, psFate, psTrace>>
enterpriseVars == <<psTenant, psSetting, psPackages>>
psVars == <<psSetup, psCalls, psObserver, psFate, psTrace, psThread, psTenant, psSetting, psPackages, psAudit>>

----------------------------------------------------------------------------
(* The observer.  With the backend local spans go to the buffer, else, or    *)
(* with a receiver of their own, over the network; an address that is not    *)
(* allowed is refused before, with an error that no fallback catches.        *)
Setups == [use : {"observe"}, backend : {"local", "remote", "refused"}, fallback : BOOLEAN,
           sampler : {"ratio", "parent"}, kept : SUBSET PsTraces]
Observing == psSetup.use = "observe"
NewCall == psCalls < PsCap /\ psCalls' = psCalls + 1 /\ UNCHANGED psSetup
Continue == UNCHANGED <<psCalls, psSetup>>
Idle == [at |-> "idle"]
To(t, state) == psThread' = [psThread EXCEPT ![t] = state]
Aside == UNCHANGED <<enterpriseVars, psAudit>>

(* spans[:space]: a negative space, as a fallback may leave it, takes all    *)
(* but the last ones.                                                        *)
(* A mutant: a full buffer takes one more.                                   *)
AcceptedPlusOne(n) == IF psObserver.buffer <= PsBufferMax THEN Min({n, PsBufferMax - psObserver.buffer + 1}) ELSE n

Accepted(n) ==
    IF psObserver.buffer <= PsBufferMax THEN Min({n, PsBufferMax - psObserver.buffer})
    ELSE n - Min({n, psObserver.buffer - PsBufferMax})

_do_export(t, n, receiver, emitting) ==
    LET to == IF receiver = "none" THEN psSetup.backend ELSE receiver
        local == n = 0 \/ to = "local" IN
    /\ To(t, IF ~local /\ to = "refused" THEN Idle
             ELSE [at |-> IF local THEN "counting" ELSE "posting", n |-> n, emitting |-> emitting])
    /\ IF local
       THEN /\ psObserver' = [psObserver EXCEPT !.buffer = @ + Accepted(n)]
            /\ psFate' = [psFate EXCEPT !.dropped = @ + (n - Accepted(n))]
       ELSE UNCHANGED <<psObserver, psFate>>

export_spans(t, n, receiver) ==
    /\ Observing /\ psThread[t] = Idle /\ NewCall
    /\ _do_export(t, n, receiver, FALSE)
    /\ UNCHANGED psTrace /\ Aside

(* A mutant: each span is decided on its own.                                *)
SampleEachSpan(trace, flag) == psObserver.spans % 2 = 0

_should_sample(trace, flag) == IF psSetup.sampler = "parent" THEN flag ELSE trace \in psSetup.kept

emit_span(t, trace, flag) ==
    /\ Observing /\ psThread[t] = Idle /\ NewCall
    /\ IF _should_sample(trace, flag)
       THEN /\ _do_export(t, 1, "none", TRUE)
            /\ psTrace' = [psTrace EXCEPT ![trace].kept = @ + 1]
       ELSE /\ psObserver' = [psObserver EXCEPT !.spans = @ + 1]
            /\ psTrace' = [psTrace EXCEPT ![trace].out = @ + 1]
            /\ UNCHANGED <<psThread, psFate>>
    /\ Aside

(* The answer of the network: of what cannot be sent, a buffer's worth is    *)
(* kept in the buffer, whatever room that has, or it is raised to the caller.*)
(* An answer cut short (http.client) is raised past the fallback.            *)
_post_json(t) ==
    LET w == psThread[t] IN
    /\ w.at = "posting" /\ Continue
    /\ \/ /\ psFate' = [psFate EXCEPT !.sent = @ + w.n]
          /\ To(t, [w EXCEPT !.at = "counting"]) /\ UNCHANGED psObserver
       \/ /\ psSetup.fallback
          /\ psObserver' = [psObserver EXCEPT !.buffer = @ + Min({w.n, PsBufferMax})]
          /\ psFate' = [psFate EXCEPT !.fallbacks = @ + 1, !.dropped = @ + (w.n - Min({w.n, PsBufferMax}))]
          /\ To(t, [w EXCEPT !.at = "counting"])
       \/ /\ ~psSetup.fallback
          /\ psObserver' = [psObserver EXCEPT !.healthy = FALSE]
          /\ To(t, Idle) /\ UNCHANGED psFate
       \/ To(t, Idle) /\ UNCHANGED <<psObserver, psFate>>
    /\ UNCHANGED psTrace /\ Aside

count_export(t) ==
    LET w == psThread[t] IN
    /\ w.at = "counting" /\ Continue
    /\ psObserver' = [psObserver EXCEPT !.exports = @ + 1, !.healthy = TRUE]
    /\ psFate' = [psFate EXCEPT !.reported = @ + w.n]
    /\ To(t, IF w.emitting THEN [w EXCEPT !.at = "emitted"] ELSE Idle)
    /\ UNCHANGED psTrace /\ Aside

count_span(t) ==
    /\ psThread[t].at = "emitted" /\ Continue
    /\ psObserver' = [psObserver EXCEPT !.spans = @ + 1]
    /\ To(t, Idle) /\ UNCHANGED <<psFate, psTrace>> /\ Aside

add_annotation(t) ==
    /\ Observing /\ psThread[t] = Idle /\ NewCall
    /\ psObserver' = [psObserver EXCEPT !.annotations = @ + 1]
    /\ To(t, [at |-> "annotated"])
    /\ UNCHANGED <<psFate, psTrace>> /\ Aside

count_annotation(t) ==
    /\ psThread[t].at = "annotated" /\ Continue
    /\ psObserver' = [psObserver EXCEPT !.counted = @ + 1]
    /\ To(t, Idle) /\ UNCHANGED <<psFate, psTrace>> /\ Aside

----------------------------------------------------------------------------
(* The enterprise.  Registering a project again replaces what it was.        *)
Enterprising == psSetup.use = "enterprise"
Touch(t) == IF psThread[t].at = "packing" THEN [psThread[t] EXCEPT !.touched = TRUE] ELSE psThread[t]
Configure == NewCall /\ Enterprising /\ psThread' = [t \in PsThreads |-> Touch(t)] /\ UNCHANGED <<observerVars, psPackages, psAudit>>

register_tenant(p, region) ==
    /\ Configure /\ UNCHANGED psSetting
    /\ psTenant' = [psTenant EXCEPT ![p] = [registered |-> TRUE, region |-> region]]
configure(setting) ==   \* configure_encryption, configure_airgap, configure_retention_export
    /\ Configure /\ UNCHANGED psTenant
    /\ psSetting' = [psSetting EXCEPT ![setting] = ~@]

get_endpoint_for_project(p) == IF psTenant[p].registered THEN psTenant[p].region ELSE "global"
enforce_data_residency(p, region) ==
    ~psTenant[p].registered \/ psTenant[p].region = "global" \/ region = psTenant[p].region

(* generate_evidence_package(): the profile of the project, the policy and   *)
(* the status are read one after the other, the status once for the signed   *)
(* payload and once for the package.                                         *)
get_status == [encrypted |-> psSetting.encrypt, offline |-> psSetting.offline,
               tenants |-> Cardinality({p \in PsProjects : psTenant[p].registered})]
Reads == <<"tenant", "airgap", "encryption", "retention", "check", "status", "again">>
Read(what, p) ==
    CASE what = "tenant" -> psTenant[p].registered
      [] what = "airgap" -> psSetting.offline
      [] what \in {"encryption", "check"} -> psSetting.encrypt
      [] what = "retention" -> psSetting.require
      [] OTHER -> get_status

begin_package(t, p) ==
    /\ Enterprising /\ psThread[t] = Idle /\ NewCall
    /\ To(t, [at |-> "packing", project |-> p, seen |-> <<>>, touched |-> FALSE])
    /\ UNCHANGED <<observerVars, enterpriseVars, psAudit>>

(* A mutant: the policy's demand for encryption is not looked at.            *)
NothingForbids(seen) == TRUE

Permits(seen) == Len(seen) = 5 => (seen[4] => seen[5])

generate_evidence_package(t) ==
    LET w == psThread[t]
        seen == Append(w.seen, Read(Reads[Len(w.seen) + 1], w.project)) IN
    /\ w.at = "packing" /\ Continue
    /\ IF ~Permits(seen) THEN To(t, Idle) /\ UNCHANGED psPackages   \* SFEncryptionError
       ELSE IF Len(seen) < Len(Reads) THEN To(t, [w EXCEPT !.seen = seen]) /\ UNCHANGED psPackages
       ELSE /\ To(t, Idle)
            /\ psPackages' = psPackages \cup {[seen |-> seen, touched |-> w.touched]}
    /\ UNCHANGED <<observerVars, psTenant, psSetting, psAudit>>

----------------------------------------------------------------------------
(* Security.  Six of the ten categories pass whatever is asked; the packages *)
(* known to be vulnerable are none, and the static analysis finds nothing,   *)
(* so that a scan fails for secrets in the logs alone.                       *)
Asked == [API2 |-> "auth", API4 |-> "rate", API7 |-> "ssrf", API8 |-> "input"]
Categories == DOMAIN Asked \cup {"API1", "API3", "API5", "API6", "API9", "API10"}
Securing == psSetup.use = "security"
Secure == NewCall /\ Securing /\ UNCHANGED <<psThread, observerVars, enterpriseVars>>

(* A mutant: the rate limit is listed as failed and passed over.             *)
AllPassButRates(has) == {"auth", "ssrf", "input"} \subseteq has

AllPass(has) == {"auth", "rate", "ssrf", "input"} \subseteq has

run_owasp_audit(has) ==
    /\ Secure
    /\ psAudit' = [psAudit EXCEPT !.status = [c \in Categories |-> IF c \in DOMAIN Asked /\ Asked[c] \notin has THEN "fail" ELSE "pass"],
                     !.pass = AllPass(has), !.model = psAudit.threats]
add_threat == Secure /\ psAudit' = [psAudit EXCEPT !.threats = @ + 1]
generate_default_threat_model == Secure /\ psAudit' = [psAudit EXCEPT !.threats = @ + 10]
run_full_scan(leaks) == Secure /\ psAudit' = [psAudit EXCEPT !.scan = IF leaks = 0 THEN "pass" ELSE "fail"]

----------------------------------------------------------------------------
Init ==
    /\ psSetup = [use |-> "new"] /\ psCalls = 0
    /\ psObserver = [buffer |-> 0, spans |-> 0, exports |-> 0, annotations |-> 0, counted |-> 0, healthy |-> TRUE]
    /\ psFate = [sent |-> 0, dropped |-> 0, reported |-> 0, fallbacks |-> 0]
    /\ psTrace = [trace \in PsTraces |-> [kept |-> 0, out |-> 0]]
    /\ psThread = [t \in PsThreads |-> Idle]
    /\ psTenant = [p \in PsProjects |-> [registered |-> FALSE, region |-> "global"]]
    /\ psSetting = [encrypt |-> FALSE, offline |-> FALSE, require |-> FALSE] /\ psPackages = {}
    /\ psAudit = [status |-> [c \in Categories |-> "pass"], pass |-> TRUE, model |-> 0, threats |-> 0, scan |-> "none"]

setup ==
    /\ psSetup.use = "new"
    /\ psSetup' \in Setups \cup [use : {"enterprise", "security"}]
    /\ UNCHANGED <<psCalls, observerVars, psThread, enterpriseVars, psAudit>>
Observe ==
    \E t \in PsThreads :
      \/ Observing /\ \E n \in 0..PsBufferMax + 1, receiver \in {"none", "remote", "refused"} : export_spans(t, n, receiver)
      \/ Observing /\ \E trace \in PsTraces, flag \in BOOLEAN : emit_span(t, trace, flag)
      \/ _post_json(t) \/ count_export(t) \/ count_span(t) \/ add_annotation(t) \/ count_annotation(t)
Enterprise ==
    \/ \E p \in PsProjects, region \in PsRegions \cup {"global"} : register_tenant(p, region)
    \/ \E setting \in DOMAIN psSetting : configure(setting)
    \/ \E t \in PsThreads : generate_evidence_package(t) \/ \E p \in PsProjects : begin_package(t, p)
Security ==
    \/ \E has \in SUBSET {"auth", "rate", "ssrf", "input"} : run_owasp_audit(has)
    \/ add_threat \/ generate_default_threat_model
    \/ \E leaks \in {0, 1} : run_full_scan(leaks)
Next == setup \/ Observe \/ Enterprise \/ Security
Spec == Init /\ [][Next]_psVars

----------------------------------------------------------------------------
PlatformTypeOK ==
    /\ psSetup \in Setups \cup [use : {"new", "enterprise", "security"}]
    /\ psCalls \in 0..PsCap
    /\ \A t \in PsThreads : psThread[t].at \in {"idle", "posting", "counting", "emitted", "annotated", "packing"}
    /\ psSetting \in [{"encrypt", "offline", "require"} -> BOOLEAN]

In(at) == {t \in PsThreads : psThread[t].at = at}

(* Every span a caller was told is exported was sent, is in the buffer, or   *)
(* found no room there; the buffer keeps its limit as long as no post has    *)
(* failed into it; only a client without fallback is ever                    *)
(* unhealthy; the counts are complete whenever no call is under way.         *)
ExportsAddUp ==
    /\ psFate.sent + psObserver.buffer + psFate.dropped
         = psFate.reported + MapThenSumSet(LAMBDA t : psThread[t].n, In("counting"))
    /\ psFate.fallbacks = 0 => psObserver.buffer <= PsBufferMax
    /\ ~psObserver.healthy => ~psSetup.fallback
    /\ psObserver.annotations = psObserver.counted + Cardinality(In("annotated"))

(* A trace that is sampled by its id is kept whole or left out whole.        *)
TracesAreWhole ==
    Observing /\ psSetup.sampler = "ratio" => \A trace \in PsTraces : psTrace[trace].kept = 0 \/ psTrace[trace].out = 0

(* A package exists only if encryption was on when it was looked at, or not  *)
(* demanded when that was; and if nobody configured anything meanwhile, its  *)
(* profile, its signed status and its own status tell the same.              *)
PackagesAreConsistent ==
    \A k \in psPackages :
      /\ k.seen[4] => k.seen[5]
      /\ ~k.touched => k.seen[6] = k.seen[7] /\ k.seen[6].offline = k.seen[2] /\ k.seen[6].encrypted = k.seen[3]
                       /\ k.seen[3] = k.seen[5] /\ (k.seen[1] => k.seen[6].tenants > 0)

(* The endpoint of a project is never one its residency refuses, and the     *)
(* audit passes exactly if no category failed.                               *)
SettingsAgree ==
    /\ \A p \in PsProjects : enforce_data_residency(p, get_endpoint_for_project(p))
    /\ psAudit.pass <=> \A c \in Categories : psAudit.status[c] = "pass"
    /\ psAudit.model <= psAudit.threats

PlatformHolds == ExportsAddUp /\ TracesAreWhole /\ PackagesAreConsistent /\ SettingsAgree

----------------------------------------------------------------------------
(* sdk/observe.py:62 and :169: spans are buffered in a bounded deque, of at  *)
(* most _LOCAL_BUFFER_MAX spans.                                             *)
BufferIsBounded == psObserver.buffer <= PsBufferMax
=============================================================================
