# Spanforge in TLA+

This directory holds TLA+ models of spanforge (`src/spanforge/`), the TLC configurations that check
them on small instances, and TLAPS proofs of the results that hold for every value of the
parameters. The models follow the code where threads, crashes, retries, clocks and key changes meet
shared state, and where one operation has many ways to end.

* [Inventory](#inventory): the system's parts, their state, how they interact, what is hard
* [Modules](#modules): which module models which part, and how it corresponds to the code
* [Runs](#runs): what TLC checks, the bounds, the fairness
* [Proofs](#proofs): what is proved, from what, and along which argument
* [Findings and observations](#findings-and-observations)
* [What is not modelled](#what-is-not-modelled)
* [Plan](#plan)

To repeat everything: `tlc -config X.cfg M` for each `.cfg`, where the table of [runs](#runs) names the
module, and `tlapm XProofs.tla` for the six proof modules. `PROJECT.json` maps every definition to the lines it models, gives for every
property one plausible bug that breaks it (the definitions marked "Mutant" in the modules), and
lists the hazards with the properties that watch them.

## Inventory

spanforge is a library that an LLM application links: it makes events of what the application does,
signs them into a tamper-evident chain, exports them, and offers governance services (approval
workflows, alerts, audit, policy, identity) as in-process clients. There is no server of its own
behind most of them. The state is Python objects shared by the application's threads and by the
daemon threads and timers that the library starts, plus some files.

The pipeline, which has modules, runs and mostly proofs of its own:

| component | state | operations | hard behaviour | correct when |
|---|---|---|---|---|
| Batch exporter `_batch_exporter.py` | bounded queue, stop event, circuit breaker; the worker's batch | `put`, `flush`, `shutdown`, worker loop | callers, flush tags and sentinel share one queue with a worker that drains in between; producers reset the circuit while the worker counts failures | accepted events leave in order and at most once, the end of the worker leaves only the item in its hand and what came behind its last drain, a flush waits for what was queued before it, the worker stops |
| Audit chain `signing.py` | list of events, key map, current key | `append`, `rotate_key`, `erase_subject`, `verify`, the rotate-key command | erasure rewrites events one by one under older keys, may raise half-way; `verify` reads without the lock | the chain is linked and append-only, signatures verify |
| Approval workflow `workflow.py` | state, votes, audit log, fired reminder thresholds | `submit_approval`, `reassign`, `close`, `check_*` | schedulers test without the lock and act later; role gate and state machine differ by action; hooks | approvals are earned, decisions final, every change audited, hooks called once |
| Event dispatch `_stream.py`, `exporters/*.py` | cached exporter, last signed event, counters | `_dispatch`, `_active_exporter`, `_reset_exporter`, `shutdown` | two locks, neither held over sign and export; `configure()` replaces the exporter under threads that use it; retries | no event vanishes uncounted or is written more often than it was tried, the chain does not fork, one live exporter, calls return |
| Append-only log `export/append_only.py` | files, rotation index, handle, byte count; write-once store | `append`, `append_batch`, `rotate`, `close` | crash between any two steps, torn lines, failing uploads, restart with the base file | acknowledged events stay, in order; full files are rotated; the store holds sealed files |
| Alert routing `sdk/alert.py` | bounded queue, group buffers, group and escalation timers, history | `publish`, `acknowledge`, worker, `shutdown` | timers race with acknowledgement and shutdown; the full queue drops the oldest item | each alert in one place, one escalation, none after an acknowledgement, none missing but for a full queue |

The components around it, each with a module that the run `services` or the run `components` checks:

| component | hard behaviour | module |
|---|---|---|
| Spans, traces, hooks `_span.py`, `_trace.py`, `_hooks.py` | contexts copied to tasks; hooks registered while they run; a deadline thread against the end | TraceContext, SpanLifecycle |
| Trace store `_store.py` | eviction against the last agent run; the global store swapped by overlapping blocks | TraceStore |
| HITL queue `hitl.py` | a late timeout overwrites a decision; events emitted after the lock | HitlQueue |
| Registries `*_registry.py`, `consumer.py`, `consent.py` | save and load against changes; late events | Registries, ConsentBoundary |
| Runtime policy `sdk/policy.py`, `scope.py`, `rbac.py`, `operator.py` | activation between a check's steps; breaker | GovernanceDecisions |
| Identity `sdk/identity.py` | single use, lockout and rotation under overlapping calls; tables that must agree | IdentityCredentials, IdentityDirectory |
| SDK client base `sdk/_base.py` | a retry inside a retry; a breaker tested once before the loop; sliding windows | ServiceClient, RateLimiter |
| Service registry `sdk/registry.py` | double-checked singleton; a checker that outlives its stop | ServiceRegistry |
| Admission, budgets `sdk/alert.py`, `alerts.py`, `cost.py` | windows at their boundary; a check that outlives a reset | AlertAdmission, CostBudget |
| SDK audit store `sdk/audit.py` | time, position and place taken at three moments; an index that misses records | AuditStore |
| CI gate `gate.py`, `sdk/gate.py` | gate threads beyond their join; two gates of one id | CiGate |
| Command line `_cli*.py` | exit code against files left behind; two shells on one store | CommandLine |
| Compliance evidence `core/compliance_mapping.py`, `sdk/cec.py` | what a signature covers; bundles built while records arrive | ComplianceEvidence |
| Redaction, secrets, PII | overlapping matches; redaction, anonymisation and signing in any order | DataGuards |
| Answer services `sdk/validate.py`, `explain.py`, `rag.py`, `lineage.py`, `feedback.py`, `pipelines.py` | corrections, retries that append again, one step of several failing | AnswerServices |
| Platform services `sdk/observe.py`, `enterprise.py`, `security.py` | export and flush overlap; settings read field by field | PlatformServices |
| Semantic cache `cache.py` | look-up, call and store in three steps against invalidation and expiry | SemanticCache |
| Other exporters `export/cloud.py`, `siem_splunk.py`, `webhook.py` | batches put back, rate limits, close against flush | RemoteExport |
| Configuration, sampling, processors | fields set one at a time; a list that changes under a span | Configuration |
| Migration `migrate.py` | a process that dies while it rewrites its own source | Migration |
| Drift, baselines, regression, statistics | baseline read field by field; breaches against eviction and reset | DriftDetection |
| Event envelope, in-memory stream | a clock set back; two validators and a reader that must agree; offsets committed after a failure | EventEnvelope |

How they interact:

```
application threads --span--> _span/_trace (context, hooks, processors) --emit--> _stream._dispatch
_dispatch --sampling--> configuration ; --record--> trace store ; --sign--> signing.sign (module-wide chain)
    \--export--> exporter | _FanOutExporter --> jsonl, sqlite files | BatchExporter (queue, worker thread)
configure() / atexit -----> _reset_exporter (closes and forgets both)
AuditStream.append/rotate/erase --> signing.sign ; verify --> signing.verify_chain
AppendOnlyJSONLExporter --upload--> WORMBackend (write-once store, external)
SFAlertClient.publish --admission--> queue --> worker --> sinks (each behind a breaker)
group timers, escalation timers ---> the same queue
scope, rbac --> policy (active bundle) --> operator ; gate, explain, validate, cec --> sf_audit --> trust feed
schedulers --> WorkflowEngine.check_* ; reviewers --> submit_approval ; hooks --> application
command line (a process each) --> event files, secrets store, cost briefs
```

## Modules

Each component has a module of its own, with its parameters as CONSTANTS; a `.cfg`, or an `MC` module
where several are composed, gives TLC its instances, and where something is proved a `...Proofs`
module extends it. One action is one
critical section, one operation of a thread-safe object (queue, event, timer, dictionary store), or
one step between which a crash matters; a method that holds its lock from beginning to end is one
action. History variables say so where they are declared; an action reads one at most to bound the
instance or to number the next event.

### BatchExporter, LossyFifo

| state | code |
|---|---|
| `queue`, `stop`, `done` | `self._queue`, `self._stop_event`, the `done_event`s that are set |
| `cbOpen`, `cbFailures` | `self._cb_open`, `self._cb_consecutive_failures` |
| `wpc`, `item`, `batch`, `reason` | where the worker thread is, and its local variables |
| `putPc`, `flushPc`, `shutdownPc` | where each call is, and its result |
| `order`, `attempted`, `failed` | history: order of queueing, of export, and which exports raised |

`put` is three steps (circuit test and possible reset, stop test, `put_nowait`), `flush` three
(stop test, enqueue the tag, wait), `shutdown` four. The worker is `WorkerGet` (an item, or None
after the timeout, which is also the sentinel), then one of `WorkerStop`, `WorkerFlush`,
`WorkerBatch`, then `WorkerDrain` item by item and `WorkerExport` event by event. Whether an export
raises and when the reset time of the circuit has passed is nondeterministic. Every call puts a
different event, so that an event names its call.

Once the worker has ended, `OnlyItemAndStrandedGoUnexported` leaves two kinds of accepted event
unexported: the one in its hand when it found the stop event set, and those put behind its last drain,
which nobody reads. `FlushIsReleasedBehindItsEvents` holds of both kinds of tag: one that the worker took in
hand is released behind the export of what was queued before it, one found by a drain when that is in the
batch. What the docstrings say beyond it are two promises that the code breaks
(`FlushReturnsAfterItsExports`, `ShutdownFlushesTheRest`, see the findings).

`LossyFifo` is what such a pipeline promises: accept at the end, deliver from the front, discard
anywhere. `ImplementsLossyFifo` maps its `pipe` to batch, item in hand and queue (less the tags),
and `delivered` to `attempted`.

### AuditStream

| state | code |
|---|---|
| `events`, `keyMap`, `orgSecret` | `self._events`, `self._key_map`, `self._org_secret` |
| `config` | async stream or not, `_key_resolver`, `_require_org_id` |
| `erase` | how far `erase_subject` is in its scan, and whether it relinks, returned or raised |
| `verifier` | what `verify` has copied: first the key map, then the events; its verdict |
| `resigned` | history: the events an erasure signed again |

A signature is the record of what it covers with the key that made it, so it verifies exactly for
that key and content; a checksum is the payload. `AppendEvent` and `RotateKey` are whole critical
sections. `EraseSubject` starts the scan; `EraseTombstone`, `EraseRelink` are its single stores,
`EraseRaise` the error of `sign` in between (a key that expired meanwhile). The tombstone holds the
caller's `erased_by`, `reason` and `request_ref` (`by`), which may name a subject; so an erased subject may
be left in tombstones, and nowhere else (`ErasureIsComplete`). `VerifyCopyKeys` and
`VerifyCopyEvents` are the two reads of `verify`, unlocked in `AuditStream` and under the lock in
`AsyncAuditStream`. `ChainIsValid` is `verify_chain`, `CurrentSecretIs` its walk over the key
segments. The module ends with the
streams and the resolver that the configurations give TLC. Two facts about identifiers are assumed: ULIDs
are unique, and MACs do not collide.

### WorkflowEngine

| state | code |
|---|---|
| `state`, `audit`, `approvals`, `rejections` | `_state`, `_audit_log`, the users in `_approvals` and `_rejections` |
| `fired` | `_reminder_thresholds_fired` |
| `passed` | how many thresholds of the SLA the clock has passed |
| `scheduler` | per scheduler thread: what it has found outside the lock |
| `reminded`, `repeated`, `resolved`, `escalations` | history: hook calls |

`HandleAction` is `_handle_action` for any user and action: role gate, terminal test, one operator
per branch of `_apply_action`, hooks. `FindEscalationDue`/`AutoEscalate` and
`StartReminders`/`CheckReminder`/`FireReminder` are the two scheduler calls, cut where the code
reads without the lock. Assignees, delegates and requests for information decide nothing in the
code; each call still writes its audit entry.

### StreamDispatch

| state | code |
|---|---|
| `cached`, `lock`, `children` | `_cached_exporter`, the holder of `_exporter_lock`, the fan-out's width |
| `prevSigned`, `shutdownCalled` | `_prev_signed_event`, `_shutdown_called` |
| `closed`, `failed` | each child's `_closed`, the fan-out's `_failed` |
| `file`, `refused` | what each child's file holds, the events counted by `_export_error_count` |
| `thread` | per thread: location, event, child, attempt |
| `links`, `via`, `made`, `resets` | history: predecessor and exporter of each event, exporters built, resets |

`Sign` is the section under `_sign_lock`; `TestCache`, `Build`, `ReadCache` are the steps of the
double-checked `_active_exporter`, whose last read may find None; `TestClosed` and `Write` are the
unlocked test and the locked write of a file exporter, jsonl or sqlite; `WriteFails` and `Retry` raise
before or after the event is in the file (a `write` that is not flushed, a row that is not committed), so
that a retry may write it again; `NextChild` is the loop of `_FanOutExporter.export`; `Configure`, `Shutdown`, `TakeLock`,
`CloseChild`, `Discard`, `ResetChain` are `_reset_exporter` and `shutdown`.

### AppendOnlyLog, AlertRouter

| state of AppendOnlyLog | code |
|---|---|
| `file`, `store` | the lines of each file by rotation index; the write-once store by key (external) |
| `rotationIndex`, `handle`, `written` | `_rotation_index`, whether `_fh` is open, `_written_bytes` |
| `pc`, `todo`, `pending` | where the one call under the lock is |
| `next`, `run`, `acked`, `crashes` | history: event numbers, the process of each, the acknowledged ones, crashes |

Only one call runs at a time, but a crash may come between any two of its steps (`WriteLine`,
`WriteMarker`, the upload in its three outcomes, `Advance`) or leave a torn line. After a crash, or
after `Close`, the file on disk is what remains; a new process starts at index 0.

| state of AlertRouter | code |
|---|---|
| `queue` | `_queue`, the bounded queue, with the sentinel |
| `open`, `buffer`, `groupTimer` | `_group_buffers`, `_group_timers` |
| `timers`, `pending`, `timer` | `_escalation_timers`, `_pending_escalation`, what became of each timer |
| `runner` | where each application or timer thread is |
| `worker`, `shut`, `sent` | the worker, whether `shutdown` was called, `_history` |
| `published`, `acked`, `dropped`, `coalesced` | history: alerts, acknowledgements, losses, alerts merged into another |

`Put`, `DropOldest`, `PutAgain` are the three queue operations of the drop-oldest policy, each open
to others in between; `ExpireGroup`/`Flush` and `ExpireEscalation`/`Fire`/`PutEscalation` the timer
callbacks; `Get`/`Dispatch`/`Schedule`/`StartTimer` the worker; `CancelAll`/`FlushAll`/`PutSentinel`
the steps of `shutdown`. Its alerts are those that AlertAdmission admits.

### The components around the pipeline

Every module below has a type invariant and one property (three in Registries) that joins named
parts. Names with underscores are the methods they translate. Where a docstring promises more than the
code keeps, the property says what the code does keep, and the promise stands at the end of the module
as a definition of its own, which the run `broken_promises` refutes.

**Spans.** *TraceContext*: tasks with their span and run stacks (`trStacks`), copied at
`copy_context` and put back on exit. Of any tasks and nesting, a run reports the cost of the steps begun
in it and in the runs it called, once each, less exactly those that outlived the run they were begun in.
*SpanLifecycle*: entry, body, leaving and export of one span; hooks are fired from a snapshot one by one
while others register and clear them; the deadline thread's test and write are two steps, so that it may
overwrite the status of a span that ended between them. *TraceStore*: a store holds exactly the traces
active most recently, whichever blocks swap the global store.

**People.** *HitlQueue*: items are objects that may be replaced under their id; an event is emitted
after the lock was released, from the object as it is then. It shows exactly the item its call left,
outcome, status and reviewer included, unless another call changed that object first; then it still shows
a review, a resolution and the tier. *ConsentBoundary*: the same shape, and an emission that fails is
swallowed; the trail accounts for the records up to those once every call has returned.

**Registries.** Models through their life cycle with `save` in two steps and `load` between; prompt
versions with export and import; consumers with their startup check. A retired model, and only it,
is dated; the latest version resolves; no two majors both serve all consumers.

**Governance.** *GovernanceDecisions*: bundles per environment (`gvLoaded`, `gvActive`), `activate`,
`promote`; a scope or role check is `check_with_policy`, `evaluate_policy`, `decide` or `refuse`,
`emit_scope`, `record_decision`, of two threads, with the manifest and the bundles changing in between;
the appends of `evaluate_policy` and `emit_scope` may raise. A check is allowed exactly when the manifest
permits it as it decides; a denied one gets what the rules of one moment say of a denied action; the
counters account for the records; replay agrees with comparison (evaluated in the states where nothing is
loaded yet, since it quantifies over all policies itself).
*DriftDetection*: `fit` in two stores beside `record`, which holds its results until
`_emit_results`; samples are small integers and every mean, variance and percentile is compared as a
fraction, so nothing is rounded. Breaches are reported, results leave once, stale metrics go,
percentiles are ordered, and a run does not regress against itself.

**Identity.** *IdentityCredentials*: the exchange of a magic link reads it, marks it, looks at the second
factor and issues a key in separate steps, a rotation issues and then replaces; extra keys need
overlapping calls. A TOTP verification reads and counts in two steps, so wrong codes are rationed up
to one more per thread; quotas stay within the day's highest tier. *IdentityDirectory*: users, names,
groups, provider sessions and OIDC states stay consistent with each other.

**Rationing.** *ServiceClient*: each thread has a stack of requests, since a refresh of the token is
itself a request; between the answer of the server (`respond`) and its body (`read_body`) the connection
may break. A request that was answered is sent again only after its answer was lost, by an unreadable body
or a failed refresh, once for each lost answer and within its retries. *RateLimiter*: no window holds more
than the limit. *ServiceRegistry*: one instance; `start_background_checker` takes no lock and is three
steps (`start_test`, `start_make`, `start_launch`) of several threads: a second live checker exists only if
two starts overlapped. *AlertAdmission*: every published alert is suppressed and counted or admitted,
and admitted ones are spaced. *CostBudget*: an exceeded budget is noticed by somebody.

**Evidence.** *AuditStore*: `append_stamp`, `append_position`, `append_store`, `append_trust` are the
moments at which an append of one of two threads takes its time, position, place and scorecard entry. Each
position is used once, gaps that `verify_chain` sees need overlapping appends, and a query answers what
the linear scan would, which it falls back to when SQLite fails, or less by what the index missed.
*CiGate*: gate threads that outlive their join and write late, or die of a condition that raises; artifact
files that cannot be written; the deduplication window of the trust gate's alerts. *CommandLine*: a command
is its sequence of steps (load, sign, write, ...) with the exit code of each trouble, a full disk among
them, killed anywhere; two shells load, open and save one JSON file, and what they lose needs an overlap or
a death. *ComplianceEvidence*: clause tables and grades, what the package signature covers, the printed file
with its sidecar; bundles built by two threads while records arrive and files are written over.
*Migration*: `read`, `empty`, `write` of a file onto another or itself, while an exporter appends and
the process may die; what cannot be signed is written as it was. *EventEnvelope*: identifiers under a clock
that may be set back; a file that grows by half-lines under its reader; a queue with several readers; a
topic with a committed offset. What one document decides is a set of operators (the reader `from_dict`, the
writer `to_dict`, the two validators, the corrector and the enforcement modes), compared over every document
that differs from a good one in at most two fields: what one accepts another accepts or rejects as stated.

**Guards.** *DataGuards*: a text is a set of positions and a match an interval, so that overlaps are
exact; secrets have three tiers of confidence and may be of zero tolerance. A secret that was found is no hit
only if an overlapping one is at least as sure; personal data in matches that do not overlap is replaced;
an event is redacted, anonymised and signed in any order; datasets are graded clause by clause.

**Answers.** *AnswerServices*: validation with correction passes; records whose audit append may fail
and be retried; sessions and feedback; the pipelines as ordered steps that share one record; the
scorecard over given fractions. *SemanticCache*: a decorated call looks up, calls and stores in
separate steps, an invalidation lists and removes key by key in the back ends that do. A look-up takes the
first of the most alike entries, prompts that are equal but for their case are twins, and SQLite joins and
splits tags at commas. After an invalidation no entry that had the tag before it is left, but for a tag
with a comma in SQLite; an answer is as old as its `set`.

**Platform.** *PlatformServices*: the observer's two threads export, buffer and flush in steps, over
a back end that refuses, fails or is no valid URL; the fallback keeps the last spans of a failed export;
tenants and settings change while an evidence package reads them one after the other; categories of
the security audit. *Configuration*: `configure` sets field after field while events are judged (filters and
the two reads of the rate included) and exporters built, for a list as a fan-out and for a network exporter
as a console one; an exporter may be installed by hand and may raise when it is closed; every sampler;
processors told of a span while the list changes or is replaced.

**Shipping.** *RemoteExport*: the cloud exporter's append, thread start, batches, answers (accepted,
refused, limited, or an exception that is no network error), put-back and close in steps for two callers
and their flush threads; the Splunk buffer and its counts; the webhook's attempts. An accepted event is in
one place, and in none only if it was received, refused, or its failure raised or counted; as long as one
batch is under way at a time the endpoint sees the order of export.

### Compositions

`MCLiveness` runs StreamDispatch or BatchExporter under fairness. `MCServices` extends the append-only
log, the router and the five modules of people, registries and identity, each with variables of its
own. `CoreComponents` holds the six modules that ration or guard the calls of several threads
(ServiceClient, RateLimiter, ServiceRegistry, AlertAdmission, CostBudget, RemoteExport) as instances that
share the places `p1` to `p13` for their variables (what a module leaves free holds `Unused`); it has no
RECURSIVE operator in its reach, and `ComponentProofs` proves about it. `MCComponents` extends it by the
other 16. The variable `component` says which one a behaviour exercises. They share no state in the code
either, so nothing is lost by exercising one at a time; where two touch the same spans or records, each
models its own side of the call. `MCPromises` is a tour: a behaviour exercises a small instance of a
component until it has broken the promise under test, then goes on to the next with a fresh component.

## Runs

| run | module | instance | distinct states | what it shows |
|---|---|---|---|---|
| `batch_safety` | BatchExporter | 3 puts, 2 flushes, 1 shutdown; queue 2, batch 2, threshold 2; symmetric calls | 884 k | nothing reordered or exported twice (`ImplementsLossyFifo`); a worker that has ended leaves only its item and what was queued behind its last drain; the circuit opens only on consecutive failures; a flush is released behind the events queued before it |
| `batch_idle_worker` | BatchExporter | 2 puts, 2 flushes, queue 3 | violation | the worker ends on an idle interval with no shutdown |
| `audit_chain` | AuditStream | 4 kinds of stream, 2 keys, 1 subject, 1 organisation, 3 events | 645 k | linkage, signatures, tenants' events, erasure, and the verdict of a racing `verify` |
| `audit_erase_after_rotation` | AuditStream | plain stream, 2 keys, 3 events | violation | an erasure behind a rotation leaves a chain that does not verify |
| `audit_rotate_key` | AuditStream | the same, without organisations | violation | the chain that rotate-key writes does not verify with the new key |
| `workflow_decisions` | MCWorkflowEngine | system, CTO and security user with the default roles; 2 approvals; 2 schedulers; 2 thresholds; 4 audit entries | 663 k | approvals earned and audited, decisions final, hooks called once |
| `liveness` | MCLiveness | dispatch: 2 threads, 1 or 2 children, 1 retry, 2 events, 1 `configure()`, `shutdown()`; batch exporter: 2 puts, 1 flush, 1 shutdown, queue 1 | 199 k | no event vanishes uncounted, none is written more often than it was tried; no fork; one live exporter; every call returns; the worker ends once the stop event is set, also without its sentinel |
| `stream_export_order` | StreamDispatch | 2 threads, 1 child, 3 events, no reset | violation | the exported file is not a chain |
| `services` | MCServices | log: files of 2 lines, batches of 2, 4 events, 2 rotations, 2 crashes; router: 2 threads, 1 group, queue 1, 3 alerts; review queue: 2 threads, 1 id, 2 items; consent: 2 threads, 1 pair; registries: 2 models, 3 prompt versions, 2 tools in 3 versions; credentials: 2 threads, 3 keys, 2 codes, 2 failures to a lock; directory: 2 names, 2 users, 1 group, 2 sessions | 899 k | acknowledged events stay once and in order, files are marked, stored copies sealed; each alert in one place, one escalation after sending, none after an acknowledgement, none missing but for a full queue; events show what people decided; registries resolve; identities agree |
| `components` | MCComponents | see below | 1.54 M | the properties of the other 22 modules, grouped as in the section above |
| `explain_unsigned` | MCComponents | as `components` | violation | a record that `explain()` returns has no signature |
| `broken_promises` | MCPromises | 17 components, each in the smallest instance that breaks its promises | violation | 23 promises of docstrings and documents are broken, one after the other in one behaviour |

**Bounds, and why they are enough.** The queues are as small as allows the interesting case: a queue
of one or two is full at once, so `put` is refused, flush tags find no room, the sentinel is
swallowed, and two publishers race for the one place. Three puts with threshold 2 let a success or
a reset fall between two failures. Two flushes are what one needs for the tag of one to be drained
by the other. In the audit chain, three events suffice for event, rotation and event behind it, with
an erasure that touches either side of the rotation; the four kinds of stream are the combinations
of resolver, required organisation and async the classes allow to differ. Two scheduler threads and
two thresholds are what a race on one threshold needs beside another; four audit entries follow the
first with three decisions, as many as two approvals plus one late escalation or rejection. In the
dispatch, two threads with an event each and one `configure()` give each race of test, read and reset, and a
retry can meet an exporter closed meanwhile, or an event that the failed attempt left in the file. In the log, two lines per file and four events fill a file twice,
and two crashes let a process resume a file that the one before resumed. `MaxLines` bounds how often
a forced rotation is called, `MaxIndex` the files. In the alert router, three alerts are one in the
queue and two whose publishers race for its place, or two of one group and one of their escalations
on a full queue.

The composed runs give each component two threads (three record costs against one monitor), limits
of two and two or three calls beyond which a call repeats what an earlier one met; `MCComponents.tla`
and `MCServices.cfg` hold every number. Where a component's hazard is a boundary, the bound lies past it: time ends one
window after the first request is forgotten (RateLimiter, AlertAdmission), a queue of two meets three
exports, a store of two traces meets three, a breaker of threshold 3 meets two threads with a retry
each. The gate file has one gate of each fate: two parallel ones and one beyond `max_workers`, two of
one id, one of an unknown type. The policies, shapes of lines, drift events and configuration events
are the few that take different branches. In GovernanceDecisions two threads check,
and every other call (activation, promotion, registration) falls between their steps.

How the states divide, in `services`: router 533 k, log 271 k, review queue 32 k, credentials 31 k,
directory 17 k, consent 9 k, registries 5 k. In `components`: governance 192 k, cache 176 k, audit store 162 k,
answers 150 k, configuration 132 k, shipping 111 k, platform 101 k, migration 93 k, registry 82 k, gate 70 k,
guards 63 k, evidence 59 k, span life cycle 52 k, drift 37 k, admission 22 k, traces 15 k, store 8 k, command
line 6 k, budget 3 k, client and envelope 2 k each, limiter less than a thousand.

Some components are the same in every order of a few facts rather than in interleavings (clause
tables, validators, samplers, percentiles). Their operators are evaluated over all bounded inputs in
one of the component's states, so those comparisons hold of every input within the bound.

**Deadlock** is not checked: the calls of each instance are finite in number, and once all have
returned the system stops.

**Symmetry** is used in runs without liveness only, over calls, scheduler threads and runners, none
of which the models name.

**Fairness.** `liveness` assumes weak fairness of the batch worker, a daemon thread that the
operating system schedules (its `get` has a timeout, so it is never blocked for ever), and of a
`shutdown()` that has begun; nothing is assumed of `put` and `flush`. An export call is assumed to
return. In the dispatch it assumes weak fairness of each thread that is inside a call; it is enough,
because each call takes the lock a bounded number of times and the bounded number of calls leaves no
competitor that could starve it for ever. No fairness makes a thread begin a call. The other runs
state no fairness, and their properties need none: `OnlyAFullQueueStopsAnEscalation` is an invariant,
that the timer of such an alert runs or is about to be started, or its escalation is on its way, sent, or
lost to a full queue.

## Proofs

TLAPS proves the following for every value of the constants that the modules' assumptions admit
(TLC evaluates the assumptions on every run).

**BatchExporterProofs**, from `ItemsAssumption` (events, tags and the sentinel differ) and
`SizesAssumption` (the three sizes are positive). All of the safety properties of its run:
`TypeCorrect`; `CircuitCorrect` (`CircuitOpensOnConsecutiveFailures`); `LossCorrect`
(`OnlyItemAndStrandedGoUnexported`); `BarrierCorrect` (`FlushIsReleasedBehindItsEvents`); and the refinement
`FifoCorrect` (`ImplementsLossyFifo`).
`TypeOK` alone is not inductive: after its exports the worker sets the `done_event` of the item it
took long before, so `TypeInv` adds `FlushInHand`, that this item is a flush tag whenever the worker
drains or exports for a flush. The circuit's invariant `CircuitInv` counts: the last `cbFailures`
exports failed, and an open circuit has counted to the threshold. `put` may reset both between two
failures; it sets the counter to 0, of which the count is trivially true, and this is what makes the
proof go through for any interleaving. `LossInv` follows each accepted event from queue to hand to
batch to exporter; the one action that drops it is the worker's stop branch, after which the worker
can take nothing more; `EndInv` adds that a worker that has ended has an empty batch, so that all but that
item and the queue behind it is exported. The barrier needs that an event is in one place and a tag is
queued once (`EventsOnce`, `TagsOnce`), so that "queued before the tag" means the same in the history and in
the queue. `AheadInv` says that what was queued before a tag and is still in the queue lies ahead of it, at
any time; `BarrierInv` that until the stop it is there or `OnTheWay` (in hand, in the batch or exported), and,
once the worker holds the tag, in the batch or exported. The refinement maps the
pipe to a filtered sequence (`EventsIn`, a `SelectSeq`), and its lemmas say what appending to, taking
from and joining sequences does to the filter. The library's induction theorems take an operator,
which the provers cannot instantiate; the lemmas argue instead that a set which holds 0 and is closed
under successor holds every natural number, from the well-foundedness of <.

**AuditStreamProofs**, from `AuditAssumption`. `TypeCorrect`, `LinkageCorrect`, `SignaturesCorrect`,
`TenantCorrect`, `VerdictCorrect`, `ErasureCorrect`: all properties of its run. `ChainInv` says that the event at position i has identifier i and
predecessor i - 1 (`Placed`), and which keys the key map may hold. A signature's fate needs
`SignedInv`: an event behind the last rotation is signed with the current key (or its tenant's), one
in an older segment with the segment's key, unless it was signed again by an erasure. The lemmas
`SegmentHasOneSecret` and `OlderSegmentsStay` say that the key `verify_chain` derives for a position
is unique and does not change when the chain grows; with them each of append, rotate and erase
(`SignedAppend`, `SignedRotate`, `SignedErase`) preserves it. `VerdictCorrect` is an action property:
what the verifier copied is compared with the key map at its second read; for the async stream
`VerifierInv` says that both are the same, because the lock is held in between. An erasure replaces and
re-links event by event; `ErasedInv` says that nothing before its position mentions the subject, but for
tombstones whose own texts do, and since the lock keeps appends out until it returns, nothing else is left
when the position passes the end.

**WorkflowEngineProofs**, from `WorkflowAssumption`. `TypeCorrect`, `ApprovalCorrect`,
`RejectionCorrect`, `AuditCorrect`, `NotificationCorrect`, `ReminderCorrect`, `DecisionCorrect`. The
inductive invariant has two independent halves. `WorkflowInv` joins the properties of state, log and
votes with what they need of each other: no decision has been notified while the workflow is active
and no escalation before it is escalated (`NotYetNotified`), without which a second call of a hook
could not be excluded. Submissions and automatic escalations go through `HandleAction`, so lemma
`HandleActionHandles` says once what it may do, and `HandlesKeepsInv` that this preserves the
invariant; reassignment and `close` touch only the log and the state, which is `EntryKeepsInv`.
`SchedulerInv` says that a reminder a thread has sent is marked as fired and that a thread which is
about to fire has not sent this one; marks are never removed, which is why a thread never repeats
itself though two threads may repeat one another.

**StreamDispatchProofs**, from `DispatchAssumption`. `TypeCorrect` (`TypeOK`), `ExporterCorrect`
(`OneLiveExporter`), `ChainCorrect` (`ChainIsLinear`), `AccountCorrect` (`EveryEventIsAccountedFor`),
so all of its safety properties. `TypeInv` adds to the types that an event in
dispatch belongs to one thread (`OwnEvent`) and that a thread which exports was handed an exporter
(`HandedOver`). For the exporters, `ExporterInv` says that a thread between the locked steps holds the
lock (`LockHeld`), that a dispatch and a reset start at the first child (`FirstChild`), and that
children are closed in order and none is skipped (`ClosedInOrder`, `ClosingInOrder`): when a reset discards the
cached exporter all of its children are closed, so every exporter but the cached one is dead. For the
chain, `ChainIsLinear` bounds the chains by the resets *begun*, which is not inductive, because a
reset pays for its root long before it clears the last signed event; `ChainsArePaid` counts instead:
the roots there are, the one that may be begun because no event precedes, and those still owed by
resets in progress never exceed one more than the resets and the shutdown. For the files, `AccountInv`
says where an event in dispatch is: each child before the k-th has it or was disabled (`Settled`), and each
from the k-th on has it at most as often as an attempt has failed (`Underway`, `Fits`); an event that nobody
dispatches is finished, and none is ever in a file more often than it was tried, which in a fan-out, where
nothing is retried, is once. Because an event in dispatch belongs to one thread, a step disturbs this for
the event in hand only (`OthersKeep`), and either goes on with it (`DispatchGoesOn`) or ends its dispatch
(`DispatchEnds`).

**ServiceProofs** extends `MCServices` and proves all of its properties for every value of the constants,
from the assumptions of its seven modules: finitely many threads where something is counted over them,
bounds that are natural numbers, schema versions that are pairs of them, and a `MAX_FAILURES` and a
number of keys that are positive. Its theorems are `ServicesTypeCorrect`, `PeopleStayHeard`,
`RegistriesStayResolved`, `IdentitiesStayKept`, five of the log and five of the router. Each component has an
invariant, and `ServicesInv` is the conjunction of those of the five smaller ones: a step belongs to one
component and leaves the variables of the others alone.

* *Log*: `LogTypeCorrect`, `RotatedFilesStayMarked`, `StoredCopiesStaySealed`, `FilesStayInOrder`,
  `AcknowledgedEventsStayStored`, of `LogSpec`. A crash may come between any two steps and a new process
  starts again at index 0, in files that were rotated and uploaded before. `SealInv` therefore speaks of
  every file below the current index, of the file being uploaded and of every stored copy, which is a
  beginning of its file that ends with the marker: lines are only ever added behind it (`Grown`). `CopyInv`
  speaks of copies of an event rather than of lines: every event that was numbered is written, none twice,
  those of one process lie in the order of their numbers, and those of the running process not behind its
  current file. An acknowledged event is lost to a reader only behind a torn line; `TornInv` counts those, at
  most one to a crash.
* *Router*: `RouterTypeCorrect`, `AlertsKeepOnePlace`, `EscalationsFollowTheirAlert`,
  `AcknowledgedStayQuiet`, `UnacknowledgedStayDue` (`OnlyAFullQueueStopsAnEscalation`), of `RouterSpec`, for any
  number of publishing threads, groups, alerts and any bound of the queue. An alert and its escalation may be
  in the queue, in a buffer, with a thread, with the worker, sent, dropped or mentioned by another.
  `PlacesInv` says that each is in at most one of them, and once, and that every published alert is in one;
  each queue operation moves one item and disturbs no other (`Kept`, `Off`), which is proved once for taking
  from the front, for adding at the end and for dropping the oldest. `EscalationInv` relates the two tables,
  what became of a timer, and what the threads hold: `_pending_escalation` has only undecided alerts, the
  worker comes to an alert once and right after it was sent, and an unacknowledged one has a running timer,
  a timer about to be started, a thread that fires it, or an escalation somewhere, be it among the dropped.
* *Review queue* (`HitlInv`): the item a call still has to report is exactly what the call left, or was
  changed by another call since (`HeldItemsShow`); such a change keeps a review, a resolution and the tier
  (`Later`), so it does not matter how many of them come before the event leaves.
* *Consent* (`ConsentInv`): revocations emitted, lost or still to be emitted, and one for a standing
  consent, are at most the grants emitted, lost or still to be emitted. The trail balances only when no call is
  open; in between it may show a revocation first, which is why the property alone is not inductive.
* *Registries* (`RegistriesInv`): the dates also hold of the saved file and of a snapshot that `save` is
  about to write; the versions of the prompt store are distinct and the latest is among them, for an
  import of any length; consumers are compared major by major.
* *Keys* (`KeysInv`): a key with a successor is revoked and names one, unless the rotation that made the
  successor is still under way (`RotationsEnd`); the keys a link gave and the threads that may still
  get one are together at most as many as the threads, and none before the link is marked
  (`LinkKeysFit`).
* *Guesses* (`TotpInv`): the failures of an open record stay below `MAX_FAILURES` plus one for each
  thread and lock that ran out, and together with the threads that are comparing just now below the
  next such bound (`FailuresFit`). Each code is accepted once exactly if it is marked as used
  (`CodesFit`), and the quota used is within the highest tier of the day (`QuotaInv`).
* *Directory* (`DirectoryInv`): names lead to live users and back (`NamesFit`), a live user's groups are
  the live groups that have it as a member (`MembersFit`), provider sessions are found by their
  provider. That two pages of the user list are one longer page is a lemma about `SubSeq`
  (`PagesAddUp`).

The types of the log and the router are lifted from their own theorems, since the composition
implements `LogSpec` and `RouterSpec`; their other theorems hold of it for the same reason.

**ComponentProofs**, from the six assumptions of `CoreComponents` (limits, windows, thresholds and batch
sizes are positive, the threads that share a budget finitely many): `CoreTypesCorrect`, `CallsStayRationed`
(`CallsAreRationed`), `ShipmentsStayAccounted` (`ShipmentsAddUp`). `CoreInv` has one part per component.

* *Sliding windows*: the limiter and the admission of alerts evict and count in the same way, so the lemmas
  are stated once. `Windowed` says that of all the times allowed, which increase, the last ones are counted,
  those before them have left the window, and each lies a whole window after the one limit places before
  it; hence a window, wherever it begins, holds no more than the limit (`WindowIsLimited`). That an eviction
  which stops at the first time in the window removes exactly the others is the well-ordering of the
  numbers (`LeastIsLeast`, `KeptIs`). `LimiterInv` is `Windowed` of the limiter, `CountedInv` that of the
  admission; with `PublishedInv`, `SinkInv` and `ManagerInv` it makes `AdmissionInv`.
* *Service registry* (`RegistryInv`): one object is made and whoever returns finds it (`InstanceInv`). A live
  checker is the last one or was replaced in a race (`CheckersInv`): two starts under way overlap each
  other, and one that overlaps none finds the last checker dead until it has replaced it (`StartsInv`).
* *Budget* (`BudgetInv`): over the threshold and not fired, some call that has seen the flag down is still
  under way (`Racing`); the callbacks that ran and those that may still run belong to different threads.
* *Client* (`ClientInv`): a request was answered at most once more often than answers were lost; one
  that is attempted again was answered as often as answers were lost, and less often than it was attempted,
  which bounds the answers by its retries.
* *Shipping* (`ShippingInv`): only a process that sends has a batch (`ProcInv`); an event is in one place and
  an accepted one somewhere (`PlacesInv`); with one sender, what is under way is in order and before what
  waits, and an event the endpoint has not got is later than all it has (`OrderInv`), also after a batch was
  put back in front of the queue; Splunk's counts and pending events add up (`SplunkInv`).

**Model-checked only.** The two liveness properties (`StopEndsTheWorker`, `EveryCallReturns`): they need
fairness and ENABLED, which are beyond the prover. Of `components`, the properties other than `CallsAreRationed`
and `ShipmentsAddUp`, and the types of the 16 modules outside `CoreComponents`: `TracesAddUp`,
`GovernanceIsDecidedOnce`, `EvidenceIsHonest`, `DataIsGuarded`, `AnswersAddUp`, `PlatformHolds`. Each joins several
modules, some of which compare recursive operators over bounded inputs (see the plan). The six violation
runs, whose properties do not hold.

## Findings and observations

Five statements of the documentation that the code does not keep have a run each, whose property is the
statement:

* **An idle interval ends the worker** (`batch_idle_worker`). `queue.get` timing out sets `item` to
  None, which is the sentinel; the worker drains, exports and leaves its loop, and every later
  `put()` is accepted into a queue nobody reads (`_batch_exporter.py:336`).
* **Erasure behind a rotation breaks the chain** (`audit_erase_after_rotation`). `erase_subject`
  signs with the current key what `verify_chain` checks with an older one (`signing.py:1057`).
* **rotate-key does not sign again** (`audit_rotate_key`). It writes the events with their old
  signatures, verifies them with the new key and ends with 1 (`_cli_audit.py:885`, docs/cli.md:1164).
* **The exported file is not a chain** (`stream_export_order`). Signing and exporting are ordered by
  different locks, and a failed export leaves a hole (`_stream.py:503`).
* **Explanations are unsigned** (`explain_unsigned`). The signature is read from a field the result
  of `append()` does not have; the error counts as a failed append, so the record is appended once
  per try (`sdk/explain.py:631`, docs/api/explain.md:98).

The run `broken_promises` refutes 23 more in one behaviour. Its tour starts each component of
`MCPromises` in one of its initial states, lets it run until it has broken the promise, and goes on; the
invariant `SomePromiseIsKept` says that the tour never comes to its end. The right column is the code that
breaks the promise; `PROJECT.json` quotes the line that makes it.

| promise | what the code does | where |
|---|---|---|
| `FlushReturnsAfterItsExports` | a flush tag found by another's drain is released before the batch is exported | `_batch_exporter.py:374` |
| `ShutdownFlushesTheRest` | the item in the worker's hand is lost when the stop event is found set | `_batch_exporter.py:336` |
| `NoTombstoneNamesItsSubject` | a tombstone keeps `erased_by`, `reason` and `request_ref` as given | `signing.py:1029` |
| `FiredTimersRedispatch` | a full queue loses the escalation of a timer that fired | `sdk/alert.py:1431` |
| `ReviewedEventsShowTheDecision` | the event is built from the item after the lock, and shows another review | `hitl.py:171` |
| `LinksAreExchangedOnce` | a link is tested outside the lock under which it is marked | `sdk/identity.py:577` |
| `EndedSpansKeepTheirStatus` | a deadline writes over the status of a span that ended after its test | `_span.py:388` |
| `RunsAggregateAllSteps` | a step that outlives its run is added to totals already emitted | `_span.py:857` |
| `EveryScopeCheckIsAudited` | a check that the breaker refuses is counted and not appended | `sdk/scope.py:360` |
| `CloseFlushesTheRest` | `close()` sends one batch, and puts it back when that fails | `export/cloud.py:242` |
| `EveryGateIsExecuted` | parallel gates beyond `max_workers` are never started | `gate.py:1006` |
| `StoredSecretsStay` | two `set` commands read, change and write the store without a lock | `_cli_config.py:96` |
| `ZeroToleranceBlocks` | a zero-tolerance hit loses to a surer overlapping one and does not block | `secrets.py:779` |
| `QualifyingHitsAreReplaced` | what the losing hit covers beyond the winner stays | `secrets.py:779` |
| `EntitiesAreReplaced` | overlapping entities are replaced at offsets that have moved | `sdk/pii.py:789` |
| `ErasureReachesTheStore` | `get_default` does not exist; the receipt reports zero records | `sdk/pii.py:1137` |
| `TaggedEntriesAreRemoved` | SQLite joins tags with commas and splits one that has a comma | `cache.py:207` |
| `TheLeastRecentlyUsedGoesFirst` | a hit does not move its entry; the first put goes first | `cache.py:134` |
| `PassedTextsAreClean` | the PII found in a corrected text is thrown away | `sdk/validate.py:603` |
| `BufferIsBounded` | a failed export extends the buffer whatever it holds | `sdk/observe.py:622` |
| `FieldsAffectWhatFollows` | a field set on the live object leaves the cached exporter | `_stream.py:132` |
| `CompliantEventsAreKept` | the sampling of events never asks `config.sampler` | `_stream.py:439` |
| `MigratedEventsAreSigned` | an event that cannot be read back or signed is written unsigned | `migrate.py:463` |

Behaviours the models contain as they are in the code, which no statement of the repository forbids
clearly enough to be a finding, or which no property here is about:

* *Batch exporter.* The worker exports while the circuit is open. Events accepted after the worker's last
  drain stay in the queue.
* *Audit chain.* `verify()` ignores the stream's key resolver, so a multi-tenant stream must be
  verified with `verify_chain`; across a concurrent rotation it may reject a sound chain.
* *Workflow.* Two schedulers can fire one reminder twice (the docstring says at most once; what is
  proved is per thread). The step from assigned to in_progress is not audited. A hook runs under a
  lock that is not reentrant, and its exception propagates after the state has changed. CLOSE as a
  submitted action skips the test that `close()` makes (`workflow.py:1157`).
* *Dispatch.* A reset between the test and the second read makes `_active_exporter` return None, and
  the event is counted as an export error. A close between the jsonl exporter's test and its write
  opens the file again. A fan-out disables a failing child silently and for good. An event whose `flush`
  or `commit` raised, or whose record in the trace store did, counts as an export error though it was
  written. `OTelBridgeExporter.export` is a coroutine that `_dispatch` never awaits; that bridge is not
  modelled. The built-in exporters' `close()` does not raise; one installed by hand may, and then stays cached
  under the policy "raise".
* *Append-only log.* The result of an upload is not looked at; a torn line swallows the event that
  follows it; the rotation index starts at 0, so a restart reopens the file that was sealed and
  uploaded (`append_only.py:166`).
* *Alerts.* The sentinel of `shutdown()` may find the queue full or be dropped as the oldest item, and
  the worker goes on; timers scheduled while it drains are not cancelled; an acknowledgement before the alert
  is dispatched does not prevent its escalation.
* *Store, people.* The last agent run is lost when its trace is evicted. A late timeout
  overwrites a HITL decision. A consent granted in one process is not granted in the next, though
  docs/cli.md shows the two commands after one another.
* *Registry.* Two overlapping `start_background_checker` calls may leave two live checkers
  (`sdk/registry.py:377`), which both write health until they are stopped.
* *Configuration.* `configure()` is half-applied when it raises. `bypass_sampling` is obeyed by the
  ComplianceSampler only; a parent-based sampler keeps the children of a dropped local root; a rate of
  0 keeps traces of bucket 0 and those whose id is not hexadecimal.
* *Guards.* Redacting a signed event keeps its signature. Anonymisation skips tuples and deep values. An
  unreadable dataset file counts as one without rows.
* *Evidence.* Bundles are exported empty (`sdk/cec.py:749`). `overall_status` and `owner` are not
  covered by the package signature; the HIPAA window counts back from now. Of the composite verdicts of
  the gate, ERROR never blocks, and a failed trust query counts as clean.
* *Command line.* An unreadable secrets or cost store counts as empty and is overwritten. `compliance
  status` ends with 0 also for a broken chain, `compliance readiness` never does. `load-policy` loads
  nothing.
* *Migration.* Root runs imported from LangSmith cannot be read back and stay unsigned with no error
  reported.
* *Answers.* Five pipeline steps never succeed. A trust score of 1 on the scale of 100 counts as 100. RAG
  events are never emitted.
* *Platform.* The encrypted payload of the enterprise client is never returned in clear
  (`enterprise.py:371`); registering a project again replaces its tenant; the security scan finds no
  vulnerable package.
* *Other exporters.* A batch put back ignores the queue's bound; an exception that is no network error
  loses the batch it was raised for; a caller past the test of `_closed` enqueues into a closed exporter;
  Splunk reports as exported what it only counted as failed.
* *Cache.* Redis namespace "a" also reads "a:b". An answer computed before an invalidation and set after
  it stays.
* *Drift.* A breach is reported on every record, not at its transition; eviction and reset forget a
  breach without a word; a window smaller than the minimum never reports; an empty token baseline makes
  any tokens a breach, an empty one of any other metric none.
* *Envelope.* The two validators disagree on lower-case identifiers, impossible dates, and checksums;
  events nested ten levels deep validate and cannot be read back; a Kafka group commits the messages
  of a call that raised; one sentinel ends one of several queue readers; `iter_file` that skips errors
  loses a line that was being written.

## What is not modelled

Formats, wording, parsing of arguments and texts, logging, hashes as bit strings, floating-point
values, and the arithmetic of prices are abstracted throughout. Within the components (each one's
note in `PROJECT.json` is complete):

* *Pipeline.* Approximate statistics counters and the health report of the batch exporter; key
  derivation, strength and dates of expiry; the registry of workflows; redaction before the dispatch;
  alert topics and paging of the alert history.
* *Identity.* Token and key formats, the SAML answer, the IP allow-list. *SDK client.* URLs, headers,
  TLS, settings from the environment. *Audit store.* Scorecard arithmetic, Article 30 records, time
  stamps of a third party. *Governance.* Reviews, suggestions for thresholds, evidence packages.
* *Gate.* YAML and templates. *Evidence.* Report texts, the agreement template, the developer console.
  *Guards.* The patterns and their check digits: a match is any interval. *Cache.* How alike two
  prompts are: a given relation. *Drift.* The logarithm of the KL divergence, reading and writing of
  baseline files. *Envelope.* Event models and the normaliser, which copy fields; filters of streams.

Whole components:

* Pipeline builder, SDK settings and value types: calls of modelled clients in sequence, settings read
  once, immutable records.
* Viewer: read-only pages over the trace store.
* Developer tools and tests: helpers that read events or patch libraries, one call each.
* Integrations and namespaces: adapters to third-party frameworks, payload classes.
* Service fallbacks and factory: stand-ins that compute one answer in one call; that a failing client
  falls back is part of ServiceClient and ServiceRegistry.

## Plan

Done: the six modules of the pipeline with their safety, liveness and refinement; the components
around it; a theorem for every safety property of `batch_safety`, `audit_chain`, `workflow_decisions`,
`liveness` and `services`, and for two of `components`; the promises that the code breaks. Left, in this order:

1. `TracesAddUp` (TraceContext, SpanLifecycle, TraceStore): a theorem as those of ComponentProofs, for which the
   three modules move to `CoreComponents`.
2. What is inductive of `GovernanceIsDecidedOnce`: the checks and their counters. Those properties of
   `components` that compare operators over bounded inputs (validators, samplers, percentiles) stay with TLC.
3. Abstract specifications: what the append-only log promises across crashes (a durable prefix of what
   was acknowledged), and the workflow as the state machine of its documentation, implemented by
   everything but CLOSE.
