# DataSentinel in TLA+

Specifications of the DataSentinel compliance layer (India's DPDP Act): a Go
control plane, a Go gateway and Python Celery workers that share a PostgreSQL
database, Redis and ClickHouse, and a TypeScript console (Next.js) in the browser.
Paths below are relative to the repository; `services/` is left out where it is
clear.

## 1. The system

| Component | State | Operations | Talks to |
|---|---|---|---|
| DSR fulfilment (`rights_service.go`, `tasks/rights.py`) | table `rights_requests` | Create, Update, Complete, Reject, Assign, Verify, Approve, SearchPrincipal; tasks `search_data_principal`, `execute_erasure`, `check_overdue_requests` | broker, tenants' data stores, `alerts` |
| Task dispatch (`worker_service.go`, `celery_app.py`) | Redis lists, unacknowledged messages | LPUSH, take, late ack, redelivery | all workers |
| Policy engine (`policy_service.go`) | `policies`, `policy_versions`, `gateway_rules` | Create, Update, Delete, SetStatus, Rollback; projection of a policy to a gateway rule | gateway cache |
| Gateway rules, data flows (`gateway_service.go`) | `gateway_rules`, `data_flows` | CRUD, toggle, approve, upsert | gateway |
| Gateway policy cache (`policy/loader.go`) | process map, Redis keys | load, poll, invalidate | PostgreSQL, Redis |
| Gateway proxy and engine (`proxy.go`, `llm.go`, `engine/*`) | none per request | detect, choose rule, mask, block, forward | cache, vault, audit writer |
| Token vault (`tokenizer.go`) | two Redis keys per token | tokenize, detokenize | Redis |
| Gateway audit writer (`audit/writer.go`) | batch under a mutex, flush signal | write, flush, stop | ClickHouse, live feed |
| Control-plane client (`controlplane/client.go`) | deduplication map | report flow, raise alert | control plane |
| Breach incidents (`breach_service.go`) | `breach_incidents` | Create, Update, NotifyBoard, NotifyPrincipals, Close | alerts |
| Audit ledger (`audit_chain_service.go`, `clickhouse.go`) | `audit_chain` | AppendAudit, Verify | ClickHouse |
| Sessions (`auth_service.go`, `middleware/auth.go`) | `users`, `refresh_tokens`, reset tokens | login, refresh, logout, reset, invite | SSO, SCIM |
| SSO, SCIM | Redis state and exchange codes, `users` | start, callback, exchange; create, replace, patch, deactivate | sessions |
| Platform administration (`platform_admin_service.go`) | `platform_admins` | create, enable, disable, login, MFA | tenants |
| Tenant settings, webhooks (`tenant_service.go`, `webhook_handler.go`) | one JSON column | read-modify-write of the list of webhooks and of the whole column | alerts |
| Alerts, notifications (`alert_service.go`, `tasks/notifications.py`) | `alerts` | create, acknowledge, notify, clean up | webhooks |
| Assets, scans (`asset_service.go`, `scan_service.go`, `tasks/discovery.py`, `classification.py`) | `assets`, `scans`, `findings` | trigger, run, cancel, schedule, reconcile | broker, findings |
| Findings, posture | `findings` | resolve, mark false positive, reconcile | scans |
| Consent (`consent_handler.go`), API keys, reports, detection settings | one table each | mostly one statement each | – |
| AI governance (`ai_governance_service.go`) | `ai_systems`, `ai_attestations`, `ai_assessments` | lifecycle transitions, assessments, promotion | ClickHouse |
| Rate limiting (`rate_limit.go`) | one Redis counter per client | count, expire | Redis |
| Live gateway feed (`StreamEvents` in `gateway_handler.go`, `use-gateway-stream.ts`) | cursor of the stream; list and memory of the page | poll, send, reconnect, list | audit writer's table |
| Console pages and query cache (`app/`, `lib/api/`, `app/providers.tsx`) | React Query's cache in each tab | fetch, retry, poll, mutate, invalidate | control plane |
| Console session (`lib/api-client.ts`, `lib/auth.ts`) | two cookies per browser, one promise per tab | sign in and out, exchange, send again | sessions |
| Admin console session (`lib/admin-api-client.ts`) | one cookie | sign in, leave on 401 | platform administration |
| Lineage, dashboards, presentation, connectors, PII analysis, crypto, start-up | none of interest | reads, I/O, presentation | – |

What makes it hard: almost no handler holds a transaction or a row lock from its
read to its write; the tasks are delivered at least once and their effects span
several databases; caches are invalidated without coordination with their fills.
The hazards that matter most are listed with their lines in `PROJECT.json`, also
those of components that have no module. Lesser ones seen on the survey: a scan
whose dispatch fails leaves its asset `scanning` (`asset_service.go:211`); a retried
scan runs beside a new one (`discovery.py:144`); two scans of one asset both find
no open finding (`discovery.py:269`); two runs of the overdue check
both find no alert for a request (`rights.py:154`); a rejection during an erasure is
overwritten by `completed` (`rights.py:277`); `Close` takes a breach from any
status (`breach_service.go:308`); ledger and ClickHouse are written independently
(`clickhouse.go:91`) and the ledger's order rests on an advisory lock
(`audit_chain_service.go:51`); failed logins are counted from a stale value
(`auth_service.go:231`); two refreshes at once both read a valid token
(`auth_service.go:259`); a reset token is checked outside the transaction
(`auth_service.go:421`); a login overlaps a deactivation (`scim_service.go:254`);
two administrators disable each other (`platform_admin_service.go:155`);
an update of settings replaces the webhooks (`tenant_service.go:85`), and two
registrations at once keep one (`webhook_handler.go:370`); two transitions of an AI
system read one stage (`ai_governance_service.go:558`), and an attestation is stored
after the stage it attests (`ai_governance_service.go:628`);
each request renews the rate counter (`rate_limit.go:32`); the audit middleware
cuts bodies off at 4096 bytes (`audit.go:111`); two tokens for one value
(`tokenizer.go:41`), whose two keys are written one by one (`tokenizer.go:43`); two
reports of one destination insert two data flows (`gateway_service.go:220`); a
destination counts as seen before its post succeeds (`client.go:91`); two toggles of
a rule count as one (`gateway_service.go:164`); a request is forwarded without
inspection when the rules cannot be loaded (`proxy.go:114`).

What each component must keep, in one line each: erasure only behind all gates
and never unrecorded; a gateway rule says what its policy says; a cache converges
to the rules; one open finding per location; a scan ends; deadlines of a breach
are raised once; the ledger verifies; a disabled account has no session; an
active platform admin always remains; a registered webhook stays registered; a
lifecycle history has no gap; an event of the gateway is recorded once or lost by a
fault; a page shows what its user changed and spins only while something is under
way; a refresh token is spent once per page, and no request hangs unless its exchange does.

## 2. Modules and what is left

| Modules | Composes, abstract specification |
|---|---|
| `RightsFulfillment`, `ErasureGate`, `RightsFulfillmentProofs`, `RightsReportProofs` | handlers, broker and workers; implements `ErasureGate` |
| `PolicyProjection`, `VersionLog`, `PolicyProjectionProofs` | policies, versions and rules; implements `VersionLog` |
| `PolicyCache`, `PolicyCacheProofs` | rules of the control plane, Redis, gateway processes; a read-through cache of bounded age |
| `EventFeed`, `EventLog`, `EventFeedProofs` | the gateways' audit writers, the table, the control plane's stream and a page; implements `EventLog` |
| `QueryCache`, `ConsolePages`, `QueryCacheProofs` | pages, mutations, cache and server; "a page shows what its user changed" |
| `ConsoleSession`, `ConsoleSessionProofs` | the tabs of a browser and the exchange of refresh tokens |

What is left, in the order of what it would show:

1. `ScanPipeline`: assets, scans, findings and broker; cancellation against the
   worker; reconciliation of findings.
2. `BreachIncident`, with the alerts of its deadlines and of overdue requests.
3. `AuditLedger`: concurrent appenders; implements an append-only log.
4. `Sessions`, `Provisioning`: login lockout, rotation and families, SCIM and SSO.
5. `GatewayProxy`, `TokenVault`, `DataFlows`: a request from detection to what it
   leaves behind.
6. `PlatformAdmins`, `TenantSettings`, `AIGovernance`, `RateLimit`: small
   read-modify-write components.

Conventions. Each module with a `Proofs` companion uses no RECURSIVE operator.
Liveness under fairness and ENABLED are model-checked only. Some definitions
(`TryRefreshAlways`, `TakeShared`, `WrittenUnguarded` and the like, listed under
`mutants` in `PROJECT.json`) are not used by any specification: each is a plausible
bug of the definition that follows it, and puts to the test that the property named
there can fail. An MC module holds values of constants for TLC; `feed_events` checks
`EventFeed` itself. Every bound is a constant named in the module that declares it.

## 3. DSR fulfilment

### Modules

* `RightsFulfillment`: the detailed specification, one action per database
  statement or broker call.
* `ErasureGate`: what `Approve` and `execute_erasure` promise about destructive
  deletion; the refinement is `ImplementsGate`.
* `RightsFulfillmentProofs`: types, the gate and the refinement.
* `RightsReportProofs`: what is recorded of an erasure.
* `MCRightsFulfillment`: constants for TLC.

### State and actions

| TLA+ | Code |
|---|---|
| `rr` | row of `rights_requests`; timestamps as "is set", `plan` is `erasure_plan`, `result` is `fulfillment_result` |
| `holds`, `connected` | the tenants' data stores; status of the assets |
| `handler` | one operator request in `Verify`, `Approve` or an `Update` without fields: what it has read and which statement is next |
| `task` | one message of the list `rights`: unsent, queued, taken (`unacked`), acknowledged |
| `run` | one worker process: the statement it is at and the Python locals |
| `alerted` | the rows `dsr_erasure_completed` of `alerts` |
| `erased`, `authorised` | history, never read by an action: sources an erasure removed records from; the plans approved |
| `undone`, `failed` | history: the marks (verified, discovered, approved, fulfilled) that an old copy of the row took back; tasks of which a run raised |

`VerifyRead`, `VerifyWrite`, `HandlerSend` are the three steps of `Verify`;
`ApproveRead`, `ApproveWrite`, `HandlerSend` those of `Approve`: a row is read
without a lock, checked, written by a second statement, and the task pushed by a
third call. `Update` (with `Complete`, `Reject`, `Assign`) writes the status it is
given whatever the row holds: its read only serves the 404. With an empty body it is
another thing: bun, given a query without `Set`, writes every column of the struct that
was read before, so `UpdateRead` and `UpdateWrite` are two steps and the second puts an
old copy of the whole row back. A search reads the
assets (`SearchStart`), visits them (`SearchSource`), loads the row (`SearchLoad`)
and commits (`SearchCommit`); SQLAlchemy writes only columns that differ from the
loaded value, which is why the status is compared with `seen`. An erasure loads
row, plan and assets (`EraseStart`), treats each location (`EraseSource`,
`EraseError`, `LeaveToOperator`) and ends with one transaction (`EraseCommit`).
Celery acknowledges late: `Ack` comes after the task has returned or failed;
`WorkerCrash` requeues; `Redeliver` is the visibility timeout of the Redis
transport (one hour, a default the code does not override) passing before the
hard time limit of a task (65 minutes).

Abstractions: the order of the queue (several processes serve it, so any order of
completion occurs); `access` stands for the four types that are handled alike;
notes, assignees, response data, e-mail addresses and audit rows are left out;
no record of the principal is added while a request runs. A connector deletes
`max_deletes` rows at most (`postgresql_connector.py:171`, `mysql_connector.py:209`):
`EraseSource` may leave records behind, and the source is reported as erased all the
same.

### Runs

| Run | Shows |
|---|---|
| `rights_gate` | two handlers at a time, two sources of which one is erasable, a task that raises: types, `ErasureTaskApproved`, `ErasureGated` |
| `rights_faults` | two workers, two faults of any kind (handler, worker loss, redelivery, a task that raises), schema widened by the missing alert type: `ReportTruthful`, `DeletionsRecorded`, `AckedServed`, refinement of `ErasureGate` |
| `rights_live` | fair workers, one fault: `SearchServed`, `ErasureServed` |
| `rights_unrecorded` | violated: under the schema of the migrations no erasure is ever recorded |
| `rights_unauthorised` | violated: a late search replaces the approved plan |
| `rights_overwritten` | violated: an update with an empty body takes back what others stored since its read |

Bounds. `Tasks` bounds the dispatches: two allow a search and an erasure or two
erasures of one request, three (`rights_unauthorised`) a search, a second search and an
erasure. Two handlers are two approvals at a time, or one beside an empty update; with
one, an empty update still overlaps searches and erasures. Two workers run one message
twice. `MaxFaults` and `FaultKinds` bound the faults. Requests do not interact except
through the pool of workers, so one request is enough for the safety properties; the
theorems hold for any number. `OperatorStatuses` are the statuses operators write:
`pending_approval` opens the gate without a search, `completed` closes the request.

What the properties allow for is written in them. A task that raises is acknowledged
and never retried (`max_retries` is set, but no task calls `retry`), so what it was to
store is lost: `failed`. An empty update may take any mark back: `undone`. No other way
is left in which a deletion stays without a report, a message leaves the broker without
its effect, or records go without a gate having been passed. `ReportTruthful` says of a
source reported as erased that records were deleted there, not that none are left (the
cap). It also bears with a run that is lost between its deletions and its commit: the
next run finds nothing and reports nothing deleted, which is what it deleted.

Fairness: weak fairness of each worker's own steps (a worker process polls until
it is stopped; Celery restarts it) and of each handler's remaining steps (the
server runs a handler to its end). Operators, asset changes and faults have none.

### What the violations say

Each is listed under `findings` with the sentence of the code it contradicts. The
first is the gravest: `execute_erasure` inserts an alert of a type the `CHECK` of
`alerts` does not admit, after the deletions are committed in the tenant's stores.

`rights_overwritten` is `PATCH /rights/:id` with the body `{}`: it passes the
validation, and its stale copy of the row clears `approved_at` (the erasure that was
dispatched is then refused, acknowledged and lost) or `fulfillment_result`.

Sentences of the console's docs that the model contradicts without a run of their own:
"it never deletes data itself" (`frontend/components/docs/content/rights.tsx:92-97`),
while `execute_erasure` deletes in the tenant's stores; and "capped, … recorded per
source" (`rights.tsx:77-82`), while a source that reached the cap is recorded as erased
like one that was emptied.

Two more behaviours are worth knowing, though no sentence rules them out. `Approve`
commits before it pushes the task (`rights_service.go:253`): when the push fails, the
request stays approved without a task, and a second call is refused because it is no
longer pending. And the writes of `Verify` and of a search rest on a status read before,
so a request that was closed meanwhile opens again.

### Proofs

`RightsFulfillmentProofs` proves for all values of the constants, from the four
named assumptions of `RightsFulfillment`:

* `TypeCorrect`: `Spec => []TypeOK`
* `DeletionGated`: `Spec => []ErasureGated`
* `ErasureNeverRefused`: `Spec => []ErasureTaskApproved`
* `GateRefined`: `Spec => ImplementsGate`

`ErasureGated` is not inductive: that a row is verified, discovered and approved
when records go depends on what handlers and workers have read before, and an empty
update may have taken it back since. The invariant `IInv` speaks of marks that were
*passed* (in the row, or in `undone`): a handler past `ApproveRead` concerns an existing
erasure request that passed verification; an erasure task that was sent, and a worker
that runs it, one that passed approval and verification; a plan that is not empty was
built by a search, so a worker with something to erase concerns a request that passed
discovery; a copy of a row that an update holds is one the row had, so that what it
lacks is counted in `undone` when it is written (`Copied`); the type of a request never
changes. Each action preserves `IInv` by a lemma of its own; frame lemmas say which
parts a change of one row, handler, worker or task can disturb. The refinement follows
from `IInv` and `[Next]_vars`: three actions map to a step of the gate, all others to
stuttering.

`RightsReportProofs` goes on from there, with any faults and any schema:

* `ReportsTrue`: `Spec => []ReportTruthful`;
* `DeletionsGetRecorded`: `Spec => []DeletionsRecorded`;
* `MessagesServed`: `Spec => []AckedServed`: an acknowledged search has stored its
  discovery, an acknowledged erasure its result, or a run of it raised, or an empty
  update took the effect or the approval back.

For the first, the outcome a worker holds must be true when it is stored, of the row and
of every copy of it that an update may write back. For the others, the invariant says
who will write the report: a request whose records were removed is reported already, or
a task for it is still queued or running (`Waiting`); a worker about to acknowledge has
its effect in the row, or its task is in `failed`, or the approval was taken back
(`Finished`). Lost workers and redelivery keep that, because the acknowledgement comes
after the commit.

Only model-checked: the two liveness properties.

## 4. Policies and gateway rules

`PolicyProjection` follows one policy: every statement names its policy by key.
`VersionLog` is what the versions promise: a log that only grows, and rules in force that
are always one of its entries. `ImplementsVersions` maps it: the log is the table of
snapshots as a sequence (`History`), `current` and `inForce` are the version and the rules
of the policy's row. `MCPolicyProjection` holds the bodies of requests for TLC,
`PolicyProjectionProofs` the theorems.

| TLA+ | Code |
|---|---|
| `policy` | row of `policies`: status, enforcement mode, rules, version |
| `snapshots` | `policy_versions`, by version |
| `rule` | rows of `gateway_rules` with this `policy_id`: unused id, live, gone |
| `session` | one control-plane request and its locals |
| `lock` | the row lock that the first UPDATE of a transaction takes and holds to COMMIT |
| `writer` | history: whether the last write to the rules rested on a current read, a stale one, or came from the gateway API |

`Create`, `Delete` and `ApplyTemplate` are one transaction each. `Update`,
`SetStatus` and `Rollback` read the policy first (`Read`) and write it in a
transaction later: `LockPolicy` is the UPDATE and the INSERT of the snapshot,
`VersionConflict` its refusal by `UNIQUE (policy_id, version)`, `FindRule` the
SELECT and `Project` the INSERT or UPDATE of the rule with COMMIT; `Abort` is a
rollback for any reason. `Written` is what the UPDATE leaves in the row and
`Merged` the struct that is projected: they differ when the read was stale, and
an UPDATE without any `Set` writes the whole struct. The rule operations of
`gateway_service.go` (`CreateRule`, `RuleRead`, `RuleWrite`, `ToggleRule`,
`DeleteRule`) act on the same rows without that lock.

A document stands for what it says (data types, direction, masks) apart from its
`action.type`, which `DslAction` gives, because only the action is converted:
through `gatewayValidActions` and the `CHECK` of the table.

| Run | Shows |
|---|---|
| `projection_history` | two sessions, three versions: types, `HistoryComplete`, `SingleRule`, `SnapshotsImmutable`, `ImplementsVersions`; without the gateway API, which can create a second rule |
| `projection_rule` | two versions, the gateway API, and a document whose action (`encrypt`) `gatewayValidActions` admits but the `CHECK` refuses, so that the transaction rolls back: `FreshProjection` |

The documentation says that a policy "automatically creates and keeps a linked gateway
rule in sync" (`frontend/components/docs/content/policies.tsx:149`). Three behaviours say
otherwise; `FreshProjection` and `HistoryComplete` are stated so as to say what holds all
the same, the first by naming the last writer. An update that
read its policy before it was switched off or deleted projects what it read: the
gateway rule becomes active again although the policy is not. And a body that sets
no column writes the whole stale struct, so the row takes a version that is behind
the newest snapshot: from then on every change of the rules computes a version that is
taken and is refused. And the gateway's API writes the same rules without the lock: it
may change a projected rule, or delete one that an update has just found, whose UPDATE
then affects no row and leaves the policy without a rule (`policy_service.go:428`).
`FreshProjection` speaks of none of the three: it says what a projection from a current
read leaves behind. (Versions are written when the rules change, although migration
`000006` says they are on every policy change.)

Bounds: two sessions are enough for one stale read and one write in between; two
rule ids for a second rule to appear, three in `projection_history`, where the
first may be deleted before two updates insert; three versions for two updates of
which one conflicts. The bodies cover each group of columns and the empty one.

Proofs. For all constants: `TypeCorrect`, `HistoryRecorded`, `SnapshotsKept`,
`ProjectionFresh`, `VersionsRefined`, and `OneRule` when the gateway API creates no rule
for the policy. The invariant `IInv` says what the lock is good for: a session is in its
transaction exactly while it holds the lock (`LockOK`); an update has read a row whose
version and rules the history knows (`SeenOK`); behind the UNIQUE check its version
stays free (`FreeOK`); the snapshots are an interval from 1 (`HistoryOK`). `OneRule` and
`ProjectionFresh` add an invariant each about what the session that holds the lock has
found. `VersionsRefined` needs no more than `IInv`: by `HistoryOK` the snapshots are a
sequence, so `Create` and the INSERT of `LockPolicy` append to it; an update without a
new version writes rules and version together, as it read them, and by `SeenOK` they are
an entry of the log; every other action stutters.

## 5. The gateway's policy cache

`PolicyCache` models the rules of one tenant (each has a Redis key and a map entry
of its own): the control plane's version, the memory of each gateway, the Redis
entry they share, and the processes that read and fill them.

| TLA+ | Code |
|---|---|
| `rules`, `replaced` | version of the active rules and, as history, when each was replaced |
| `mem`, `redis` | `PolicyLoader.cache`; the key `gateway:rules:<tenant>` with its expiry |
| `proc` | a request in `GetRules` or `InvalidateCache`, or a `syncLoop`, and what it has read |

`MissMemory`, `ReadRedis`, `ServeRedis` are the paths of `GetRules`; `Ask`,
`Answer`, `AskFails`, `StoreMemory`, `StoreRedis` those of `fetchAndCache`, which
`syncLoop` runs too; `DropMemory` and `DropRedis` are `InvalidateCache`. `RedisLost`
and `Restart` are faults. `syncLoop` may fetch at any time instead of on its tick,
which allows more interleavings than the code.

| Run | Shows |
|---|---|
| `cache_staleness` | two gateways that share one Redis key, a request, both syncLoops, faults: types, `BoundedStaleness` |

`BoundedStaleness` gives the bound that the code really keeps: `2 * (Interval +
MaxDelay)`. `MaxDelay` is the longest time from asking to the last store, which
the timeouts bound (10 s for HTTP, 3 s for Redis); `Tick` waits for it. With an
interval and a delay of one tick, five ticks let an entry be fetched, stored, expire
in memory, come back from Redis at the other gateway and expire there again, and one
change of the rules is enough to make it stale. No stronger promise holds:
`InvalidateCache` drops memory and Redis in two steps, and a fetch that overlaps it
puts the old rules back, where they stay until they age out.

Proofs. `TypeCorrect` and `StalenessBounded`, for all constants. `IInv` relates
every time in the caches and in the locals of a process to the time at which its
version was replaced: an entry is at most `MaxDelay` younger than that, and its
key expires two intervals later. The steps that need it are `Change`, which
moves `replaced`, and the stores.

No liveness is stated for either module: a policy is projected in the
transaction that changes it, and the age of the cache is bounded by time, not by
progress.

## 6. From the gateways to the live feed

`EventFeed` follows the audit events of one tenant. The gateways append them to a
batch and insert the batches into `gateway_events`; the control plane polls the table
for each open stream; the page lists what it receives after a history that it loads
once. `EventLog` says what the writers promise together: an event is held from its
writing until it is stored or dropped, once and for good. Its `held` is what lies in the
batches and flushes of all gateways.

| TLA+ | Code |
|---|---|
| `proc`, `batch`, `taking` | a gateway process; `w.batch`; `toWrite` of the flush under way |
| `table`, `lost` | `gateway_events`; history: what will never be there |
| `phase`, `since`, `wire` | the page's connection; the cursor of `StreamEvents`; events sent and not read |
| `seed` | the request for the newest events |
| `shown`, `seen` | the list and the set of ids of `use-gateway-stream.ts` |

`Write`, `Take`, `Insert`, `InsertFails` are a handler's call and the two halves of
`flush`: the batch leaves the lock before it is inserted, so writing goes on
meanwhile. `Stop`, `FinalTake`, `Exit` are the shutdown; `Crash` and `Start` end and
begin a process. `Connect`, `Poll`, `Break` are the stream; `GoLive`, `Pause`,
`Remount` the user; `Receive` and `SeedArrive` are `pushEvents` for the two sources.

Abstractions. An event is its timestamp, and the clock ticks with each. `Second` is
larger than a tick because the driver hands the cursor to the query in whole seconds:
every poll sends again what is of the last second, which the page has to drop.
Stamping an event and appending it are one step. `Take` is enabled whenever there is
something to take, which covers the tick and the signal of a full batch. A row that
the driver refuses drops the whole batch, like a failed insert. A handler that
outlives the 30 s of the shutdown counts as a fault.

| Run | Shows |
|---|---|
| `feed_events` | two gateways, three events, one fault, and a stream that polls, breaks and is opened again while the history comes: types, `NothingLost`, `InsertedOnce`, `ListedOnce`, `ImplementsLog`, `Recorded`, `Delivered` |

Bounds. Lists, pages and memories of two events are full after two and cut at the
third, so three events reach every limit. `MaxWire` bounds what is on its way
when the stream polls again. One fault is enough to lose a batch or a process.

Fairness: flushes come every 2 s and at the end; an insert gives up after 10 s; a
process that is closing ends; an open stream polls every 2 s and the browser reads
what arrives. Users, faults and the end of a connection have none.

Proofs, for any number of gateways and any sizes: `TypeCorrect`, `NothingIsLost`,
`InsertedAtMostOnce`, `EachListedOnce`, `LogRefined`. The writers' invariant `WInv` says
that an event is in one place at a time (`Apart`: no two gateways, no batch and flush,
no memory and table hold it twice) and that after the last flush, or when the process is
down, nothing is left in a batch unless a fault was met (`Drained`). For the refinement
`LogInv` adds that what is lost is in no memory any more; with `Apart`, what one
gateway's flush or end gives up is then gone from the memory of all. The page's
invariant is that list and memory agree. `Recorded` and `Delivered` are model-checked
only.

What the feed does not promise, although "The Gateway live feed streams every decision"
(`frontend/components/docs/content/gateway.tsx:207`): the cursor moves to the newest event of a poll, so
what another gateway flushes later with an older timestamp, and all but the newest 50
of one poll, are never streamed; a connection ends after the server's write timeout of
30 s, and the next one starts from now; the history is appended below events
that may be older. `Delivered` says what is left of the sentence: while the stream is
open, an event in the table that the cursor has not passed reaches the list itself, unless
the connection ends first or as many newer ones as a poll returns are in the table by then. The table is the record, the feed a view of recent traffic.

## 7. What a page of the console shows

`QueryCache` is React Query as the console uses it, and `ConsolePages` the console:
which API function reads or changes which tables, the key and polling of every query,
the mutations with what their `onSuccess` invalidates, and which page or panel shows
and offers what. `MCConsole` joins the two.

| TLA+ | Code |
|---|---|
| `watched` | the one query a behaviour follows: keys do not influence each other |
| `page`, `shown` | the page open; is the query mounted (a dialog, a tab, a filter) |
| `server` | what the API would answer: a version, and whether a job is unfinished |
| `copies` (of a panel) | the queries of which it shows one row that it holds in `useState` |
| `entry` | the cached answer with its flags: fresh (`staleTime`), invalid, error |
| `fetch` | the request that is out, and whether it is the one retry |
| `calls` | mutations in flight: sent, committed by the server, settled |
| `own` | history: the newest of the user's own confirmed changes |
| `late` | history: a change was confirmed while the request was out, and it went on |

`Serve`, `Arrive`, `Retry`, `FetchFails`, `Refetch`, `Poll`, `Age`, `Collect` are the
life of the query; `Call`, `Commit`, `CallFails`, `Settle` that of a mutation (`Settle`
is `onSuccess`, which runs although its page may be gone); `Open`, `Turn`, `Reload` are
the user; `Elsewhere` and `Finish` everybody else. An answer takes two steps, so that
changes and answers cross.

`ReadYourWrites` is what the invalidations are for: a page at rest shows the user's own
confirmed changes. It has four exceptions, each by name: the last read failed; `late`
(`invalidateQueries` cancels a request only if there is data to go on showing, so the
answer of a first load may be older than a change confirmed meanwhile); the pairs of
`LeftStale`, which `MCConsole` lists: figures that no mutation invalidates, and lists
that a mutation of another page leaves to `staleTime`; and a dialog that shows its own copy
of a row. That every other mutation invalidates or reads again each query it changes is
the assumption `CoverAssumption` (`Covered`) of `QueryCache`, which TLC evaluates for the
console's tables; `LeftStale` therefore lists where the console may show old rows for up to
its `staleTime`, the hazards of breaches and assets included. It does so by table: that a
mutation writes a table and a query reads it says nothing of the row, so a pair such as
`createBreach` and the query of one `breach` is there although the new row is another.

Four dialogs that change something hold a copy of the row they were opened with. Three close when their own
change is confirmed. The dialog of a rights request does not after `update`, `verify` and
`approve` (`frontend/app/dashboard/rights/page.tsx:146`, `:344`, `:457`, `:491`): the list behind
it is read again, and the dialog goes on saying "Not verified". `CopyAssumption` of
`ConsolePages` states that these three are all such cases.

| Run | Shows |
|---|---|
| `console_pages` | every query of the console with every page and mutation that touches it: types, `ReadYourWrites`, `NoEndlessSpinner`, and for those that poll `PollCatchesUp` and `JobsShownFinished` |

Bounds. Two changes and two mutations in flight let an older and a newer one overlap;
one fault is a failed request or a reload at any time. The mutations of one
page that have equal entries stand for one another (`ThinPage`), and the pages that
neither show nor touch the watched query are two (`NeutralPages`).

Fairness: requests are answered (the axios instance gives up after 30 s), timers fire
while a page is visible, and the workers end their jobs. Left out are a request that is
denied while an exchange of tokens stays unanswered (section 8), and React Query's pause
while the browser is offline. `PollCatchesUp` and `JobsShownFinished`
assume that the query stays on screen; nothing is promised for a hidden one.

Proofs, for any tables with `Covered` and any number of mutations: `TypeCorrect`,
`OwnChangesShown` (`ReadYourWrites`) and `SpinnerEnds` (`NoEndlessSpinner`). Beside the
types of the tables `Covered` is the only assumption. `IInv` relates the user's newest
confirmed change to each place where an older answer may be: a call has a version the
server has reached (`GoodCall`); an answer under way is as new as `own`, or `late`
(`GoodAnswer`); so is the entry, or it is marked invalid (`GoodEntry`); and a marked
entry that is shown is being read (`MarkedIsRead`).

Abstractions. The signed-in user is an owner, so every button is there and the server
refuses nothing for a role. The parts of a key that vary stand for one value. Drafts
of forms and other `useState` are not modelled, apart from the copies above. The data flows
of an asset are a placeholder that reads no table (`asset_service.go:269`).

## 8. The console's session

`ConsoleSession` models the tabs of one browser: two cookies that they share, and in
each tab the interceptor that answers a 401 by exchanging the refresh token, once for
all requests that were denied, and sending them again.

| TLA+ | Code |
|---|---|
| `cookie` | `accessToken`, `refreshToken`; a pair of tokens is the number of its issue |
| `spent`, `expired` | server: who exchanged a refresh token; which access tokens ran out |
| `page`, `exchange` | per tab: `/login` or the console; the promise `refreshing` |
| `req` | a request: sent, denied, waiting for the exchange, and `_retry` |

`SignIn`, `Open`, `Reload`, `SignOut` are the user; `Ask`, `Answer`, `Reject`,
`TryRefresh`, `NothingToRefresh` a request and its interceptor; `Check` and `Issue`
the two statements of `RefreshTokens` on the server; `Refreshed` and `NotRefreshed` the
tab's continuation; `ForceLogout` loads `/login`, which does nothing when the page is
there already; `Expire` and `CookieExpires` are time.

| Run | Shows |
|---|---|
| `session_refresh` | two tabs, three requests, two expiries, signing in and out, an exchange that fails or a reload: types, `NoOwnReuse`, `SpentTokenLeaves`, `WaitersServed`, `ExchangeAwaited`, `Settles` |

Bounds. Two requests of one tab are needed for one exchange to be shared, a second tab
for the cookie to change meanwhile; two moves let a user sign in and out, or in
again, around an exchange; two expiries make the new pair run out as well.

Fairness: a request is answered or fails (the axios instance's timeout of 30 s,
`api-client.ts:51`), and the interceptor handles a denied one. Nothing is assumed of an
exchange: it is posted by the global `axios` (`api-client.ts:99`), which has no timeout. So
`Settles` is conditional: in a tab whose exchanges all come to an end, every request does.
An exchange that is never answered leaves every denied request of its page waiting until
the page is reloaded. Users, faults and the clock have no fairness either.

Proofs, for any number of tabs and requests: `TypeCorrect`, `TokensPostedOnce`
(`NoOwnReuse`), `SpentTokensLeave` (`SpentTokenLeaves`), `NoneLeftWaiting`
(`WaitersServed`) and `ExchangesAwaited`. `NoOwnReuse` needs that the cookie holds a
token the page has spent only until its continuation runs: `IInv` adds that the tokens
in cookies and exchanges were issued (`Known`), that a pair just issued to a page is
unspent and known to that page alone (`Fresh`), and `SpentTokenLeaves`: a token in the
cookie that a page has spent is about to be replaced or removed. `WaitersServed` and
`ExchangeAwaited` are the safety half of `Settles`: a request waits only for an exchange
under way, and an exchange has a request waiting. `Settles` itself is model-checked
only.

What it does not promise: the promise is per page, although the comment at
`api-client.ts:93` calls it a "Deduplicated refresh-token exchange". Two tabs may read
one token from the cookie; the second exchange is refused, and its `forceLogout`
(`api-client.ts:121`) removes the cookies the first has just set. When both pass the
server's read of the token before either writes, one token even yields two pairs. A page
that is reloaded during its exchange leaves the spent token in the cookie, which
`SpentTokenLeaves` does not count because that page is gone; and a user who signs out
during an exchange has the cookies set again by its continuation.

Left out: requests to `/auth/`, which are never sent again; the revocation of a family,
which reaches nothing here because every pair starts a family of its own; `/auth/logout`,
which is posted without a token and revokes nothing; the session of the admin console.

## 9. Not modelled

Every component with status `not_modelled` in `PROJECT.json`, with the reason there.
Two kinds: the components of the list in section 2, which have state and hazards of
their own and would each be a module like the ones above; and presentation, read-only
queries, cryptography, connectors, deployment and start-up, which keep no state
that a step of another actor can disturb. Of the components that are modelled, what is
left out is named in their sections.
