# A TLA+ verification of ProxyHarbor

ProxyHarbor hands out *leases* on upstream proxies. A client creates a lease over
HTTP, gets a password once, connects through the gateway with lease ID and
password, renews or revokes the lease. Several identical instances run behind a
load balancer over one MySQL database and one Redis. This directory models the
parts where instances, goroutines, SQL statements and Redis commands interleave.
Paths below are relative to the repository.

Run a model with `tlc -config <cfg> <module>` as listed under *Runs*; check the proofs
with `tlapm` on the modules named `...Proofs` and on `FiniteFolds`, on which they rest.

## 1. Inventory

| Component | Code | State | Operations | Module |
|---|---|---|---|---|
| Lease rows | `internal/storage/mysql.go`, `internal/control/service.go` | `proxy_leases` | CreateLease (INSERT, replay on duplicate), RenewLease (SELECT, conditional UPDATE, classify), RevokeLease (UPDATE, confirm), delete of expired rows | `LeaseStore` |
| SQLite and memory stores | `internal/storage/sqlite.go`, `memory.go` | the rows in a file or in maps, idempotency keys | the same, under one connection or one mutex | `LeaseDrivers`, `ProxyHealth`, `Ledger` |
| Lease caches, validation | `service.go`, `internal/cache/redis.go`, `internal/auth/invalidator.go` | Redis lease key, Redis truth key, truth map and invalidation version of each instance, pub/sub messages | ValidateLease with two fast paths, fill, stamp, share, InvalidateLease, subscriber | `LeaseService` |
| Tenant keys, authentication | `internal/auth/cache.go`, `store.go`, `internal/server/admin_store_mysql.go` | tenants, `tenant_keys`, version row; copy and its version on each instance | admin transactions, initial load, refresh from poll loop and subscriber, who may act for whom | `AuthCache` |
| Default policy and selectable proxies | `service.go` | one entry, epoch, in-flight call each | lookup, begin, finish, clear; catalog writes | `HotRead` |
| Host safety cache | `service.go` | unsafe hosts, in-flight lookups | coalesced DNS lookup with retry | `HostSafety` |
| Proxy selection | `internal/control/selector/` | weighted round-robin credit; Redis nodes and sorted sets | sync, script, seed, fallback; local pick | `Selection` |
| Proxy health | `internal/control/health/`, the stores, `gateway.go` | bounded queue; counters and circuit of a row | enqueue (drops the oldest), coalesce, flush, close; RecordProxyOutcome | `ProxyHealth` |
| Catalog rows | `mysql.go`, `service.go` | providers, proxies, policies | upsert, update, delete, UpdateProxyHealth | partly: `ProxyHealth`, `HotRead` |
| Usage and audit events, retention | `server.go`, `gateway.go`, the stores, `cmd/proxyharbor/ops.go` | two tables | append a batch, delete the old | `Ledger` |
| Cluster and maintenance leader | `internal/cluster/runner.go`, `mysql.go` | `cluster_locks`, `instances` | TryAcquireLock, maintenance batch, heartbeat | `ClusterLock` |
| Process life cycle, readiness, tunnels | `cmd/proxyharbor/main.go`, `internal/server/server.go`, `gateway.go` | phase, budget, result; requests, tunnels, tasks; recorder | start, drain, four phases of shutdown, signals | `Process` |
| Operations commands, SQLite files | `cmd/proxyharbor/ops.go`, `sqlite.go`, `migrations.go` | database, journal, backup, metadata, temporary file | backup, restore, doctor, kill | `SQLiteFiles` |
| Go SDK | `sdks/go/proxyharbor/` | cached leases, a mutex per key | GetProxy, ForceNew, Release, retries | `ClientLease` |
| Configuration, metrics, load tools | `internal/config`, `internal/metrics`, `tools/` | counters | none that other parts read | not modelled |

How they interact: the SDK calls the HTTP API; a create asks `HotRead`, `HostSafety`
and `Selection` what to write and writes a lease row; a gateway request validates
the lease over the caches, opens a tunnel and reports an outcome, usage and audit
events. Instances share MySQL, Redis keys and Redis messages, and nothing else.

What is hard, and what makes each component correct:

* **Lease rows.** Every handler is several SQL statements without a transaction.
  Correct: a dead lease stays dead, no renewal is lost or overwrites another, one
  caller per lease is shown a password, the answer of a revoke is true, and all three
  stores keep one and the same promise.
* **Lease caches.** Four places hold an image of a row and none is written
  atomically with it; Redis commands fail, messages are lost, instances die.
  Correct: a write that has settled is seen, a revoked lease is accepted for less
  than a bounded time, whatever fails.
* **Tenant keys.** Two goroutines refresh one copy in three steps while admins
  commit; a counter alone decides whether rows are read. Correct: the counter tells
  the truth, the copy never goes back, nobody acts with a revoked key for ever.
* **Policy and proxy cache.** Readers share a read that a write may overtake.
  Correct: read your writes, staleness below a TTL, everybody is answered.
* **Host safety.** Checks share lookups whose owner may be canceled. Correct: safe
  means looked up just now, unsafe has a cause, every check ends.
* **Selection.** Two Lua scripts, a sync before them, a seeding after them, several
  instances with different clocks and candidates. Correct: no create with an eligible
  proxy is refused, nobody pays twice, instances share out by weight.
* **Health.** Bounded queue drained by two goroutines, retries of a write that may
  have committed, circuit arithmetic in SQL, three times. Correct: coalescing changes
  no outcome, an outcome counts a bounded number of times, Close returns and leaves
  nothing in the queue, a failing proxy is skipped and then tried again.
* **Events.** Batches are sent again, two attempts run side by side, any statement
  fails. Correct: a batch is written whole, an event counts once.
* **Leader.** A lock with a TTL, no fencing, and clocks that differ. Correct: two
  leaders only when one outlasts its lease; every expired row is deleted.
* **Shutdown.** Everything may hang, and the gateway's work is canceled. Correct: it ends
  in time, and says "graceful" only if all that was under way had ended, or had been
  aborted and accounted for, before the process; the load balancer stops sending before
  the listener closes.
* **SQLite files.** A kill at any point of a transaction, a backup or a restore.
  Correct: the next server finds the last state that counts.
* **SDK.** Retries with one key, a cached lease that is renewed and released at the
  same time, over a server that may grant less at every renewal. Correct: the cache is at
  most a renewal behind the server, a released lease is dead there, no create is sent in
  vain, every call returns.

`PROJECT.json` lists each hazard at its line, with the properties that cover it or
the reason why none does.

## 2. Plan

The order was: lease rows (`LeaseStore`), the caches over them (`LeaseService`), tenant
keys (`AuthCache`), what a create reads (`HotRead`), health (`ProxyHealth`); then the
abstract register, the three stores that implement it and the SDK that relies on it
(`LeaseRegister`, `LeaseDrivers`, `ClientLease`); then `Selection` and `HostSafety`; then
what surrounds the requests (`Process`, `ClusterLock`, `SQLiteFiles`) and `Ledger`. All of
these are done, and every safety property that a run checks is proved. Left: catalog writes
of providers and proxies against a selection under way.

## 3. Modules and the code

### LeaseStore
`row` is `proxy_leases` reduced to generation, expiry, revocation, password hash and
the creating call. A request is one HTTP call; its `pc` says between which two
statements it is. Each statement is an action: `CreateBegin`, `CreateInsert`,
`CreateDuplicate`, `CreateReplay`; `RenewRead`, `RenewRefused`, `RenewNoPolicy`,
`RenewWrite`, `RenewConflict`, `RenewClassify`; `RevokeUpdate`, `RevokeMiss`,
`RevokeConfirm`. `AnswerWrite` lets a committed write go unanswered, `Abandon` stops
a handler between statements. `DeleteExpiredLeasesBatch` is the maintenance job; it
may take any part of the expired rows, as a `LIMIT` does, and comes from anybody at any
time, so that nothing here rests on the election of a leader. A lease ID is a hash of
the idempotency scope, so creates of one lease have one key. `KeyReuse = FALSE` says
that nobody creates again under a key whose row has been deleted; the SDK draws a
fresh key per create (`sdks/go/proxyharbor/leases.go`). Resource, subject and proxy
are fixed by the create that drew the password and are identified with it.

### LeaseRegister, LeaseDrivers
`LeaseRegister` is what `storage.Store` promises of leases: granted once, prolonged while
they live, revoked for good, forgotten when their time is over, each in one step.
`LeaseDrivers` has the three stores behind it: `mysql` are the statements of
`LeaseStore`; `sqlite` the same but for a transaction around the create and a table of
idempotency keys; `memory` one step per call under its mutex. `KeepsThePromise` is the
refinement: `INSTANCE LeaseRegister WITH lease <- ...` maps a row to a lease and every
other statement to a stutter.

### LeaseService
Adds to the requests of `LeaseStore` what they do to the caches. `cached` and
`truth` are the two Redis keys, `local` the `validateTruth` map, `leaseVer` the
per-process invalidation version, `inbox` and `handler` the subscriber. A validation
runs `Begin`, `Lookup`, `ConfirmLocal`, `ReadCache`, `ConfirmCached`, `ReadStore`,
`Fill`, `CheckVersion`, `StampTruth`, `ShareTruth`, `Judge`; a write that was answered
runs `BumpVersion`, `Forget`, `Announce`, `DropLocal`, `DropShared`. A create that was
answered fills and stamps as a validation does, but without comparing versions
(`service.go:234-237`). A `site`, chosen in
the initial state, says which requests there are, how long leases and entries live, who
is subscribed, whether Redis commands fail and handlers stop (`faulty`), and who may
restart (`mortal`). Entries disappear when the clock passes their TTL. `Patience` is an
assumption: no request lasts more ticks. Identified or left out: create caches a lease
with nanosecond expiry while the column keeps milliseconds, so its fingerprint may
differ from the row's, which costs a store read and nothing else; failures of the store
inside a validation (an error answer); clock skew; the target check before the lookup.

### AuthCache
One action per admin transaction (the message after the commit is part of it: it
reaches any subset of the listeners), `BootRows`/`BootVersion` for the initial load,
`CheckVersion`, `LoadRows`, `ApplyRows`, `RefreshFails` for a refresh by one of the two
workers under `refreshMu`. `Authenticated` and `Enabled` are the two checks of a request,
`ActsFor` whom a key may act for, `AdminActsFor` whom the admin key may. Tenant status
`enabled` counts as `active`. Key expiry is left out. A failing version query is a
stutter. `BootRace = FALSE` says that no transaction commits between the two queries of
an initial load; the run `auth_cache_boot_race` drops that assumption.

### HotRead
One model for two caches of the same shape. Contents are numbered in store order;
`Blank` are the contents that are not kept (an empty list). `BeginHit`, `BeginJoin`,
`BeginOwn` are the three outcomes under the mutex, `Finish` is the owner's, `Clear`
starts a new epoch. `WriteElsewhere` is a write this process does not know of. A
panic of the owner is not modelled.

### Selection
`node` are the Redis hashes of the proxies, `ready` and its companion the sorted sets of
a key, `charged` the history of who was picked. `BeginCreate` lists the candidates,
`WriteNode`/`EndSync` are the pipelined sync, `Evaluate` the script (`Adopt`, `Promote`,
`Rebuild`, `Popped`, `Scanned`, `Paid` are its parts), `SeedRead`/`SeedWrite` the second
script around its read, `Fallback` the local selector. `RedisFails` loses a command or its
reply at any of them. `LocalSelect` is `local.go`. Weight, score and latency enter as one
number; there are fewer proxies than `max_promote` and `max_scan`.

### HostSafety
`Kept` and the calls in flight are the two maps under `hostSafetyMu`; `Ask`, `Join`,
`Resolve`, `FinishLookup`, `Wake`, `LeaveQueue`, `End` are the sections between locks.
`ChangeDNS` is the world. Literals and well-known names, judged without a lookup, are
left out.

### ProxyHealth
`row` holds the health columns of the proxies; `MySQLFailure`, `SQLiteFailure`,
`MemoryFailure` and `Success` are the outcome statements of the three stores, which
differ. `BeginRequest` is the check in `ValidateGatewayRequest`, `EndRequest` what a
request or tunnel reports when it ends, with the queue of `RecordProxyResult`. The
flush loop is `LoopTick` (the ticker, and the look at `done`), `LoopDrain`, `LoopDone`,
`LoopStop`; `CloseBegin` sets `closed` and cancels the loop's context in one critical
section, `CloseExpire` is the deadline of the caller, `CloseDrain`/`CloseDone` the last
flush. A writer of either kind goes through its deltas with `Send`, `Commit`, `Reply`;
`Refuse` is a canceled context, `Fail` an error before or after the commit, with the
one retry, and `CommitStray` the database carrying out what its caller has given up.
`UpdateProxy`, `ReadProxy` and `WriteProxy` are the admin's. Cooldowns are ticks that
remain, so that there is no clock. A deployment (driver, proxies, queue length, faults,
admins, number of outcomes) is chosen in the initial state. Left out: latencies,
failure kinds beyond their penalty, deletion of a proxy, proxies of weight 0.

### Ledger
`events` are the two tables by primary key, `job` the transaction each connection has
under way, `answer` what a caller has heard, `sweep` the retention command, `taken` the
history of what it deleted. `BeginAppend`, `InsertEvent`, `CommitAppend`, `AppendFails` are
the calls of MySQL and SQLite statement by statement, with the locks of the rows
(`Blocked`); `MemoryAppend` is one step. `StartRetention`, `DeleteOld`, `CommitRetention`,
`RetentionFails` are `runSQLiteRetention`.

### ClientLease
One key of the SDK: `entry` is its `sync.Map` entry, the mutex its key mutex, `pc` where
a call of `GetProxy`, `ForceNew` or `Release` is, `wire` the requests that the server has
not taken yet. The server is `LeaseRegister`. `Send`, `Retry`, `Cancel` are the HTTP
client with its attempts and its timeout; a request that was given up stays on the wire
and may be executed later. What the server grants is any lifetime from `Shortest` to `Longest`:
a create takes the `TTLSeconds` of its request or the policy's TTL (`service.go:214-219`),
a renewal the policy's TTL as it is by then (`253-262`), which an admin may have lowered.
`renewBefore` is that column of the row, half of the lifetime granted last. So a renewal
may shorten a lease, and a client that lost its answer keeps the longer expiry for a while:
`CacheFollowsServer` says how far the two may be apart, and that they agree on every
generation the client has heard of. The pool and its deduper are left out.

### Process
`main` is where the main goroutine is; `StageDone`/`StageFails` the start,
`StartDraining`, `CloseListener`, `HTTPDone`/`HTTPTimeout`, `WaitForGatewayTunnels`,
`WaitForBackground`, `CloseRecorder` the shutdown with `DrainDelay` and `Budget` as the code
computes them. `conn` are the requests: the API answers one in its handler, the gateway
forwards one (`GoToProxy`, `Forwarded`, `Copied`) or dials and opens a tunnel (`Hijack`). A
CONNECT that was hijacked is no longer `Tracked` by the HTTP server and is `Counted` by the
gateway. `main.go:276` cancels with the closing of the listener all that the gateway is
doing - a forward that waits, a body being copied, a dial, a tunnel (`gateway.go:61-63, 74,
97, 128, 280-290`). From then on (`Canceled`) each of them may end `aborted`, whereupon its
handler returns and the HTTP server has nothing to wait for; "graceful" is reported all the
same. `ResultTellsTheTruth` is what that word means: no request was killed with the
process, each was done, or was the gateway's and aborted before its phase was over; every
task had stopped; no outcome came too late for the recorder. `Flush`/`FlushEnds` are the recorder,
seen from outside; `routed` and `Probe` are a load balancer that asks `/readyz`. The main
goroutine does what it can within the tick; everybody else may take any time.

### ClusterLock
Times are distances from the true clock; `Skew` is how far the clock of an instance is
ahead. `Stamp`, `Upsert`, `ReadBack`, `StampBatch`, `DeleteBatch` are the looks at the
clock and the statements of one `maintain`; `UpsertFails` and `GiveUp` are errors before
or after the commit; an instance may stall anywhere, crash and come back. The heartbeat
is left out: nothing reads its rows back.

### SQLiteFiles
A file is what each of its pages holds. `BeginWrite`, `WritePage`, `Commit`, `Rollback`
are a transaction with a rollback journal, which is what SQLite does when the DSN sets
no `journal_mode`; `PlayBack` is what every opening does with a journal it finds.
`StartBackup`, `EndSnapshot`, `WriteMetadata` and `StartRestore`, `Copy`, `Rename` are the
commands. `Checks` says what the operator looks at before a restore.

### Compositions
`LeaseService` extends `LeaseStore`, `LeaseDrivers` extends it too and instantiates
`LeaseRegister`, `ClientLease` extends `LeaseRegister`. `MCLeaseStore`, `MCCreate` and
`MCProcess` put modules that share no variable into one run: a variable `part`, chosen in
the initial state, says whose steps the behaviour takes. The proofs follow:
`LeaseStoreProofs` is about `LeaseStore` and `LeaseDrivers`, `LeaseServiceProofs` about
`LeaseService`, `CreateProofs` about `HotRead`, `HostSafety` and `Selection`,
`OperationsProofs` about `ClusterLock`, `SQLiteFiles`, `Process` and `Ledger`; `FiniteFolds`
has what several of them need about loops, sums and finite sets.

## 4. Runs

| Run | Question | Result |
|---|---|---|
| `lease_store` | two creates, two renewals, a revoke and maintenance on one row, on each store; do the stores refine the register; batches of events, repeated and side by side, beside a retention command | holds |
| `lease_store_key_reuse` | the same when a key is reused after its row was deleted | `RowKeepsItsPassword` fails: finding |
| `lease_service` | creates, renewals and revokes against validations on the same and another instance, in six sites: racing, expiring, everything failing, messages, messages half applied, slow requests | holds |
| `lease_service_late_revoke` | can a validation put an old truth back across the version that a revoke on its own instance has made, which a test says it must not? | `NoTruthAcrossVersions` fails: finding |
| `auth_cache` | admin transactions against two refreshing goroutines, restarts and lost messages; convergence under fairness | holds |
| `auth_cache_boot_race` | the same when a transaction commits during an initial load | `RevocationConverges` fails: finding |
| `proxy_health` | requests, flush loop, Close, failing and late statements, admin writes, in six deployments of the three stores | holds |
| `proxy_health_skipped` | is a failing proxy only skipped for a while, as the design document says? | fails with SQLite: finding |
| `client_lease` | three concurrent calls on one key while requests are lost, executed late, retried and canceled, and the lifetime granted changes | holds |
| `create_choices` | what a create reads: policy and proxies, host safety, selection shared and local | holds |
| `process` | life of a process, with what the shutdown waits for and what it aborts; election of the leader; files of SQLite | holds |
| `sqlite_restore` | the restore without the operator's look for a journal | `DatabaseIsWhole` fails: finding |

**Bounds.** *Leases:* one lease suffices because rows of different leases share nothing
in `LeaseStore`; in `LeaseService` they share only room in the truth map, whose eviction
is modelled and never adds an entry. Two of each racing request is the least that
shows every conflict (two renewals with one generation, a replay and an insert).
In `lease_store` time and lifetimes let a row expire, be deleted and be recreated
while a slow renewal waits. The horizon of a site of `LeaseService` is 0 for the one with
most requests, and 2 or 3 where leases expire and cache lifetimes have to add up.
*Ledger:* two connections, two usage batches that name the same IDs in opposite orders
(a deadlock of row locks), one of another tenant, one refused, an audit batch with an
event without ID, and a handler. *Keys:* one instance suffices in `AuthCache` because
instances only meet in the store; the theorems cover any number. `MaxVersion` 5 allows
issue, close, reopen and issue around one refresh. *Create:* two readers give an owner
and a waiter, or two owners of different epochs; two instances and three proxies of
weights 1, 2, 3 for the shares, catalogs in which a proxy comes and goes for the sync and,
as often as one likes, for the local selector,
one of the checks that cannot be canceled and two hosts for one place in the cache.
*Health:* two outcomes bring a proxy from its best score to none and open its circuit,
queues of one and two places overflow, and a queue of three with two proxies is the
least that merges across a failure or another proxy. *SDK:* three calls give a holder
of the mutex, a waiter and a Release; two attempts let an answer be lost and the
request be executed late, lifetimes of two and three ticks let a renewal shorten a lease,
and the horizon of a client lets it see an expiry (5 where expiry is an error it must
report, 2 with retries, which bring most states, 3 otherwise). *Process:* one forward, one
tunnel, one task; a request of the API behaves as a forward answered in its handler. A
total of 5 ticks with a drain of 2 leaves 3 for four phases, so that the budget does not
divide and one phase has no time at all; the balancer asks every tick.
*Cluster:* two instances with clocks one tick apart, a lease of two ticks, two rows and
batches of one, one crash. *Files:* two pages make a file torn, three transactions and
two kills hit a server and a command.
Where `CHECK_DEADLOCK FALSE` stands, requests run once and the system may stop.

## 5. Fairness

* `AuthCache`: the poll loop has a ticker for as long as its process lives, so its
  refresh is strongly fair: the subscriber can hold `refreshMu` whenever the ticker
  fires and a query can fail, but not for ever. The initial load is weakly fair.
  The subscriber gets no message for granted.
* `HotRead`, `HostSafety`: weak fairness of a reader's or check's own step: goroutines
  run, and queries and lookups return (they carry contexts with deadlines). Writers and
  new readers need not come.
* `ProxyHealth`: goroutines run, time passes, the caller of Close has a deadline
  (`main.go` gives it one) and a database call returns when its context is over. No
  database is assumed to answer; the memory store is.
* `ClientLease`: a call goes on; what makes it go on when no answer comes is the timeout
  of the HTTP client. The server need never take a request.
* `Process`: the main goroutine runs, time passes, probes are sent. No request, tunnel or
  task need ever end, and no store answer.
* `ClusterLock`: time passes and an instance that is up goes on, for its ticker fires
  again and again; a statement that could succeed again and again does, once
  (`Takes`, `Elected`, `Deletes`, strongly fair).
* `LeaseStore`, `LeaseService`, `LeaseDrivers`, `Ledger`, `Selection` and `SQLiteFiles` state
  safety only.

## 6. What is proved

For every value of the constants, from the assumptions named in each module. Every
theorem rests on an inductive invariant; the names in parentheses below are the parts of
it that the properties do not say themselves.

**What the database keeps** (`LeaseStoreProofs`, `OperationsProofs`).

* Lease rows: `TypeCorrect`, `DeadStaysDeadHolds`, and under `KeyReuse = FALSE`
  `OnePasswordHolds`, `RowKeepsItsPasswordHolds`, `NoSilentOverwriteHolds`,
  `RevokeAnswerCorrect`. `IInv` says what a waiting request knows of the row: a retired
  lease has no row (`RetiredIsGone`), a hash in a row or in a reader's hands comes from a
  create of that lease (`Provenance`, `OwnersAreKnown`), the image of a renewal descends
  from the row it will meet (`RenewsThisRow`), a revoke that asks again asks about a row
  that is revoked or gone (`ConfirmsRevoked`). Without `KeyReuse = FALSE` the third
  fails, which is the finding.
* The three stores: `StoresKeepThePromise`, the refinement of `LeaseRegister`, and
  `DriverTypeCorrect`. Every statement of a store is a step of the register or a stutter;
  it needs the invariant above where a renewal writes what it read before.
* Events: `BatchesAreWhole`, `RowsStayAsTheyAre`. An event that a transaction has behind
  it is staged or in the table (`NothingSkipped`), and what is staged is of an ID that
  the table does not have (`StagedIsNew`), which the row locks guarantee. Assumed: one
  call reports an event, although IDs may collide (`LedgerAssumption`).

**What the caches show** (`LeaseServiceProofs`).

* `ServiceTypeCorrect`, and `ServiceImplementsStore`: what a request does to caches, truths
  and messages adds nothing to what it does to the rows, so that the theorems about
  `LeaseStore` hold of the service, whatever fails, stops or starts again.
* `BoundedStalenessHolds`, in every deployment. A lease is drawn up unrevoked
  (`DrawnUpAlive`); whoever holds an unrevoked image of a row that is revoked by now read it
  before (`CarriedFresh`), a request is not older than `Patience` (`Timely`), the truth it
  leaves behind lives a TTL more (`TruthLives`, `TruthFresh`), and a validation confirmed by
  that truth began before it ran out (`JudgedFresh`): a TTL and two requests together.
* `SettledWriteIsSeenHolds`, where no Redis command fails and no handler stops, under
  `KeyReuse = FALSE`. Rows, the images on their way into the caches and the fingerprints in
  the shared truth are at least as far as what has settled (`RowsSettled`, `SettledFor`,
  `TruthSettled`): a write settles when no older image is on its way, and the last thing it
  does is to drop the shared truth. A local stamp or a cached lease may be older, but only
  the shared truth makes a verdict of them. Messages are not needed for it.

**What a request and a create rely on** (`AuthCacheProofs`, `CreateProofs`).

* Keys: `TypeCorrect`, `VersionTellsTheTruthHolds` (a closed tenant has no unrevoked key,
  so reopening changes nothing), `CopyNeverGoesBackHolds` (at most one worker is past its
  check), `CurrentVersionCurrentKeysHolds` under `BootRace = FALSE` (rows read under a
  version are the keys of that version or the version has moved).
* Policy and proxies: `TypeCorrect`, `ReadYourWritesHolds`, `StaleForLessThanTTLHolds`.
  `Known` relates what an owner has read, the entry and the epoch to the newest answered
  write; `Aged` relates entries and reads to the time they began.
* Hosts: `SafeHostsAreSafe`, `RefusalsHaveACause`, `LookupsAreShared`, `HostTypeCorrect`.
  Whoever waits waits for a check of the same host that is in its lookup (`Coalesced`), a
  lookup is younger than the timeout (`LookupIsYoung`), and an owner says what it was
  answered unless its own end came first (`SoundWhenHeard`).
* Selection: `CreatesAreServed`, `NobodyIsOvercharged`, `SelectionTypeCorrect`. The
  scripts are functions of the three keys. They keep every stored runtime and score, and
  every one that an instance has read and not written back, at or below what the proxy
  has been charged (`Priced`, `PaidFor`); a create under way has candidates (`Asked`), and
  among finitely many of them there is one with the lowest score or the greatest credit.
  Assumed: finitely many proxies, and a quantum that every weight divides.
* The shares: `CreatesAreSharedOut`. While the catalog stays, no circuit is open, Redis
  answers and creates end within the tick they began in, every score and every runtime is
  *equal* to what its proxy was charged and nothing is delayed (`Even`, `Level`); a create
  runs its script when all that it may pick are known, however syncs and scripts of other
  instances come between (`Synced`); so the script charges one that was charged least.
* The local selector: `CreditsAreBounded`, for all weights and for candidates that come
  and go. A bound on each credit is not inductive. What is: *any* set of proxies together
  has at most (n - 1) rounds, and any k of them owe at most k(2n - k - 1)/2 rounds
  (`Balanced`), where n is the number of proxies and a round the sum of all weights. A set
  with the one picked does not gain; one without it has less per proxy than the picked one;
  one that loses an entry has what the rest had. A proxy that waits gains its weight each
  time, which bounds how often (`CreditInv`).

**Health** (`ProxyHealthProofs`). `NothingLeftBehindHolds`: the recorder is closed before
Close drains it, which keeps the queue empty afterwards (`Drained`).
`CountedTwiceAtMost`, `HealthTypeCorrect`: draining mixes up no outcomes
(`CoalesceIsSound`), so that each of them is in one delta of one writer or in the queue;
a failed statement that may yet commit is of an attempt that is over (`Apart`); and the
times an outcome has been counted and may yet be, by statements of the first attempt, are
at most the attempts its writer has behind it (`Tries`). Two goroutines, the retry, the
cancellation by Close and late commits are all in it. `CoalesceIsFaithfulHolds`: writing the
deltas that draining makes leaves each row as writing its outcomes one by one would, with
every store. Both sides are loops of different lengths, compared turn by turn
(`CoalesceInTurn`, `WrittenInTurn`): an outcome that is appended is one more write, and one
that is joined to the last delta of its proxy is a success after a success, which commutes
with the writes to other proxies in between (`WrittenJoined`) and with the cap on the score
(`SuccessTwice`).

**The SDK** (`ClientLeaseProofs`). `PasswordsAreRightOrLost`, `CacheIsBacked`,
`ReleasesHold`, `RevivalsAreRenewals`, `ClientTypeCorrect`, and of every step
`CreatesAreNeeded`. `ClientInv` says of each image, in an entry, in the hands of a call or
in an answer, that the server backs it (`Backed`: the expiry of that generation, and for a later one at
most the difference of lifetimes away) and what is known of its password
(`Right`); which attempts may have been granted (`Grants`); that an entry leaves the map
once (`EntryOnce`), and that a lease which was never renewed is in one entry only
(`CreatedIn`).

**Operations** (`OperationsProofs`).

* Leader: `AtMostOneLeader`, for any number of instances and any skews below `Floor`;
  `LockIsOrdered`, `LockHasTypes`. Of two grants one ended before the other was stamped
  (`GrantsAreOrdered`), the row is the latest of them (`RowIsLatest`), its holder renews
  with a stamp not older than the one it wrote (`RenewsForward`), and nobody stamps ahead
  of its own clock (`OwnClock`).
* Files: `WholeDatabase`, under `Checks = CheckNames`. A journal holds the state that
  counts, and where there is none the database does (`JournalHoldsTruth`); a backup with
  metadata is complete (`MetadataMeansWhole`); a restore has the target to itself
  (`RestoreIsAlone`).
* Process: `GracefulIsTrue`, `ShutdownFitsBudget` (the safety half of `EndsInTime`),
  `DrainRefusesNothing`. As long as the result is good, what a phase has waited for has
  ended, done or aborted (`GracefulSoFar`), and only the gateway's work is aborted; what is
  given away up to a phase adds up to the total (`BudgetAddsUp`, `WithinBudget`); a
  balancer that still sends during the drain has not asked since it began (`Probed`).

**Loops and sums.** `FiniteFolds` has the lemmas about what the loops of the code compute:
the sum of weights, the greatest credit, the deltas of a queue. The library's induction is about
operators, which no prover here can instantiate; a family of subsets of a finite set has
a smallest member, though, and a fold is a function of subsets, so that "a shortest run
that goes wrong" is a value. That gives the existence of a fold (`FoldExists`), its
uniqueness (`FoldsAgree`) and what every turn of it keeps (`FoldStaysIn`). In the same way
a sum over a finite set does not depend on the order (`SumsAgree`), adds over disjoint sets
and over functions (`SumApart`, `SumOfSums`), and is at most the size times a bound
(`SumAtMost`).

Only model-checked: liveness (`RevocationConverges`, `EveryReaderIsAnswered`,
`EveryCheckEnds`, `CloseReturns`, `EveryCallReturns`, `EndsInTime`, `ExpiredIsDeleted`), which
needs ENABLED and is out of the prover's reach. Of `EndsInTime` the bound on the budget is
proved; of `CloseReturns`, what holds once it has returned.

## 7. Findings

1. `lease_store_key_reuse`: the generation is not a sound lock across deletion and
   re-creation of a row. Needs a reused key.
2. `lease_service_late_revoke`: a validation compares the invalidation version
   (`service.go:307`) and then stamps the local map and stores the shared truth without
   looking again. A revoke on the same instance that bumps the version, drops the keys and
   answers in between does not keep it from putting back the truth of the row it read
   before. "truth must not stamp across lease version change" says the test
   (`service_hotpath_test.go:1086`), which moves the version before the comparison only.
   What comes of it lasts less than a truth TTL: `BoundedStaleness` is what holds.
3. `auth_cache_boot_race`: the initial load reads rows before the version, so a
   revoke between the two is missed until the next admin transaction.
4. `proxy_health_skipped`: SQLite marks a proxy unhealthy when its circuit opens. Only
   a success marks it healthy again, and no request may use it: it stays out until an
   admin intervenes. With a MySQL or a memory deployment in `MCQuiet` the property holds.
5. `sqlite_restore`: restore looks for `-wal` and `-shm` files, which the journal mode in
   use never makes, and not for `-journal`: what a killed server left is played back over
   the restored database.

Seen while modelling and left without a run:

* *Health.* Close cancels the flush that is under way, so its outcomes may be lost
  although the deadline of Close is not over and the result is "graceful"
  (`docs/versions/v0.1.3-plan.md:177` waits for the last flush). MySQL evaluates `SET` from
  left to right and opens the circuit one failure before the other stores. `UpdateProxy`
  resets the health columns with MySQL and memory, and not with SQLite. A dial that the
  client cancels is recorded as a failure of the proxy.
* *Shutdown.* `docs/versions/v0.5.3.md:11` says that no new lease is accepted after
  SIGTERM; draining changes `/readyz` and nothing else. The same line and
  `docs/versions/v0.3.0.md:123` wait for the requests under way; the shutdown cancels
  those the gateway forwards or dials for, in the middle of a body if need be, reports
  "graceful", and records a canceled forward or dial as a failure of a proxy that may be
  healthy (`gateway.go:76-80`). A signal during the start exits
  with 1. An error of the listener is lost from the exit code when the HTTP phase times
  out, and shows in the result only.
* *Leader.* `docs/versions/v0.5.3.md:26` has one leader at a time; that holds as long as
  nobody outlasts its lease (`OneLeader`), and the deletion is harmless otherwise.
* *SQLite.* A backup without metadata is accepted; `--doctor` looks for metadata beside
  the target. Two processes that start at once both insert the migration. `retention`
  opens the database without a busy timeout.
* *Events.* The MySQL store swallows errors of audit writes, so that an accepted batch
  and the audit of a key (`docs/versions/v0.1.5.md:20`) may be missing. SQL tables key
  events by ID alone, so equal IDs of two tenants collapse; gateway IDs are timestamps.
  `RunRetentionWorker` is never called: the retention settings have no effect in the
  server.
* *Subscriptions.* A refresh that fails leaves the status "degraded" until the next
  message is applied or the subscription made anew.
* *SDK.* ForceNew with AutoReacquire off returns ErrLeaseExpired; the deduper remembers
  an endpoint before it is inserted.
* *Selection.* A script with an older clock than the one before passes over the proxies
  picked in between, and may come back empty; its instance then puts back scores that it
  read before others were charged, and the fallback charges in the hash what the next
  script overwrites. Charges are lost that way, and instances whose creates are overtaken
  by the clock need not share out by weight: `FairTogether` speaks of creates that are not.
  An instance with fewer candidates deletes nodes of the others.

## 8. Not modelled

Configuration and metrics (parsing and counters: no state others read), the load tools
under `tools/` (clients that measure), HTTP routing and formats, the text of migrations,
heartbeats, the SDK's pool, and the catalog beyond what the caches and the recorder see
of it: its writes are single statements without a rule that two of them could break,
apart from the lost update named in the hazards.
