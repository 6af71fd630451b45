# Formal model of the SibylHub gateway

This directory is a TLA+ development of the parts of SibylHub whose correctness
depends on the order in which things happen. It covers five subsystems of the
AI gateway (`apps/gateway`): the supervisor that keeps the gateway's
configuration in step with etcd, the in-process rate limiter, the Redis store
that several gateways share their limits in, the circuit breaker in front of
Redis, and the delivery of usage records to the control plane.
`PROJECT.json` lists every run, property, mutation, mapped source line, hazard
and theorem; this page says how to read them.

    tlc -workers 2 -config SupervisorManaged.cfg MCConfigSupervisor.tla
    tlc -workers 2 -config RedisRateLimit.cfg  MCRedisRateLimit.tla
    tlapm ConfigSupervisor_history_proofs.tla
    tlapm RedisBreaker_proofs.tla

## 1. The system

SibylHub is a monorepo of several programs. The gateway carries the logic that
is concurrent, distributed and long-lived; the others are mostly request
handlers, tools and generated contracts.

| Part | State it keeps | Operations | Hard behaviours | Correct when | Status |
| --- | --- | --- | --- | --- | --- |
| etcd configuration supervisor (`sibyl-gateway-etcd/supervisor.rs`) | published snapshot, observed rows, last-known-good pins, revision floor, reported revisions, batch in progress | read every prefix, resync, open watches, stage a put or a delete, publish, report, restore, cancel, drain | prefixes read at different moments, merged streams without order, coalescing, refused prefixes, restart | what is served is the observed document or the last good one; a reported revision has been reached; nothing is missed | modelled but for the rejection buffer; checked, proved |
| snapshot cache (`snapshot_cache.rs`) | the file, the committed revision, writes in flight | load, store | detached writes in any order, failed writes, crash | writes of different revisions commit in order and the file explains what was served | modelled, checked, proved |
| etcd provider (`etcd_provider.rs`) | connection | range read, watch | refusal, compaction, end of stream | every write after the read is delivered once, in order per prefix | environment of the supervisor |
| etcd client, loader, keys (`client.rs`, `loader.rs`, `key.rs`) | token, connection | connect, validate | re-authentication | a row is accepted or rejected | abstracted to the documents a build accepts |
| rate limiter, in-process (`sibyl-gateway-ratelimit`) | counters of each key, `in_flight`, reservations | acquire, commit, release, add tokens, peek | threads, stale clock, multi-layer reservations, streams, post-paid tokens | limits hold, refusals are free, slots return | modelled, checked, proved |
| rate limiter, Redis store (`store/redis.rs`) | scripts' counters, members with a TTL, the fallback's counters | the same, over the network | lost replies, late commands, cancelled callers, fail-open, expiry | limits hold across replicas but for documented lapses; an outage leaves nothing behind | one key modelled, checked, proved |
| Redis connection and breaker (`sibyl-gateway-redis`) | deadline, generation, the prober's claim | admit, succeed, fail, probe | concurrent failures, claims that change hands, cancelled callers, tasks that stop | opens at once, closes on fresh evidence, never latches | breaker modelled, checked, proved |
| usage records (`telemetry.rs`, `obs/usage.rs`) | channel, buffer, batch in hand, what is known of the control plane | emit, flush, deliver, retry, drain | lost answers, late requests, full queue, shutdown, upgrade of the control plane | a record is billed in time, and again only if pods mislead the worker; every loss is counted, a shutdown ends | modelled, checked, proved |
| upstream routing, cooldown, health, budget (`sibyl-gateway-proxy`) | cooldowns, in-flight counts, budget cache | choose a target, retry, fall back, refresh | retries racing recoveries, stale budgets | an unhealthy target is rested and tried again | not modelled |
| credential minting (`aad_token_mint.rs`, `token_mint.rs`, `jwt.rs`) | cached tokens | single-flight refresh | refresh racing expiry | never an expired token | not modelled |
| observability sinks (`sibyl-gateway-obs/sink`) | bounded queues, batches | enqueue, flush, retry | full queues, shutdown | loss only where declared | not modelled |
| heartbeat, managed bundle (`sibyl-gateway-server`) | sequence of reports | send, retry | lost answers | the control plane learns the applied revision | not modelled |
| file source, status (`sibyl-gateway-core`) | last accepted file | reload | a bad file | the last accepted one goes on serving | not modelled |
| response caches, guardrails, provider bridges, MCP, A2A, admin API | small or external | per request | mostly data conversion | -- | not modelled |
| backend, CLI, scraper, backoffice, web, packages | databases or none | requests, tools | retries of ingestion | -- | not modelled |

How the parts meet: the control plane writes documents to etcd; the supervisor
turns them into one snapshot that every request loads once; the limits of the
snapshot are the constants of the rate limiter; the revision the supervisor
reports travels with each heartbeat and is what `/status/config` shows. A
request reserves in Redis or, when a call to it fails, in the in-process store;
the call goes through the breaker, whose short circuit is one of the ways it
fails. When the request ends its handler emits a usage record.

## 2. Modules

| Module | What it is |
| --- | --- |
| `LastKnownGood` | abstract specification: what is served for a key, given what was observed of it |
| `ConfigSupervisor` | etcd, the supervisor, the cache file and the process's restarts; its properties and the refinement of `LastKnownGood` |
| `ConfigSupervisor_proofs` | its inductive invariant; theorems about what is served, and the refinement |
| `ConfigSupervisor_history_proofs` | theorems that relate what the supervisor holds and claims to the history of etcd |
| `ConfigSupervisor_cache_proofs` | theorems about the order in which cache writes reach the disk, and what they leave there |
| `AdmissionPolicy` | abstract specification: when a request may enter a bucket of limits, and what it spends |
| `LocalRateLimit`, `LocalRateLimit_proofs` | the limiter, the local store, and the life of a request; its properties and the refinement of `AdmissionPolicy`; theorems |
| `RedisRateLimit`, `RedisRateLimit_proofs` | replicas that share one Redis, with the local store as their fallback; theorems |
| `RedisBreaker`, `RedisBreaker_proofs` | the breaker, its prober and the commands; theorems |
| `UsageLedger` | abstract specification: how often a usage record may be billed, and what may become of it |
| `UsageDelivery` | the handlers, the worker and the control plane's pods; its properties and the refinement of `UsageLedger` |
| `UsageDelivery_proofs` | theorems about losses, ages, bills and the shutdown |
| `UsageDelivery_ledger_proofs` | theorems about the ledger, and how often a record can be billed |
| `MC...` | values of the constants of each for TLC |

Each component module also holds definitions marked `Slip:`, placed before the
definition they would replace. Each is the form that definition would have if
the code had a plausible bug; `PROJECT.json` names, for every checked property,
the slip that breaks it. No action uses them.

### 2.1 ConfigSupervisor

Distinct keys stand for distinct snapshot rows; documents are model values and
a build is the set of documents its loader accepts. `writes` is etcd's history:
the i-th write has revision i. Every key lies under at least one watched
prefix; the others are not the supervisor's business. Correspondence of the
state:

| Variable | Code |
| --- | --- |
| `snapshot`, `state`, `stale`, `revision` | `Supervisor.handle`, `.state`, `.stale_serving`, `.revision` |
| `applied`, `reported` | `WatchStatus.revision` (heartbeats), the revision of `ConfigStatus` (`/status/config`) |
| `readRev`, `loaded`, `next` | locals of `cycle` and `load_all_prefixes`; position of each watch stream |
| `added`, `removed`, `staged`, `stamp`, `dirty`, `batched` | `BatchView`, the staged `SnapshotMutation`s, `apply_stamp`, `Dirty.cache`, the length of the batch |
| `pending`, `committed`, `disk` | spawned cache writes, `SnapshotCache`'s committed revision, the file |
| `upTo`, `lost`, `tied`, and the fields `served` and `upTo` of a file | history, used by properties only: how far each prefix has been read or its watch delivered, whether a cache write has failed, whether the last was spawned beside another of its revision |

| Action | Code |
| --- | --- |
| `ReadPrefix`, `ReadRefused` | one iteration of `load_all_prefixes` |
| `ApplyLoad`, `ReportLoad` | `apply_resync_at` up to the revision; its status, flush and `record_read_revision` |
| `OpenWatches`, `EndCycle` | opening the streams; any error, compaction or end of a stream |
| `StageEvent` (`StageAccepted`, `StageRejected`, `StageDelete`) | one event joins a batch: `stage_put`, `stage_delete` |
| `Publish`, `ReportBatch` | the swap of `apply_events`, then status and cache flush |
| `CommitWrite`, `WriteFails` | `store_encoded` under its lock |
| `Boot`, `Cancel`, `Drained`, `Crash` | start with `restore_from_cache`, shutdown, its drain, a kill |

`main.rs:874-881` is the one place where a gateway builds its supervisor, and it
always watches two prefixes, the environment's and the shared catalog's; so does
every run. Only the catalog is ever refused (`PrefixSource::tolerates`).

The steps are cut where another actor can see the difference: between two
reads of prefixes, between an apply and its report, between two events of a
batch, and between the spawn of a cache write and its commit. Within
`apply_resync_at` the snapshot is stored before the observed rows are replaced;
the two are one step, since the task that runs it is the only writer and
nobody else reads both.

Not modelled here: the rejection and partial-compatibility buffers with their
caps and the served-configuration hash that depends on them;
`WatchEvent::Resync`, which no provider of the repository produces; delays and
the coalescing window, which only decide how many events a batch has. A cache
file that cannot be decoded is treated as none, which is a process that boots
without one.

### 2.2 LocalRateLimit

Keys are rate-limit buckets (an API key, a model, a policy). `Layers[r]` lists
those that apply to request r. The order of checks inside `acquire` is
concurrency, then token windows, then request windows; a refusal at a window
has rolled the windows checked before it and taken back what it counted. The
windows' starts are kept as bucket numbers (`window_start / window_secs`).

| Variable | Code |
| --- | --- |
| `inFlight`, `window`, `count` | `KeyState` |
| `pc`, `first`, `last` | where a request is, and which of its layers' `Reservation`s (or the stream's guard) it holds |
| `billed`, `tokens` | the loop over `post_stream_keys`, the response's tokens |
| `spent`, `wiped` | history: what every window of every counter has been given, never rolled; what of it a stale reading has wiped |

An operation on one key is atomic under that key's mutex. Its clock reading
was taken before the mutex: `Readings` is what it may have read, at most
`MaxLag` seconds old. A reading of an earlier window rolls the counter back, and
the next one rolls it forward from zero: `Wipe` records what the window loses by
it. The limits are stated for what is left (`Standing`), which is the window's all
when no reading is stale.

`reserve_layers` and the commit of the local store never yield, so a request is
cancelled only while it is served or streamed. Not modelled: the routed
dispatch that reserves a target's layer, drops it when the target fails and
reserves the next one's (its layers are reserved once here), ensembles, and
counters that reach 2^64.

### 2.3 RedisRateLimit

Several replicas count one key in one Redis: a window of requests, a window of
tokens, and the sorted set of members in flight. The scripts are atomic, as
Redis runs one at a time. What is not atomic is everything around them.

| Variable | Code |
| --- | --- |
| `requests`, `tokens` | the window keys of Redis and the counters of each replica's `LocalStore` |
| `member`, `age` | the sorted set `<prefix>:conc` and the score of each member, as its age |
| `inFlight` | `KeyState.in_flight` of each replica's `LocalStore` |
| `wire`, `reply` | commands Redis has still to run; answers a caller still waits for |
| `degraded`, `paid`, `astray` | history: who holds a local slot, whose tokens are counted, with whose calls something went wrong |

| Action | Code |
| --- | --- |
| `Acquire`, `Acquired`, `AcquireFails`, `AbandonAcquire` | `acquire`: the script is sent, answered, or not; the caller goes while it waits |
| `Commit`, `Committed`, `CommitFails` | `commit`, with the local slot given back in both cases |
| `EndStream` | `add_tokens` and the drop of the stream's guard |
| `Drop` | a `Reservation` dropped: `release` |
| `AcquireRuns`, `CommitRuns`, `ReleaseRuns`, `AddTokensRuns`, `PeekRuns` | the scripts |
| `DetachedFails` | a spawned release or `add_tokens` whose error is only logged |
| `Crash`, `Tick` | a replica restarts; a second passes, windows change, the set's key expires |

`wire` is a set: commands travel over several connections and run in any order.
A call that fails, or whose caller goes, may have run already, may run later or
never. Members are pruned only by the scripts that prune them; the key
itself expires `ConcTtl` after the last member was added, which is when all
ages have reached it.

One clock stands for all replicas (each script is sent its replica's). Excluded
on purpose, as the code declares them: requests that last longer than
`conc_ttl` no longer count against the limit, and a Redis that loses its data
forgets its members. A local slot given back during a handover may be that of
another degraded request; the comment at `redis.rs:610` accepts the
under-count, and `NeverFailsClosed` is stated in that direction only. Not
modelled: more than one window of a kind, a connection that is attached later,
clocks of replicas that differ.

### 2.4 RedisBreaker

| Variable | Code |
| --- | --- |
| `openFor` | `BreakerState.open_until`, as what is left of it; `Closed` for `None` |
| `generation`, `prober`, `claims` | the fields of the same name |
| `registered` | the connection the prober pings with exists |
| `pc`, `seen`, `left` | a command's stage, the generation it read, what is left of its budget |
| `task` | each prober's stage, by its claim |
| `through`, `outdated` | history: who was let through by an expired window, who was in flight at the last failure |

`Admit`, `Succeed`, `ServerError`, `CallerGone`, `Fail` and `Trip` are the
life of a command in `Guard`; `Fail` and `Trip` are two steps because `trip`
takes the mutex twice. `Start`, `Ping`, `Pong`, `NoPong` and `ProberStops` are
`probe_until_closed`. A command refused while the breaker is open changes
nothing and is no action.

Timers fire and spawned tasks start before time passes: the breaker's windows
are seconds and the scheduler's delays are not. At the instant at which a probe
times out a caller may still be quicker than the prober. `timeout_secs` has no
upper bound in the configuration (`lib.rs:365-369`), so nothing is assumed of the
budgets of a command and of a probe: `OneCallerPays` and `OnePing` count one more
than the windows that fit in the budget, which is one with the defaults. Opening the connections of the
different topologies, sentinel discovery and TLS are below the model: to it a
command is answered, is answered with an error, or reaches nobody.

### 2.5 UsageDelivery

| Variable | Code |
| --- | --- |
| `queue`, `senders`, `dropped` | the channel, whether it has a sender left, the counter of drops (per record) |
| `pc`, `resume`, `buffer` | `run`: where the worker is, its buffer |
| `batch`, `left`, `wait`, `backoff`, `refusals`, `final` | the locals of `deliver`; the set of records stands for the batch's id |
| `dedupSeen` | `SenderState.dedup_seen` |
| `cancel`, `unseen` | the shutdown watch, and whether its change has been consumed |
| `fleet`, `rows`, `recorded`, `strays` | the control plane: its pods, what was billed, the ids it knows, the requests nobody waits for |
| `age`, `acked`, `late` | the time since `occurred_at`; history |

`Emit` is `try_emit`; `Receive`, `ReceiveNone`, `FlushTick` and `CancelChanged`
are the branches of the worker's `select!`, each of which looks for the shutdown
when it returns to the loop; `Deliver`, `Delivered`, `Refused`,
`AnsweredOnTheWay`, `Unanswered`, `Failure` and `Resend` are `deliver`; `Drain`
and `Exit` are the end of `run`. A worker whose HTTP client cannot be built
starts at `exiting`. The flush ticker may fire at any time. A batch is filled
in one step, as `fill_ready_batch` never waits. (That handlers go on
emitting meanwhile would show only where a batch can empty a full queue; the code's
queue holds 16384 records, a batch 100.) An attempt may be answered by a new or an old pod, be answered by
something in between, or not be answered; in the last two cases its request may
still be carried out, up to `MaxStray` later.

`fleet` is old pods, new ones, or both behind one address, and `Rollout` replaces
it by another: upgrades one pod at a time or all at once, and rollbacks. Two
history variables say when that misleads the worker: `unkept` holds what old
pods have billed, which keep no batch ids, and `vouched` what the worker has posted
again on the answer of a new pod. `Misled` is what is in both.

`UsageLedger` knows neither batches nor attempts: a record is held until it is
delivered, dropped or lost, once and for good, and is billed once, or up to `Copies`
times if it is misled about. `Fates` reads the fate of each record off `emitted`,
`acked`, `dropped`, `late` and `pc`; the rows are those of the control plane.
`KeepsLedger`, with `MostAttempts` for `Copies`, is what the delivery promises before
any fleet.

Timers are prompt, as in the breaker. A crash loses what is in memory and is
not modelled, since nothing is persisted and nothing is owed afterwards; nor are
jumps of the wall clock, which `occurred_at` is taken from, and the
contents of a record.

## 3. Runs

### 3.1 What each run shows

| Run | Instance | Shows |
| --- | --- | --- |
| `SupervisorManaged` | environment and catalog, a key of each, 4 writes, batches of 2, 2 refusals or ended cycles | coalescing, rejection, deletion, reads at different moments, refusals and resyncs keep every promise of section 4 about what is served |
| `SupervisorRestart` | the same prefixes with the cache, a good and a better document, an upgrade and a downgrade, 3 writes, 2 cache writes in flight, 2 refusals, crashes, failed writes or shutdowns | a restart serves what an earlier apply served; revisions are claimed only once some prefix has reached them; writes of different revisions commit in order; a drain leaves the file current unless its last write was tied |
| `SupervisorNested` | a catalog key nested in the environment's bare prefix, with the cache, 3 writes, 2 faults, fairness | a resync applies what the reads returned; gateway, reported revision and file converge |
| `RateLimit` | two requests over one shared key and one key of its own, requests per minute and day, tokens per minute, five ticks of the clock (three minutes, two days), a lag of one, fairness | in every interleaving, with stale readings: counters are exact, limits hold from wipe to wipe, tokens overshoot within a bound, refusals are for cause, slots are exact, bounded and all returned; refinement of `AdmissionPolicy` |
| `RedisRateLimit` | two replicas, three requests, one slot, two requests and one token a window, a TTL of two, one fault anywhere, fairness | the cluster-wide limit, the fallback and the return of every slot survive lost and late commands, cancelled callers, crashes |
| `RedisBreaker` | three commands, a window of 3, budgets of 2, four failures, two cancelled callers or stopped probers, fairness | one PING, one paying caller, no closing on old evidence, and it does close |
| `UsageDelivery` | two records, batches of two, a queue of one, a budget of two, a stray request one later, any fleet and any rollout of pods, fairness | refinement of `UsageLedger`: each record has one fate, and one bill unless the pods mislead the worker; it is billed in time, losses are counted, batches settle, shutdown ends |

Five further runs expect a violation. Each checks a sentence of the
repository's own comments, quoted in `PROJECT.json` under "findings":

- `SupervisorTwoStreams`: the two watch streams have no order between them, so the
  highest revision delivered, which is reported, can be above a write of the
  other prefix that has not been applied. `ClaimsAreOfAPrefix` is what holds.
- `SupervisorCacheTies`: an event that leaves the highest revision as it was
  spawns a second cache write of the same revision, and the cache's lock cannot
  tell which is older: the file can end up without the newer event.
  `CacheNeverRollsBack` and `DrainedCacheIsCurrent` except exactly these ties.
- `RateLimitLag`: with a lag of one second a stale reading rolls a counter
  back, and one window admits more than its limit.
- `UsageRollingUpgrade`: while old and new control-plane pods share an address,
  an attempt that is not answered is posted again on the strength of an earlier
  pod's header; an old pod takes both, and the records are billed twice. A theorem
  bounds it (`RowsBounded`): no record is billed more often than its batch can be
  posted, which with the code's backoff of 1 to 30 seconds and its budget of 1800 is
  at most 91 times.
- `RedisCallerIsTheProbe`: the failure of a second command shortens the deadline
  that the prober had extended; a business command is let through while the
  PING is out, and takes the prober's claim.

Behaviours of the supervisor that a reader of the code should know of, and that
the model exhibits:

- A restore reports the highest revision of a restored row, and writes the rows back
  to the file under it: one prefix has reached it, the other perhaps not.
- Without an `env_id` both streams deliver a catalog write; the slower one takes
  the row back to an older document for a while. (It converges:
  `SupervisorNested`.) It is why some theorems of section 5 ask for prefixes that
  do not nest.
- A key deleted and recreated with a rejected document between two reads goes on
  being served the deleted document: no watch delivers the deletion, and a
  resync cannot see it. `PinDiesWithWatchedKey` is stated accordingly.

### 3.2 Bounds, and why they are enough

`MaxRev`, `MaxBatch`, `MaxPending`, `MaxFaults` (supervisor), `MaxTokens`,
`MaxTime`, `MaxLag` (limiter), `MaxFaults` (Redis), `MaxOpenings`, `MaxFaults`
(breaker) and `Event`, `MaxStray` (usage) appear in guards or ranges and are named
as bounds where they are declared.

Supervisor: a key under each of the two prefixes lets the events of one stream
overtake those of the other and one refusal concern one of two keys; in
`SupervisorManaged` one more write than a put, its rejection and its deletion lets
a key come back, and a batch of two holds any two of put, rejected put and
delete, of one key or of both. Two cache writes in flight suffice to commit in the
wrong order, and a third write makes a tie; two faults let a second one hit the
recovery from the first. In `SupervisorNested` one key under both prefixes is what
nesting is about, and batches of one add nothing to its streams' order but leave
room for the cache and the restarts.
Limiter: two requests meet on one key with one slot, and take every limit to its
end: one of them uses up a day, both a minute; each can be refused at its second layer
with the first to be given back, and the clock passes two changes of minute and one of
day (as in the code, a day is a whole number of minutes) with readings of the second
before. `RateLimitLag` takes three requests, as one must be admitted before the wipe
and the limit again after it. Redis: two replicas, of which one has two requests, let a
request compete with one of its own replica and one of another; with one slot
and a TTL of two a leaked member blocks the others and is reclaimed; one fault
can be any failed call or crash, and any number of callers may go. Breaker: four
failures let a claim change hands twice, and three commands let a late failure
and a late success meet a third command. Usage: two records make a full batch, or
one and another that waits behind it; a queue of one fills, and a budget of two
holds an attempt, its retry, and a record that grows old waiting.

The properties of section 5 are proved for every value of the bounds; the rest,
liveness among them, is known on these instances only.

`CHECK_DEADLOCK FALSE` is used where the bounded system comes to rest: for the
supervisor once the writes and the faults of the bound are used up and the
gateway sits and waits; for the usage worker once it has stopped; for the
breaker when the openings are used up and the last command can neither fail nor,
with Redis away, succeed. The rate limiters never come to rest (a limit can be
peeked at, or a second passes), so that what can get stuck in them is for
`SlotsReturn` to find.

### 3.3 Fairness

`ConfigSupervisor!FairSpec`: the supervisor task is scheduled (`watch_loop`
never returns but on cancellation and sleeps a bounded time), spawned cache
writes run, a stopped process is started again, and the drain ends (it has a
timeout). No fairness is assumed of etcd's writers, of failures, or of the
order of events. `LocalRateLimit!FairSpec`: every request's own steps go on,
which includes that a response or a stream ends or is cancelled; none is
assumed of the clock, and none between requests. `RedisRateLimit!FairSpec`:
Redis runs what it is sent, replies arrive, a request in service ends, and time
passes (without it no member would expire); nothing is assumed of failures.
`RedisBreaker!FairSpec`: callers keep coming, spawned tasks run, time passes.
The fairness of `Succeed` is strong: a Redis that is up answers again and again, and one
command of those succeeds; a Redis that answered every command with an error of
its own would keep the breaker open, as `ServerError` does not close it.
`UsageDelivery!FairSpec`: the worker runs, an attempt ends (the client has a timeout),
time passes; nothing is assumed of the control plane, which may never answer.

## 4. Properties

Supervisor. `ServedIsExplained`: what is served follows from the observed rows
and the pins, also halfway through a batch. `ViewIsEffective`: the batch's probe
answers as the snapshot to be published would. `WatchesLeaveNoGap`: a watch has
been applied up to the event it delivers next. `ReadRevisionIsHonest`: a read that
claims a revision has every write up to it; `ClaimsAreOfAPrefix`: any other claim, in
a heartbeat, on the status page or in a file, has every write of one prefix up to it.
`ObservedNeverRegresses`, `CacheNeverRollsBack`: rows never go back, and the file only
among writes of one revision. `FilesAreExplained`, `DrainedCacheIsCurrent`: what
a restart can rely on. `RefusalIsNotDeletion`, `LoadMatchesReads`: what a refused prefix may do.
`PinDiesWithWatchedKey`: a pin survives no deletion that a watch has delivered.
`KeepsLastKnownGood`: refinement. `Converges`, `CacheConverges`: liveness, of what is
served and reported, and of the file. `RevisionsAreHonest` and `WritesCommitInOrder` are
what the comments say, and the runs refute.

Limiter. `HoldsAreCounted`, `WithinConcurrency`: slots. `CountsAreAdmitted`: the
counters agree with the history, refusals and wipes included. `LimitPerWipe`,
`OvershootIsBounded`: windows, over the history and not the counters
(`RequestsPerWindow` is `LimitPerWipe` without the wipes, and refuted).
`RefusedForCause`: no refusal without a limit that is really used up.
`ForgetsOnlyEarly`: what stale readings can make a counter forget, and until when.
`KeepsPolicy`: refinement. `SlotsReturn`: liveness.

Redis store. `ClusterConcurrency`: the requests in service that Redis admitted
within the TTL are no more than the limit, over all replicas.
`NeverFailsClosed`: a replica's local counter never exceeds its own degraded
requests, so that no outage leaves behind what would refuse traffic in the next.
`NoSilentLeak`: a member that nobody will remove has a failure, a crash or a
cancelled acquire to explain it. `TokensAreCounted`: a commit that has returned
is counted in one store or the other. `SlotsReturn`: liveness.

Breaker. `ClosesOnFreshEvidence`: no success of a command that was in flight at
the last failure closes it. `OnePing`, `OneCallerPays`: what an outage costs.
`Recovers`: liveness, through stopped probers and cancelled callers.

Usage. `LossIsCounted`: a record is in exactly one place, or counted, but for one
queued after the worker's last look at the channel. `KeepsLedger`: refinement.
`BilledOnce` is what the comments say of it, and `UsageRollingUpgrade` refutes.
`BilledInTime`: what the control plane may have sealed is not billed again or
late. `EventsSettle`, `ShutdownEnds`: liveness.

Some properties are theorems that no run checks: `PrefixesAreCuts`, `CaughtUp`
(supervisor); `CountersWithinLimits`, `WindsDown`, `ReturnedWhenDone` (limiter);
`QuietStoreIsClean`, `RequestsWindDown` (Redis store); `RowsAreBounded`,
`BilledAgainIfMisled`, `ShutdownIsNoticed`, `WorkerWindsDown` (usage). They are in
section 5.

## 5. Proofs

tlapm checks eight proof modules, for every value of the constants that satisfies
the named `ASSUME` of each component (`SupervisorAssumption`,
`RateLimitAssumption`, `RedisRateLimitAssumption`, `BreakerAssumption`,
`UsageAssumption`), which TLC evaluates in each run.

**What the supervisor serves** (`ConfigSupervisor_proofs`). `TypeCorrect`,
`AlwaysExplained`, `AlwaysViewed`, `FilesAlwaysExplained`, and `Refinement`
(`Spec => KeepsLastKnownGood`), with any number of prefixes, keys, documents,
builds, batch sizes and faults. The inductive invariant `Inv` has five parts.
`ServedIsExplained` alone is not inductive: that a rejected put pins the serving
bytes is only right if the probe sees what the batch has staged, so
`BatchIsStaged` ties `added` and `removed` to `staged`; that a restart serves no
less than was served needs what is in the file to explain what was served when
it was written (`FilesAreExplained`); and that a stopped process holds nothing is
`OffIsForgotten`. The refinement then shows step by step that an event is one
`Observe`, a `Publish` a stutter, a resync one `Observe` of all keys, a crash a
`Stop` and a boot a `Start`, and that cache writes only ever save pairs that
were current.

**What the supervisor claims** (`ConfigSupervisor_history_proofs`). These
theorems speak of etcd's history. Their algebra is `RowIn(h, k, r)`, the row of
key k as of revision r in a history h, with lemmas that say how it changes when h
grows and when r passes a write of k or of another key.

| Theorem | Assumes | Argument |
| --- | --- | --- |
| `LoadAlwaysMatches`, `ReadsAlwaysHonest`, `RefusalNeverDeletes` | -- | `ReadInv`: each read is of the history as of its revision, the union agrees with some read of each key, and what is applied is the union |
| `NoGapEver`, `PinsAlwaysDie`, `NeverBackwards` | `DisjointPrefixes` | `WatchInv`: the observed row of a key is its row as of the last event its stream has delivered |
| `QuietIsUpToDate` | `DisjointPrefixes` | a watch with nothing left to deliver has delivered the last write of each key, and with the batch published what is served is that row or its pin |
| `EachPrefixIsCut` | `DisjointPrefixes` | a read replaces the rows of a prefix by those of one revision or leaves them; an event moves one row and, by `WatchInv`, with it the moment all rows of its prefix are of; a file holds what the rows were |
| `ClaimsHaveAPrefix` | `DisjointPrefixes` | `BackedInv`: whatever has been claimed is backed by a prefix that is applied, and whose stream has delivered, up to it; an event backs what it adds to the claims, and a restored file's highest row is backed by its own prefix |

`DisjointPrefixes` (no key lies under two watched prefixes) is needed: where they
nest, both streams deliver a write, and rows go back (section 3.1). It is so of every
gateway with an `env_id`. Two streams have no order, so a state of two prefixes is no
cut of the history; each prefix is one by itself, which is what `EachPrefixIsCut`
keeps of it, and one of them is as far as is claimed, which is what
`ClaimsHaveAPrefix` keeps.

**What the cache keeps** (`ConfigSupervisor_cache_proofs`), for any number of
prefixes, nested or not, of which one is never refused (`EnvironmentIsRead`: a
refusal of the environment's read fails the load). Without it a load could be
empty, its revision 0, and a later write be below the file. `CacheNeverBackwards`
rests on `OrderInv`: each write carries how far every prefix had been read or
watched; of two writes the one of the higher revision is at least as far for every
prefix, and a read is further than all that was done before its cycle, so that what
the lock's guard drops is the older one. `DrainLeavesCurrent` adds
`LastWriteWins`: whenever nothing is being applied, the latest write is on disk or in
flight and will replace what is there, unless it was spawned beside another of its
own revision (`tied`), or a write has failed.

**Limiter** (`LocalRateLimit_proofs`). `TypeCorrect`, `SlotsCounted` and
`ConcurrencyKept` hold for any requests, layers, limits and clock lag. Every step
is one of three kinds: it admits a request to one key, lets one go of one key, or
touches neither slots nor layers (`SlotSteps`); the cardinality of the holders
follows, because no request has a key twice among its layers.

All theorems of the limiter hold for any clock lag. `LagInv` says that a counter holds
at most what the window it is of has been given, and is within its limit: a stale
reading can make a counter forget, never invent. From it follow `CountersKept`
and `RefusalsHaveCause`. `LagForgetsEarly` shows when it forgets: once no thread
can still hold a reading of the window before, every reading is of the running
window, and a step adds the same to the counter and to the history.
`RequestsWindDown` gives each request a measure (the layers and bills before it)
that every step of it lowers, and `SlotsReturned` adds that at its end no key
counts a holder: with the fairness of section 3.3 that is `SlotsReturn`.

What a stale reading wipes is the difference between counter and history:
`StandInv` says that of the window a counter is of, what stands (is spent and not
wiped) is the count, that of later windows nothing stands, and that none of them
has begun. A rolled-back counter wipes what it leaves behind, and what it goes back to
stands at zero. `CountsExact`, `WindowsKept` and `PolicyKept` (`Spec =>
KeepsPolicy`) follow from it. For `OvershootBounded` the bound is not inductive:
`RoomForThoseInside` counts, besides what the counter holds, one response for every
request inside that can still be billed (`Unbilled`), and a bill moves at most
that from the second to the first; a roll, either way, only lowers the first.

**Redis store** (`RedisRateLimit_proofs`). `LocalStoresFailOpen` needs only that a
request that holds a local slot is still in service. `ClusterConcurrencyKept`,
`LeaksHaveCause` and `CommitsAreCounted` share `MemberInv`: an acquire still on its
way is the first of its request or its caller has gone
(`AcquiresAreFirst`: otherwise a late script could refresh or restore a
member), a reply tells the truth about the set as long as the member has not
expired (`RepliesAreTrue`), the members that count are within the limit, and
those in service are among them (`ServedAreMembers`). Any number of replicas,
requests and faults. `QuietIsClean` adds `KeyExpires` (a set with members was
added to within the TTL) and concludes that, when nothing is on its way, what
is left is the work of failures and about to expire. `RequestsAlwaysWindDown` counts
what can still happen to a request, seven steps at first: its own and those of
the commands sent for it, each of which is sent once.

**Breaker** (`RedisBreaker_proofs`). Any window and any budgets. `ClosesOnEvidence`
rests on: what was in flight at the last failure has read an older generation.
`CallersPayInTurn`: each caller let through arms a window behind it, so that what is
left to any two of them is a window apart (`CallerInv`), and no more than one and
the windows in a budget fit (`WindowsApart`). For `OnePingAtATime`, `ProberInv`
compares the time each prober has before it (`Rem`): one that lost its claim has no
more than a probe left, and a newer one a whole window more than an older one.

**Usage** (`UsageDelivery_proofs`). `LossesAreCounted`: the places a record can be
in exclude each other (`AccountInv`), given what each stage of the worker holds
(`StageInv`). `BilledWithinBudget`: age plus what is left of a timer is bounded
at each stage of an attempt, its wait and its stray request (`AgeInv`).
`BilledOnceUnlessMisled`, before any fleet and rollout: two batches, posted or recorded, are
the same or disjoint (`BatchesApart`); what has been billed, and never by an old
pod, new pods recognise (`NewPodsRecognise`); and what has not been posted again on a
new pod's answer has one request only, which has billed it or may still (`PostedOnce`).
A second bill therefore takes an old pod and the word of a new one, which is the
finding of `UsageRollingUpgrade` and all there is to it.

`ShutdownNoticed`: the backoff and the `select!` wait for the same change of the
shutdown watch, and whichever comes first consumes it; yet the worker never waits
with the change consumed, since an attempt begun after that is the batch's last
(`NoticeInv`). `ShutdownWindsDown` builds on it: `StepsLeft`, from the worker's
stage and the records ahead of it, is lowered by every step of the worker and
every end of an attempt, and raised by nothing. With fairness that is `ShutdownEnds`.

**The ledger** (`UsageDelivery_ledger_proofs`). `RowsBounded` holds before any
fleet and any rolling upgrade. That each wait takes time does not bound the
posts well, as the first waits are short; in `RowsInv` each wait pays for the post
after it, by its length or, while the backoff still grows, by the growth. Between
them the growth and the budget pay for `MostAttempts` posts, of which the last may
come after the budget. A record's posts (`Posts`) are its rows and the requests for
it that may still become one; only its own batch is posted (`PostInv`).
`LedgerKept` is the refinement: an emission is an `Emit`, the end of a
batch a `Settle`, a row that lands before or after it a `BillOnly`, the
worker's exit a `Lose` of what is queued, and all else a stutter. It says what
the others do not: that no fate is ever revised, and that the two accounts,
the worker's and the control plane's, agree.

**Model-checked only.** Liveness (`Converges`, `CacheConverges`, `SlotsReturn` of
both limiters, `Recovers`, `EventsSettle`, `ShutdownEnds`) is out of the prover's
reach, as is everything about fairness. Of four of these the rest is proved: that
every step lowers a measure, that nothing raises it, or that a state where nothing
is left to do is the wanted one (`QuietIsUpToDate`, `SlotsReturned`, `QuietIsClean`
and the three theorems that wind down). Every safety property that a passing run
checks is proved, under the assumptions above.

## 6. Not modelled, and what would come next

Within the modelled components: the rejection and partial-compatibility buffers
and the served hash computed from them (which rejections are kept never changes
what is served, only what the status page says of it); the routed dispatch that
reserves a target's layer per attempt; several windows per key in Redis, and the
late attachment of its connection; connection management below the breaker.

Components left out, with the reason each has in `PROJECT.json`. Most are
conversions of data with little state (provider bridges, guardrails, MCP, A2A,
the admin API, the loader), I/O below an abstraction that is modelled (etcd
client, Redis topologies), advisory state (cooldown, health, latencies),
or sequential programs (CLI, scraper, file source). The next modules would be
the budget cache (inserts that hold one lock, answers that outlive their TTL
while the control plane is away), the token caches (a refresh racing an expiry)
and the sink pipeline, which resembles `UsageDelivery` without de-duplication by
its receiver.
