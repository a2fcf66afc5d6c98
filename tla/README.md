# Specifications of zenstats

zenstats is a web analytics server in Go. Visitors' browsers post events; the
server authenticates and limits them, queues them in memory, turns every event
into a row of the ClickHouse table `events` and a pair of rows of the table
`sessions`, and answers statistics queries for the owners of the sites. Users,
sites, keys, rules and quotas live in PostgreSQL behind caches in memory.

This directory holds TLA+ models of the parts whose correctness depends on the
order in which things happen, the TLC runs that check them, and TLAPS proofs
about them. Paths below are relative to the repository's root.

Contents: 1 the system, 2 the modules, 3 the runs, 4 fairness, 5 the proofs,
6 what disagrees with its documentation, 7 abstractions, 8 what is not modelled,
9 what could come next, 10 how to run it.

## 1. The system

The path of an event, with the concurrency that makes it hard:

    HTTP handler --GetVerifiedSiteByDomain--> site cache --> PostgreSQL
      |  allow (rate limiter, windows in memory)
      |  TryIncrement--> MonthlyQuota --hourly, at stop--> PostgreSQL
      |  Enqueue
      v
    DynamicQueue --> dispatch --> taskChan --> processWorker --> pool of tasks
                                                                   |
       shield rules, location names (cached) <---- processEvent ---+
                                                   |
                        balancer (one worker per user) -> session update
                          |  cache, pending rows, ClickHouse lookup
                          v                        |
                  session write buffer       event write buffer
                          |  batches, retries      |  batches, retries
                          v                        v
                  ClickHouse sessions        ClickHouse events

### 1.1 Ingestion

**Ingestion endpoint** (`internal/api/external/externalevent.go`). State: one
window of a rate limiter per site. Operations: one event, a batch; the cleanup
of the limiter. A request looks at the site and the origin, at the window, at
the quota, and enqueues. Hard: the window is looked at under a read lock and
opened under a write lock; the quota is used before Enqueue, which may refuse;
a batch can fail half way. Correct when no window lets more pass than the limit
and windows of one site do not overlap, and when what is charged and what is
enqueued stay together.

**Dynamic queue** (`pkg/generic/queue.go`). State: a channel, the element that
Peek has set aside, a closed flag, the capacity. Operations: Enqueue (which
replaces the channel by a larger one when it is full), Dequeue, Peek, Close,
IsClosed, Size, all under one mutex. Callers: HTTP handlers enqueue, one
goroutine dequeues. Hard: growth in the middle of a stream; a send on a channel
while the mutex is held. Correct when nothing is lost, doubled or reordered,
when it refuses only if closed or full, and when the mutex is always released.

**Event worker** (`internal/event/event.go`, `pkg/pool/pool.go`). State: the
queue, `taskChan`, a pool of workers, two wait groups, a context. Goroutines:
`dispatch`, `processWorker`, the tasks, the flush workers of two buffers, and
Shutdown, which `cmd/server.go` starts next to `httpSrv.Shutdown`, so that
handlers still enqueue while it closes the queue. Hard: the order of the steps
of Shutdown; two readings of the queue that are not one; everyone waiting for
everyone. Correct when each accepted event is decided, when the last flush
comes after the last event, when shutdown ends, and when the two tables differ
only by rows whose loss was reported.

**Enrichment** (`processEvent` and helpers, `referrer_blocklist.go`): user
agent, location, channel, salted visitor id, shields. Sequential functions of
one event and of third-party data; an outcome (dropped, or a session update and
a row) in the model.

**Location names** (`internal/store/clickhouse/repository/locationdata.go`).
State: a table of names and identifiers, a cache, a lock per key. Operations:
GetOrCreate, GetOrCreateById, from the tasks of the pool. Hard: several tasks
meet a new city at once; an error of the query counts as "no row". Correct when
a name has one identifier and every identifier that was given out has its row.

**Event write buffer** (`internal/event/buffer.go`,
`store/clickhouse/repository/events.go`, `dedup.go`). State: the buffered rows,
a semaphore of eight flushes, a closed flag, the batch size and write times.
Operations: Add, the flushes that Add spawns, the flush worker, writeBatch with
five attempts that share one deduplication token, Shutdown. Hard: several
goroutines cut batches out of one buffer; an insert that committed reports an
error and is sent again; all slots busy; the limit while ClickHouse is away.
Correct when no event is stored twice or lost silently, when the buffer is
bounded, and when Shutdown returns with everything flushed.

**Adaptive batch size** (same file, `adjustBatchSize`). State: an atomic
integer. Hard: load and store are separate, so adjusters that overlap overwrite
each other. Correct when the size stays within its limits and follows the speed
of the writes.

### 1.2 Sessions

**Balancer** (`internal/session/balancer.go`). State: a hundred channels of 64
tasks, one goroutine each. Operation: Dispatch, which waits up to a timeout for
room and then without one for the result. Hard: the timer races with the room.
Correct when the updates of one user never overlap, when a call that was
refused does not run later, and when every call returns.

**Session aggregation** (`internal/session/session.go`, `buffer.go`,
`store/clickhouse/repository/sessions.go`). State: an LRU cache of current
sessions, a version counter, a write buffer of rows and the batches under way,
the table, a VersionedCollapsingMergeTree in which a row and its tombstone
cancel. Operation: OnEvent finds the session an event belongs to (cache, rows
in memory, ClickHouse), adds a tombstone of its current version and a new one.
Hard: the current version moves from memory to ClickHouse while it is looked
for; batches commit out of order; events arrive late; the cache evicts.
Correct when each session has one current version that accounts for exactly
its events.

### 1.3 Sites, rules, keys, quotas

**Site registry** (`internal/service/sites.go`). State: the table `sites`, and
caches by domain, id, owner and member. Operations: create, verify (owner or
administrator), update, delete, look up. Hard: the check for another verified
site and the update are apart; a lookup that read the table fills the cache
after somebody cleared it. Correct when a domain has at most one verified site,
a verified site is served, a deleted one is forgotten.

**Shield rules** (same file). State: four tables of rules, a cache each, one
RWMutex. Correct when the event worker never works with rules from before a
change that succeeded.

**API keys** (`internal/service/apikey.go`, `users.go`). State: the table, the
owner's status, on every replica a cache of validated keys and a set of keys
whose use has to be written back. Operations: create, validate, delete, suspend
the owner, the background flush. Hard: a validation that has read the table
fills the cache after a revocation has cleared it; the other replicas are not
told. Correct when a revoked key is refused at once where it was revoked, and
everywhere in the end.

**Monthly quota** (`internal/event/quota.go`). State: the month and a count per
user in memory, a row per user and month. Operations: TryIncrement, the hourly
flush, the flush of a closed month, the flush at shutdown, the start from the
table. Hard: flushes overlap and hold no lock while they write; the month
changes between a snapshot and its write; crashes. Correct when nobody is
charged for events that were not admitted, when the limit is kept, and when
counts reach the table.

### 1.4 Jobs

**Scheduler** (`pkg/scheduler/manager.go`, `internal/store/postgresql/lock.go`,
`internal/bootstrap/cron.go`). State: a cron per replica, an advisory lock that
belongs to a database connection. Hard: clocks differ, executions overlap, the
lock service fails, connections break, jobs panic, processes restart. Correct
when one replica works at a time as long as the lock service works, and when
the lock is always given back.

**Traffic alerts** (`internal/service/traffic_alert.go`). A job of the
scheduler. State: which hours and days were evaluated, in the memory of each
process. Hard: the lock spreads the hours over replicas with different
memories. Correct when an anomaly is mailed once by a process, and when nothing
is set aside as evaluated before its alert was made.

### 1.5 The rest

E-mail and reports; users, groups, registration and password reset; goals,
funnels, segments, panels and shared links; statistics (SQL builders); import;
authentication and middleware; configuration; geography and user agents;
storage access and generated code; demo data. Section 8 says why they are left
out and section 9 which of them could come next.

## 2. The modules

| module | models | EXTENDS / INSTANCE |
|---|---|---|
| FifoQueue | the abstract bounded FIFO queue that handlers and dispatch rely on | |
| DynamicQueue | `pkg/generic/queue.go` | INSTANCE FifoQueue (implements it) |
| Ingestion | `internal/api/external/externalevent.go` | |
| EventPipeline | `internal/event/event.go`, the shutdown in `cmd/server.go` | INSTANCE DynamicQueue as Q |
| LocationNames | `internal/store/clickhouse/repository/locationdata.go` | |
| EventBuffer | `internal/event/buffer.go` without the batch size | |
| AdaptiveBatch | `adjustBatchSize` of the same file | |
| Balancer | `internal/session/balancer.go` | |
| SessionStore | `internal/session/session.go`, `buffer.go`, the table | |
| SiteRegistry | creation, verification, deletion, domain cache of `internal/service/sites.go` | |
| ShieldRules | the rule functions of the same file | |
| ApiKeys | `internal/service/apikey.go`, the suspension in `users.go` | |
| MonthlyQuota | `internal/event/quota.go` and its use in `cmd/server.go` | |
| JobLock | `pkg/scheduler/manager.go`, `internal/store/postgresql/lock.go` | |
| TrafficAlerts | `internal/service/traffic_alert.go` | INSTANCE JobLock as Job |
| *Proofs | theorems: DynamicQueueProofs, EventPipelineProofs, EventBufferProofs and MonthlyQuotaProofs about the module of that name, TrafficAlertsProofs also about JobLock, HandOverProofs and CachesProofs about the instances of MCHandOver and MCCaches, SessionStoreProofs about SessionStore under the loads of MCSessionTable | EXTENDS what it is about, and TLAPS |
| MC* | small instances for TLC | |

Most MC modules EXTEND one module and give its constants values. Three hold
several instances, of which a behaviour moves one and lets the others rest, as
its first state chooses. Nothing is lost by that, since the instances share no
variable, and the states of one are not multiplied by those of another:

- *MCHandOver*: DynamicQueue, Balancer, AdaptiveBatch and Ingestion, by
  `subject`.
- *MCCaches*: ApiKeys, SiteRegistry, ShieldRules and LocationNames, by
  `subject`.
- *MCSessionTable*: two instances of SessionStore that differ in their bounds,
  by `load`.

Each module states its own correspondence with the code above its variables and
actions. The main points:

- *DynamicQueue.* `queue` and `capacity` are the channel, `head` the element
  Peek set aside, `blocked` a send that found no room while the mutex is held.
  Each method is one action because it holds the mutex throughout. `accepted`,
  `delivered` and `refused` record what callers were told.
- *Ingestion.* `request` is the program counter of each handler with the event
  of the batch it is at. `windows` are all windows ever made: a request keeps a
  pointer to the one it saw, which need not be the one in the map (`current`)
  when it counts in it. One action per critical section of `allow`.
- *EventPipeline.* Composes the real DynamicQueue with the goroutines. `stage`
  is where each request is after `Submit`, `sessionRow` where its session row
  is. `shutdown` is the program counter of the goroutine of Shutdown, one step
  for each of its statements; `main` is the SIGTERM handler with its 30 second
  timer. Reading the queue and asking IsClosed are separate actions, as they
  are separate critical sections. The two write buffers are reduced to the rows
  in memory (`buffered`, in the buffer or in a batch under way) and what became
  of the others: `full` (the event buffer was at its limit), `flushed`, `lost`
  (the batch was given up after its attempts, or the row could not be encoded).
  Each does so on its own. The model's DrainedBeforeLastFlush is what lets
  EventBuffer assume that no Add is under way when its Shutdown is called.
- *LocationNames.* `holder` is the lock of the key, `entry` the cache entry,
  `rows` the table, `task` the program counter of each task, `returned` the
  identifiers that events were given.
- *EventBuffer.* `add` is the program counter of each Add, `flusher` that of
  each flushing goroutine with its batch, its attempt, and whether ClickHouse
  has committed the batch. `stored` counts how often ClickHouse holds an event.
- *SessionStore.* One visitor on one site. `task` is the balancer worker
  (Balancer is why there is only one), `buffer` and `flusher` the rows in
  memory, `clickhouse` a bag of rows, `Collapsed` what a query with FINAL sees.
- *SiteRegistry.* One domain. `request` and `lookup` are program counters;
  `steady` are the sites verified ever since a lookup began, against which
  its answer is judged.
- *ApiKeys.* One key, several replicas. `call` is a validation between its
  queries, `admin` a revocation between the commit and the clearing of the
  cache of its own replica; `cleared` are the replicas that have cleared since.
- *MonthlyQuota.* One user. `writer` is a flush: the hourly one, that of main at
  shutdown, and one goroutine for each closed month. `granted` counts what was
  admitted, by any process; `forgotten` what a start did not find in the table.
- *JobLock.* `run` are executions of the wrapper that AddJob puts around a job,
  `holder` the one whose connection holds the lock. Working is left open.
  A connection whose unlock failed goes back to the pool with the lock
  (`UnlockFails`): `holder` is then the replica, and an execution there that gets
  this connection again is granted the lock, for advisory locks nest.
- *TrafficAlerts.* Fills the working phase of JobLock with the hourly job.
  `signal` is what the traffic of each hour comes to, `active` and `evaluated`
  the memory of each process; `mails`, `told` and `checked` record what it did.

Definitions whose comment begins with "A bug:" are used by no specification.
Each is a plausible mistake in the definition that follows it, and shows that a
property of the runs would notice it.

## 3. The runs

A run that expects a violation checks one property, and is a finding of
section 6. Every passing run states deadlock freedom too, except where noted.

| run | instance | states | what it shows |
|---|---|---|---|
| handover | queue: 5 items, sizes 1 to 3; balancer: 5 calls, 3 users, 2 workers, channels of 1; batch size: 2 adjusters, configured 31; ingestion: a single event and a batch of 3, 1 event per window, 2 per month, queue of 1, 3 instants | 262 957 | FIFO order, no send blocks under the mutex, DynamicQueue implements FifoQueue; one update of a user at a time, callers are told the truth, every call returns; the batch size keeps its limits and follows the speed; windows are kept and follow one another, what is charged is enqueued |
| pipeline | 3 requests, queue 1, taskChan 1, pool 1, event buffer 2, 1 request that loses rows | 272 259 | order of Shutdown, cancelling drops nothing, the tables differ only by reported losses, each accepted request is decided, Shutdown ends |
| pipeline_loss | 2 requests, pool 2 | violation | finding 1 |
| event_buffer | 4 events, batch 2, limit 3, 2 slots, 2 attempts | 178 207 | bounded, stored at most once, none lost silently, Shutdown flushes all and returns, a partial batch is written |
| sessions | quiet: 3 events of 4 kinds at times 0..2, 1 eviction, 2 flushers, no flush by Add; busy: 4 events at one time, flushes by Add, no eviction | 1 470 396 | one current version, right contents in every order of arrival, cache current, nothing seen twice when batches arrive in order, the table catches up |
| sessions_fork | 3 events, flushes by Add, 1 eviction | violation | finding 2 |
| caches | keys: 2 replicas, 1 call, 1 administrator, 2 changes; sites: 3 sites, 1 request, 2 lookups; rules: 3 goroutines, 2 rules; names: 3 tasks, 3 identifiers; 1 failed query each | 292 938 | with one management request at a time one verified site; refusals justified; rules in force; revoked keys refused at once where revoked; one row per name; all caches catch up |
| sites_twice | 2 sites, 2 requests | violation | finding 3 |
| quota | limit 2, 2 months, up to 3 events a month, the database may fail | 116 863 | no overcharge, limit kept, counts reach the table |
| quota_shutdown | unlimited, 1 month, 2 events, no failures | violation | finding 4 |
| alerts | 2 replicas, 2 executions, 3 hours in 2 days, 1 fault | 220 821 | one replica works at a time, one mail per process and period, nothing evaluated is forgotten, no execution keeps the lock |
| alerts_missed | 2 replicas, 4 hours, no fault | violation | finding 5 |

Why the bounds are enough for the cases that matter:

- *handover, queue.* Sizes 1 to 3 include growth by doubling (1 to 2) and growth
  cut at the limit (2 to 3), five items fill the queue, its set-aside element,
  and leave one that is refused.
- *handover, balancer.* Two users share a worker, and its channel of one is full
  while one task runs and one waits to be sent.
- *handover, batch size.* With 31 the limits are 50 and 62: the size starts
  below the minimum, truncation and the floor interact, and two adjusters
  overlap at both limits.
- *handover, ingestion.* Three instants and windows of one instant let a window
  end, be cleaned up and be followed by another while a request hesitates. A
  batch of three against a limit of one, a quota of two and a queue of one place
  is refused by each of them, in the middle, while a single event competes.
- *pipeline.* One place in each of queue, channel and pool makes every wait
  happen, and an event buffer of two drops the third event while the others are
  written. That one request loses its event row, its session row or both is
  enough for every way in which the tables can disagree about a request: after
  a clean shutdown TLC reaches a written event whose session row was given up,
  a written session row whose event was given up, and one whose event was
  dropped. (Growth of the queue is in handover.)
- *event_buffer.* Three events fill the buffer while two flushes are under way,
  the fourth is dropped; two slots plus the worker give three concurrent
  batches; two attempts give a retry after an unacknowledged commit and a batch
  that is given up.
- *sessions, quiet.* The unit of time is half an hour, the length of the
  inactivity window: times 0, 1 and 2 give events within a window, at its edge
  and beyond it, in every order, so that two sessions can be open to late
  events. The batch size is never reached, so only the worker flushes: this load
  is about order of events, eviction and lookups during a flush.
- *sessions, busy.* Batches of two rows are cut between a tombstone and its
  new version and committed in any order by two goroutines. Together with an
  eviction this gives finding 2, hence no eviction here: it says what holds as
  long as the cache keeps the visitor. `SeenOnceInOrder` is claimed for the
  quiet load only: while batches overtake each other a query may see two
  versions until the older one has arrived.
- *caches.* Three sites allow one verified, one deleted and one new. Management
  requests come one at a time: with two, finding 3. So OneVerifiedSite says here
  that a verification looks at the other sites of the domain; that two of them
  may overlap is what sites_twice shows. Two changes suspend the
  owner of a key and allow him again. Three goroutines are a reader that fills,
  a reader that waits and a writer; three tasks are one that creates, one that
  waits for the lock of the name and one that comes later.
- *quota.* Two months give one change with everything under way; a limit of two
  with three events allowed makes refusals and the effect of a forgotten count
  visible.
- *alerts.* Two hours to a day and an offset of one put a change of the day
  inside three hours; two executions overlap on one replica or on two; one fault
  is a lock that cannot be asked for, an unlock that fails, a connection that
  breaks, or a restart.

`CHECK_DEADLOCK FALSE` is said of the session runs and the alert runs: bounds on
events, evictions, hours and faults let them stop, as the visitor or the clock
of the model may. The buffer and the pipeline end in a state of their own
(`Terminated`, `Done`), MCHandOver in `Ended`, so that nothing else may stop.

## 4. Fairness

- Weak fairness of a goroutine's steps: the Go scheduler runs what can proceed.
  It covers dispatch, processWorker, tasks, flushes, workers of the balancer,
  callers of Dispatch, adjusters, executions of a job, Shutdown, and requests
  and validations that have begun. A step that stands for a call to ClickHouse
  or PostgreSQL includes its return: `dbLookupTimeout` and the timeouts of the
  drivers end it, with an error if need be.
- Weak fairness of tickers (`FlushEvents`, `FlushSessions`, `Tick`, the `Flush` of
  the API key cache) and of cache entries that age (`Expire`, `Age`): time
  passes. A flush of EventPipeline ends, since a batch is given up after three or
  five attempts.
- Strong fairness of `LastFlush` in EventBuffer: the worker's `select` between
  the ticker and `shutdownChan` picks among ready cases at random, so a channel
  that stays closed is picked in the end although the ticker may win often.
- Strong fairness of `Query` and `Save` of the hourly flush in MonthlyQuota: a
  database that is asked every hour answers in the end. The code has no other
  means, it drops the error and waits for the next hour. It is used by
  StoredCatchesUp alone.
- Nothing is assumed of handlers, new events, signals, the 30 second timer, the
  cron, evictions, crashes, or failures. Ingestion and LocationNames claim
  safety only.

In MCHandOver and MCCaches the instances that rest are in their first state, in
which none of the actions above is enabled, so that fairness asks nothing of
them.

## 5. The proofs

Each theorem holds for every value of the constants that satisfies the named
assumptions. Each proof has the shape `Init => IInv`,
`IInv /\ [Next]_vars => IInv'`, `IInv => Inv`.

**DynamicQueueProofs** (assumption: the sizes given to NewQueue are positive and
in order, and Nil is no item). IInv is TypeOK, FifoOrder and
NeverBlocksUnderLock together: order is preserved only by steps on well-typed
sequences, and capacity keeps its bounds only if growth is never blocked. From
it: `TypeCorrect`, `FirstInFirstOut`, `GrowthNeverBlocks` and
`QueueRefinesFifo`, `Spec => FifoSpec`. The heart is `WaitingIsSize`: what
FifoQueue counts as waiting is the Size() of the code, a consequence of
FifoOrder. Lemmas on sequences (`HeadThenTail`, `MoveHead`, `AppendToJoined`)
carry the order.

**EventBufferProofs** (batch size, limit and attempts positive, the worker is no
slot). StoredAtMostOnce and NoSilentLoss are not inductive by themselves. IInv
adds `NotTakenUnseen` (an event Add has not taken in is nowhere, so that an
append puts it in one place only), `OnePlace` (an event is buffered or in one
batch, batches are disjoint, and it is stored exactly if that batch has been
committed) and `Winding` (after Shutdown is called no Add is under way; after
the worker's last Take the buffer is empty). From it: `AtMostOnce`,
`NothingLostSilently`, `ShutdownComplete`, `BufferWithinLimit`. The last has an
invariant of its own, `Limit`: Event may be infinite, the buffer is always
finite.

**EventPipelineProofs** (the sizes of queue, channel, pool and event buffer are
positive, no request is the zero value: `PipelineAssumption`; the number of
requests that lose rows is arbitrary). DisagreeOnlyByLoss and the order of
Shutdown follow from where each request is. IInv has four parts beside TypeOK:
`Queued` (a request is in the queue at most once, and never again after it was
delivered), `Carrying` (a delivered request is in exactly one of taskChan,
dispatch and processWorker, and then its task has not been submitted, or it
has), `Staged` (what each stage of Shutdown has seen to: who has exited, which
flags may be set, that the pool is empty) and `Rows` (the event row and the
session row of a request come together; after the last flush of a buffer none is
in memory). From it: `TypeCorrect`, `StagesInOrder`, `RowsAccountedFor`. What
the tables hold after a clean shutdown is not claimed to be the same, for in the
code it is not. That Submit never fails and Add never refuses, so that no task
is leaked and no event rejected, is part of Staged. `PipelineUsesQueue`, `Spec
=> Q!Spec`, says that the pipeline takes only steps of DynamicQueue on the
queue: what DynamicQueueProofs shows holds in it.

**HandOverProofs** (`HandOverAssumption`: a user has one worker, the channels have
room for one, the configured batch size, the rate limit and the length of a window
are positive, the quota is a natural number or -1). One section for each instance,
whose constants are otherwise arbitrary:

- *Balancer.* The invariant adds `OnePerWorker` (a worker runs one call) and
  `RanOnce` (how often a function was started follows from where its caller is)
  to TypeOK, which says that a channel holds each waiting call of its worker
  once. `UsersTakeTurns`: no two updates of one user overlap, a refused call
  never runs, one that returned ran once.
- *AdaptiveBatch.* What an adjuster is about to store is within the limits, as
  the clamping puts every integer there; so the order of the stores cannot
  matter, although load and store are separate. `BatchSizeBounded`.
- *Ingestion.* `WindowsInv` relates windows, clock and requests: as long as no
  request was overtaken, an empty map means that all windows have ended by the
  clock and by the time that any request on its way to the map has read.
  `ChargedInv`: a counted event is behind its request or the one it is about to
  enqueue. From it `WindowsLimitTheRate` and `CountedAlwaysEnters`.
- `TypesAlwaysOK` is about the specification that the run checks, together with
  the queue's types from DynamicQueueProofs.

**CachesProofs** (`CachesAssumption`, `ApiKeysAssumption`: None is neither a
replica, a task nor a site, bounds are natural numbers). One section for each
instance:

- *ApiKeys.* RevokedAtOnce speaks of caches; the invariant adds that what a
  validation under way on a cleared replica is about to store is harmless as
  well (`CallHarmless`: it has seen the suspension, or counts as one that
  raced), and that replicas count as cleared only while a revocation stands.
  `RevokedAtOnceAlways`.
- *ShieldRules.* `QueriedIsCurrent`: what a reader is about to put into the cache
  is the table, because a writer excludes readers. `RulesInForce`.
- *SiteRegistry.* `SitesSeen`: the sites that a lookup is steady in are verified
  still, and a lookup about to cache an unverified site has none; so a refusal
  from the cache is never wrong for longer than the lookup can excuse.
  `AcceptedWhileVerified`, for any number of management requests.
  `OneRequestOneVerified` has the hypothesis that one request manages the sites,
  and needs it: finding 3.
- *LocationNames.* `NamesAhead`: whoever is about to insert has a failed query to
  show for every row there is; whoever is about to cache an identifier has it
  from the table. `NamesAlwaysResolve`. It is about the answers of GetOrCreate:
  for a country the event takes the ISO code whether or not the insert worked
  (`event.go:457,467`), so that a code in an event may be without its row.
- `TypesAlwaysOK` is about the specification that the run checks.

**SessionStoreProofs** (`SessionAssumption`: times, the inactivity and the batch
size are natural numbers, the batch size is not 0, the worker is no slot, None
is no row). `TypeCorrect` holds without a condition. It needs more than TypeOK:
bags have natural counts, and the rows are bounded in version and start, so that
the CHOOSE of `Newest` has a row to choose.

The other properties follow from an invariant of five parts, for every number of
events and evictions and any number of goroutines that flush, overtake each
other, repeat an insert or give a batch up:

- `Placed`: a row of a session that has lost none is in the buffer, or in one
  batch, or in the table, and once; a batch and the table share it exactly from
  the commit to its acknowledgement.
- `Numbered`: the version counter is ahead of all rows, two versions never have
  one number.
- `Chained`: every version but the last has its tombstone, and the last has one
  only between the two rows that an event adds; versions of a session start at
  one time and do not end earlier.
- `Looked`: what is cached or was found is the last version; after a lookup in
  memory that found nothing, the last version there is none that the event
  belongs to.
- `Accounted`: the last version counts the events attributed to its session.

Every step keeps it but one: a lookup may return a version that is not the last.
`FindsCurrent` says of a state that the lookup under way does not, and
`OneVersionWhileCurrent`, `CountedWhileCurrent` and `CachedWhileCurrent` prove
OneCurrentVersion, AccountsForItsEvents and CacheIsCurrent of every behaviour in
which `[]FindsCurrent`. So finding 2 is the only way in which a session can
split: retries, given up batches of other sessions, late events, evictions and
the order of commits are harmless unless a lookup returns an old version.

Then a condition on the goroutines alone. While the flush worker is the only one
that flushes (`OnlyWorkerFlushes`: the slots are free, as when no batch fills),
rows leave memory in the order in which they were added, and the part `Ordered`
is inductive: of a session the table is behind the batch and the batch behind
the buffer. Then the newest row in memory is the last version, and a version
that a query sees is the last one unless the last is in memory, where it would
have been found. This is `LookupsInOrder`, `[]OnlyWorkerFlushes =>
[]FindsCurrent`; with it `OneVersionInOrder`, `EventsAreCounted` and
`CachedInOrder` need no other condition, and `NeverTwiceInOrder` proves
SeenOnceInOrder. The condition is met by the quiet load of the run sessions, and
needed: in the run sessions_fork two goroutines flush.

With any number of flushing goroutines the condition is met for another reason as
long as the cache keeps the visitor (`NoEviction`) and his events are handled in
the order of their time (`OnTime`): the cached session is the last of all
(`Remembered`), an event that it does not contain is later than every row, and
lookups find nothing. `LookupsOnTime` and `OneVersionOnTime` say so; the busy
load of the run, whose events are of one instant and whose cache does not evict,
is of this kind. Together: a session splits only if two goroutines flush, and an
event was late or the cache had evicted the visitor.

**MonthlyQuotaProofs** (limit a natural number or -1; the bounds of the model,
the last month and the events a month, arbitrary). IInv adds
`NothingAhead` (the month in memory is not ahead of the clock, nothing is
admitted in months to come), `WritersBounded` (no flush carries more than was
admitted in the month it carries), `RowsBounded` and `CountBounded` (no row and
no count exceeds the limit: a start that reads a row begins within it). From
it: `NoOvercharge` and `LimitKept`, with failures, crashes and any number of
months.

**TrafficAlertsProofs** (bounds are natural numbers, a day has hours, None is
neither an execution nor a period: `AlertAssumption`; for the lock alone
`JobConstants`, also that replicas are no executions). First the lock, for any
job: OneRunner follows from the stronger statement that whoever executes holds
the lock, and no connection in a pool does, as long as the lock service has not
failed (`OneRunnerOfAnyJob`). Then the alerts, which execute their checks in the
working phase of that lock. IInv says, while the lock service has not failed:
checks look at the hours in order (`InTime`), what a process remembers of an
hour or a day is about the last one it looked at (`HourlyMemory`,
`DailyMemory`), a period is mailed at most once by a process and not before it
is remembered (`Mailed`), and what is remembered as an anomaly was told or the
same process is about to tell it (`DailyTold`, `HourlyTold`). From it:
`TypeCorrect`, `OneReplicaChecks`, `AtMostOneMail` and
`NothingEvaluatedIsForgotten`. `ImplementsJobLock` says that the alerts
implement JobLock, under the identity on its variables.

Only model-checked: the liveness properties (KeepsMoving of the queue's users, the
buffer and the pipeline, TableCatchesUp, CachesCatchUp, StoredCatchesUp,
LockIsReleased), since fairness and ENABLED are beyond the prover. Every safety
property of a passing run is stated by a theorem. Those with a hypothesis about
the behaviour, which the instances of the runs meet, are OneRequestOneVerified
and those of SessionStoreProofs but TypeCorrect.

## 6. What disagrees with its documentation

1. *pipeline_loss* (`internal/event/event.go:135`). dispatch finds the queue
   empty, a handler enqueues, Shutdown closes the queue, dispatch sees it
   closed and exits: an event that was accepted with 202 is discarded by a
   shutdown that ends in time. The comment at lines 127-128 guarantees that
   enqueued events are not discarded.
2. *sessions_fork* (`internal/session/session.go:272`). After an eviction the
   newest row in memory is taken for the current version, but a newer one may
   have been committed, and have left memory, before an older batch. The older
   version gets a second tombstone and the session has two current versions.
   The comment at line 269 calls the rows in memory the latest truth; lines
   266-267 name this outcome as what the design avoids.
3. *sites_twice* (`internal/service/sites.go:949`). Two verifications of a
   domain overlap: both see no verified site, both commit. The comment at line
   102 says that only one can be verified; the one at line 937 speaks of a
   lock, but the query takes none.
4. *quota_shutdown* (`internal/event/quota.go:154`). The hourly flush is in the
   middle of its write when the server stops; the flush of main overtakes it,
   and the older count stays in the table. The comment at `cmd/server.go:106`
   says that the final flush is there so that a restart loses no count.
5. *alerts_missed* (`internal/service/traffic_alert.go:78`). A replica alerts
   about a spike, another one checks the hour in which the traffic is normal
   again, and the first one finds its old entry at the next spike and stays
   silent: nobody mails it. The comment on `alertState` (lines 34-40) says that
   the first hour of an anomaly is mailed, and names repeated alerts, not
   missing ones, as the limitation of several replicas.

Seen while reading, without a run of their own:

- `internal/bootstrap/cron.go:17-18` says that with the lock only one replica
  executes a job, so that reports are not mailed once per replica. The lock only
  keeps executions apart: a replica that fires after another one has finished
  runs the job again. OncePerProcess is the weaker statement that holds.
- A request that reads the clock, and gets to the limiter only after its window
  has ended and been cleaned up, opens a window in the past: `overtaken`, the
  exception in RateLimited. It is off by one event.
- The comment at `internal/store/postgresql/lock.go:50` says that closing the
  connection frees the lock as well. Close of a `sql.Conn` returns the connection
  to the pool: after an unlock that failed on a living connection, whose error
  line 51 discards, the lock stays with it (`UnlockFails`) until the pool closes
  it, and other replicas skip the job. LockIsReleased is about executions only.
- The two tables may differ after a clean shutdown, for each write buffer drops
  (`internal/event/buffer.go:91-99`) and gives up (`buffer.go:143,203`,
  `internal/session/buffer.go:102,221`) on its own. No document promises
  otherwise; DisagreeOnlyByLoss says that nothing else makes them differ.
- A failed query for a location counts as "no row"
  (`locationdata.go:74`): the name gets a second row. NamesResolve allows one
  more row per failed query (`misled`).
- `internal/session/README.md` describes a cache of 1000 sessions where the code
  has 200 000. The capacity is not part of the model: an eviction may happen at
  any time.

## 7. Abstractions

- Rows, events and rules are identities. Attributes of events (pages, campaign
  parameters, devices, locations) are left out; those a property depends on
  (times, counts, the bounce flag, versions and signs) are kept.
- ClickHouse: an insert of a batch is atomic; a batch whose token it has seen is
  not inserted again; a query with FINAL sees collapsed rows. Rows that
  BatchInsert cannot encode, and skips, occur in EventPipeline only.
  Deduplication tokens do not expire while a batch is retried.
- PostgreSQL: a statement sees what is committed when it starts (the default
  isolation). The two reads of a verification are one step.
- One visitor and site in SessionStore, one domain in SiteRegistry, one user in
  MonthlyQuota, one kind of rule in ShieldRules, one key in ApiKeys, one name in
  LocationNames, one site in Ingestion and TrafficAlerts, one job in JobLock:
  they share code and limits, not state that the properties relate.
- Several replicas in ApiKeys, JobLock and TrafficAlerts; elsewhere one process.
  Replicas have session caches, quota counters and location locks of their own;
  what two of them do to one row is not modelled.
- ApiKeys keeps that an entry is waiting to be written back, not the time of
  last use itself. The load of an entry together with the deletion of one that
  is over, or its marking, is one step. A request for a status that the owner
  has already only clears caches.
- Ingestion takes a site that has a rate limit and an owner; without the limit
  a request skips `allow`. Whether a site is known, verified and matches the
  origin is a choice.
- TrafficAlerts reduces the comparison of a period with the past to one of three
  results, and the site keeps its interval.
- Event times are within an hour: the endpoint replaces older timestamps by the
  current time.
- Requests that outlive the deadline of the HTTP shutdown are kept: they enqueue
  in EventPipeline and count in MonthlyQuota until the process exits.
- A shutdown that times out after 30 seconds ends the process wherever it is;
  properties about the end of a shutdown speak of those that end in time.

## 8. What is not modelled, and why

- Enrichment, geography, user agents, utilities, configuration, demo data,
  import, e-mail: functions of their input and I/O.
- Statistics, and the queries of funnels: their meaning lies in SQL.
- Goals, funnels, segments, panels, shared links, most of users and groups:
  single-row changes. The exceptions are in section 9.
- Authentication and middleware: stateless checks.
- The generated ORM and API description, which are nearly three quarters of the
  lines of the repository: their behaviour appears as the database that the
  services use.
- In the site registry: membership, owner and list caches, settings and
  invitations. GetSiteByID (`sites.go:399-412`) fills an entry that has no
  lifetime and that a verification does not remove: a reader of the entry may
  see the old state until the process ends. No document promises otherwise, and
  a model would restate the code.
- In the event worker: historical sessions of imported events.
- In the scheduler: how long the pool keeps a connection, beyond that it may close
  it at any time.
- What becomes of a session that has lost a row in a batch dropped after three
  attempts (`buffer.go:103`). GiveUp is an action, but the properties exempt the
  sessions in `damaged`: the cache goes on with versions that the table has never
  seen, or with tombstones of them, and no document says what should hold.
- The 30 second timer of Shutdown (`event.go:334`): what is left behind then is
  whatever it was working on.

## 9. What could come next

1. *Theorems.* SessionStore: what NeverSeenTwice comes to while batches overtake
   each other; a refinement of both write buffers (see 3).
2. *Users*: the first administrator is counted and then created, the default
   group is cleared and then set, a reset token is marked before it is used.
3. *EventBuffer with AdaptiveBatch*, and an abstract store that both write
   buffers implement.
4. *Sessions with lost rows*: a statement that bounds the damage to the batch.
5. *Funnel analysis* as a pure algorithm against a reference definition.

## 10. How to run it

    tlc -config MCEventBuffer.cfg MCEventBuffer        # and so on
    tlapm EventBufferProofs.tla

`PROJECT.json` lists components, runs, hazards with the properties that guard
them, the source lines behind every definition, and the theorems.
