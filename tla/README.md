# A verification project for cache-postgres

TLA+ models of `cache-postgres`, a key-value cache kept in one PostgreSQL table,
with the TLC runs that check them on small instances and theorems checked by
TLAPS for every value of the constants. Paths are relative to
`src/src/cache_postgres/` unless they start with `README.md` or `tests/`, which
are the repository's own.

## 1. The system

Any number of threads, tasks and processes share one table
`(key_id, value, expires_at, sliding_seconds, absolute_expiration, tags)`. There
is no server component: each client is a `PostgresCache` (threads) or an
`AsyncPostgresCache` (tasks) that validates its arguments, reads its own clock,
takes a connection and sends SQL. The table, its row locks and PostgreSQL's
advisory locks are all the clients share.

| component | state | operations | how it interacts |
|---|---|---|---|
| `SqlQueries` (`_sql.py`) | the rows of the table | the statements, each in one transaction | the only access to the table |
| `EntryOptions`, `PostgresCacheOptions` (`_options.py`) | immutable | validation, `resolve_expires_at`, `resolve_sliding_seconds` | turned into column values by every write |
| `DatabaseOperations` (`_db.py`), `AsyncDatabaseOperations` (`_async_db.py`) | the pool, the DDL flag and lock | `get`, `get_with_ttl`, `refresh`, `set`, `remove`, `incr`, `delete_by_tags`, `get_many`, `set_many`, `delete_many`, `get_pattern`, `delete_pattern`, `delete_expired`, `get_stale`, `get_or_create`, `set_lock`, `unlock`, `is_locked`, `ensure_table_exists`, `close` | called by the cache and its scanner; read the clock, then wait for a connection |
| `PostgresCache`, `AsyncPostgresCache` (`_cache.py`, `_async_cache.py`) | the scanner and its stop event | the same operations with keys validated; `lock`; `close` | call the database layer |
| decorators `cached`, `failover`, `early` | none; `early` starts refreshes | one wrapper each | `get_or_create`, `get_stale`, `get_with_ttl`, `set` |
| scanner (`_scanner_loop`) | a thread or task, the stop event | start, wait, `delete_expired`, stop | races with every client; `close` waits for it |
| `ensure_table_exists` | `_table_created`, `_ddl_lock` | the DDL, on first use | every operation runs it first; other processes run the same |
| `examples/web_demo` | none | HTTP handlers, one operation each | an application, not modelled |
| `parse_duration` (`_utils.py`) | none | pure | TTLs of the decorators and of locks |

### What is hard in it

* **An instant is old when it is used.** Every operation reads the clock, then
  waits for a connection (or, in `get_or_create`, for an advisory lock and a
  factory as well), then sends a statement carrying that instant. Meanwhile
  others read, write, delete and scan, and time passes.
* **Expired rows stay.** A row past its deadline is invisible to reads but still
  in the table: `get_stale` reads it, `incr` and `set_lock` take it over, the
  scanner deletes it at its own pace, on an instant that is itself old.
* **Two deadlines per row.** A sliding window that renews on reads, under an
  absolute ceiling that does not; the cap is computed in Python by writes and in
  SQL by reads.
* **One flight per key.** `get_or_create` holds a transaction open across
  arbitrary Python. It can raise, lose its connection, or be the body of
  `failover`, which takes a second connection from the same pool.
* **Leases without fencing.** A lock is a row that expires. Its owner is not told
  when the lease ends, polls may take it over at that instant, and the owner's
  `unlock` still comes, late.
* **First use, last use.** Any operation may be the one that creates the table,
  with others waiting behind it and failures in between; the scanner is started,
  stopped, waited for and started again around it.
* **Crashes.** An UNLOGGED table is truncated by crash recovery; a client whose
  connection is lost learns of it at its next statement.

### What makes each component correct

* entries: nothing is readable past its absolute expiration; nothing idle for
  longer than its window is readable; a live row goes only by an invalidation
  that names it; expired rows are collected in the end;
* counters: the value is the sum of the increments, through reads, scans and
  crashes;
* `get_or_create`: one open transaction per key computes, nothing computed is
  thrown away or repeated, every call ends;
* locks: unexpired leases exclude each other, `is_locked` answers `False` only
  when nobody holds one, every acquisition ends whatever became of the owner;
* `early`: a value older than `early_ttl` is refreshed (it is not: section 3);
* lifecycle: no statement before the table, the DDL by one thread at a time and
  never again, one scanner inside the `with` block and none after it.

## 2. The modules

    CacheSql ──┬── CacheStore ──────┬── MCCacheStore
               │                    ├── CacheStoreProofs
               │                    └── implements CacheContract ── CacheContractProofs
               ├── Stampede ────────┬── MCStampede
               │                    ├── StampedeProofs
               │                    └── implements SingleFlight
               ├── DistributedLock ─┬── MCDistributedLock
               │                    ├── DistributedLockProofs
               │                    └── implements LeaseService ─── LeaseServiceProofs
               ├── EarlyRefresh ────┬── MCEarlyRefresh
               │                    └── EarlyRefreshProofs
               └── CacheSqlProofs (lemmas on the statements), extended by
                   CacheStoreProofs, StampedeProofs, DistributedLockProofs
                   and EarlyRefreshProofs
    Lifecycle ──────────────────────┬── MCLifecycle
                                    └── LifecycleProofs

**`CacheSql`** holds the data: `Row` is the table's row, a table is a function
from the keys that *have* a row (expired or not), and each statement is a
function from tables to tables. `new_row` is the arithmetic of `set` and
`set_many` (`_db.py:298-329`), `renewed` the `LEAST` of every read, `Live` and
`Expired` the two `WHERE` clauses. Durations are ticks, and
`resolve_sliding_seconds` truncates a window to whole seconds
(`TicksPerSecond` ticks), toward zero as `int(total_seconds())` does. A `LIKE`
pattern is the set of keys it matches.

**`CacheStore`** is the database layer of any number of clients, with the
scanner. A call is two steps: `Get`, `Set`, `Incr`, ... read the clock and leave
in `call[c]` what will be sent; `ExecRead`, `ExecSet`, ... execute it, or `Raise`
ends it with no effect. `get`, `get_with_ttl` and `refresh` are one action,
since their UPDATEs change the same columns. `ScanWake`, `ScanDelete` and
`ScanFail` are the scanner's loop, split at the same place. `Tick` is time,
`ServerCrash` truncates the table unless `UseWal`. `lastUse` and `total` are
history: the latest instant a read or write of a key began, and what has been
added to a counter since it was last deleted.

**`CacheContract`** is what the cache promises of its entries and counters, with
neither rows, statements nor a scanner. An entry has a value, a window, a ceiling
and a deadline; a deadline lies within the window from *some* use of the entry,
not always the latest, and under the ceiling, which no use moves. `Use` is the
beginning of a read or write, `Write` and `Renew` its effect, later or never;
`AskDeletion` comes before `Delete`, and `Collect` takes only what is over. A
counter moves by `Add` and goes back to 0 with a deletion only. `CacheStore`
implements it under the mapping `used`, `deleting`, `entry`, `count`
(`CacheStore!ImplementsContract`), for the keys that are used as entries only and
as counters only.

**`Stampede`** is `get_or_create` with the factories of `cached` (mode
`"plain"`) and of `failover`. Program counter: `connecting` (pool), `locking`
(`pg_advisory_xact_lock`), `checking` (`get_item_after_lock`), `computing` (the
factory), `stale_connecting`, `stale_reading` (`get_stale` from inside the
failover factory, on a second connection), `storing`. `flight[c].now` is the
instant read first and used for the double-check and the stored expiry alike.
`alive` says that the transaction is still open: `ConnectionLost` and
`ServerCrash` clear it and free the lock, and the caller learns in `Doomed`.
Other clients read, set, remove and scan without taking the lock; their reads
carry any instant up to now, so a late one may revive a row that has expired.

**`SingleFlight`** is what `get_or_create` promises, with neither transactions
nor pools: a leader per key, a value enters only by being published by the
leader, and a caller that has begun to wait leaves the queue in two ways only,
to lead (`Lead`) or with an answer from the cache (`Serve`), both while nobody
leads; besides, a lost connection may throw it out (`Disrupt`). `GiveUp`, the
end with an exception, is not for those who wait. `Stampede` implements it under
the mapping `members`, `leader`, `waiting` (a transaction that is open and asks
for its lock or does its double-check), `entry` (`Stampede!Abstract`).

**`DistributedLock`** is `set_lock`, `unlock`, `is_locked` and the `lock()`
context manager. A client goes through `polling` (about to stamp the lease:
`expires_at = utc_now + expire`, `Stamp`), `stamped` (about to read the clock
again for the takeover test, `Send`) and `sending`, where the statement inserts
or takes over (`Acquire`), finds the lock held (`Held`: `lock()` polls again,
`set_lock` returns `False`), or commits and loses its answer (`LoseAnswer`).
`body` is the `with` block, of any length, and `unlocking` its `finally`. A
client dies or raises in `Fail`, leaving in the table what it had there.
`is_locked` is `asking`, `querying`, and `free` when it was told so. Tokens are
numbered as they are drawn, so they are unique, as `uuid4` is. `parse_duration`
adds up the parts of an `expire`; `since` is history.

**`LeaseService`** is what the locks promise, with neither tables nor delayed
statements: a lock is granted under a new token when no unexpired lease of it is
left; an unexpired lease is ended by the client it was granted to (`Release`), or
lost with a table that is not durable (`Lose`). It grants a lock to nobody when
the answer is lost (`GrantUnanswered`), and does not say how long a lease lasts:
a tenant may find it over. `DistributedLock` implements it under the mapping
`lease` (the rows), `tenant` (the clients in their body or about to unlock):
`DistributedLock!ImplementsLeases`.

**`EarlyRefresh`** is the `early` decorator. A value is the instant at which
the function computed it, so its age is known. `Hit` is `get_with_ttl`, the
comparison with `early_threshold` and the start of a refresher, in that order;
`Miss` goes on to `get_or_create`, whose lock is left out (`Stampede` has it);
`RefreshComputes`, `RefreshStores` and `RefreshFails` are the background thread
or task. The options are those the decorator builds: `ttl` as a *sliding*
window.

**`Lifecycle`** is one cache object, of threads or of tasks (`options.kind`).
Workers begin operations (`Call`), which run `ensure_table_exists` first:
`Begin` is the unlocked look at the flag, `DdlLock` and `DdlAlreadyDone` the
second one under `_ddl_lock`, then `DdlConnect`, `DdlCommit` or `DdlFails`, then
the operation's own statement (`Execute`, `ExecuteFails`). The scanner is one
more such thread, in a loop guarded by `stop`. The owner enters (`Enter`,
`EnterIdly`) and closes: `Close` sets the event, `Joined`, `GiveUp` (threads,
after 5 s) or `Cancel` (tasks) end the wait, `ClosePool` closes the pool.
`Valid` is what `PostgresCacheOptions.__post_init__` accepts. `OtherCreates` is
another process. `gaveup` is history.

Definitions named after a "slip" in their comment are faulty variants of the
definition that follows them; no specification uses them.

## 3. What is checked

| run | model | shows |
|---|---|---|
| `store` | `MCCacheStore` | `TypeOK`, `HardCutoff`, `IdleEntriesExpire`, `CounterExact`, `LiveRowsLeaveOnlyByInvalidation`, `OnlyOvertakenReadsShorten`, `ImplementsContract` |
| `collection` | `MCCacheStore` | in a table that may crash: `ImplementsContract`, and `ExpiredRowsAreCollected` under the scanner's fairness |
| `flights` | `MCStampede` | `TypeOK`, `OneFlightPerKey`, `NoComputationWasted`, `ImplementsSingleFlight`, `StaleServedWithRoom` |
| `calls_end` | `MCStampede` | `EveryCallEnds` under the callers' fairness |
| `renewal` | `MCCacheStore` | violated: `RenewalNeverShortens` |
| `waiters` | `MCStampede` | violated: `WaitersReadTheValue` |
| `locks` | `MCDistributedLock` | `TypeOK`, `ExclusiveWhileLeased`, `LeasesRunOut`, `FreeMeansFree`, `ImplementsLeases`, and `CallsEnd` under the clients' fairness |
| `lifecycle` | `MCLifecycle` | `TypeOK`, `TableReady`, `DdlOnce`, `OneScanner`, `HasScanner`, `NoScannerAfterClose`, and `CallsReturn`, `ScannerStops` under the threads' fairness |
| `stale_served` | `MCStampede` | violated: `StaleServedOnFailure` |
| `exclusive` | `MCDistributedLock` | violated: `ExclusiveWithinExpire` |
| `early` | `MCEarlyRefresh` | violated: `StaleHitsRefresh` |
| `index` | `MCLifecycle` | violated: `IndexReady` |

### Bounds

* Two clients are enough for the races of `CacheStore`: a delayed statement and
  whatever overtakes it; the scanner is a third actor. The clients are
  symmetric and so is every property of `store`.
* `store` has one entry key and one counter key. Bulk statements act on each
  row by itself, and `BothKeys` makes them cross the two kinds of row;
  `collection` has two entry keys.
* `MaxClock = 3` leaves room for a window of one second, an expiry, and an
  instant after the ceiling, with ticks of half a second so that a window
  with a fraction (3 ticks) is truncated (to 2). `Century` is past the bound:
  a row with no TTL outlives the run. `MaxTotal` bounds the increments.
* `StoreChoices` covers a window below a relative ceiling, a window below an
  absolute one, and tags with no TTL; `ScanChoices` adds the default options
  and a cutoff alone.
* `store` has no crash: that of a logged table changes no row and no pending
  statement of the model. `collection` has one, of an UNLOGGED table; a second
  starts from a state like the first.
* `flights` has three callers of one key: one leads, one waits, one starts
  while the first has lost its connection. Advisory locks of different keys do
  not interact in the model, so one key is enough; the pool (three) is the
  bound the calls compete for: one call in a transaction has room for a stale
  read, two have not, so `StaleServedWithRoom` meets both sides of its bound. One
  fault at a time. `MaxClock = 2` lets a row of one second expire.
* `flights` uses entries with a fixed lifetime only, for which a late read is
  harmless, and every kind of interference; `calls_end` has both lifetimes,
  with late reads that revive a row.
* `calls_end` and `stale_served` have a pool of two for two callers, the
  smallest in which a waiter can starve the leader's second connection.

* `locks` has one lock: locks do not interact. Two clients with three calls
  between them (`MaxCalls`) are an owner, its successor, and the first again or
  a third party; `MaxClock = 2` with a lease of one second leaves an instant
  at which it has ended. No symmetry, since the run checks liveness.
  `MaxClock` bounds the leases a lost answer or a dead client may leave
  behind, so that each still ends within the clock.
* `exclusive` has leases of no time and of two seconds, so that a wait fits in.
* `early` has two ticks a second, a window of two seconds and a threshold of
  one; `MaxRefreshers` bounds the threads of one key. `RefreshIgnoresAge` says
  what any other choice of the two durations would do.
* `lifecycle` has two workers, one holding the DDL lock and one behind it, and
  two scanners, so the cache can be entered again after a `close`, one that
  gave up included. Every combination of kind, connection source, creation
  and scan is an initial state, those the class cannot use included; two
  tables show what other processes do to the schema.

### Fairness

`CacheStore!FairSpec` assumes of the scanner only that its thread is scheduled
(`WF` of `ScanWake`: the wait on the stop event has a timeout) and that its
statement does not fail for ever (`SF` of `ScanDelete`, since every failed round
disables it until the next). Clients, time and crashes are free.

`Stampede!FairSpec` assumes of each caller that its next step is taken
(`WF` of `Progress`: factories end, a statement on a lost connection raises, the
pool serves a waiter or raises `PoolTimeout`), and that PostgreSQL serves the
lock queue in turn (`SF` of `Lock`: the lock can be free and taken again by
another between two turns). The deadlock of factories that call
`get_or_create` themselves is outside this model.

`DistributedLock!FairSpec` assumes that time passes and that every client's next
step is taken: a body ends, a poll is made again. Nothing is assumed of the
scanner, and nothing of `Fail`. That a poll is not overtaken for ever is not
assumed either: with `MaxCalls` bounded there is always a last owner.

`Lifecycle!FairSpec` assumes that threads are scheduled and statements end, with
a result or an exception (`WF` of `Progress`, `ScanStops`), and that a thread
waiting for `_ddl_lock` gets it in the end (`SF` of `TakeDdlLock`: the lock can
be free and taken between two turns; `asyncio.Lock` is first come, first
served, and `threading.Lock` starves nobody in practice). Nothing is assumed
of the owner: a `close` is never forced, nor a scan.

### Where the code and its documentation part

* **A read may bring the expiry forward** (`renewal`). The renewal carries the
  instant at which the read began (`_db.py:150`). Executed after a later read
  or write of the key, it moves the deadline back. `README.md:219`: "Sliding
  expiration (extends each time it is accessed)". What does hold, and is proved,
  is `OnlyOvertakenReadsShorten`: a read that is the latest use of its entry
  never shortens it.
* **Waiters may find nothing** (`waiters`). `get_or_create` stamps the row with
  the instant before the lock and the factory (`_db.py:583`); with a TTL no
  longer than the factory, the row commits already expired, and the callers
  blocked on the lock compute in turn. `README.md:244`: "Other concurrent
  requests block and safely read the computed value once finished."
  That a flight is never repeated while its row *is* live for the next caller
  is `NoComputationWasted`, which holds.
* **A failover call may raise with the stale value there** (`stale_served`).
  `get_stale` takes a second connection while the call holds its first
  (`_cache.py:501`); when the callers waiting for its lock hold the others, it
  raises `PoolTimeout`. `README.md:299`: "the last successfully cached weather
  data is returned". What does hold, and is proved, is `StaleServedWithRoom`: while the
  calls in a transaction are at most half the connections of the pool, the row is
  returned unless the connection itself is lost. A pool of twice as many
  connections as callers is enough.
* **The lock is shorter than its `expire`** (`exclusive`). `set_lock` stamps
  `expires_at` (`_cache.py:289`) and only then waits for a connection; when the
  statement commits the lease may be nearly over, or over. A second worker
  then enters while the first has been in its body for less than `expire`.
  `README.md:359`: "Guaranteed exclusive access across all worker nodes!";
  `_cache.py:322`: "Max duration to hold the lock (auto-release)". What does
  hold, and is proved, is exclusion of leases that are unexpired by the clock.
* **`early` never refreshes** (`early`). `get_with_ttl` renews the sliding row
  and returns what is left of the *renewed* expiry, always the whole `ttl`, so
  `remaining < ttl - early_ttl` (`_cache.py:557`) is never true. The entry lives
  as long as it is read, unrefreshed. The exact condition is `AgeIsNotAsked`: if
  truncating the window to whole seconds costs it more than `early_ttl`, every
  hit starts a refresh, and otherwise none does, at any age. `README.md:312-314` promises a refresh after
  `early_ttl` and speaks of an absolute TTL; `_cache.py:529`: "Background refresh
  is triggered when the age of the cache exceeds this". The unit tests replace
  `get_with_ttl` by a mock (`tests/unit/test_cache.py`).
* **One index name for every table** (`index`). `ix_expiresattime` (`_sql.py:70`)
  does not depend on the table, and index names are unique in a schema: the
  second cache table of a schema gets no index on its expiry, silently.
  `_db.py:90`: "Create the cache table and index if they do not exist yet."

Seen on the way and not checked by a run: a `close` that gives up on its thread
(`_cache.py:105`), followed by another `__enter__`, leaves two scanners
(`OneScanner` exempts it; `_cache.py:123` says "No-op if the thread is already
running"); a cache with a `dsn` cannot be used after `close`, its pool being
closed for good, though it may be entered; `_db.py:92` says the DDL is attempted
at most once, and it is tried again after a failure; `_options.py:149` rejects
a `dsn` given with a factory, where the docstring above it has an order of
priority, and accepts a factory of the other class, whose every call then
fails; `default_sliding_expiration` is
applied only when no options at all are passed (`_db.py:301`), while
`_options.py:120` says it applies when `EntryOptions` provides none; a hit of
`get_or_create` renews nothing (`_db.py:567`) while `_options.py:200` says the
window resets on each access; `README.md` calls the parameter of `incr`
`amount`, the code `value`.

## 4. What is proved

Eight modules hold theorems. Every invariant and every action property of a
passing run, and each of the three refinements, is a theorem. The five liveness
properties (`ExpiredRowsAreCollected`, `EveryCallEnds`, `CallsEnd`, `CallsReturn`,
`ScannerStops`) are only model-checked: liveness under fairness is out of the
prover's reach. `AgeIsNotAsked` and `NothingRefreshed`, and the properties of the
two abstract specifications, are proved and belong to no run.

`CacheStoreProofs` proves, from `SqlAssumption` and `StoreAssumption` alone,
for any clients, keys, option sets, tick length and bounds:

* `TypeCorrect`: `Spec => []TypeOK`;
* `DeadlinesBounded`: `Spec => [](TypeOK /\ DeadlineInv)`;
* `CutoffIsHard`: `Spec => []HardCutoff`;
* `IdleEntriesDie`: `Spec => []IdleEntriesExpire`;
* `CountersExact`: `Spec => []CounterExact`;
* `LiveRowsStay`: `Spec => LiveRowsLeaveOnlyByInvalidation`;
* `ShortenersAreOvertaken`: `Spec => OnlyOvertakenReadsShorten`;
* `Implementation`: `Spec => ImplementsContract`, the refinement.

`HardCutoff` and `IdleEntriesExpire` are not inductive. `HardCutoff` says that a row past its
ceiling is expired *now*; a statement in flight may carry a row, or an instant,
that would break it later. `DeadlineInv` closes the gap. It bounds every row of
an entry, in the table or in a pending `set`: never `'infinity'`, at most its
ceiling, and at most `lastUse + sliding`; and it bounds the instant of every
pending read by the `lastUse` of its keys. Only keys that are not counters are
concerned: `incr` makes a row immortal on purpose.

The argument follows the code's two halves. `NewRowBounded`: a row computed by
`new_row` at this instant is bounded by it. `RenewedBounded`: the `LEAST` keeps
the row under its ceiling, and the read's instant is at most `lastUse`.
`BoundedGrows`, `RowsGrow`, `CallGrows`: raising `lastUse`, which is all the
first half of another call does, breaks no bound. `TableBounded` and
`CallsBounded` take the actions one by one and `DeadlineStep` combines them.
`SqlAssumption` needs only that `NULL`, `infinity` and the instants are
different, and that a second has at least one tick.

`CountersExact` rests on `CounterInv`: a counter's row never expires and has no
window or ceiling, so no read shortens it and no scan deletes it. `LiveRowsStay`
rests on `DeletionInv`: the scanner's instant is not in the future, so what it
deletes is expired by the clock. `ShortenersAreOvertaken` uses `DeadlineInv`
again: a row in bounds is never past what a renewal at `lastUse` would give it
(`LatestUseIsLongest`), so a renewal that shortens it carries an older instant.

The refinement is by step simulation under the same invariants. A call that
begins is a `Use`, an `AskDeletion` or a stutter (`BeginRefines`); the read of a
set of keys is a `Renew` of those that are live and have a window, each from the
one instant the read carries, which `DeadlineInv` places in `0 .. lastUse`
(`ReadRefines`); a `set` is a `Write`, whose rows `DeadlineInv` keeps `Within`
(`SetRefines`); an increment is an `Add`, since `CounterInv` rules out the reset of
an expired counter (`IncrRefines`); a scan is a `Collect`, by `DeletionInv`
(`ScanRefines`). An error between the two halves of a deletion is a
`FailDeletion`, and a crash a `Lose`, or a stutter of a logged table.

`CacheContractProofs` proves that this contract is worth implementing, for any
values of its constants:

* `ContractRunsOut`: `Spec => []EntriesRunOut`. Whatever is renewed from an old
  use, an entry is over after its ceiling and after a window without use. The
  invariant is `Inv`: no use is in the future, and every entry is `Within` the
  bounds of its latest use (`RenewedWithin`: a renewal from an older use is within
  those of a newer one).

`StampedeProofs` proves, from `SqlAssumption` and `StampedeAssumption`:

* `TypeCorrect`: `Spec => []TypeOK`;
* `SingleOwner`: `Spec => []OneFlightPerKey`;
* `NothingWasted`: `Spec => []NoComputationWasted`;
* `Implementation`: `Spec => ImplementsSingleFlight`, the refinement;
* `RoomServesStale`: `Spec => StaleServedWithRoom`.

The inductive invariant is `Inv`, three conjuncts. `TypeOK` alone is not
inductive, because a flight's `value` is `None` until it has one and a row's
never is: `PayloadInv` says that what is about to be stored is a payload.
`OneFlightPerKey` alone is not either, since it says nothing of the lock:
`LockInv` says that an open transaction between its double-check and its commit
is the holder of its key's lock, and that a holder is such a transaction. The
lemmas follow the ways a step can disturb this: `LockAdvance` (a step within the
protocol), `LockTaken`, `LockReleased` (an end, a lost connection) and the crash.

`NoComputationWasted` excepts rows with a sliding window: a late read may revive
one that had expired while another call computes. It is inductive with `Inv`: `LeaderKept` says that whoever
leads was leading the same flight or has just checked, and `RowBehindLeader`
what other steps may do to the row meanwhile (a store of another call is
excluded by `LockInv`). The refinement is by step simulation: `Members` and
`Leaders` characterise the mapping by the flights, and each action is shown to
be a `Join` (`CallRefines`), `Wait` (`ConnectRefines`), `Serve`, `Lead`, `Publish`,
`GiveUp`, `Disrupt`, or a stutter (`AdvanceRefines`); `WaitingKept` and
`WaitingLeft` say which steps leave the queue as it is and which take one caller
out of it.

`RoomServesStale` is a counting argument. `RoomForOneMore`: a call that looks for a
stale value is itself in a transaction and holds no second connection yet, so
the second connections are fewer than the calls in a transaction, and with at
most half the pool in transactions one is free; `PoolTimeout` is then disabled.
`StaleCallEnds`: the other ends of such a call are a lost connection and a key
without a row. `StampedeAssumption` says, for this, that the callers are finitely
many.

`DistributedLockProofs` proves, from `SqlAssumption` and `LockAssumption`:

* `TypeCorrect`: `Spec => []TypeOK`;
* `LeasesBacked`: `Spec => [](TypeOK /\ LeaseInv)`;
* `LeasesExclude`: `Spec => []ExclusiveWhileLeased`;
* `FreeIsFree`: `Spec => FreeMeansFree`;
* `Implementation`: `Spec => ImplementsLeases`, the refinement;
* `NoLockIsStuck`: `Spec => []LeasesRunOut`.

Exclusion is not inductive: it says nothing of the table. `LeaseInv` says that
the row of an unexpired lease carries its owner's token and its expiry
(`BackedInv`), that tokens are not shared (`TokenInv`), and that no statement in
flight, of a client or of the scanner, carries a future instant (`PastInv`).
So two unexpired leases of one lock have one row, one token, and one owner; a
takeover with an old instant finds the row live, because that instant is not
after the clock; an overrun owner's `unlock` names a token the row no longer
has. `FreeMeansFree` follows from the same: a live lease would have shown. Both
hold while the table keeps its rows: a crash of an UNLOGGED table forgets the
leases, and a second client may then be granted the lock of a first.

The refinement is by step simulation (`NextRefines`). `Acquire` is a `Grant` and
`LoseAnswer` a `GrantUnanswered` (`Gives`), `Unlock` is a `Release`, a `Fail` with
the lock an `Abandon`, the scanner's statement a `Collect`, a crash a `Lose`; the
rest touch no lease and no tenant (`TenantKept`). Beside `TokenInv` and `PastInv`
it needs `RowInv`: every row of a lock has an end, and the token of a call that is
still asking is in no row, so what is granted is new.

`LeasesRunOut` is the safety half of "no deadlock if a worker crashes": it needs
`StampInv`, that what a statement on its way would stamp is within its `expire`
of the clock, and so is every row it may leave, answered or not.

`LeaseServiceProofs` proves that the service does what its users want of a lock,
from its actions alone (durations play no part in them):

* `ServiceExcludes`: `Spec => []Exclusive`, two clients never hold one lock;
* `LeasesAreKept`: `Spec => HoldersKeepLeases`, what a client holds is not
  released, taken over nor collected by anyone else.

Both rest on `TokenInv`: no two tenants have the same token.

`EarlyRefreshProofs` proves, when `ttl` and `early_ttl` are durations that are not
negative, whole seconds or not (`Durations`):

* `TypeCorrect`: `Spec => []TypeOK`;
* `RefreshIgnoresAge`: `Spec => AgeIsNotAsked`;
* `NeverRefreshes`: `Spec => []NothingRefreshed` when, besides, the fraction of a
  second in `ttl` is at most `early_ttl`, as it is for every `ttl` of whole seconds.

The invariant is `EarlyInv`: every row, in the table or on its way from a
refresher, has the truncated `ttl` as its window and no ceiling (`WholeWindows`),
so a read leaves exactly that (`HitRenews`), and the comparison with the threshold
comes down to the two durations (`Due`). The finding is not an accident of the
instance.

`LifecycleProofs` proves, from `LifecycleAssumption` (workers and scanners are
different threads, the options are well typed):

* `Invariant`: `Spec => []Inv`, and from it `TypeCorrect`, `TableIsReady`,
  `DdlRunsOnce`, `SingleScanner`, `ScannerRuns`, `NoneOutlivesClose`, one for each
  invariant of the run `lifecycle`.

`DdlOnce` is not inductive, since it does not mention the lock: `DdlInv` says that
the threads in the DDL are the holder of `_ddl_lock`, that the flag is unset
while it is held, and that a thread past the DDL has seen the flag.
`HasScanner` and `OneScanner` need `ScannerInv`: what `handle` and `stop` are in
each phase of the owner. `NoScannerAfterClose` needs `ToldInv` as well: from `Close` on the event is set, and
stays set while a scanner is left (`ToldKept`), only `Enter` starts one
(`OnlyEnterStarts`), and only a thread is given up on. Each lemma takes the actions
one by one.

`CacheSqlProofs` holds the lemmas the modules over `CacheSql` rest on: each
statement keeps a table a table, and the deadline of a new row is an instant. It
also proves three laws of the statements, for every table, and one of the window
they are sent:

* `ReadsArePiecewise`: reads of one instant commute, repeat without effect and
  add up, so a `get_many` is the `get`s of its keys in any order;
* `WritesArePiecewise`: a `delete_many` is the deletes of its keys, and a `set_many`
  the upserts of its rows, whichever come first;
* `ScansAreInvisible`: a read that is not older than a scan finds the same live
  rows, and leaves the same, whether the scan has run or not;
* `TruncationLosesLittle`: a window kept in whole seconds is never longer than the
  one asked for, never shorter by a second, and nothing if it was below a second.

## 5. Assumptions and limits

* One clock for every process. Clients with skewed clocks would need the
  properties restated per client.
* A statement is atomic. This is right for one row (row lock, recheck of the
  `WHERE` clause under READ COMMITTED). For several rows the code's statements
  lock rows one after another, so a bulk statement may interleave with another,
  or be aborted as the victim of a deadlock (an abort is `Raise`). By
  `ReadsArePiecewise` and `WritesArePiecewise` its effect is then that of calls
  on one key each, which the theorems cover, being about any number of clients;
  that the parts are seen together is not claimed for any bulk operation.
* `pg_advisory_xact_lock` takes a 64-bit hash of the key. Two keys with one hash
  would share a lock; the model gives each key its own.
* A key is used either for entries or for counters in `HardCutoff`,
  `IdleEntriesExpire`, `CounterExact`, `OnlyOvertakenReadsShorten` and
  `ImplementsContract` (`PureEntries`, `PureCounters`);
  the actions and the other properties have no such restriction.
* `DistributedLock` and `EarlyRefresh` have their keys to themselves. A lock
  taken over an expired entry keeps the entry's window, ceiling and tags
  (`set_lock_item`); a `get` of that key would then move the lease's end. No
  document of the repository speaks of it.
* `Lifecycle` drops no table, opens the tasks' pool in one step, and has one
  owner: two tasks that close, one that closes while another enters, or while
  another is in the middle of `open` (`_async_db.py:54-67`), are left out.
* `DistributedLock` takes every token as unique. `lock()` draws a `uuid4`;
  `set_lock` sends what its caller passes, and two callers with one token would
  release each other's lease.
* `Stampede!FreeConnections` counts the connections of `get_or_create` only. The
  other operations of a cache borrow from the same pool, one each and for one
  statement: `StaleServedWithRoom` holds if they are counted among the calls in
  a transaction.
* The two halves of the library, threads and tasks, run the same statements in
  the same order and share these models. Logging, pickling, key
  validation and `_make_key` have no state and are left out.

## 6. Not modelled

* `set_many` and `delete_many` row by row. Two of them in opposite orders are
  aborted by PostgreSQL's deadlock detector (an abort is `Raise`), and a
  transaction that is aborted rolls back all its rows: the database's doing.
* Key validation, `_make_key`, `key.format`, pickling, logging, package exports:
  no state. Of `parse_duration`, the regular expression that splits the string.
* Factories and decorated functions that call the cache themselves: what they
  lock, and in which order, is the application's.
* `examples/web_demo`: an application of the library.
