# Lucendex: TLA+ models and proofs

Lucendex (Go, `src/backend`) follows the XRP Ledger, keeps an order book and AMM
index in PostgreSQL, and sells quotes over a signed partner API. This directory
models the parts of it whose correctness rests on order, failure and time, checks
them with TLC, and proves the central facts with TLAPS. Paths below are relative
to `src/backend` unless they name a document.

Contents: [inventory](#inventory), [how the parts interact](#how-the-parts-interact),
[modules](#modules), [runs](#runs), [bounds](#bounds), [fairness](#fairness),
[proofs](#proofs), [what the code does not do](#what-the-code-does-not-do),
[not modelled](#not-modelled), [plan](#plan).

## Inventory

| Component | State | Operations | What is hard | Correct when |
|---|---|---|---|---|
| `cmd/indexer` main loop and backfill | position of the two loops, checkpoints, channel | start, gap detection, `processLedger`, publish | two goroutines on one database, a crash between two writes, holes | a checkpoint vouches for the work; no ledger is applied twice; the loops make progress |
| `internal/xrpl` client | connection, reader goroutines, `reconnecting`, callback | Connect, Subscribe, readMessages, reconnect, Close, FetchLedgerSync | flags read without the lock, stale readers, late and lost answers | one goroutine reconnects; the connection is watched, subscribed, not leaked; an answer is the one asked for |
| `internal/parser` | none | AMM and offer transactions to rows | fields that never arrive, prices that print as zero | a row says what a transaction says |
| `internal/store` (PostgreSQL) | tables | upserts, cancels, checkpoints, quote registry, usage | order of upserts, partial failure | the tables hold the current state |
| `internal/kv` | LRU list, map, byte count | Get, Set, Delete, IncrementRateLimit, cleanup, eviction | expiry at the boundary, three representations, quotas | they agree; limits hold |
| `internal/api` rate limiter | counters in the KV store | Middleware | sliding expiry, eviction by quotes | a minute admits no more than the limit; a rejected partner gets in again |
| `internal/router` circuit breaker | state per pair, price window, caution mode, timers | CheckPrice, RecordTrade, EnableCautionMode | timers of earlier calls, half-open state, restart | it opens and closes again; caution ends |
| `internal/router` pathfinder | graph, heap, partial maps | FindBestRoute | asymmetric graph, negative costs, hop limit | real and cheapest routes |
| `internal/router` quote engine | none of its own | GenerateQuote, hash | chain of failures, what the hash binds | a quote is bound to a ledger that is indexed |
| `internal/api` authentication | request ids; partners and keys, which are only read | authenticate, clean up | look-up and insert are two statements, rows expire, answers are lost | a request that is repeated is served once |
| `internal/api` handlers | ledger index, network state, quote registry | quote, pairs, usage, ledger update, health | updates that overtake each other, a registration that fails | health tells the truth; an answered quote can be attributed |
| trades and usage (`cmd/indexer` quote path) | completed trades, usage events, registry | match a memo with a quote, record, bill, delete | crash or failure between statements, repeated ledgers, one hash of two partners | a bill has its trade and its quote, and a trade its bill |

## How the parts interact

- **rippled → indexer.** rippled announces a validated ledger on the
  subscription. `handleMessage` starts a goroutine that requests it
  (`client.go:156`), and puts the answer into a channel of 100 without blocking,
  dropping it when the channel is full. The main loop takes ledgers from there.
- **Two workers, one database.** If the indexer is behind at start, a goroutine
  with a client of its own fetches the missing ledgers one at a time with
  `FetchLedgerSync`. Both workers run `processLedger`: read the checkpoint, apply the
  transactions one statement at a time, save the checkpoint. There is no database
  transaction and no lock around them. A ledger is skipped only if the query for its
  checkpoint succeeds (`main.go:402`), and a checkpoint that cannot be saved is an error
  that both callers log (`main.go:575`): either way a ledger that is announced again is
  applied again.
- **Reader goroutines.** Each connection has one; when it stops, it closes the
  client's connection, whichever that is by then, and reconnects unless another
  goroutine is at it. `FetchLedgerSync` waits for an answer that the reader hands it
  through the shared field `c.onLedger`.
- **Indexer → API.** After each ledger of the main loop, a POST with a 3 s timeout
  tells the API the ledger index. The handler writes it into the KV store and into
  `core.network_state`. The health endpoint compares that row with the checkpoints.
- **API → indexer, through the database.** The quote handler registers the partner of a
  quote under its hash, the indexer finds the hash in the memo of a payment, records the
  trade, bills the partner and removes the registration: four statements, with the
  other worker, the API and the clean-up functions of the database (`cleanup_expired_quotes`,
  `cleanup_old_trades`) between any two of them.
- **API → KV store.** Quotes, rate-limit counters and system keys share one
  memory limit and one least-recently-used list.
- **Quote path.** validator, pathfinder, breaker, fee, hash: one call each. The
  pools and offers are handed to the pathfinder's constructor and are empty in both
  processes that build one (`cmd/api/main.go`, `cmd/router/main.go`).

## Modules

A module's state is the state of the code named in its comment; variables that only
observe are marked so. Every action is one handler, or one piece of it between two
points where another goroutine can run.

| Module | Models | State and actions |
|---|---|---|
| `Indexer` | `cmd/indexer/main.go`, `SaveCheckpoint`, `GetCheckpoint` | `checkpoints` and `applied` are the database, all else dies in `Stop`. `Start`, `GetServerInfo`, `ConnectAndSubscribe` are `main()`; `CheckDuplicate`, `ApplyTransactions`, `SaveCheckpoint` are `processLedger`, for either worker; the network and the channel are `CloseLedger` … `Reconnect` |
| `Freshness` | `publishLedgerIndex`, the ledger-update and health handlers | extends `Indexer`: every step of it is one here, `Publish` also sends the request |
| `XrplClient` | `Connect`, `Subscribe`, `readMessages`, `reconnect`, `Close` | `pc` says where each reader goroutine is. What runs under `c.mu` is one action; what reads `c.conn` or `c.reconnecting` without it is one of its own |
| `FetchLoop` | what the backfill relies on | abstract: each call delivers the ledger asked for or nothing |
| `SyncFetch` | `FetchLedgerSync`, its callback and `handleMessage` | extends `FetchLoop` and keeps its variables; the request, the callback, the reader's two loads of `c.onLedger` and the timer are separate steps |
| `Orderbook` | the transaction loop, `internal/parser`, `UpsertOffer`, `CancelOffer`, `UpsertAMMPool` | `history` is what the network validated, `carried` the fields of a transaction that reach the parsers: those of `xrpl.Transaction`, or all. A worker takes a ledger (`Take` has a disjunct for the skip, for a ledger without a checkpoint and for a query that fails), applies one transaction per step, and saves, or fails to; `Execute` is what a transaction writes, `StatementFails` the log line instead; `reread` and `failed` observe |
| `Settlement` | the quote path of the loop (`main.go:470-547`) and the statements on its three tables, `QuoteHandler`, `StoreQuoteRegistry`, `cleanup_expired_quotes`, `cleanup_old_trades` | extends `Orderbook`; where a worker stands at a payment, `stage` says which statement comes next: `GetQuoteRegistryEntry`, `InsertCompletedTrade`, `InsertUsageEvent`, `DeleteQuoteRegistryEntry`. `requested`, `expired`, `cleaned` and `unsettled` observe |
| `MCSettlement` | | instances of both: histories with offers, pools, marked cancels or payments |
| `OnceOnly` | what a client that repeats its requests relies on | abstract: each request is executed once, unless the promise is void |
| `Auth` | `AuthMiddleware`, `CheckRequestID`, `StoreRequestID`, `request_ids` and its clean-up | `calls` says at which step each HTTP goroutine is; `rows` is the table; `served` and `overdue` observe and are mapped to `OnceOnly` |
| `MCAuth` | | an instance: two partners with one id, an id that is used again |
| `KVStore` | `internal/kv/memory.go` | `data` is the map, `lru` the list, `bytes` the counter; `Put` is the tail of `setLocked`, evictions included |
| `RateLimit` | `internal/api/ratelimit.go` | extends `KVStore`: a request is `IncrementRateLimit` and a comparison; `made`, `admitted` and `evicted` are what an observer with a clock sees |
| `Pathfinder` | `internal/router/pathfinder.go` | the market is chosen at the start; `Visit`, `Drop`, `Exhaust` are rounds of `dijkstra`; `Path` and `Hop` are what is returned |
| `CircuitBreaker` | `internal/router/breaker.go` | `StillOpen`, `Panic`, `Reject`, `Accept` are the outcomes of `CheckPrice`; `timers` holds what is left of each timer that was started. `BreakerSpec` lets anyone call, `ServiceSpec` only production code |
| `IndexerProofs`, `XrplClientProofs`, `SyncFetchProofs`, `KVStoreProofs`, `OrderbookProofs`, `AuthProofs`, `RouterProofs` | | theorems and proofs: of `Indexer` and `Freshness`, `KVStore` and `RateLimit`, `Orderbook` and `Settlement`, `Pathfinder` and `CircuitBreaker`, and of the module each of the others is named after |
| `SumLemmas` | | sums over finite sets, least elements, induction over finite sets and numbers |

How they fit together: `Freshness` composes the indexer with the API, and is proved
to contain `Indexer`. `SyncFetch` is proved to implement `FetchLoop`, whose two
actions are what `BackfillFetch` and `BackfillSkip` assume in `Indexer`.
`XrplClient` gives detail to `Indexer`'s `connected`, and `Orderbook` to its
`ApplyTransactions`. `Settlement` composes that loop with the API's quotes, and is proved to
be a run of `Orderbook`. `Auth` is proved to implement `OnceOnly` through
`INSTANCE OnceOnly WITH times <- served, void <- overdue`. `RateLimit` composes the limiter
with the store.

What the models abstract. A ledger is its index; a transaction is a record of a type
and the offer, pool or payment it is about; a quote is its hash; amounts, assets' spelling,
keys and signatures are left out. The HTTP and the WebSocket endpoint are one rippled node. Times are counted
in ticks and only as far as the code compares them. Operators named `…Mutant` are
wrong variants of the operator that follows: with one in the other's place, the run
must fail, which shows that the property can.

## Runs

| Run | Module | Properties | Shows |
|---|---|---|---|
| `indexer` | `Indexer` | `TypeOK`, `CheckpointedIsApplied`, `WorkersDisjoint`, `NeverReapplied`, `HolesAreFinal`, `FullChannelDrains`, `BackfillEnds` | two workers without a lock never meet on a ledger; checkpoints follow the work; a hole stays a hole; nothing blocks for ever |
| `freshness` | `Freshness` | `PublishedIsCheckpointed`, `HealthIsBlind` | the API only hears of ledgers that are indexed, and so its health can only be "ok" |
| `client` | `XrplClient` | `ReconnectExclusive`, `ConnIsWatched`, `ConnIsSubscribed`, `NoLeak`, `ReconnectSucceeds`, `CloseReleases` | raced by stale readers, the client keeps one watched, subscribed connection; Close ends everything |
| `fetch` | `SyncFetch` | `ImplementsFetchLoop`, `LoopEnds` | a late answer is never taken for another |
| `store` | `RateLimit` | `Accounting`, `MemoryBound`, `QuoteQuotaHolds`, `NoNeedlessEviction`, `AdmittedPerWindow`, `LockoutEnds` | the store's three representations agree and its limits hold; the limiter limits, but for evicted counters |
| `orderbook` | `MCSettlement` | `TypeOK`, `RowsAreHistory`, `OpenIsListed`, `BilledIsRecorded`, `RecordedIsBilled`, `BillingBound`, `BilledHasAsked`, `FieldsAreLost` | repeated, abandoned and failing applications do no harm to other rows; whatever comes between the statements of a payment, its bill has a trade and a quote, and its trade a bill, and each further bill its own crash or lapse; but with the fields that the code hands on, nothing of this is ever stored |
| `auth` | `MCAuth` | `ServedOnce`, `RowOutlivesWindow` | primary key, time window and life of a row together make each request be served once |
| `pathfinder` | `Pathfinder` | `PathsAreReal`, `CheapestIsFound`, `RouteIsUsable` | the search ends in real paths even with negative costs, and in cheapest ones without; the hops looked up afterwards exist and never beat the path |
| `breaker` | `CircuitBreaker` | `TypeOK`, `CautionEnds`, `Recovers`, `AverageStaysPositive` | caution ends, a pair whose price comes back is traded again, and a price check never makes the average zero |
| `indexer_no_gap` | `Indexer` | `NoGapResumes` | **violated**, see below |
| `client_lost` | `XrplClient` | `ReconnectsUnlessClosed` | **violated** |
| `orderbook_fields` | `MCSettlement` | `TableIsCurrent` | **violated** |

A type invariant is part of a run where it says more than the variables' types: in `indexer`
that numbers do not wrap, in `orderbook` that a busy worker's ledger has no checkpoint unless the query for it failed, in `breaker` that state and
failure count agree. The others are proved (see below).

Deadlock is checked in `freshness`, `store`, `breaker` and `auth`, which go on for ever. The
others really may stop: `Indexer` and `Orderbook` come to the last ledger of the bound
with no restart left, `SyncFetch` and `Pathfinder` end, a client that was closed and a
process that died have nothing left to do.

### The three violations

1. `indexer_no_gap`. `main.go:210` logs "No gap detected - resuming from ledger
   *checkpoint+1*" and `cmd/indexer/backfill_test.go:19` calls checkpoint 1000 with
   current ledger 1001 "no gap - consecutive ledgers". The backfill stops below
   `currentLedger` and the subscription only brings ledgers closed after it, so ledger
   `currentLedger` reaches neither worker: later ledgers are checkpointed while it is
   missing. `HolesAreFinal` says that no later start repairs it.
2. `client_lost`. `client.go:120` says "Attempt reconnection if not manually closed". A
   connection that breaks after `reconnect()` has subscribed it and before the deferred
   `reconnecting = false`: its reader finds the flag set and ends, and so does
   `reconnect()`. Nobody is left to dial.
3. `orderbook_fields`. `doc/architecture.md:266`: "Indexes current state only (AMM pools,
   active orderbook offers)". `processLedger` hands the parsers a JSON round trip of
   `xrpl.Transaction` (`main.go:425-436`), whose map for the fields of the type of transaction
   is tagged `json:"-"` and never filled (`internal/xrpl/types.go:28-29`). TakerPays, TakerGets
   and OfferSequence are gone: an OfferCreate becomes an `invalid_parse` row, and an offer that
   is open on the network is not an active one. No failure and no crash is needed.
   `FieldsAreLost` says how far it goes: no pool, no cancel, no trade and no bill either.

## Bounds

| Run | Instance | Why it is enough |
|---|---|---|
| `indexer` | 3 ledgers, 3 starts, channel of 1, retention 1, server_info up to 1 behind, uint64 as 2^4 | two restarts with a gap each; gaps of 0, 1, 2 and beyond retention; a full channel; a wrapped difference |
| `indexer_no_gap` | 4 ledgers, 2 starts | the shortest counterexample needs them |
| `freshness` | 2 ledgers, 2 starts, limits 0 and 1 | two updates are enough to overtake; the theorems cover the rest |
| `client` | 3 connections, 3 readers | two stale readers race a live one. Names of forgotten connections and ended readers are used again, so runs are of any length; 4 and 4 (5.4 million states) was checked as well |
| `fetch` | a gap of 4 | answers to three earlier requests can be late at once |
| `store` | 2 quotes, 1 counter, 1 system key, 4 bytes, sizes 1 and 2, quota 1, lifetimes up to 2 ticks, at most 3 requests in a window | every key can be evicted, expired, replaced by another size and refused; limit 1 is passed by two requests |
| `orderbook` | the fields that the code hands on, or all; histories of 3 ledgers: every legal one with up to 1 transaction each of an OfferCreate, its cancel and a dust offer, or of two OfferCreates and a marked cancel, or of 3 AMMCreates; up to 2 offer transactions each in ledgers 2 and 3; 2 payments for one quote in ledgers 2 and 3, or one for another quote; 2 partners; 1 crash, 1 lapse, 1 failing statement; an answer overtakes 1 ledger, the main loop is given any ledger again | a creation and a cancellation on both sides of a crash, with one more offer between; two payments in the hands of both workers, or one after the other, while two partners ask for the same quote; a payment that is billed by a crash and a lapse three times. The theorems cover more of each |
| `orderbook_fields` | the histories with offers; nothing fails | one OfferCreate is enough |
| `auth` | 2 calls at a time, 4 requests of 2 partners, drift 1, rows live for 2, time up to 6 | a clock that is ahead or behind, a call held up until a row has expired, an id used again by its partner and by another |
| `pathfinder` | 4 assets, up to 3 pools and offers, weights in tenths, two of each kind, one offer weight above 1, hop limit 2 | parallel edges, routes longer than the limit, circles of negative cost |
| `breaker` | prices 0, 100, 104, 120, window of 3, limit 2, one tick per period, at most 2 timers at once, thresholds 2.5 % and 5 % | a price within both thresholds, between them and beyond; zero; the window moves |

`MaxLedger`, `MaxRestarts`, `MaxCrashes`, `MaxFailures`, `MaxLapses`, `MaxTimers`, `MaxCount`, `MaxMarket`, `MaxTime` and
the set `Calls` are the only bounds that no line of the code has. `MaxFailures` limits the
offers and pools in `failed` and the payments in `unsettled`, each on its own; `MaxLapses` the
failures of `GetCheckpoint` that matter, which are those for a ledger with a checkpoint, and of `SaveCheckpoint`; `Settlement` lets partners ask only for quotes
that some payment carries, as the others leave no trace. Everything else is a constant of the code made small.

## Fairness

- `Indexer`: weak fairness of each worker. Every call of `processLedger`,
  `FetchLedgerSync` and `publishLedgerIndex` has a timeout or a database behind it, and both
  loops are plain goroutines. Nothing is assumed of the network, the announcements or
  the connection.
- `SyncFetch`: weak fairness of the caller; its `time.After` fires. Nothing is assumed of
  rippled or the reader. `FetchLoop` has weak fairness of its calls.
- `XrplClient`: weak fairness of each goroutine and of a `Close` that has begun; strong
  fairness of the dial, since `maxRetries` is -1 and an attempt succeeds now and then.
  A read that waits for the peer is not fair: a silent peer may be silent for ever.
- `CircuitBreaker`: quotes go on being asked for, time passes, a timer fires some time
  after it is due.

## Proofs

All theorems hold for every value of the constants that the named `ASSUME`s and the hypotheses
below allow. The `ASSUME`s say that bounds are natural numbers, that the modulus is larger
than any difference of ledgers, that keys and assets are finite sets, that `nil` is no
connection, that a payment occurs once in a history, that a row of `request_ids` lives for twice the drift, that a pool's fee is at most
1, and that no path of assets costs as much as `math.MaxFloat64`. Two hypotheses are stated
with the theorems that need them: `EntriesFit`, that an entry alone is within the memory limit (a value is at most
1 MB and a key 256 bytes, the limit is 512 MB), and `ThresholdBelowWhole`, that the breaker's
threshold is below 100 % (`DefaultThreshold` is 5 %).

- **`IndexerProofs`**: `TypeCorrect`, `CheckpointsAreApplied`, `WorkersAreDisjoint`,
  `NeverReappliedHolds`, `HolesAreFinalHolds`. `WorkersDisjoint` is far from inductive: that
  the workers never meet depends on where `current` was read. The invariant `IInv` adds: what
  the two loops were started from (`Anchors`), that everything on its way to the main loop is
  at or above `current` or was validated later (`LiveFloor`), that the backfill's next ledger
  and job lie below `current` and above the checkpoint (`BackfillCeiling`), that nothing flows
  before the process runs (`QuietUntilRunning`, `IdleJobs`), and what each point of
  `processLedger` knows of its ledger (`JobFacts`). From the same invariant follows
  `BackfillStaysBehind`: all that the backfill holds or has yet to fetch lies below all that
  the main loop holds or that is on its way to it. `Orderbook`, which leaves the channel out,
  builds on that order (its `BackfillBehind`). For `Freshness`, every step of the composition
  is a step or a stutter of the indexer, so these theorems carry over
  (`FreshnessContainsIndexer`); with the fact that a job at "publish" has its checkpoint,
  `PublishedIsCheckpointed` follows, and from it `HealthIsBlind`.
- **`XrplClientProofs`**: `ReconnectExclusive`, `ConnIsWatched`, `ConnIsSubscribed` and
  `NoLeak` were stated so that they are inductive together with the types and need no
  strengthening; `ClientInv` is their conjunction. The proof follows the goroutine through the
  labels of `readMessages` and `reconnect`.
- **`SyncFetchProofs`**: `FetchInv` says that a response in the channel is that of the call in
  progress, which lies within the gap: the filter in the callback and the channel made afresh
  for each call keep older answers out. Then each step maps to a step of `FetchLoop` or a
  stutter. The mapping is the identity, as `SyncFetch` keeps the abstract variables.
- **`KVStoreProofs`**: `QuoteQuotaHolds` rests on a lemma that a step adds at most the key it
  sets, whatever is evicted. `MemoryBound` holds even if entries are too large to be stored
  (`StoreInv`, with the types). `KVInv` says that the list has no key twice, that it and the
  map hold the same keys and that the byte count is the sum of the sizes; `Accounting`
  follows. It needs `EntriesFit`: an entry that cannot fit leaves the three apart, as
  `NoNegativeMemory` below shows. The work is in `Put`: `Without` is the list at ascending
  places (`WithoutIsRest`), the entries evicted are its end, and the least number that leaves
  room is found by `EnoughLeast`. `NoNeedlessEviction` then compares with one eviction less.
  Every run of the limiter is one of the store (`LimiterRunsStore`). `LockoutEnds` rests on a
  witness: a live counter had a request within its lifetime. `AdmittedPerWindow` rests on
  `AdmittedInv`: for a partner that was never evicted, a live counter is at least the number
  of its admitted requests in the window, none of which is younger than the counter's last
  increment; and when no counter is live, none is in the window.
- **`OrderbookProofs`**: `RowsAreHistory`, `OpenIsListed` and the types, for all histories,
  any number of crashes and lapses and both values of `carried`.
  `BookInv` adds that every OfferCreate a worker has passed in its ledger is listed or has
  failed (`PassedIsListed`), and that the backfill stays below every ledger the main loop has
  or may take (`BackfillBehind`), so that no ledger is in the hands of both and a busy
  worker's ledger has no checkpoint, unless it was read in vain (`reread`). For
  `Settlement`, a step is a step or a stutter of `Orderbook` (`SettlementRunsLoop`), so
  `BookInv` carries over. `SettleInv` is that base with five parts, each proved on its own:
  `Asked` (whoever is registered, or being billed, has asked), `Recorded` (a payment past a
  statement has what it wrote, or it was cleaned up, or failed), `Counted` (a payment has at most
  one bill for each crash and lapse, and one more only if it is `Spent`: a worker has passed it,
  or its ledger has a checkpoint and is in no worker's hands; to come to it again takes another
  crash or lapse), `Due` (a trade on
  record whose bill is missing still has its registration, and a worker that has passed a
  payment leaves it billed, ledgers in `reread` apart), and `FieldsAreLost`, which is inductive
  once it is known that no worker can come to the statements of a payment without its memo.
- **`AuthProofs`**: `AuthInv` says that no call is too early (`NotEarly`), that the row of a
  request that was let through lasts as long as its window (`Lasting`), that once it has gone
  no call of that request waits for the insert (`NoneBehind`), and that one call was let
  through (`OneThrough`). `Lasting` is where the two minutes matter: 60 s of a clock ahead and
  60 s of one behind. Then each step maps to a step of `OnceOnly` or a stutter.
- **`RouterProofs`**, the pathfinder: `SearchInv` is proved for every market, negative costs
  included. It says that whatever is reached and not visited waits in the heap at its distance
  (`Waiting`), that an asset was reached by an edge from a visited one, at its cost
  (`ByEdge`), and that there is a rank of the assets along which `prev` descends (`Ranked`).
  The ranks are what rules out circles: only assets that are not visited are improved, and a
  visited one's `prev` is never written again. By induction along the walk back,
  `PathsAreReal` follows, and from the lemma that `findHop` returns an edge of the pair, no
  cheaper than its cheapest (`HopFacts`), `RouteIsUsable`. `CheapInv` is Dijkstra's argument,
  under the condition that no cost is negative: visited assets are nearer than all that waits,
  and every edge from one has been relaxed. For `CheapestIsFound`, take any path to the target
  and the first of its assets that is not visited, or is the target: its distance is at most
  the cost so far (`PrefixBound`), so it is not infinite, so it would still wait in the heap,
  behind the target (`PathBound`).
- **`RouterProofs`**, the breaker: `TypeOK` (the breaker is open exactly when the failures
  have reached the limit) is inductive as it stands, and `CautionEnds` together with it.
  `AverageStaysPositive` holds since a price of zero deviates by 100 % from every positive
  average and is rejected, and a positive price that is accepted stays in the window as its
  last.
- **`SumLemmas`**: `SumFunctionOnSet` of the community modules is a fold. That the fold
  exists, is unique and does not depend on the order of its elements is proved by induction
  over finite sets, from the library's theorem that strict inclusion is well-founded on them.
  The induction is stated for a set of sets, since a rule for a predicate would take an
  operator as a parameter, which the backends cannot instantiate.

Every invariant and every action property of the passing runs is stated by a theorem. Only
model-checked are the liveness properties `FullChannelDrains`, `BackfillEnds`,
`ReconnectSucceeds`, `CloseReleases`, `LoopEnds` and `Recovers`: fairness is stated with
ENABLED, which the prover does not reason about.

## What the code does not do

These statements are taken from documents, comments or tests, are defined in the
modules and are known **not** to hold. Three have runs (above). To see a counterexample
for another, add it to the run's `.cfg` as an invariant, or as a property if it is temporal.

| Statement | Module | What happens |
|---|---|---|
| `HealthShowsLag` (`src/openapi.yaml:395` "Indexer lag in ledgers") | `Freshness` | `core.network_state` is fed by the indexer after its own checkpoints only, so the health check compares the indexer with itself |
| `NoPanic` (`src/CONTRIBUTING.md:123` "No panics in production code") | `XrplClient` | `readMessages` dereferences `c.conn` without the lock after `reconnect()` dropped a connection it could not subscribe |
| `AnswerIsCaught` (`client.go:373`) | `SyncFetch` | the request is written before the callback is installed; an answer in between is lost and the call waits for 10 s |
| `NoPanic` | `SyncFetch` | `handleMessage` tests `c.onLedger` and loads it again for the call; a timeout in between makes it nil |
| `RateQuotaHolds` (`src/doc/architecture.md:321`) | `KVStore` | `IncrementRateLimit` creates counters without `checkNamespaceQuota` |
| `NoNegativeMemory` (`internal/kv/security_test.go:361`) | `KVStore` | an entry that cannot fit returns `ErrMemoryLimit` after the old one was subtracted and before it left the map; needs a size above `MaxBytes` |
| `RejectedOnlyOverLimit` (`ratelimit.go:15` "requests per minute") | `RateLimit` | every request sets the expiry anew, so a counter in steady use never starts again |
| `BilledOnce` (`cmd/indexer/backfill_test.go:65` "processing the same ledger twice is safe") | `Settlement` | `usage_events` has no unique key for its `ON CONFLICT DO NOTHING`: after a crash between the usage event and the end of the settlement the payment is billed again, and without a crash after a checkpoint that was not saved or not read, if the quote is registered (still or anew) when the ledger is announced again; `BillingBound` says how often |
| `WholeTableIsCurrent` (`src/doc/architecture.md:266` again, for whole transactions) | `Orderbook` | the answer with an OfferCancel overtakes the one with its OfferCreate, each being fetched by a goroutine of its own (`client.go:160`), or the main loop overtakes the backfill, or an abandoned ledger is applied again after the cancel: `UpsertOffer` overwrites on conflict without comparing ledgers, and the cancelled offer is active for good |
| `ReservesOfPair` (`db/migrations/001_amm_pools.sql:14`) | `Orderbook` | a pool's key is the sender of the AMMCreate; his second pool's reserves go into the first one's row |
| `BestRouteIsFound` (`src/white-paper.md:184` "find best output") | `Pathfinder` | `findHop` returns the first pool of the pair, not the edge that was chosen, and the hop limit only cuts |
| `NoRouteMeansNone` (`internal/router/errors.go:11`) | `Pathfinder` | an asset that no edge leaves has distance 0 from the start, so no edge improves it |
| `OpensOnConsecutive` (`db/migrations/006_router_security.sql:84`) | `CircuitBreaker` | an accepted price does not reset the count |
| `NoPanic` | `CircuitBreaker` | a first price of zero is recorded, and the next check divides by it |
| `NewPriceIsAccepted` (`src/white-paper.md:196`), under `ServiceSpec` | `CircuitBreaker` | the average learns from accepted prices only |

Further facts met on the way, which the models contain or which no state is needed to see:

- **The fields of a transaction.** `Orderbook` starts with `carried` as `TransactionFields`, the
  fields that outlive the round trip of `xrpl.Transaction`, or as `WholeTransaction`, all that the
  parsers and their tests look for. The first is what the indexer does today; `FieldsAreLost` and
  the run `orderbook_fields` are about it. The second is what the code after the conversion
  does, on which the other properties of `Orderbook` and `Settlement` have something to say: today
  they hold of tables that are all but empty.
- The result of a transaction is not looked at: a failed payment with a memo is settled like any
  other, and offers that are filled, replaced or expire stay in the table.
- The expiry of a quote is never compared with the time of its payment; only `cleanup_expired_quotes`
  reads it. Nothing in the repository calls that function, nor `cleanup_old_trades`, which deletes trades
  after 90 days (`doc/architecture.md:268`). `Settlement` lets both run at any moment or never; a bill
  outlives the trade it is for.
- Two partners with the same request at the same ledger get the same hash; the second registration
  fails on the primary key, is logged, and the bill goes to the first. `BilledHasAsked` is what remains true.
- An OfferCancel with the memo of a quote leaves the loop body at `main.go:474` and is never applied:
  its offer stays in the table. `OpenIsListed` asks for the offers that are open, not for the others.
- A request whose row was written but whose answer was lost is refused when it is repeated
  (`StoreUnanswered`): served at most once, and perhaps not at all.
- `GetActiveAPIKey` returns the newest key only, where `doc/security.md:72` speaks of rotation.
- The rate limiter wraps the authentication (`cmd/api/main.go:92`) and so runs before the
  context has a partner: in this order it answers 500 to every call. `RateLimit` and `Auth` model
  the two as they are written, each with the input it expects.
- The pathfinder of the API is built from empty slices (`cmd/api/main.go:73`), so no quote is found there.

## Not modelled

- Offers that leave the network's book without an OfferCancel (filled, replaced, expired) and
  transactions that failed: the loop looks at none of these, and `Orderbook`'s histories have none.
  Offers placed with a ticket carry no sequence number and are left out.
- `GenerateQuote` as a chain: it calls the validator, the pathfinder and the breaker one after
  the other and returns at the first error, keeping no state of its own. Its parts with a state are
  modelled, its hash is a value.
- The pairs and usage handlers, `GetPartnerUsage` and `monthly_billing`, which only read.
- Amounts and their rounding, XRPL address and currency formats, Ed25519, metrics, logging, deployment.
- `internal/store/router_store.go`: single statements that production code does not call,
  but for the audit log and the hourly clean-up of that module's own tables. The other clean-up functions of the schema,
  `cleanup_expired_quotes` and `cleanup_old_trades`, are actions; its keys and checks are part of
  the actions that write.
- The deprecated `GetServerInfo` of the client and callbacks nobody sets.

## Plan

What is left, in this order:

1. One specification for `Indexer` and `Orderbook`: the same workers with `Indexer`'s channel in place of
   `todo`, so that the transaction loop is a proved refinement of `ApplyTransactions`. Today the link is
   `BackfillStaysBehind`.
2. `Orderbook`: failed and filled offers in the histories, once the loop looks at them.
