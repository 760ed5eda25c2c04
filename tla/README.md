# Wayfare in TLA+

Wayfare measures what it really costs to move money through a Stellar corridor
(USDC to NGNC, say). It asks Horizon for paths at a ladder of sizes, grades them
against a reference rate two providers agree on, and keeps every measurement in
a tamper-evident run store that a daemon fills on a schedule and an HTTP API
serves from. This directory holds TLA+ models of that program, the TLC
configurations that check them, and proofs that carry what the runs check on
small instances to every value of the constants: of every safety property a
passing run checks, there is one. Every definition is translated from the Go
code; the comments and `PROJECT.json` ("map") give the lines.

## 1. Inventory

### The parts, their state, their operations

| part (code) | state it keeps | operations | what makes it correct |
|---|---|---|---|
| Run store (`runstore/file.go`, `runstore.go`) | one NDJSON chain file per corridor; an index of tips; a mutex | `Open`, `Append`, `Latest`, `Recent`, `Verify`, `Rotate`, `Export` | an acknowledged run is never lost; a chain that verifies is history the store wrote; numbers are never reused |
| Embedded store (`runstore/fsstore.go`) | none after opening | the same reads | the same answers as the file store |
| Transitions (`runstore/transition.go`) | none | compare two runs | only measured structures are compared |
| Derived series (`runstore/movement.go`, `measurability.go`, `fragmentation.go`, `analysis/`) | none | summaries of a list of records | arithmetic over one list |
| Cached provider (`refrate/cached.go`) | a map of entries, each a rate or a fetch in flight; a mutex | `Rate`, `Invalidate`, `Age` | fresh answers, one fetch per miss, every caller answered |
| Cross-checked rate (`refrate/cross.go`) | none | `Rate`, `reconcile` | verdicts independent of provider order, never flattering |
| Providers (`refrate/currencyapi.go` ...) | none | one HTTP request each | a positive mid or an error |
| Ladder (`route/ladder.go`) | the rungs while it runs; a semaphore | `Ladder`, `summarise` | it returns; an outage is not an absent market; a dead size erases nothing |
| Quote engine (`route/route.go`) | none | `Quote`, `classify`, `measureChain` | a verdict only against a usable benchmark; a dependency tree that ends, and is one size's measurement |
| Horizon client (`dex/`) | none | path searches, order books | one corrupt record fails the answer; an absent side is no zero |
| Monitor (`monitor/monitor.go`) | none but the store; its timer | `Run`, `RunOnce`, `measure` | every change is announced once, none is invented, it never quits |
| Snapshots (`snapshot/`) | what one measurement was answered; artifacts on disk under the name of their hash | record, save, load, replay | a record's evidence exists and replays to what was measured |
| HTTP API (`server/api.go`, `trend.go`, `chain_heads.go`) | none | one handler per route | what is served is true and labelled; an error has its cause; pages leave nothing out |
| Rate limiter (`server/ratelimit.go`) | buckets per client; a mutex | `Allow` | a client gets what it earned, and `Retry-After` is enough |
| Checks and metrics (`checks/`) | a `Runner`'s profile cache; the drift baseline in the last record | resolve the subject, run every check and metric, sort and count | a silent address is the anchor's failure, a silent Horizon nobody's; a value is a measurement; a change of the issuer is reported |
| Anchors, SEP-38, assets, transport | a table | parsing, lookup | not a protocol |
| Daemon (`cmd/wayfared`) | the context that ends everything | start, serve, schedule, rotate, export | refuse to start on a broken chain; stop cleanly |
| Tools (`cmd/ladder`, `cmd/asymmetry`, ...) | none | call the packages and print | sequential |

### How they interact

```
  HTTP client --> limiter --> handler ----+----> Ladder --> Quote --> Horizon
                                |         |                  |
                                | reads   |                  +--> Cross --> Cached --> provider (x2, +1)
                                v         |
  timer ---> Monitor ---append--> Store   +----> Checks (after the measurement)
               |                    ^
               +--> Ladder          |
               +--> Snapshot        +---- Rotate, Verify, Export (operator)
```

The handlers and the monitor are goroutines of one process. They share the store
(one writer behind a mutex), the cached providers (one map behind a mutex), the
limiter (the same), and the context that ends the process. A ladder starts one
goroutine per size and lets four of them work at a time.

### What is hard in it

* **Crashes and disks.** The chain is acknowledged record by record, the tip
  index lives in memory, and rotation truncates the file it is about to write.
* **Failing writes in a living process.** Bytes of a failed append stay behind.
* **Concurrent misses, waits, expiry and cancellation** in the rate cache.
* **Partial failure** everywhere: of one size, one provider, one corridor, one
  artifact, one read. The code's whole promise is that none is mistaken for a
  fact about the market.
* **State read twice.** Each rung asks for its own benchmark; the handler looks
  at the store before and after a measurement; the clock is read before the lock.
* **Budgets and clients that hang up**, and what the fallback may still do then.
* **A change announced exactly once**, over refused appends, failed reads, kills.

`PROJECT.json` ("hazards") lists each at its line with the properties that cover
it, or says why none does yet.

## 2. The modules and the code

| module | stands for | built on |
|---|---|---|
| `RunLog` | what the `Store` interface promises: per corridor, a log that grows by one and whose committed part never changes | |
| `RunStore` | `FileStore`: open, append, verify, on a disk that crashes, fails and is edited | implements `RunLog` |
| `StoreRotation` | `Rotate` beside appends and crashes | extends `RunStore` |
| `StoreReaders` | a client paging through a trend meanwhile | extends `StoreRotation` |
| `StoreProofs` | proofs about the store, that it implements `RunLog`, about rotation and about the client | `StoreReaders`, TLAPS |
| `RateCache` | `Cached.Rate`, `Invalidate` | |
| `RateCacheProofs` | proofs about `RateCache` | `RateCache`, TLAPS |
| `Reconcile` | the pure part of `cross.go`: bands, mids, verdict bounds | |
| `CrossRate` | one `Cross.Rate`, its live document, its stored record, its replay | extends `Reconcile` |
| `Ladder` | `Engine.Ladder` over concurrent `Quote`s and cached providers | extends `Reconcile` |
| `LadderProofs` | proofs about `Ladder` | `Ladder`, TLAPS |
| `Dependencies` | `classify`, `measureChain`, and the union of the trees in `summarise` | |
| `QuoteProofs` | proofs about the benchmark and the dependency tree of a quote | `CrossRate`, `Dependencies`, TLAPS |
| `Monitor` | sweeps, evidence, records, alarms, restarts | |
| `MonitorProofs` | proofs about `Monitor` | `Monitor`, TLAPS |
| `Snapshot` | the recorder, the save under a content hash, the replay | |
| `SnapshotProofs` | proofs about `Snapshot` | `Snapshot`, TLAPS |
| `Horizon` | what `dex/` makes of a path search and of an order book | |
| `CheckRules` | each built-in check's decision; sorting, counting, the published document | |
| `MetricRules` | each metric's refusals and value | extends `Horizon`, `CheckRules` |
| `Sweep` | the `Runner` at work for the monitor and for requests, and the drift baseline | extends `MetricRules` |
| `SweepProofs` | proofs about `Sweep`, `CheckRules`, `MetricRules` and `Horizon` | `Sweep`, TLAPS |
| `RateLimiter` | `Allow`, eviction, `Retry-After` | |
| `CorridorServer` | `handleCorridor` behind the limiter, beside the monitor | extends `RateLimiter` |
| `CorridorServerProofs` | proofs about the limiter and the handler | `CorridorServer`, TLAPS |
| `MC...` | instances of these for TLC; the values are in the `.cfg` files | |
| `MCMeasurement` | `CrossRate`, `Dependencies` and `Snapshot`, one at a time in one run | their MC modules |

How state and actions correspond to the code:

* **RunStore.** `file`, `eol`, `unsynced` are the chain file, whether it ends in a
  newline, and how many of its last lines a power loss can still take; `tips`,
  `lock`, `op` are `FileStore.tips`, `FileStore.mu` and the local variables of an
  `Append` in progress. `Append` is cut where a crash or a failure can fall:
  `BeginAppend`, `TerminateLastLine`, `WriteLine` or `WriteFails`, `SyncSucceeds`
  or `SyncFails`. A record's hash is the sequence of contents it commits to, the
  collision-free reading of SHA-256 over a preimage that holds `prev_hash`.
  `Kill`, `LoseTail` and `Edit` are the world. `written`, `acked`, `residue` and
  `tampered` are history.
* **StoreRotation.** `rot` is `Rotate`'s position: scanning corridors in order,
  truncated, rewritten. The window is re-sealed as the code does it. `out` is the
  report `Rotate` collects corridor by corridor: it reaches the operator only when
  every corridor was done (`RotateDone`, `reported`) and is thrown away with
  `return nil, err` when a later one is refused or fails (`file.go:488-551`), or
  when the process dies. What a rotation really took is `dropped`, so records may
  be gone that no report ever named.
* **StoreReaders.** One client of the trend: a page is `RecentBefore` with one
  record more than fits, and the oldest on the page is the cursor to the next.
  `reader.sound` is history: whether every page so far came from a chain that
  verified and whose lines were all flushed.
* **RateCache.** `cached` is the map entry of one pair; entries outlive their
  place in the map, as the pointers in the code do. A caller hits, waits, claims,
  is answered, completes, wakes or gives up; `Complete` deletes whatever is under
  the key when the fetch failed, as `cached.go:145` does.
* **CrossRate.** One call: the primary, the secondary, the diagnosis, then
  `Store` (what `measure` and `FromCorridorJSON` keep) and `Replay` (what
  `staleJSON` makes of it, `ReplayRecord`). `stage` is where the call is. Mids are
  integers around the two thresholds.
* **Ladder.** A rung's goroutine waits for a slot, asks both caches, asks Horizon
  and leaves its result; `Return` waits for all and summarises in the order of
  sizes. `Expire` is a cache's time running out in the middle.
* **Dependencies.** A path is its set of hops, a node the way to it from the
  destination. `todo` holds the nodes that `measureChain` has still to visit;
  `DepthCap`, `Cycle`, `HorizonFails` and `Measure` are what it does with one, in
  the order of its tests. `Summarise` keeps, per dependency, the first size's
  tree whose top was measured, whatever is below it. The registry (`known.go`) is a table, hence
  finite; that is all the module assumes of it.
* **Monitor.** One action per exit of `measure` and of the loops around it. The
  log holds what an operator sees: transitions and errors. `Kill` and `Restart`
  keep the store and the artifacts only.
* **Snapshot.** `recorder` is what a process captured, `pc` its place in
  `SaveContentAddressed`: writing under a temporary name, hashed, found absent,
  renamed or reused, and recorded. `Loads` reads a body as `Load` does, with CRLF
  turned to LF. Kills, failed writes and power losses fall between any two steps.
* **Sweep.** `sweep[p]` is one `Runner.Run` in progress: its subject, its deadline
  (`live`), its checks and metrics so far, each with the answer it got: `"cut"` is
  a request that was out when the sweep's own deadline passed. `Cached`,
  `Resolve` and `Keep` are the profile map without its missing lock; `Finish`
  writes the record whose drift observation is the next baseline. A *scenario*
  fixes the suite, the anchor's documents and what may go wrong. `Horizon`,
  `CheckRules` and `MetricRules` are operators only; metrics are exact ratios.
  Two assumptions say what a scenario may be. `SettingAssumption`: a suite is
  made of the built-in and contributed checks, with one drift check at most
  (`runner.go:62-83`), and a request goes wrong by being lost, by an answer of 404,
  of another status or unreadable, or by the message that refuses the probe account. `MetricAssumption`: metrics are the built-in or contributed
  ones, answers have the form Horizon's have (any amount, readable or not, of
  either sign; any list of records and offers), and the agreement the subject
  carries is that of the benchmark the metrics are scored against, since
  `ForCorridor` sets both from one rate (`runner.go:224-245`) and a rate is not
  scorable exactly when its agreement is MALFUNCTION (`refrate.go:80`). A path's
  rate is over the source amount Horizon echoes, which the code does not compare
  with the amount it asked for: hence the sign in `Ratio`.
* **RateLimiter.** Tokens are kept in parts and time in ticks, so that a balance
  between two tokens exists. `ReadClock` and `Admit`/`Refuse` are two steps, as
  the clock is read before the mutex is taken.
* **CorridorServer.** The handler's branches as actions; `ctx` is the request's
  budgeted context. A stored run is its number, a ladder what it returned.

## 3. What each run checks

| run | instance | what it shows |
|---|---|---|
| `store_faults` | one chain of 4, two bodies, any 3 faults of six kinds | a chain that verifies is written history (`VerifiedHistoryIsWritten`), acknowledged is durable (`AckedIsDurable`), no number twice (`AckedSeqUnique`), the index is the file's end (`TipMatchesFile`), and `RunStore` implements `RunLog` through all of it (`StoreIsLog`); the type invariant too (`TypeOK`) |
| `store_rotation` | two chains of 3 under windows of 1 and 2: any 3 faults, or 1 beside a paging client; one chain and a client under 4 (`Bounds`) | rotation blesses no edit (`VerifiedWindowIsWritten`), takes only the oldest and reports nothing that is still there (`OnlyOldestIsDropped`), ends on the newest (`WindowEndsOnNewest`); pages leave no gap (`PagesAreGapless`) |
| `cache` | 3 callers, 3 calls, 2 invalidations | `MissesCollapse`, `InvalidateIsEffective`, `ServedIsFresh`, `EveryCallReturns` |
| `measurement` | the three parts of a measurement, one at a time: `CrossRate` with 5 mids around both thresholds and 4 moments; `Dependencies` with 3 tokens that depend on each other in every way, 2 sizes, a depth cap of 3, one failed request; `Snapshot` with 2 processes, 3 requests two of which share a key, bodies with LF and CRLF, any kills and failed writes, one edit or power loss | `FiguresStayTogether`, `OrderIsImmaterial`, `NeverFlatters`, `ReplayKeepsTheBand`; the tree ends within its bound (`CallsAreBounded`), and what is published of a dependency is one size's tree, of a size that measured it where one did (`ChainIsOneMeasurement`); `ReplayIsTheRun`, `EvidenceIsKept`, `OnlyCRLFIsRefused` |
| `ladder` | 3 sizes, 2 slots, 2 mids apart, one expiry | an outage is no missing market and a dead size erases nothing (`EvidenceSurvives`), `VerdictNeedsBenchmark`, `LadderReturns` |
| `monitor` | 2 corridors, 3 sweeps, any 2 faults | `AlarmIsReal`, `ChangeIsReportedOnce`, `ChangeIsNotSilent` (against the trend's list, too), `RecordsHaveEvidence` |
| `sweep` | every check and metric over documents, accounts, books and path searches that reach each of its cases; the drift chain over 3 records beside 2 requests | a declared address that does not answer is the anchor's failure, and no other silence is anybody's (`SilenceIsNoEvidence`); our own deadline fails one check at most, at a declared address, and nothing after it (`DeadlineBlamesOneAddress`); `DisplayIsFaithful`, `ValuesAreMeasured`, `DriftIsReal`, `FreshRunnerIsCurrent` |
| `server` | 3 requests, 2 clients, one for a corridor, 5 moments, 2 runs | `AdmissionsAreEarned`, `RetryAfterIsEnough`, `AnswersAreTrue`, `ErrorsHaveCause` |

Four runs end in a violation, each of a sentence in the repository that the code
does not keep:

* `ladder_unscored`, `UnscoredHasNoVerdicts`. The document takes its benchmark
  from the first rung, each rung its verdict from its own: an unscored document
  may carry verdicts.
* `snapshot_crlf`, `CapturesLoad`. The recorder pins the hash of a body's bytes as
  they arrived, and `Load` turns CRLF into LF before it compares
  (`snapshot.go:228-232`): a process cannot read back what it has just written,
  so a corridor whose anchor serves a `stellar.toml` with CRLF is never recorded
  by a monitor that keeps snapshots.
* `server_timeout`, `TimeoutMeansNothingStored`. When a measurement outlasts its
  budget, the fallback reads the store with the context that has just expired, and
  the file store answers nothing (`api.go:321`): 504 although a run is stored,
  which `docs/errors.md:44` and `61-67` exclude. `ErrorsHaveCause`, which holds,
  says when an error is given: this case is named in it, and no other.
* `dependencies_union`, `MeasuredNodeWins`. The union over the sizes looks at the
  top of a tree only (`ladder.go:460`): a measured top keeps the failed requests
  below it, although a later size measured that very branch. The comment on `Chain`
  (`ladder.go:98-103`) says the measured node wins.

Disagreements seen while modelling that have no run of their own; the properties
except each by name, or are stated so that it does not concern them:

* `Open` refuses a broken chain because appending to it "would bury the break
  under valid records" (`file.go:46-48`); in a living process, an `Append` whose
  write or flush failed leaves bytes behind and the next one writes after them
  (`file.go:245`). `residue` and `TipMatchesFile` name it.
* `FromCorridorJSON` leaves `scored_against` empty for a benchmark nothing was
  scored against (`convert.go:27-29`); `measure` then sets it all the same
  (`monitor.go:333`), and the replay says scored. Two equal mids store no
  divergence and read back as UNKNOWN (`monitor.go:330`). `ReplayKeepsTheBand`
  promises only that a scored reading stays scored.
* `FetchedAt` stays the primary's when the secondary's mid is used
  (`cross.go:440-453`).
* A failed fetch deletes whatever is under its key, a newer entry as well
  (`cached.go:145`).
* `Open` serves what a killed process wrote and did not flush, and does not flush
  it (`file.go:49-77`): a power loss may still take records a client was served,
  whose numbers are then given to others. `PagesAreGapless` holds of pages read
  from a flushed chain.
* `Rotate` collects a report of what it drops, and returns nothing but the error
  when a later corridor is refused or its write fails (`file.go:488-551`); the
  daemon then prints none (`main.go:410-414`). Records of the corridors before are
  gone and no operator was told. `OnlyOldestIsDropped` promises only that what a
  report names is gone, and that no other than the oldest are.
* A request cut off by a sweep's own deadline counts as the silence of the address
  it was sent to, hence as the anchor's failure (`sep10_endpoint.go:150-158`).
  `DeadlineBlamesOneAddress` says how far that goes.
* The comment at `route.go:708-712` bounds a tree by its dependencies times the
  depth cap, for a registry of 4 fiat tokens. The registry has 8 pegged tokens
  (`known.go:214-286`), and the number of requests is the number of ways without
  a repetition: 4 tokens beside the destination give 64.
* The recorder keeps the first answer of a key, also when that was an error that
  was retried, and a key has no host (`record.go:122`); an artifact is renamed
  without a flush and the record that names it is flushed (`record.go:280`).
* A `Runner`'s profile cache, meant for one sweep (`runner.go:50`), lives as long as
  the server and is shared by its requests without a lock (`runner.go:255-265`).
* The drift baseline comes from the latest record only (`monitor.go:364`): a record
  whose check got no answer makes the next change invisible.

### The bounds, and why they are enough

* **Store.** A break needs a record before it and one after it, and a restart in
  between: three failures and four records give every order of them. Two bodies
  tell a written record from another with the same number. Corridors share only
  the mutex and the opening of the store, so a second corridor matters in
  `store_rotation`, where one chain's trouble stops another's.
* **Rotation.** Windows of one and two over chains of three: the head moves, the
  window keeps an inner link, and there is something to drop twice. The ceiling
  zero is the refused one. Three faults cut a rotation, lose a tail and edit;
  four beside a client are enough for a power loss to take more than one record
  it was served. The constraint `Bounds` keeps the product of chains, faults and
  pages in reach; the theorems have no such bound.
* **Cache.** Two waiters on one fetch need three callers; two invalidations
  overtake a fetch that has itself overtaken one. The clock reaches the TTL.
* **Cross.** The mids give gaps below 1 %, exactly 1 %, between, and above the
  malfunction threshold, on both sides; the moments lie within, at and beyond
  the staleness gap, with 0 for a missing one.
* **Ladder.** Three rungs and two slots: one waits. One expiry between rungs
  suffices to give two of them different benchmarks.
* **Monitor.** Three sweeps hold a change, and a change back or an outage after
  it; two corridors share one sweep's error counting and one restart.
* **Dependencies.** Three tokens make every shape a branch can have: a leaf, a
  chain, a cycle of two and of three, a token met on two branches, the
  destination met again. Ways of four reach the cap. With two sizes of different
  markets a failure at either is the case the union is about; the trees of more
  sizes are taken pairwise.
* **Snapshot.** A race needs two processes with one capture, hence one artifact;
  a first answer needs two to one key, of two bodies. Kills are unbounded.
* **Sweep.** Checks and metrics do not see each other, so each is run beside one
  that panics and one more; a drift needs a baseline, a gap and a return, three
  records; two requests race for the map.
* **Server.** The limiter's properties relate up to three requests of one client,
  and an eviction needs a second client. Handlers share nothing but the store,
  so that one corridor request meets every order of budget, hang-up and append.

* **Measurement.** Its three parts share no state, and the run moves one while the
  others wait in a first state: what it adds to three runs is nothing, and what it
  leaves out is only their interleaving.

### Where a model allows more than the code, or less

* `RateLimiter` counts exactly where `ratelimit.go:86-112, 168-179` adds floats and
  cuts a duration to nanoseconds; `Retry-After` is rounded up to whole seconds, so
  the difference is far below a step of it. No flag enforces `EvictionAssumption`:
  a rate so low that an idle bucket takes more than ten minutes to fill would be
  given back early.
* `FloorLossMetric` has no blank base, quote or source (`metric_floor_loss.go:56-61`):
  a rate carries all three. `DeviationMetric` has no `ReferenceUnavailable`
  (`metric_deviation.go:100`): `DefaultMetrics` leaves it unset (`runner.go:142-158`).
  `IssuerDrift` has no empty document hash (`issuer_drift.go:69`): a profile that was
  read has one (`anchor.go:340`). Each would only refuse a figure, or add an
  undetermined result, in a state the `Runner` does not produce.

### Fairness

Safety runs assume none. `cache` and `ladder` check liveness:

* `RateCache`: a caller that can look up, complete or wake does so, and a
  provider answers or fails. Goroutines are scheduled by the runtime, and the
  HTTP clients have timeouts. No caller is assumed to call, give up or
  invalidate.
* `Ladder`: each rung's goroutine goes on and its upstream calls end, for the
  same reason. Nothing is assumed of expiry or of the context's end.

Deadlock checking is off: behaviours are bounded, and end when the bounds are
used up or every request is answered.

## 4. What is proved

One module of proofs per part. Each rests on the named assumptions of the modules
it is about and on nothing else.

### The store (`StoreProofs`)

For any set of corridors, any bodies, any bound on records and faults and any
subset of the kinds of fault, of `RunStore`:

| theorem | statement |
|---|---|
| `TypeCorrect` | `Spec => []TypeOK` |
| `Durability` | `Spec => []AckedIsDurable` |
| `SeqsAreUnique` | `Spec => []AckedSeqUnique` |
| `IndexFollowsFile` | `Spec => []TipMatchesFile` |
| `TipIsHonest` | the tip of a running store commits, by its hash, to written history numbered from one |

They rest on the named assumptions of `RunStore`: corridors are numbers, the
forged body is none a sweep measures, the two markers are not records, the bounds
are numbers. TLC evaluates them in every run of the store.

**The argument.** None of these properties is inductive. Durability, for one, says
nothing of the record being written, so that nothing in it stops a sync from
acknowledging a record that is not the one in the file. `IInv` adds what links
the mutex, the index, the file and the disk:

* `OpOK`, `UnsyncedOK`: an append under way belongs to a running process that
  holds the mutex; no more lines are unsynced than there are.
* `EndOK(c)`: the lines from the last synced one on commit to written history,
  and to no less of it than was acknowledged. It is about the *end* of the file
  because edits may do anything before it, and about hashes because an edit of
  the last record changes its content but not what it commits to.
* `TipOK(c)`: the tip of an open store commits to written history, and no
  acknowledged number is above its own. This is what makes numbers unique: the
  next one is above the tip's, hence above all acknowledged ones.
* `RecOK`, `FlushedOK`: the record under way is sealed on the tip, and between
  its write and its sync it is the file's last line, unsynced.
* `CleanOK(c)`: a chain nothing went wrong with verifies and ends on the tip,
  but for the moment between write and sync.

`Inductive` shows `Spec => []IInv`, with one lemma per conjunct (`EndNext`,
`TipNext`, `RecNext`, `FlushedNext`, `CleanNext`, `DurableNext`, `UniqueNext`)
and in each one step per action. The theorems follow.

On verified chains and the log:

| theorem | statement |
|---|---|
| `HistoryIsWritten` | `Spec => []VerifiedHistoryIsWritten` |
| `Refinement` | `Spec => StoreIsLog`: the store implements `RunLog` under all faults |

What a verified chain commits to is an induction along the chain. The library's
induction rules take an operator, which the provers here cannot instantiate, so
the proof goes by the least index at which the claim would fail: `LeastNat`, from
the well-foundedness of finite sets under inclusion, gives one. `ChainCommits`
then says that the hash of the i-th record is the contents of the first i;
`EndOK` says that the last hash commits to written history, and the two together
are `HistoryIsWritten`. The same lemma gives the greatest acknowledged number and
the first torn line, which the refinement mapping names with `CHOOSE`.

For the refinement `LogInv` adds to `IInv`, beside bounds, one thing about a store
that is *not* running: a corridor nothing went wrong with has at most its last
line torn, and is numbered from one before it (`IntactOK`). Hence what is
acknowledged lies before every line a power loss can take (`CommittedWithin`), so
that a loss is `Lose` and never more. Each action has a lemma: a write is
`Extend`, a sync `Commit`, a start `Resume`, a kill `Extend` or a stutter, a loss
`Lose` or a stutter, an edit or a failed append `Disturb`.

Under rotation (`RotSpec`), for any ceilings:

| theorem | statement |
|---|---|
| `WindowsAreWritten` | `RotSpec => []VerifiedWindowIsWritten` |
| `OldestAreDropped` | `RotSpec => []OnlyOldestIsDropped` |
| `NewestIsKept` | `RotSpec => []WindowEndsOnNewest` |
| `TipVouches` | the tip of a store commits, by its hash, to an unbroken run of written records |

`IInv` is not kept by a rotation: a window starts anywhere, and between the
truncation and the last write the file says nothing. `RotInv` replaces
"history from one" by "an unbroken run of what was written" (`UnbrokenIn`):

* `WindowOK(c)`, `IndexOK(c)`: what `EndOK` and `TipOK` were, for a run, and
  reaching the newest acknowledged record unless a rotation of the chain is under
  way or was cut off.
* `SoundOK(c)`: a chain nothing went wrong with verifies and ends on the tip.
* `AboveDropped(c)`, `TipAboveDropped(c)`: everything dropped was numbered below
  everything still there and below the tip, so that no number comes back and an
  acknowledged record above what was dropped is stored.
* `KeptOK`: the window in memory while the file is truncated or half written is
  a chain that could take the file's place; hence what is rewritten is sound.
* `ReportOK(c)`, beside `RotInv`: what was reported of a chain had been dropped, and
  the window about to be written begins after all that was dropped before.

A step is one of the rotation (`RotateChains`, with a lemma for what truncation,
rewriting and flushing do) or one of the store outside it (`StoreMoves`, with a
lemma per conjunct); a rotation holds the mutex, so that nothing but an edit or a
kill can come between (`RotatingBlocks`).

For the client beside it (`ReadSpec`), for any page size:

| theorem | statement |
|---|---|
| `PagesGapless` | `ReadSpec => []PagesAreGapless` |

That two pages meet is not a matter of the pages: in between, the chain may be
cut back by a power loss below the cursor and grow again with other records.
`ReadInv` therefore keeps a floor under the cursor (`FloorOK`): no line a power
loss cannot take, no tip and no window about to be written ends below it.
`FlushedTip` gives the floor when a page is served, since a flushed chain ends
on the tip, and every step keeps it. `PageIs` says what `RecentBefore` returns of
a chain that verifies, and `PageFollows` that the next page ends right below the
cursor.

### The cache (`RateCacheProofs`)

For any callers, any TTL and any bounds:

| theorem | statement |
|---|---|
| `TypeCorrect` | every reachable state is well-typed |
| `OneFetch` | `Spec => []MissesCollapse` |
| `DropIsEffective` | `Spec => []InvalidateIsEffective` |
| `AnswersAreFresh` | `Spec => []ServedIsFresh` |

A failed fetch deletes whatever is under the key, be it its own entry or not, so
"one fetch, and one more per Invalidate" is not obvious: a late failure can put a
newer fetch off the key. The invariant counts the fetches that are off the key
(`Orphans`): an Invalidate adds at most one; a failure adds one only when the
failing fetch was one of them itself, and it ends. `OwnOK` (no two fetchers share
an entry) makes the fetch under the key a single one; `KeyOK` and `SinceOK` date
entries by the Invalidates before them.

### The monitor (`MonitorProofs`)

For any number of corridors and sweeps, any sets of dependencies and any number of
faults:

| theorem | statement |
|---|---|
| `TypeCorrect` | every reachable state is well-typed |
| `AlarmsAreReal` | `Spec => []AlarmIsReal` |
| `AlarmsAreSingle` | `Spec => []ChangeIsReportedOnce` |
| `AlarmsAreComplete` | `Spec => []ChangeIsNotSilent` |
| `EvidenceIsInPlace` | `Spec => []RecordsHaveEvidence` |

`LinesOK` says that a line about a change is about neighbours that differ, and
about none that is still to be compared; that makes it single (`OnceOK`).
`SpokenOK` is completeness with the moment between an append and its comparison:
a change is spoken of, excused, or is the last pair of the corridor at hand.
`ReadingOK`, `EvidenceOK` and `DistinctOK` number the measurements, so that
the one under way never has the number of a stored one. `StepKinds` and
`EvidenceKinds` reduce the fifteen actions to the few kinds of step an invariant
can tell apart.

### Snapshots (`SnapshotProofs`)

For any processes, requests, bodies and faults, and for captures of any length:

| theorem | statement |
|---|---|
| `EvidenceStays` | `Spec => []EvidenceIsKept` |
| `RefusalsHaveCause` | `Spec => []OnlyCRLFIsRefused` |
| `ReplaysAreTrue` | `Spec => []ReplayIsTheRun` |

A record names what `SaveContentAddressed` returned, and between that and the
append another process may save, fail or die over the same name. `ArtifactsOK`
makes the name enough: an artifact no fault touched loads and *is* what its name
commits to, so whoever put it there, it is the right one; `HashOK` follows a
hash from the read-back to the record. `ReplayInv` is about the recorder
(`KeptKeepsFirst`): an entry per key, every key heard has one, and an entry is
the first answer heard to its key.

### A quote's benchmark and its dependencies (`QuoteProofs`)

For any mids, moments and staleness gap:

| theorem | statement |
|---|---|
| `TypeCorrect` | every reachable state is well-typed |
| `FiguresTogether` | `RateSpec => []FiguresStayTogether` |
| `OrderImmaterial` | `RateSpec => []OrderIsImmaterial` |
| `NeverFlattering` | `RateSpec => []NeverFlatters` |
| `BandsAreKept` | `RateSpec => []ReplayKeepsTheBand` |

The invariant says that a rate is `CrossChecked` of the two answers and a record
what `measure` keeps of it; the rest is arithmetic. `RoundedKeepsSide` is the
lemma the replay rests on: a divergence rounded half up to four decimals is above
a threshold only if the exact one was, and at or above it whenever the exact one
was above. What is left over is the threshold itself, which the property names.

For any finite registry of pegged tokens, any markets, sizes, depth cap and any
number of failed requests (`TreeSpec`):

| theorem | statement |
|---|---|
| `CallsBounded` | `TreeSpec => []CallsAreBounded` |
| `ChainsAreMeasurements` | `TreeSpec => []ChainIsOneMeasurement` |

`TreeInv` is about the ways: `TodoOK` says that a way still to be looked at is
new to the tree and meets no token twice up to its last, so that a request is
always about another way without a repetition (`CallsOK`: no more requests than
such ways in the tree). `SimplePathsFinite` makes the count a bound: these ways
are finitely many. For the union, `RootsOK` keeps every dependency of a size as
the root of a branch, and what is published is one size's whole branch because
nothing in a finished tree is below a root that is not in it. The order in which
`todo` is worked off is a `CHOOSE` the proof never opens: it holds of any order.

### The ladder (`LadderProofs`)

For any number of sizes and slots and any figures:

| theorem | statement |
|---|---|
| `TypeCorrect` | every reachable state is well-typed |
| `FailuresEraseNothing` | `Spec => []EvidenceSurvives` |
| `VerdictsHaveBenchmarks` | `Spec => []VerdictNeedsBenchmark` |
| `BurstBounded` | at most `Concurrency` sizes are in flight |

`RungsOK` ties the fields of a result to one another (an error says nothing, a
priced result has a structure, a verdict a benchmark that was scorable) and says
that a rung on its way has at most a rate; `PublishedOK` says that what was
returned is the summary of the rungs as they are now, since all are done.

### The limiter and the handler (`CorridorServerProofs`)

For any requests, clients, rate, burst, thresholds and lag, of the whole of
`CorridorServer`:

| theorem | statement |
|---|---|
| `AdmissionsEarned` | `Spec => []AdmissionsAreEarned` |
| `RetryAfterEnough` | `Spec => []RetryAfterIsEnough` |
| `AnswersTrue` | `Spec => []AnswersAreTrue` |
| `ErrorsCaused` | `Spec => []ErrorsHaveCause` |

`Earned` is a potential: since any admission, what was handed out and what is
still in hand are at most what that admission left and what the time since was
worth. A request whose clock was read early sets the bucket's moment back, and
the same time is earned again: `setbacks` is exactly that, and a client has none
but by its own late requests. An evicted client is given a full bucket anew; that
is what it would have earned, by `EvictionAssumption` (a bucket idle for ten
minutes is full). `Gaining` is the same from below, for a refused client: it has
gained all the time since, so that what it lacked is there when `Retry-After`,
rounded up, has passed (`RetryAfterCovers`). `HandlerOK` ties a request's place to
what its measurement returned; `ServerAroundLimiter` says that the handler's steps
are none of the limiter's.

### Checks and metrics (`SweepProofs`)

For any scenarios (any suites, subjects, documents and answers that the two
assumptions admit), any requests and any number of records, changes and restarts:

| theorem | statement |
|---|---|
| `Silence` | `Spec => []SilenceIsNoEvidence` |
| `Deadlines` | `Spec => []DeadlineBlamesOneAddress` |
| `Drift` | `Spec => []DriftIsReal` |
| `FreshRunner` | `Spec => []FreshRunnerIsCurrent` |
| `Display` | `Spec => []DisplayIsFaithful` |
| `Values` | `Spec => []ValuesAreMeasured` |

`IInv` keeps, for every sweep under way, what each finding may say by what was
asked and answered for it (`FindingOK`, from `AccountFacts` and `DocumentFacts`,
one case per check; `Excused` is the message that refuses the probe account), that
nothing is found after a request that the deadline cut off (`CutOK`), that the
observation a sweep carries is what its drift check judged (`DriftFound`), that the
baseline of the measurement under way is the last record's (`BaselineOK`), what a
record says by its observation and the one before it (`RecordOK`), and that the
documents a fresh `Runner` holds are no older than its measurement (`FreshOK`).

`Display` is about sorting. `Before` is a strict total order of the findings by
rank, name and position (`BeforeIsOrder`); the place of each is one more than the
number of those before it, the places are different and, being as many as the
findings, all taken (`Places`, by counting). Hence the published list is a
rearrangement (`SameTimes`), its neighbours are in order, and its head is the
worst. `CountsAddUp` splits the findings into the counts.

`Values` needs facts about the operators of `MetricRules`, for answers of any
length: a finite set has a greatest element (`Greatest`, by the well-foundedness
of finite sets), which gives the deepest path, the best bid, the largest impact;
the sum of a sequence is the last of its partial sums (`PartialSums`); and the
Herfindahl index of positive shares lies between an even split and one, by adding
one share at a time (`Widen`, the step of the Cauchy-Schwarz inequality) and by
the first occurrences of paths being as many as the distinct paths
(`FirstsDiffer`). `MetricsOK` then says of each result what `ValuesAreMeasured`
does, and `FloorIsOK`, `PathIsOK` and `BookIsOK` give it for each kind of metric.

### What the proofs rest on

The named assumptions of the modules (numbers are numbers, the markers are none
of the things they mark, the registry is finite, a bucket idle long enough is
full, scenarios have the form the code gives them), which TLC evaluates in the
runs, and the library's theorems about finite sets, functions and well-founded
relations.

Induction over data does not go by the library's induction rules, which take an
operator. Where it is needed the proof takes a counterexample of least index,
which `LeastNat` gives from the well-foundedness of finite sets under inclusion,
and shows that there is none.

**Only model-checked.** Liveness (`EveryCallReturns`, `LadderReturns`): it rests on
fairness, hence on ENABLED, for which the prover has no rules. Every other
property of a passing run is proved. `UnscoredHasNoVerdicts`, `CapturesLoad`,
`TimeoutMeansNothingStored` and `MeasuredNodeWins` are refuted by their runs.

## 5. The plan

Done, in this order: the store and its log, rotation, the cache, the
cross-checked rate, the ladder, the monitor, the limiter and the corridor
handler; the proofs about the store; readers beside rotation, the checks and
metrics with their runner, snapshots, the dependency tree; the proofs that the
store implements its log, about the cache, the monitor, snapshots, the
cross-checked rate and the ladder; the proofs about rotation and the paging
client, the dependency tree, the limiter and the handler, the checks, the
published document and the metrics.

Next, most important first; new parts join the runs of the modules they extend:

1. **Two writers** on one data directory (`RunStore`, `main.go:89`).
2. **Shutdown**: the grace period, the last sweep, the last request.
3. **Series**: measurability and movement along a history.

## 6. What is not modelled, and why

* **Encoding**: canonical JSON, decimal formatting, SHA-256. A hash is what it
  commits to; a line that does not decode is `Torn`, whatever is wrong with it.
* **HTTP, TLS, gzip, entity tags, pages, images**: rendering of a document whose
  content is modelled where it can be wrong.
* **Parsers** (stellar.toml, SEP-38, provider payloads): stateless; a check takes
  what they return, including nothing.
* **Statistics** (analysis, movement, fragmentation, health score): arithmetic on
  a list of records.
* **Command-line tools**: sequential calls of the packages above.
* **Flags and environment** of the daemon: they choose the constants.
