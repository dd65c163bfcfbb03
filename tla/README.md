# ChainWatch in TLA+

A TLA+ model of ChainWatch, an indexer that follows an Ethereum node over
JSON-RPC, stores the ERC-20 transfers of every block in PostgreSQL and serves
them over HTTP.  The modules are translated from the Go code; TLC checks them on
small instances, TLAPS proves the main invariants for all instances.

## 1. Inventory

| Part | State | Operations | What is hard | What makes it correct |
|---|---|---|---|---|
| `indexer/concurrent_indexer.go` | pending map, two channels, worker goroutines | `IndexRange` | goroutines that wait for each other, early return, cancellation, results out of order, blocks read before and committed after a reorganisation | commits in order, each on its parent; a nil error means the whole range; nothing leaks |
| `indexer/sequential_indexer.go` | loop variables | `IndexRange` | the chain moves between requests | the same contract |
| `indexer/reorg.go` | none of its own | `Reconcile`, `validateParentHash` | chain moves during the search, depth bound, missing history, lost answers | rolls back to the nearest recorded canonical ancestor or fails closed |
| `store/postgres_block_persistence.go` and friends | tables `checkpoints`, `indexed_blocks`, `erc20_transfers` | `Load`, `SaveIndexedBlock`, `EnsureIndexedBlock`, `LoadIndexedBlockHash`, `RollbackTo` | atomicity, conflicts, ambiguous commit | checkpoint, history and transfers always describe one piece of one branch |
| `indexer/continuous_indexer.go`, `app/application.go` | `startBlock` | startup, `Run`, `RunCycle` | crash and restart anywhere, confirmation depth arithmetic | resumes without gap or duplicate, catches up |
| `lifecycle/group.go` | result channels, counters, joined error | `Run` | signal against error against deadline | bounded shutdown, errors reported |
| `ethereum/rpc_resilience.go` | token bucket, attempt counter | `executeResilientRPC`, `Wait`, `wait` | shared bucket, retry against cancellation | rate kept, retries bounded, cancellation honoured |
| `metadata/token_metadata_service.go`, `store/postgres_token_metadata.go`, `ethereum/ethereum_metadata.go` | cache, table `token_metadata` | `GetTokenMetadata` | concurrent misses, failed saves, restart | no answer that is not durable |
| `ethereum/ethereum_client.go`, `domain/erc20_transfer.go` | none | block and log requests, log decoding | the node's chain moves; a block whose logs cannot be decoded fails on every attempt | logs are asked for by hash; indexing ends exactly below such a block |
| `store/postgres_transfer_reader.go`, `api/transfer_cursor.go` | none | keyset pagination | pages while blocks are committed or rolled back | a scan has every row that was there when it began and was not rolled back since, once |
| `api/`, `observability/` | counters | middleware, handlers, `/metrics` | a panic before or after the header was sent, metadata that fails for one row, counters read one by one | the log line says what the client got, counters add up, no row is lost |
| `config/`, and the wiring in `app/application.go` | none | `LoadConfig`, `Validate`, the copies `app.Run` makes | overrides that meet the default of a related setting; fields of one type copied by hand; checks repeated by components, some after the database was written | every setting arrives where it is used; only a text `LoadConfig` does not parse is refused later |
| `indexer/checkpoint.go` | a map and a checkpoint under a mutex | the calls of the PostgreSQL store | differs inside from what it stands for in tests | the same answers for its callers |
| `service/`, `domain/blockchain.go` | an in-memory ledger | `SyncLatestBlock`, `ProcessBlock`, `ProcessTransaction` | fixed-width balances, a block that fails half-way (unused by `app.Run`) | a block applies whole or not at all; value is conserved modulo 2^64 |
| `metadata/token_amount.go` | none | decimal formatting | digits and boundaries | the text denotes the amount |

`app.Run` reconciles once, then runs the continuous indexer and the HTTP servers
under `lifecycle.Run`.  A cycle asks for the latest block and calls the
concurrent `IndexRange`.  A reorganisation during a range shows up as a wrong
parent hash: the cycle fails, the process exits, the orchestrator starts it
again, and `Reconcile` repairs the store.

## 2. Modules

| Module | Models | State and actions |
|---|---|---|
| `Blocks` | blocks as constant functions of their hash | `Number`, `ParentHash`, `Transfers`; the assumption that a transaction occurs once on a branch |
| `EthereumChain` | the node (external) | `head`, `canonical`; `ChainMove` replaces the canonical chain by any other one; `LogsDecode` tells the blocks whose logs can be decoded |
| `BlockStore` | the three tables | partial functions keyed by the primary keys; each transaction is one action |
| `ReorgManager` | `Reconcile` | one action per request or statement; `ReconcileFault` for errors and lost answers |
| `RangeStart` | prologue of `IndexRange`, `validateParentHash` | operators |
| `RangeIndexer` | abstract contract of `IndexRange` | reads in any order, commits in ascending order |
| `ConcurrentIndexer` | the concurrent implementation | dispatcher, workers, closer, coordinator |
| `SequentialIndexer` | the sequential implementation | loop body in three steps |
| `RangeIndexers` | one call of either implementation | composes `ConcurrentIndexer` and `SequentialIndexer`; `implementation` says which one runs |
| `StoredChain` | what readers of the database are promised | `Begin`, `Grow`, `GiveUpTo` |
| `ChainWatch` | startup, cycles, exit, crash, restart | composes `ReorgManager`, `RangeIndexer`, `BlockStore`, `EthereumChain` |
| `ObservedReconcile` | `ChainWatch` with an observer | history variable `undisturbed`: nothing but `Reconcile` has moved since it was called |
| `Lifecycle` | `lifecycle.Run` | services, hooks, supervisor, deadline |
| `RPCResilience` | retry loop and rate limiter | one operation per caller, time in ticks |
| `TokenMetadata` | `GetTokenMetadata` | callers, cache, row, contract, restart |
| `PostgresSessions` | the transactions of `BlockStore` by statement, the sessions of dead processes | one action per statement, row locks, `Commit`, `ProcessDies`, `OrphanAborts`, `Restart` |
| `MemoryStore` | `MemoryCheckpointStore` in lockstep with `BlockStore` | one action per call of `IndexRange` or `Reconcile` |
| `TransferReader` | `ListTransfers`, cursor, a client that pages; extends `StoredChain` | `FirstPage`, `NextPage`, `Commit`, `Rollback` |
| `HTTPServer` | middleware, handlers, counters | one action per step of a request that others, the client or a panic can come between |
| `Ledger` | the in-memory ledger and `SyncLatestBlock` | `Begin`, `FetchBlock`, `FetchError`, `TryAgain`, `Process`, `Cancelled` |
| `TokenAmount` | `FormatTokenAmount` | one step from argument to text |
| `Configuration` | environment, `LoadConfig`, what `app.Run` hands to each component and the checks made there | `SetVariable`, `LoadConfig`, `DialNode`, `CreateClient`, `OpenPool`, `DetermineStartBlock`, `RunServices`, `ServiceRefuses`; `given` is what each component has |
| `Application` | a process from its environment to its exit status | composes `Configuration` and `Lifecycle` |
| `TokenEnrichment` | what an API answer adds to a transfer | composes `TokenMetadata` and `TokenAmount` |
| `ChainWatchProofs` | proofs about `ChainWatch` and `ObservedReconcile` | |
| `RangeIndexersProofs` | proofs about `RangeIndexers` | |
| `StoreProofs` | proofs about `PostgresSessions` and `MemoryStore` | |
| `TokenLedgerProofs` | proofs about `TokenEnrichment` and `Ledger` | |
| `TransferReaderProofs`, `ApplicationProofs`, `RPCResilienceProofs`, `HTTPServerProofs` | proofs about the module each is named after | |
| `MCBlocks`, `MC*` | block trees and instances for TLC | |

Abstractions worth knowing:

- A block *is* its hash.  `GetERC20TransfersByBlock` filters logs by block hash,
  so the transfers of a block are a function of the hash.
- In `BlockStore` a PostgreSQL transaction is one step: all or nothing.  A failed call may
  nevertheless have committed (`ReconcileAnswerLost`, `SaveAnswerLost`,
  `SaveFails`).  A statement that fails half-way through is rolled back and
  changes nothing.  `PostgresSessions` opens the transactions up: statements at
  READ COMMITTED, row locks, and a COMMIT of a dead process that the server
  carries out later.  `AtomicCalls` says that each call still takes effect at one
  instant, as `BlockStore` has it, and holds unless a rollback runs next to such a
  late COMMIT (`RollbackOverlaps`); section 6 has that case.
- A block with undecodable logs (`Undecodable`) is a block like any other to the
  node.  `FetchLogs` fails for it whatever the number of attempts.
- The callers in `MemoryStore` keep to what `IndexRange` and `Reconcile` do: save
  above the checkpoint, roll back to a recorded block below it, confirm only the
  checkpoint.  For callers that do other things the two stores do differ.
- `HTTPServer` has no rows or parameters: `TransferReader` says what a page holds.
- Reading the latest block number and the prologue of `IndexRange` are one step
  in `ChainWatch` (`RunCycle`): the prologue reads the store only, and only this
  process writes it.  The same holds for `LoadIndexedBlockHash` followed by the
  request for the same height (`SearchAncestor`).
- `Refuse` and `RangeRefused` stand for an empty range and for a checkpoint that
  cannot be loaded.
- `ChainWatch` uses the abstract `RangeIndexer`; the two implementations are
  shown to refine it, so what is shown of `ChainWatch` holds with either.
- In `Configuration` a number is an integer, a duration too, and a text is one that
  the component it is for can use or one that it cannot (`WellFormed`): a URL the
  dial or `pgxpool.New` refuses, an address `ListenAndServe` cannot listen on.  Each of
  the eighteen reads of `loadConfig` is an assignment of its own, and so is each copy in
  `RPCConfig`, `ethereumRPCConfig`, the argument lists and the server literals.
- Widths.  `IndexThrough` subtracts modulo `Uint64Wrap`, and `Twice` and `Jittered`
  compute with a time.Duration of at most `MaxDuration`: a float64 beyond it becomes
  an arbitrary int64, which is a choice in the model.
- `RPCResilience` counts admissions by the limiter.  One admitted
  `FetchTokenMetadata` sends three `eth_call`s; `RateBound` is about admissions.
- Operators whose comment begins with "Mutant of" are wrong on purpose: each is a
  plausible slip in the definition it names, and the property listed for it in
  `PROJECT.json` fails when it takes the definition's place.

## 3. Runs

| Run | Instance | What it shows |
|---|---|---|
| `range_indexers` | 6 blocks, 2 branches, 2 workers | both implementations of `IndexRange` implement `RangeIndexer`; a nil error is never returned for part of the range; no block is lost or given twice, no send on a closed channel, the call returns, no goroutine is left |
| `chain_watch` | 12 blocks, 3 branches, depth 2, confirmation depth 1 | store invariants, `Reconcile` against its definition by sets (`ReconcileOutcome`), refinement of `StoredChain`, `EventuallyCaughtUp` |
| `shallow_reorgs` | depth 2, confirmation depth 1, reorganisations shallower than that | all recorded blocks are final, no false alarm, nothing is taken back |
| `postgres_sessions` | 5 blocks, 2 branches, 3 sessions, no rollback next to a late COMMIT | each call is atomic, the tables hold one branch, calls end |
| `late_commit` | the same, with rollbacks next to a late COMMIT | **violation**, see section 6 |
| `transfer_reader` | two branches of two blocks, 4 transfers, 7 queries | pages descend, scans are exact and end |
| `http_server` | 2 requests, 2 rows | log line, counters, scrapes and rows under panics and failures |
| `ledger` | balances of 2 bits, 7 blocks, 3 attempts | balances are what the accepted blocks account for, all or nothing, retries end |
| `application` | up to two optional variables set; 3 services, 2 hooks | every setting arrives where it is used, only unparsed texts are refused late; exit status, joining, bounded shutdown |
| `lifecycle_error_lost` | 2 services | **violation**, see section 6 |
| `rpc_resilience` | 2 callers, 4 attempts, burst 2, one token per 2 ticks | rate, cancellation, backoff, termination |
| `token_enrichment` | 2 callers, 2 contract versions; amounts -110 to 1210, 0 to 6 decimals | durability and agreement of cache and table; the text is the exact and shortest one of the amount |

Bounds.  `MaxHeight` bounds block numbers; the trees fork below the checkpoint,
exactly `MaxReorgDepth` below it and deeper, so that every ending of `Reconcile`
is reached, at block 0 too.  The transaction `t2` (and `t3`) is included on two
branches at different heights, which is what ON CONFLICT DO NOTHING could get
wrong.  In `range_indexers` the branches part inside the range, and the range is
long enough for a worker to face a full channel after an early return, the case in
which it could be stuck in its send.  Three of four attempts in `rpc_resilience` double the
delay, reach the overflow guard and reach the cap; `MaxBackoff` is all a time.Duration
holds there, so that without the guard the delay would overflow.  In `chain_watch` the
latest block is never final and the chain may be shorter than the confirmation depth,
where the subtraction would wrap; the block `b4` cannot be decoded, in `shallow_reorgs` the block `b3` in
the middle of one.  In `postgres_sessions` two dead processes can hold sessions while a
third one works.  In `transfer_reader` a page can end inside a block, a
transfer moves to another height on the other branch, and `Int64Limit` is small
enough for a query beyond it; addresses have several spellings.  Two bits are
enough for a balance in `ledger` to overflow.  `application` needs two
variables because every check of `Validate` relates two settings at most, and an
exchange of two shows when one of them is set; the
supervisor is explored under the one environment without optional variables
(`MinimalEnvironment`), since it sees none of them but the shutdown timeout.
`token_enrichment` has amounts with fewer digits than decimals, as many, and more;
lookups are explored next to one formatting only (`LookupsExplored`), since the two
share no state.

The runs check safety and liveness.  `TypeOK` is checked in `chain_watch`, where it
is also proved; the type invariants of the other modules say what their variables
range over, and the inductive invariants of section 4 hold what of them the proofs
need.

Initial states.  `ChainWatch` starts from an empty database or from one written
before migration 004 (checkpoint and transfers, no `indexed_blocks`); every
other store is reached by running.  `ReconcileOutcome` is therefore about the stores
the process itself left behind, and about calls during which no request failed and
the chain stood still; what a disturbed call may do is the business of the store
invariants.

Fairness.  `RangeIndexers`: every goroutine that can run does, and requests
and statements come back (the context passed to them ends at shutdown).
`ChainWatch`: weak fairness of the process as a whole; `docker-compose.yml` says
`restart: unless-stopped`.  `EventuallyCaughtUp` assumes, in its statement, that
from some point on only the process moves: no fault and no reorganisation.  Then the
checkpoint is canonical and nothing final lies above it, or the process is in one of
five situations the property names, each of which TLC reaches: the next block cannot be
decoded (`BlockedByLogs`); the fork is deeper than the bound or the recorded history
(`BeyondRepair`), and the process keeps failing closed, as documented; an empty store
and a chain with nothing final from the start block on (`StartedAhead`); the chain
ended up shorter than what is recorded (`HeadBelowCheckpoint`, section 6); or the
checkpoint was orphaned under a running process and there is no final block above it
(`OrphanUnnoticed`): hashes are compared at startup and when the next block is
committed, so until then the process idles on an orphaned block.  `Lifecycle`: fairness of
the supervisor and of the clock only; services and hooks may hang.
`RPCResilience`: callers and clock.  Each caller has one operation; the limiter is
not first-come-first-served, so with callers that never stop asking nothing
guarantees a particular one its token.  `TransferReader`: a client that has a
cursor asks for the next page; `ScanEnds` needs nothing of the indexer, because
every page moves the cursor down.  `PostgresSessions`: statements that are not
blocked are carried out, the server completes a COMMIT it has received and notices
a broken connection at some time (TCP keepalive); when a process dies or restarts
is left open.  `Ledger`: the service runs; requests
come back because they take the context.

Deadlock is checked in every run.  Where a process has ended or nothing more is
explored, the model says so with a step of its own (`Over` of `Application`,
`Formatted` of `TokenEnrichment`).

## 4. Proofs

`ChainWatchProofs` proves for every block tree that satisfies the assumptions of
`Blocks` and `EthereumChain`, every `MaxHeight`, `MaxReorgDepth >= 1` and
`ConfirmationDepth`:

- `InductiveInvariant`: `Spec => []IndInv`
- `TypeCorrect`: `Spec => []TypeOK`
- `CheckpointTheorem`, `HistoryTheorem`, `TransfersTheorem`: the three store
  invariants of the run `chain_watch`.

`IndInv` itself has no run: its existential ranges over functions on all blocks, and
the proof covers every instance.

The three invariants are not inductive by themselves: that a commit extends the
stored branch depends on what the process remembers.  `IndInv` adds

- `StoreInv`: there is a branch `f` of which the store holds exactly the blocks
  `lo` to the checkpoint, with their transfers, all of them decodable, and the
  history from some height on (`HoldsPiece`).  The existential is needed because a legacy database has no
  history to read the branch from;
- `ReorgInv`: what `Reconcile` remembers (the loaded checkpoint, the candidate)
  still describes the store, and a candidate for rollback is a recorded block
  within the depth bound;
- `RangeInv`: while a range runs, `expectedParentHash` is the checkpoint's hash,
  `nextCommit` is one above the checkpoint, and every block read has the number
  it was asked for.

Three lemmas carry the argument: saving a child of the tip extends the piece by it
(`SaveExtendsPiece`; here `TransferIdentity` rules out that DO NOTHING keeps a
foreign row), recording the checkpoint keeps it (`EnsureKeepsPiece`), and rolling
back to a recorded block keeps its lower part (`RollbackKeepsPiece`).  The
preservation proof then has one lemma per group of actions.

### The process as a whole

From `IndInv`, for the same constants, in the same module:

- `StoredChainTheorem`, `Spec => ImplementsStoredChain`: the refinement.  The mapped
  `segment` is the recorded history, or the checkpoint alone in a database without
  one, and `rows` are the stored transfers of these heights.  Saving maps to
  `Begin` or `Grow`, a rollback to `GiveUpTo`, recording the checkpoint and everything
  else to a stutter.  Besides `IndInv` the proof needs `TipRecorded`, that a range
  runs only after the checkpoint's own block was recorded (`TipAlways`): otherwise
  the first block saved into a legacy database would not extend anything.
- `ReconcileTheorem`, `ObservedSpec => []ReconcileOutcome`.  `SearchInv` says what the
  downward search has already excluded: every block from the candidate up to the old
  checkpoint is recorded and not canonical.  The highest common ancestor follows when
  the search stops.
- `FinalityTheorem`, `NoFalseReorgTheorem`, `NoRollbackTheorem` for `ShallowSpec`.
  `ShallowInv` adds to `FinalizedCanonical` that the range ends at or below
  `head - ConfirmationDepth` and that what was read is still canonical; a chain that
  moves only above that height changes none of it.

### Statement by statement: `StoreProofs`

`AtomicTheorem` (`AtomicCalls`) and `OneBranchTheorem` (`HoldsOneBranch`) for every block
tree and any number of sessions that dead processes have left behind, under
`~RollbackOverlaps`: no `RollbackTo` runs next to another open transaction.  Without that
hypothesis the theorems are false, as the run `late_commit` shows (section 6).  `AtomicTheorem`
justifies taking a transaction as one step in `BlockStore`: what a COMMIT
makes visible is the whole call, applied to the rows committed at that moment and not to
those its statements saw.

`SessionsInv` has seven parts, each checked with TLC before its proof:

- `Held`: the tables hold the blocks `lo` to the checkpoint of one branch.
  `HoldsOneBranch` follows (`HeldBranch`);
- `SessionTypes`, and `LockInv`: no row is written by two open transactions;
- `SaveInv`: of the transfers it has dealt with, a saving transaction holds exactly those
  that are not committed.  Another COMMIT in between cannot break this: the rows it adds
  were locked, so the transaction has not dealt with them;
- `RollbackInv`: a transaction that rolls back is alone, so what its DELETEs found is
  still all there is;
- `ProcessInv`: the process knows the checkpoint, or the one before it; in the latter case
  no further COMMIT of a predecessor is on its way;
- `CommitInv`: what will be committed is a child of the checkpoint, or the checkpoint's
  own block once more.  Here the block row's lock and its comparison of hashes count:
  a second block of the same height waits and then meets the conflict.

`CommitSaves` and `CommitRollsBack` show what a COMMIT makes visible; `LiveStep` and
`ClosingStep` take care of the steps that leave the tables alone.

### Both implementations of `IndexRange`: `RangeIndexersProofs`

For any number of workers, any range and any chain, under `IndexersSpec`:
`CloseTheorem` (`NoSendAfterClose`), `CompleteTheorem` (`NilMeansComplete`),
`PlacesTheorem` (`EachBlockInOnePlace`) and `RangeIndexerTheorem`, the refinement
`ImplementsRangeIndexer`.

`IndexersInv` is the conjunction of small parts.  `OnePlace` and `DispatchInv` say
where a block number can be: handed out numbers lie below the dispatcher's, no number
is at two places, and while the call runs none between `nextCommit` and the dispatcher
is missing; `Places`, which counts, follows from that.  `ReadInv` says that
what a worker, the channel or the pending map holds was read for its height,
`ExitInv` that a worker leaves early only after cancellation, `ResultInv` that the
results are the newest stored blocks, and `PoolAtRest`, that no goroutine is there
before the call.  The abstract `fetched` is the union of what workers, channel and
pending map hold (`ReadsOf`); a request maps to a read, moving a result to a stutter,
a commit to a commit.

### Paging: `TransferReaderProofs`

`PagesTheorem` and `ScanTheorem` (`PagesDescend`, `ScanExact`) for every table, query,
limit and sequence of commits and rollbacks.  The first half is about LIMIT: in a
finite set that the order of the query sorts strictly, the rows with fewer than `n`
rows before them are a beginning of it, no rank is left out (`EveryRank`, by
an injection into as many numbers), and so asking for `n + 1` rows tells whether there
are more (`Paging`).  The second half is `ReaderInv`: stored rows differ in block or log
index (`TableInv`); and `CursorInv`: what is still behind the cursor, at or below
`floor`, is what was there at first.  That survives a commit only because a new block lies
above the tip, hence above the cursor's block or, after a rollback, above `floor`.

### The other components

- `ApplicationProofs`: `NilTheorem`, `JoinTheorem`, `ErrorTheorem` for `lifecycle.Run`
  by itself, `ApplicationTheorem` for the three of them in the composition,
  `SettingsTheorem` (`SettingsArrive`) and `RefusalTheorem` (`OnlyTextsRefusedLate`) for
  the configuration, for every environment and all defaults.  `LifecycleInv` relates
  the counters to the services and hooks that have returned and to what is still in
  the channels, and says that a dropped error is the one of the first result.  `ConfigInv` says
  that an accepted configuration is the loaded one and satisfies `Valid` (`LoadedInv`),
  which components have been given their settings at which stage, and that these are the
  copies of the loaded fields (`GivenInv`), and which text made a component refuse
  (`RefusalInv`); `Valid` then covers every later check of a number.
- `RPCResilienceProofs`: `RateTheorem` from `LimiterInv` (debt and bucket together
  never exceed a full bucket), `CancellationTheorem` from `LateInv` (a caller that has
  sent a late request is in that request or has ended), and `BackoffTheorem`
  (`BackoffExact`): for every policy that validates and every `MaxDuration` that holds its
  backoffs, the loop yields exactly `min(MaxBackoff, InitialBackoff * 2^(k - 1))`, so no
  doubling wraps, and the timer is that delay with its jitter, as long as the jittered delay
  is a time.Duration at all.  That powers of two double comes from the number of subsets of a
  set (`PowerDoubles`), and the closed form itself shows that the recursive `LoopDelay` is
  defined (`BackoffUnfolds`).
- `StoreProofs` again: `SameAnswersTheorem`, `MemorySpec => []SameAnswers`, from `MemoryInv`,
  which adds `NothingAbove`: nothing is recorded above the checkpoint and at its height
  only its own block.  With it no call ever meets a recorded block of another hash, the
  one case in which the stores part.  `MemoryStore` is only proved about and has no
  run.

### Requests and counters: `HTTPServerProofs`

For any finite number of concurrent requests, any page size, and a panic, a failed lookup or
a client that goes away wherever the model has them: `LogTheorem` (`LogTellsTheTruth`), `RowsTheorem`
(`RowsSurviveMetadata`), `ScrapeTheorem` (`ScrapeComplete`), `CountersTheorem`
(`CountersExact`) and `HTTPTypeTheorem`.  `HTTPInv` says, besides types:

- `RequestInv`, for each request by itself: what the statusRecorder holds is what the client
  has got, unless the handler panicked after the header was out (`Response`); and the rows
  of a page are the enriched, the bare and those still to be looked at (`Page`);
- `CounterInv`: each counter is the number of requests, or of rows, that have passed its
  addition.  `ObserveHTTPRequest` adds to three counters one after the other, so there are three
  such sets and a request is in some of them and not yet in others;
- `ScrapeInv`: each counter a scrape has loaded so far covers the requests that were over when
  it began, and the first does not count the scrape itself.

One step moves one request (`Moves`); the lemmas on cardinalities say what that adds to each
set.

### Token metadata, token amounts, the ledger: `TokenLedgerProofs`

- `SavedTheorem` and `AgreementTheorem` from `MetadataInv`, which adds what each call has
  read or saved so far.  They are about `TokenMetadata` by itself; `EnrichmentLooksUp` carries
  them over to `EnrichmentSpec`.
- `ExactTheorem` (`ExactText`): `FormatTokenAmount` for every integer, every number of
  decimals and every base.  `Digits` reads back as its argument and has no zero in front
  (`DigitsRead`, by strong induction over the number), padding changes nothing
  (`DenotesPadded`), what `TrimRight` cuts off are zeros (`Trimmed`), and so the two parts
  shifted back are the padded digits (`CutAndShift`).  `Denotes` says that digits read as a
  number; `NumberUnique` that `Number` computes it.
- `LedgerTheorem` (`LedgerIsItsBlocks`) and `LedgerTypeTheorem` for every width, genesis, blocks and
  length, and any order of blocks, refused blocks and single transactions.  Along the
  loop of `ProcessBlock` each balance differs from the one before by the net amount of the
  transactions so far, modulo `2^Width` (`BlockExact`, from `MoveExact` and `UintAdds`);
  the block then lies between older blocks and single transactions, and sums do not mind
  (`NetConcat`, `ExplainMore`).

Both inductions are over data.  The library's induction theorems take a predicate as a parameter, which
the installed provers cannot instantiate; `StrongInduction` and `StepInduction` take a set
and follow from `WFMin`.  A recursive function is a CHOOSE, so each of them needs a proof that
the function exists: from approximations on initial segments that agree (`Unfoldings`,
`UnfoldingsAgree`, `LoopExists`, `FlatExists`, `SumsExist`).

### Assumptions

The proofs use the named `ASSUME`s of the modules and nothing else; every run evaluates
those of its module.  Besides ranges of numbers they say: hashes determine blocks and a
transaction occurs once on a branch (`TransferIdentity`); what can become canonical is a
branch from block 0 (`ChainsAssumption`); there are finitely many workers, services and
HTTP requests (`RequestAssumption`);
a block has finitely many transfers, no two with one log index
(`LogIndexAssumption`); block numbers fit an int64 (`BigintAssumption`); the values that
stand for nil are no metadata and no cursor (`NoneAssumption`, `CursorAssumption`); the
default address can be listened on and two defaults are integers (`DefaultAssumption`); the ledger's balances and values are
uint64s (`GenesisAssumption`, `BlockAssumption`).

### Only model-checked

Every safety property of a passing run is also a theorem.  The liveness properties
(`CallReturns`, `EventuallyCaughtUp`, `BoundedShutdown`, `OperationEnds`, `ScanEnds`,
`CallEnds`, `SyncEnds`) are not: fairness is out of the prover's reach.

## 5. Plan: the order of the modules

The indexing process came first (`ChainWatch` on the abstract `RangeIndexer`), then the two
implementations of `IndexRange`, the components around them (`Lifecycle`, `RPCResilience`,
`TokenMetadata`, `HTTPServer`, `TransferReader`), the transactions statement by statement
(`PostgresSessions`), and what is left of the program (`Configuration`, `Ledger`,
`MemoryStore`, `TokenAmount`); the proofs followed in the same order.  Worth adding next is
what section 7 lists and the code has a rule for: the late COMMIT of the very first block.

## 6. Findings

`lifecycle_error_lost`: `lifecycle.Run` drops the first service result when the
context has ended by the time it looks (`internal/lifecycle/group.go:52`).  If the
indexer fails with an error of its own and SIGTERM arrives before that result is
handled, `Run` returns nil and the process exits with status 0, although
`docs/PRODUCTION_REVIEW.md:78` says "A fatal startup or runtime error exits the
process non-zero so an orchestrator can detect failure."  What does hold is
`AtMostFirstErrorMissing`: only the first result can be lost this way.

`late_commit`: `RollbackTo` deletes rows first and locks the checkpoint row last
(`internal/store/postgres_block_persistence.go:128`).  When the previous process
died with the COMMIT of a block on its way, the restarted process's DELETEs do not
see that block, `upsertCheckpoint` waits for the late transaction, and once that has
committed the checkpoint moves below a block that stays in `indexed_blocks` and
`erc20_transfers`.  `docs/PRODUCTION_REVIEW.md:72` says "A detected reorg rolls
transfers, block history, and checkpoint back atomically to a recorded common
ancestor."  The canonical block of that height then meets a row of another hash,
and `recordIndexedBlock` returns `ErrChainReorg` on this and every later start.
`ChainWatch` and its proofs take each transaction as one step that ends before the
next process starts, so they do not cover this case.

Two more places where the documentation says more than the code does have no run of their
own; the properties named here accept what the code does and say so.

A shorter chain (`ReconcileOutcome`, `HeadBelowCheckpoint` in `EventuallyCaughtUp`):
`Reconcile` first asks for the canonical block at the checkpoint's height and returns any error (`internal/indexer/reorg.go:87-94`), "not found" included.
When the chain was reorganised to a branch that ends below the checkpoint, startup
fails without searching, although a common ancestor is recorded within `MaxReorgDepth`,
and so does every restart until the branch has grown.  `docs/PRODUCTION_REVIEW.md:93`
says of a checkpoint that is no longer canonical "Startup searches recorded history,
atomically rolls back to the common ancestor, then replays."

A malformed URL (`OnlyTextsRefusedLate`): `LoadConfig` checks of the two URLs only that
they are not empty.
`app.Run` dials the node and creates the RPC client (`internal/app/application.go:37-50`)
before `pgxpool.New` parses `DATABASE_URL` (`:52`).  `docs/PRODUCTION_REVIEW.md:84` says of
required configuration that is missing or malformed "Startup fails before dependencies
are created".  What does hold is `OnlyTextsRefusedLate`: neither URL is refused after the
database was touched.  A malformed `HTTP_ADDRESS`, which is not required, is refused only
by `ListenAndServe` (`:148`), with the indexer at work.

## 7. Not modelled

- The syntax of query strings, JSON and environment variables, logging layout and
  the pprof mux: library calls.
- The indexer's and the RPC client's counters: added to like the HTTP counters of
  `HTTPServer`, and read by nothing but a scrape.
- `TransferStore.SaveBlock` and the client's transaction and receipt requests, which
  nothing that runs uses.
- How large the pending map of the concurrent indexer gets: the code sets no bound,
  so there is nothing to check it against.
- A request that never comes back: the client has no timeout of its own, and the
  runs assume that requests end.
- A late COMMIT of the very first block, before a checkpoint row exists to lock.
- The running of schema migrations; a database from before migration 004 is an
  initial state.
