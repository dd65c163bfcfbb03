----------------------------- MODULE ChainWatch -----------------------------
(***************************************************************************)
(* The indexing process: app.Run's startup (determineStartBlock with its    *)
(* Reconcile), ContinuousIndexer.Run and RunCycle, IndexRange as specified  *)
(* by RangeIndexer, and the PostgreSQL store, under a chain that reorganises *)
(* at any time and a process that fails, is killed and is started again at   *)
(* any step.                                                                 *)
(***************************************************************************)
EXTENDS ReorgManager, RangeIndexer

CONSTANTS
    ConfirmationDepth,   \* config.ConfirmationDepth
    Uint64Wrap           \* 2^64, where block numbers wrap

ASSUME ConfirmationDepthAssumption ==
    /\ ConfirmationDepth \in Nat
    /\ Uint64Wrap \in Nat /\ MaxHeight + ConfirmationDepth < Uint64Wrap

VARIABLES
    phase,       \* what the process is doing
    startBlock   \* ContinuousIndexer.startBlock, fixed for the process's life

processVars == <<phase, startBlock>>
memory == <<reorgVars, rangeVars, processVars>>
vars == <<chainVars, storeVars, memory>>

Phases == {"down", "reconcile", "latest", "cycle", "range", "idle"}

TypeOK ==
    /\ ChainTypeOK
    /\ StoreTypeOK
    /\ ReorgTypeOK
    /\ RangeTypeOK
    /\ phase \in Phases
    /\ startBlock \in 0..(MaxHeight + 1)

StoreInit ==
    \/ EmptyStore
    \/ \E f \in Chains, lo, hi \in 0..MaxHeight :
          Indexable(f, lo, hi) /\ LegacyStore(f, lo, hi)

Init ==
    /\ ChainInit
    /\ StoreInit
    /\ ReorgOff
    /\ RangeOff
    /\ phase = "down"
    /\ startBlock = 0

-----------------------------------------------------------------------------
\* The process.

\* app.Run up to determineStartBlock.
Start ==
    /\ phase = "down"
    /\ phase' = "reconcile"
    /\ BeginReconcile
    /\ UNCHANGED <<chainVars, storeVars, rangeVars, startBlock>>

Reconcile ==
    /\ phase = "reconcile"
    /\ ReconcileStep
    /\ UNCHANGED <<chainVars, rangeVars, processVars>>

ForgetReconcile ==
    /\ reconcile' = "off"
    /\ previous' = NoCheckpoint
    /\ candidate' = NoCheckpoint

\* Mutant of ResumeFromCheckpoint: resumes behind the checkpoint loaded before
\* the rollback.
ResumeFromPrevious ==
    /\ phase = "reconcile"
    /\ reconcile \in {"verified", "rolledBack"}
    /\ startBlock' = previous.Number + 1
    /\ phase' = "cycle"
    /\ ForgetReconcile
    /\ UNCHANGED <<chainVars, storeVars, rangeVars>>

\* determineStartBlock: resume behind the reconciled checkpoint.
ResumeFromCheckpoint ==
    /\ phase = "reconcile"
    /\ reconcile \in {"verified", "rolledBack"}
    /\ startBlock' = candidate.Number + 1
    /\ phase' = "cycle"
    /\ ForgetReconcile
    /\ UNCHANGED <<chainVars, storeVars, rangeVars>>

NoCheckpointYet ==
    /\ phase = "reconcile"
    /\ reconcile = "absent"
    /\ phase' = "latest"
    /\ ForgetReconcile
    /\ UNCHANGED <<chainVars, storeVars, rangeVars, startBlock>>

\* latest - confirmationDepth, a subtraction of uint64 values.
IndexThrough ==
    IF head >= ConfirmationDepth THEN head - ConfirmationDepth
    ELSE head - ConfirmationDepth + Uint64Wrap

\* determineStartBlock: begin at the latest finalized block.
StartFromLatest ==
    /\ phase = "latest"
    /\ startBlock' = IF head >= ConfirmationDepth THEN IndexThrough ELSE 0
    /\ phase' = "cycle"
    /\ UNCHANGED <<chainVars, storeVars, reorgVars, rangeVars>>

\* Mutant of NothingToIndex: a range of one block is taken for empty.
SingleBlockSkipped ==
    \/ head < ConfirmationDepth
    \/ startBlock >= IndexThrough

\* Mutant of NothingToIndex: a chain shorter than the confirmation depth is not
\* looked for, and the subtraction wraps.
UnderflowUnchecked == startBlock > IndexThrough

\* RunCycle: nothing is final yet, or nothing from startBlock on.
NothingToIndex ==
    \/ head < ConfirmationDepth
    \/ startBlock > IndexThrough

SkipCycle ==
    /\ phase = "cycle"
    /\ NothingToIndex
    /\ phase' = "idle"
    /\ UNCHANGED <<chainVars, storeVars, reorgVars, rangeVars, startBlock>>

\* Mutant of RunCycle: indexes up to the latest block.
RunCycleToLatest ==
    /\ phase = "cycle"
    /\ ~NothingToIndex
    /\ IndexRange(startBlock, head)
    /\ phase' = "range"
    /\ UNCHANGED <<chainVars, reorgVars, startBlock>>

\* RunCycle: IndexRange(startBlock, latest - confirmationDepth).
RunCycle ==
    /\ phase = "cycle"
    /\ ~NothingToIndex
    /\ IndexRange(startBlock, IndexThrough)
    /\ phase' = "range"
    /\ UNCHANGED <<chainVars, reorgVars, startBlock>>

IndexBlocks ==
    /\ phase = "range"
    /\ RangeStep
    /\ UNCHANGED <<chainVars, reorgVars, processVars>>

ForgetRange ==
    /\ rangeState' = "off"
    /\ endBlock' = 0
    /\ nextCommit' = 0
    /\ expectedParentHash' = NoHash
    /\ fetched' = NoRows

CycleDone ==
    /\ phase = "range"
    /\ rangeState = "done"
    /\ phase' = "idle"
    /\ ForgetRange
    /\ UNCHANGED <<chainVars, storeVars, reorgVars, startBlock>>

\* The poll interval's ticker fires.
Tick ==
    /\ phase = "idle"
    /\ phase' = "cycle"
    /\ UNCHANGED <<chainVars, storeVars, reorgVars, rangeVars, startBlock>>

\* The process ends, and with it everything but the database.
LoseMemory ==
    /\ phase' = "down"
    /\ startBlock' = 0
    /\ ForgetReconcile
    /\ ForgetRange
    /\ UNCHANGED <<chainVars, storeVars>>

\* Reconcile or a cycle returned an error: run returns it, main exits.
ExitOnError ==
    /\ \/ phase = "reconcile" /\ reconcile \in ReconcileFailed
       \/ phase = "range" /\ rangeState = "failed"
    /\ LoseMemory

-----------------------------------------------------------------------------
\* What the environment does to it.

\* A request for the latest block or a read of the store fails, a sibling
\* service stops, SIGTERM, or the process is killed.
Stop ==
    /\ phase # "down"
    /\ LoseMemory

ReconcileFaulty ==
    /\ phase = "reconcile"
    /\ ReconcileFault
    /\ UNCHANGED <<chainVars, rangeVars, processVars>>

IndexingFaulty ==
    /\ phase = "range"
    /\ RangeFault
    /\ UNCHANGED <<chainVars, reorgVars, processVars>>

MoveChain == ChainMove /\ UNCHANGED <<storeVars, memory>>

Process ==
    \/ Start
    \/ Reconcile
    \/ ResumeFromCheckpoint
    \/ NoCheckpointYet
    \/ StartFromLatest
    \/ SkipCycle
    \/ RunCycle
    \/ IndexBlocks
    \/ CycleDone
    \/ Tick
    \/ ExitOnError

Fault ==
    \/ Stop
    \/ ReconcileFaulty
    \/ IndexingFaulty

Next ==
    \/ Process
    \/ Fault
    \/ MoveChain

\* The process runs, and docker-compose.yml restarts it (unless-stopped).
Spec == Init /\ [][Next]_vars /\ WF_vars(Process)

\* Reorganisations never reach ConfirmationDepth blocks down, and the head
\* never moves back: what confirmation depth is configured for.
ShallowMove ==
    /\ ChainMove
    /\ head' >= head
    /\ \A n \in 0..(head - ConfirmationDepth) : canonical'[n] = canonical[n]
    /\ UNCHANGED <<storeVars, memory>>

\* The store holds only blocks that are final.
ShallowInit ==
    /\ Init
    /\ Exists(checkpoint) =>
          /\ checkpoint.Number <= head - ConfirmationDepth
          /\ canonical[checkpoint.Number] = checkpoint.Hash

ShallowSpec ==
    ShallowInit /\ [][Process \/ Fault \/ ShallowMove]_vars /\ WF_vars(Process)

-----------------------------------------------------------------------------
\* Properties.

History == DOMAIN indexed_blocks

\* The checkpoint is the last committed block, never merely a requested one:
\* the recorded history ends exactly at it, has no gap below it, and nothing,
\* history or transfers, exists above it.
CheckpointIsTip ==
    /\ ~Exists(checkpoint) => History = {} /\ DOMAIN erc20_transfers = {}
    /\ History # {} =>
          /\ checkpoint.Number \in History
          /\ indexed_blocks[checkpoint.Number].block_hash = checkpoint.Hash
    /\ \A n \in History :
          n <= checkpoint.Number /\ n..checkpoint.Number \subseteq History
    /\ \A t \in DOMAIN erc20_transfers :
          erc20_transfers[t].block_number <= checkpoint.Number

\* The recorded history is a piece of one branch: every block is recorded at
\* its own number and is the child of the block recorded below it, even when
\* the chain reorganised between two reads of one range.
HistoryLinked ==
    \A n \in History :
        LET b == indexed_blocks[n].block_hash
        IN  /\ Number[b] = n
            /\ indexed_blocks[n].parent_hash \in {NoHash, ParentHash[b]}
            /\ n - 1 \in History => indexed_blocks[n - 1].block_hash = ParentHash[b]

\* The transfers stored for a recorded block are exactly that block's: all of
\* its logs were decoded, none was lost to ON CONFLICT DO NOTHING and none is
\* left over from an orphaned block.
TransfersExact ==
    \A n \in History :
        LET b == indexed_blocks[n].block_hash
        IN  /\ LogsDecode(b)
            /\ \A t \in TransferId :
                  t \in Transfers[b] <=>
                      /\ t \in DOMAIN erc20_transfers
                      /\ erc20_transfers[t] = [block_number |-> n, block_hash |-> b]

\* The piece of the chain the store holds; of a legacy store only the
\* checkpoint's block is known.
StoredSegment ==
    IF History = {} /\ Exists(checkpoint)
    THEN [n \in {checkpoint.Number} |-> checkpoint.Hash]
    ELSE [n \in History |-> indexed_blocks[n].block_hash]

StoredRows ==
    {<<t, erc20_transfers[t].block_number, erc20_transfers[t].block_hash>> :
        t \in {u \in DOMAIN erc20_transfers :
                  erc20_transfers[u].block_number \in DOMAIN StoredSegment}}

Stored == INSTANCE StoredChain WITH segment <- StoredSegment, rows <- StoredRows

\* Seen from the database, every step of the process, every crash and every
\* reorganisation is a block appended to its parent, a rollback of at most
\* MaxReorgDepth blocks, or no change at all.
ImplementsStoredChain == Stored!StoredSpec

\* With reorganisations shallower than the confirmation depth, everything
\* recorded is canonical and final.
FinalizedCanonical ==
    /\ Exists(checkpoint) => checkpoint.Number <= head - ConfirmationDepth
    /\ \A n \in History : canonical[n] = indexed_blocks[n].block_hash

\* With such reorganisations no false alarm is raised either: Reconcile never
\* enters the ancestor search and no block read is refused for its parent.
NoFalseReorg ==
    /\ reconcile \notin {"search", "rollback", "rolledBack", "tooDeep", "historyUnavailable"}
    /\ rangeState = "running" /\ nextCommit \in DOMAIN fetched =>
          \/ fetched[nextCommit] = NoHash
          \/ ~LogsDecode(fetched[nextCommit])
          \/ ReadyToCommit

\* With such reorganisations no committed block is ever taken back.
NeverRollsBack ==
    [][Exists(checkpoint) =>
          /\ checkpoint'.Number >= checkpoint.Number
          /\ \A n \in History : n \in DOMAIN indexed_blocks'
                 /\ indexed_blocks'[n].block_hash = indexed_blocks[n].block_hash]_vars

\* The last block recorded is the one the node serves at its height.
CheckpointCanonical == Exists(checkpoint) /\ CanonicalAt(checkpoint.Number, checkpoint.Hash)

Orphaned == Exists(checkpoint) /\ ~CheckpointCanonical

\* Everything final is recorded, on the branch the node serves.
CaughtUp == CheckpointCanonical /\ checkpoint.Number >= head - ConfirmationDepth

\* The store is empty and nothing from the start block on is final: the chain is
\* young, or it was longer when this process chose where to start.
StartedAhead ==
    /\ ~Exists(checkpoint)
    /\ phase \in {"cycle", "idle"}
    /\ startBlock > head - ConfirmationDepth

\* The block a process started now would index first: the one above a
\* canonical checkpoint, or the latest final block.
FirstToIndex ==
    IF Exists(checkpoint) THEN checkpoint.Number + 1 ELSE head - ConfirmationDepth

\* Indexing ends at a block whose logs cannot be decoded, exactly there.
BlockedByLogs ==
    /\ Exists(checkpoint) => CheckpointCanonical
    /\ FirstToIndex \in DOMAIN canonical
    /\ ~LogsDecode(canonical[FirstToIndex])

\* The checkpoint is orphaned and no recorded block at most MaxReorgDepth below
\* it is canonical: Reconcile fails closed.
BeyondRepair ==
    /\ Orphaned
    /\ \A n \in History :
          checkpoint.Number - n \in 1..MaxReorgDepth
              => ~CanonicalAt(n, indexed_blocks[n].block_hash)

\* The chain became shorter than what is recorded.  A running process finds
\* nothing to index, and a process that starts fails: the node has no block at
\* the checkpoint's height to compare with (reorg.go:87-94), so that Reconcile
\* does not look for the ancestor, however close it is.
HeadBelowCheckpoint == Exists(checkpoint) /\ checkpoint.Number > head

\* The checkpoint was orphaned under a running process and no final block lies
\* above it.  Hashes are compared at startup and when the next block is
\* committed, so nothing is noticed until there is one.
OrphanUnnoticed ==
    /\ Orphaned
    /\ phase \in {"cycle", "range", "idle"}
    /\ checkpoint.Number \in (head - ConfirmationDepth)..head

\* Once the chain stands still and nothing fails any more, the process, however
\* often it has to end and start again, records everything up to the latest
\* final block, on the branch the node serves, and stays there.  It does not
\* in the five cases named: there is no way to (BlockedByLogs, BeyondRepair), or
\* the code waits for the chain to grow (StartedAhead, and two cases in which
\* docs/PRODUCTION_REVIEW.md:93 lets a reader expect a rollback:
\* HeadBelowCheckpoint and OrphanUnnoticed).
EventuallyCaughtUp ==
    <>[][Process]_vars =>
        <>[](\/ CaughtUp
             \/ StartedAhead
             \/ BlockedByLogs
             \/ BeyondRepair
             \/ HeadBelowCheckpoint
             \/ OrphanUnnoticed)

-----------------------------------------------------------------------------
\* The inductive invariant behind CheckpointIsTip, HistoryLinked and
\* TransfersExact.

\* A store with checkpoint cp, history blocks and the given transfers holds
\* exactly the blocks of branch f from lo to cp; their history is recorded from
\* some height on (none in a legacy store).
HoldsPiece(f, lo, cp, blocks, transfers) ==
    /\ IsBranch(f, lo, cp.Number) /\ lo <= cp.Number /\ f[cp.Number] = cp.Hash
    /\ \A n \in lo..cp.Number : LogsDecode(f[n])
    /\ \A n \in DOMAIN blocks :
          /\ n \in lo..cp.Number /\ n..cp.Number \subseteq DOMAIN blocks
          /\ blocks[n].block_hash = f[n]
          /\ blocks[n].parent_hash \in {NoHash, ParentHash[f[n]]}
    /\ \A t \in DOMAIN transfers : \E n \in lo..cp.Number : t \in Transfers[f[n]]
    /\ \A n \in lo..cp.Number : \A t \in Transfers[f[n]] :
          /\ t \in DOMAIN transfers
          /\ transfers[t] = [block_number |-> n, block_hash |-> f[n]]

StoreInv ==
    IF Exists(checkpoint)
    THEN \E lo \in 0..MaxHeight : \E f \in [lo..checkpoint.Number -> Hash] :
            HoldsPiece(f, lo, checkpoint, indexed_blocks, erc20_transfers)
    ELSE EmptyStore

\* What Reconcile remembers still describes the store.
ReorgInv ==
    /\ phase # "reconcile" => reconcile = "off"
    /\ reconcile = "absent" => ~Exists(checkpoint)
    /\ reconcile \in {"verify", "ensure", "verified", "rolledBack"} =>
          Exists(checkpoint) /\ candidate = checkpoint
    /\ reconcile \in {"verify", "ensure", "search", "rollback"} =>
          Exists(checkpoint) /\ previous = checkpoint
    /\ reconcile = "search" =>
          candidate.Number <= checkpoint.Number /\ AnotherDepth(candidate.Number)
    /\ reconcile = "rollback" =>
          /\ candidate.Number \in History
          /\ indexed_blocks[candidate.Number].block_hash = candidate.Hash
          /\ checkpoint.Number - candidate.Number \in 1..MaxReorgDepth

\* What a running IndexRange remembers is the tip of the store.
RangeInv ==
    /\ phase # "range" => rangeState = "off"
    /\ phase = "latest" => ~Exists(checkpoint)
    /\ phase \in {"cycle", "range", "idle"} /\ Exists(checkpoint) =>
          startBlock <= checkpoint.Number + 1
    /\ \A n \in DOMAIN fetched : fetched[n] # NoHash => Number[fetched[n]] = n
    /\ rangeState = "running" =>
          /\ startBlock <= nextCommit /\ nextCommit <= endBlock
          /\ expectedParentHash = checkpoint.Hash
          /\ Exists(checkpoint) => nextCommit = checkpoint.Number + 1

\* The inductive invariant: whatever the process has in memory agrees with
\* what the last transaction left in the database, so that the next
\* transaction extends or truncates the same branch.
IndInv == TypeOK /\ StoreInv /\ ReorgInv /\ RangeInv
=============================================================================
