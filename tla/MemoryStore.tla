----------------------------- MODULE MemoryStore -----------------------------
(***************************************************************************)
(* MemoryCheckpointStore (internal/indexer/checkpoint.go), the store the    *)
(* tests of the indexers and of the reorg manager run on, next to the        *)
(* PostgreSQL store of BlockStore.  Both get the same calls, in the order    *)
(* IndexRange and Reconcile make them, so that what the tests show of those   *)
(* callers carries over: each call must have the same answer from both.       *)
(* The two differ inside: the memory store overwrites a height that is taken  *)
(* by another hash, and EnsureIndexedBlock replaces the whole index by one    *)
(* without parent and transfers.                                              *)
(***************************************************************************)
EXTENDS BlockStore

VARIABLES
    memCheckpoint,   \* s.checkpoint
    exists,          \* s.exists
    indexes,         \* s.indexes: number -> BlockTransferIndex
    answers          \* what the two stores returned to the last call

Errors == {"nil", "ErrChainReorg"}

MemoryTypeOK ==
    /\ StoreTypeOK
    /\ memCheckpoint \in Checkpoints \cup {NoCheckpoint}
    /\ exists \in BOOLEAN
    /\ DOMAIN indexes \subseteq 0..MaxHeight
    /\ \A n \in DOMAIN indexes :
          /\ indexes[n].BlockHash \in Hash
          /\ indexes[n].ParentHash \in {ParentHash[b] : b \in Hash} \cup {NoHash}
          /\ indexes[n].Transfers \subseteq TransferId
    /\ answers \in [memory : Errors, postgres : Errors]

MemoryInit ==
    /\ EmptyStore
    /\ memCheckpoint = NoCheckpoint
    /\ exists = FALSE
    /\ indexes = NoRows
    /\ answers = [memory |-> "nil", postgres |-> "nil"]

-----------------------------------------------------------------------------
\* The calls of the memory store.  Each holds the mutex throughout.

\* LoadIndexedBlockHash(n) = hash, true, nil
Recorded(n, hash) == n \in DOMAIN indexes /\ indexes[n].BlockHash = hash

SetIndex(n, index) == [m \in DOMAIN indexes \cup {n} |->
                          IF m = n THEN index ELSE indexes[m]]

\* cloneBlockTransferIndex: a copy that shares nothing with the caller's.
Clone(b) == [BlockHash |-> b, ParentHash |-> ParentHash[b], Transfers |-> Transfers[b]]

MemSave(cp) ==
    /\ memCheckpoint' = cp
    /\ exists' = TRUE
    /\ UNCHANGED indexes

MemSaveIndexedBlock(b) ==
    /\ indexes' = SetIndex(Number[b], Clone(b))
    /\ memCheckpoint' = [Number |-> Number[b], Hash |-> b]
    /\ exists' = TRUE

\* existing.BlockHash != checkpoint.Hash
MemConflict(cp) == cp.Number \in DOMAIN indexes /\ ~Recorded(cp.Number, cp.Hash)

MemEnsureIndexedBlock(cp) ==
    IF MemConflict(cp)
    THEN UNCHANGED <<memCheckpoint, exists, indexes>>
    ELSE /\ indexes' = SetIndex(cp.Number, [BlockHash |-> cp.Hash,
                                            ParentHash |-> NoHash, Transfers |-> {}])
         /\ UNCHANGED <<memCheckpoint, exists>>

MemRollbackTo(cp) ==
    /\ indexes' = [n \in {m \in DOMAIN indexes : m <= cp.Number} |-> indexes[n]]
    /\ memCheckpoint' = cp
    /\ exists' = TRUE

-----------------------------------------------------------------------------
\* The same call to the PostgreSQL store: the transaction, or ErrChainReorg.

Postgres(n, hash, transaction) ==
    IF HashConflict(n, hash) THEN UNCHANGED storeVars ELSE transaction

Conflict(n, hash) == IF HashConflict(n, hash) THEN "ErrChainReorg" ELSE "nil"

Answer(memory, postgres) == answers' = [memory |-> memory, postgres |-> postgres]

-----------------------------------------------------------------------------
\* The callers, who know what the store under test tells them.

\* A database from before migration 004, in tests Save on an empty store.
Seed(b) ==
    /\ ~exists
    /\ MemSave([Number |-> Number[b], Hash |-> b])
    /\ checkpoint' = [Number |-> Number[b], Hash |-> b]
    /\ UNCHANGED <<indexed_blocks, erc20_transfers>>
    /\ Answer("nil", "nil")

\* IndexRange(start, _) saves a block above the checkpoint; directly above it
\* only a child of the checkpoint's block (RangeStart).
IndexBlock(b) ==
    /\ exists =>
          /\ Number[b] > memCheckpoint.Number
          /\ Number[b] = memCheckpoint.Number + 1 =>
                ParentHash[b] \in {NoHash, memCheckpoint.Hash}
    /\ MemSaveIndexedBlock(b)
    /\ Postgres(Number[b], b, SaveIndexedBlock(b))
    /\ Answer("nil", Conflict(Number[b], b))

\* Reconcile finds the checkpoint canonical.
ConfirmCheckpoint ==
    /\ exists
    /\ LET cp == memCheckpoint
       IN  /\ MemEnsureIndexedBlock(cp)
           /\ Postgres(cp.Number, cp.Hash, EnsureIndexedBlock(cp))
           /\ Answer(IF MemConflict(cp) THEN "ErrChainReorg" ELSE "nil",
                     Conflict(cp.Number, cp.Hash))

\* Reconcile walks down recorded blocks from the checkpoint to one that is
\* canonical.
RollBackTo(cp) ==
    /\ exists
    /\ cp.Number < memCheckpoint.Number
    /\ Recorded(cp.Number, cp.Hash)
    /\ cp.Number..(memCheckpoint.Number - 1) \subseteq DOMAIN indexes
    /\ MemRollbackTo(cp)
    /\ RollbackTo(cp)
    /\ Answer("nil", "nil")

MemoryNext ==
    \/ \E b \in Hash : Seed(b)
    \/ \E b \in Hash : IndexBlock(b)
    \/ \E cp \in Checkpoints : RollBackTo(cp)
    \/ ConfirmCheckpoint

memoryVars == <<storeVars, memCheckpoint, exists, indexes, answers>>

MemorySpec == MemoryInit /\ [][MemoryNext]_memoryVars

-----------------------------------------------------------------------------

\* Whatever IndexRange and Reconcile did before, both stores returned the same
\* error and now answer Load and every LoadIndexedBlockHash alike: the tests
\* of the callers on the memory store see what PostgreSQL would have shown.
SameAnswers ==
    /\ answers.memory = answers.postgres
    /\ exists <=> Exists(checkpoint)
    /\ memCheckpoint = checkpoint
    /\ DOMAIN indexes = DOMAIN indexed_blocks
    /\ \A n \in DOMAIN indexes : Recorded(n, indexed_blocks[n].block_hash)

\* What the callers rely on without asking: nothing is recorded above the
\* checkpoint, and at its height nothing but its own block.
NothingAbove ==
    \A n \in DOMAIN indexes :
        /\ exists /\ n <= memCheckpoint.Number
        /\ n = memCheckpoint.Number => Recorded(n, memCheckpoint.Hash)

\* The inductive invariant behind SameAnswers: no call of IndexRange or
\* Reconcile meets a recorded block of another hash, the one case in which the
\* two stores would part.
MemoryInv == MemoryTypeOK /\ SameAnswers /\ NothingAbove
=============================================================================
