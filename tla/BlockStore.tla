----------------------------- MODULE BlockStore -----------------------------
(***************************************************************************)
(* The PostgreSQL store of internal/store, one transaction per action.      *)
(* A partial function stands for a table, its domain for the primary key.   *)
(***************************************************************************)
EXTENDS Blocks

VARIABLES
    checkpoint,       \* checkpoints row of this indexer: number and hash
    indexed_blocks,   \* block_number -> block_hash, parent_hash
    erc20_transfers   \* transfer identity -> block_number, block_hash

storeVars == <<checkpoint, indexed_blocks, erc20_transfers>>

Checkpoints == [Number : 0..MaxHeight, Hash : Hash]

\* Load without a row returns the zero BlockCheckpoint and exists = false.
NoCheckpoint == [Number |-> 0, Hash |-> NoHash]

Exists(cp) == cp.Hash # NoHash

StoreTypeOK ==
    /\ checkpoint \in Checkpoints \cup {NoCheckpoint}
    /\ DOMAIN indexed_blocks \subseteq 0..MaxHeight
    /\ \A n \in DOMAIN indexed_blocks :
          indexed_blocks[n] \in [block_hash : Hash,
                                 parent_hash : {ParentHash[b] : b \in Hash} \cup {NoHash}]
    /\ DOMAIN erc20_transfers \subseteq TransferId
    /\ \A t \in DOMAIN erc20_transfers :
          erc20_transfers[t] \in [block_number : 0..MaxHeight, block_hash : Hash]

NoRows == [x \in {} |-> x]

EmptyStore ==
    /\ checkpoint = NoCheckpoint
    /\ indexed_blocks = NoRows
    /\ erc20_transfers = NoRows

\* The transfer rows of the blocks lo..hi of branch f.
TransfersOf(f, lo, hi) ==
    [t \in UNION {Transfers[f[n]] : n \in lo..hi} |->
        LET n == CHOOSE m \in lo..hi : t \in Transfers[f[m]]
        IN  [block_number |-> n, block_hash |-> f[n]]]

\* A store that holds the blocks lo..hi of branch f, and nothing else.
HoldsBranch(f, lo, hi) ==
    /\ lo <= hi /\ hi \in DOMAIN f
    /\ checkpoint = [Number |-> hi, Hash |-> f[hi]]
    /\ indexed_blocks = [n \in lo..hi |->
          [block_hash |-> f[n], parent_hash |-> ParentHash[f[n]]]]
    /\ erc20_transfers = TransfersOf(f, lo, hi)

\* A database written before the indexed_blocks table existed (migration
\* 004): checkpoint and transfers as above, and no history.
LegacyStore(f, lo, hi) ==
    /\ lo <= hi /\ hi \in DOMAIN f
    /\ checkpoint = [Number |-> hi, Hash |-> f[hi]]
    /\ indexed_blocks = NoRows
    /\ erc20_transfers = TransfersOf(f, lo, hi)

\* insertBlockTransfers: INSERT ... ON CONFLICT (transaction_hash, log_index)
\* DO NOTHING, so a row that is already there wins.
InsertTransfers(b) ==
    [t \in DOMAIN erc20_transfers \cup Transfers[b] |->
        IF t \in DOMAIN erc20_transfers
        THEN erc20_transfers[t]
        ELSE [block_number |-> Number[b], block_hash |-> b]]

\* recordIndexedBlock's WHERE clause: the height is taken by another hash, no
\* row is returned, and the call fails with ErrChainReorg.
HashConflict(n, h) ==
    /\ n \in DOMAIN indexed_blocks
    /\ indexed_blocks[n].block_hash # h

\* The row recordIndexedBlock leaves: an empty parent is filled in, a known
\* one is kept.
RecordedParent(n, parent) ==
    IF n \in DOMAIN indexed_blocks /\ indexed_blocks[n].parent_hash # NoHash
    THEN indexed_blocks[n].parent_hash
    ELSE parent

RecordIndexedBlock(n, h, parent) ==
    [m \in DOMAIN indexed_blocks \cup {n} |->
        IF m = n
        THEN [block_hash |-> h, parent_hash |-> RecordedParent(n, parent)]
        ELSE indexed_blocks[m]]

\* SaveIndexedBlock commits: transfers, history and checkpoint together.
SaveIndexedBlock(b) ==
    /\ ~HashConflict(Number[b], b)
    /\ erc20_transfers' = InsertTransfers(b)
    /\ indexed_blocks' = RecordIndexedBlock(Number[b], b, ParentHash[b])
    /\ checkpoint' = [Number |-> Number[b], Hash |-> b]

\* EnsureIndexedBlock: one autocommitted statement with an empty parent.
EnsureIndexedBlock(cp) ==
    /\ ~HashConflict(cp.Number, cp.Hash)
    /\ indexed_blocks' = RecordIndexedBlock(cp.Number, cp.Hash, NoHash)
    /\ UNCHANGED <<checkpoint, erc20_transfers>>

\* Mutant of RollbackTo: the history above the target is not deleted.
RollbackKeepsHistory(cp) ==
    /\ erc20_transfers' =
          [t \in {u \in DOMAIN erc20_transfers :
                     erc20_transfers[u].block_number <= cp.Number} |->
              erc20_transfers[t]]
    /\ checkpoint' = cp
    /\ UNCHANGED indexed_blocks

\* Mutant of RollbackTo: the transfers of the target itself are deleted too.
RollbackDeletesTarget(cp) ==
    /\ erc20_transfers' =
          [t \in {u \in DOMAIN erc20_transfers :
                     erc20_transfers[u].block_number < cp.Number} |->
              erc20_transfers[t]]
    /\ indexed_blocks' =
          [n \in {m \in DOMAIN indexed_blocks : m <= cp.Number} |->
              indexed_blocks[n]]
    /\ checkpoint' = cp

\* RollbackTo: both DELETEs and the checkpoint move commit together.
RollbackTo(cp) ==
    /\ erc20_transfers' =
          [t \in {u \in DOMAIN erc20_transfers :
                     erc20_transfers[u].block_number <= cp.Number} |->
              erc20_transfers[t]]
    /\ indexed_blocks' =
          [n \in {m \in DOMAIN indexed_blocks : m <= cp.Number} |->
              indexed_blocks[n]]
    /\ checkpoint' = cp
=============================================================================
