------------------------- MODULE SequentialIndexer -------------------------
(***************************************************************************)
(* SequentialIndexer.IndexRange (internal/indexer/sequential_indexer.go):   *)
(* the single-goroutine implementation of indexer.RangeIndexer.             *)
(***************************************************************************)
EXTENDS RangeStart

VARIABLES
    rangeState,           \* as in RangeIndexer
    endBlock,
    nextCommit,           \* the loop variable blockNumber
    expectedParentHash,
    pc,                   \* step of the loop body: "header", "logs", "save"
    block                 \* hash of the block read in this iteration

seqVars == <<rangeState, endBlock, nextCommit, expectedParentHash, pc, block>>

SequentialTypeOK ==
    /\ ChainTypeOK
    /\ StoreTypeOK
    /\ rangeState \in {"off", "running", "done", "failed"}
    /\ {endBlock, nextCommit} \subseteq 0..MaxHeight
    /\ {expectedParentHash, block} \subseteq Hash \cup {NoHash}
    /\ pc \in {"header", "logs", "save"}
    /\ rangeState = "running" =>
          /\ nextCommit <= endBlock
          /\ block = NoHash <=> pc = "header"

SequentialInit ==
    /\ ChainInit
    /\ \/ EmptyStore
       \/ \E f \in Chains, lo, hi \in 0..MaxHeight :
             Indexable(f, lo, hi) /\ HoldsBranch(f, lo, hi)
    /\ rangeState = "off"
    /\ endBlock = 0
    /\ nextCommit = 0
    /\ expectedParentHash = NoHash
    /\ pc = "header"
    /\ block = NoHash

Call(start, end) ==
    /\ rangeState = "off"
    /\ start <= end
    /\ endBlock' = end
    /\ IF AlreadyIndexed(start, end)
       THEN /\ rangeState' = "done"
            /\ UNCHANGED <<nextCommit, expectedParentHash>>
       ELSE /\ rangeState' = "running"
            /\ nextCommit' = NextBlock(start)
            /\ expectedParentHash' = FirstExpectedParent(start)
    /\ UNCHANGED <<storeVars, pc, block>>

\* start > end, or loading the checkpoint fails.
Refuse ==
    /\ rangeState = "off"
    /\ rangeState' = "failed"
    /\ UNCHANGED <<storeVars, endBlock, nextCommit, expectedParentHash, pc, block>>

FetchHeader ==
    /\ rangeState = "running" /\ pc = "header"
    /\ HasBlock(nextCommit)
    /\ block' = canonical[nextCommit]
    /\ pc' = "logs"
    /\ UNCHANGED <<storeVars, rangeState, endBlock, nextCommit, expectedParentHash>>

FetchLogs ==
    /\ rangeState = "running" /\ pc = "logs"
    /\ LogsDecode(block)
    /\ pc' = "save"
    /\ UNCHANGED <<storeVars, rangeState, endBlock, nextCommit, expectedParentHash, block>>

\* Mutant of Save: the parent is not compared.
SaveAnyParent ==
    /\ rangeState = "running" /\ pc = "save"
    /\ SaveIndexedBlock(block)
    /\ expectedParentHash' = block
    /\ block' = NoHash
    /\ pc' = "header"
    /\ IF nextCommit = endBlock
       THEN rangeState' = "done" /\ UNCHANGED nextCommit
       ELSE nextCommit' = nextCommit + 1 /\ UNCHANGED rangeState
    /\ UNCHANGED endBlock

Save ==
    /\ rangeState = "running" /\ pc = "save"
    /\ ValidParent(block, expectedParentHash)
    /\ SaveIndexedBlock(block)
    /\ expectedParentHash' = block
    /\ block' = NoHash
    /\ pc' = "header"
    /\ IF nextCommit = endBlock
       THEN rangeState' = "done" /\ UNCHANGED nextCommit
       ELSE nextCommit' = nextCommit + 1 /\ UNCHANGED rangeState
    /\ UNCHANGED endBlock

\* A request fails, the parent does not match, or the transaction fails or
\* conflicts: the call returns the error at once.
Fail ==
    /\ rangeState = "running"
    /\ rangeState' = "failed"
    /\ UNCHANGED <<storeVars, endBlock, nextCommit, expectedParentHash, pc, block>>

SaveAnswerLost ==
    /\ rangeState = "running" /\ pc = "save"
    /\ ValidParent(block, expectedParentHash)
    /\ SaveIndexedBlock(block)
    /\ rangeState' = "failed"
    /\ UNCHANGED <<endBlock, nextCommit, expectedParentHash, pc, block>>

Step ==
    \/ FetchHeader
    \/ FetchLogs
    \/ Save
    \/ Fail
    \/ SaveAnswerLost

Invoke ==
    \/ \E start, end \in 0..MaxHeight : Call(start, end)
    \/ Refuse

\* The block read and not yet committed.
SequentialFetched ==
    IF block # NoHash THEN [n \in {nextCommit} |-> block] ELSE NoRows
=============================================================================
