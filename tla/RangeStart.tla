----------------------------- MODULE RangeStart -----------------------------
(***************************************************************************)
(* What the two implementations of indexer.RangeIndexer share: where        *)
(* IndexRange(startBlock, endBlock) resumes, and the parent check every     *)
(* block passes before it is persisted (validateParentHash in reorg.go).    *)
(***************************************************************************)
EXTENDS EthereumChain, BlockStore

\* exists && checkpoint.Number >= startBlock
Resumes(start) == Exists(checkpoint) /\ checkpoint.Number >= start

\* The range was indexed before: IndexRange returns an empty result.
AlreadyIndexed(start, end) == Resumes(start) /\ checkpoint.Number >= end

\* Mutant of NextBlock: every call starts over at startBlock.
AlwaysStart(start) == start

NextBlock(start) == IF Resumes(start) THEN checkpoint.Number + 1 ELSE start

\* The parent the first block must have; "" when no block is stored below it.
FirstExpectedParent(start) ==
    IF Exists(checkpoint) /\ checkpoint.Number + 1 = NextBlock(start)
    THEN checkpoint.Hash
    ELSE NoHash

\* Mutant of ValidParent: the parent is not compared.
AnyParent(b, expected) == TRUE

\* validateParentHash(block, parent, expected) == nil
ValidParent(b, expected) ==
    \/ ParentHash[b] = NoHash
    \/ expected = NoHash
    \/ ParentHash[b] = expected
=============================================================================
