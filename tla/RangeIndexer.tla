---------------------------- MODULE RangeIndexer ----------------------------
(***************************************************************************)
(* What indexer.RangeIndexer promises (internal/indexer): IndexRange reads  *)
(* the blocks of a range in any order and at any time, and commits them one *)
(* by one in ascending order, each only on top of the block before it; the  *)
(* first block that cannot be read or does not fit ends the call.  The      *)
(* sequential and the concurrent indexer are shown to implement this module, *)
(* and ChainWatch is composed with it.                                      *)
(***************************************************************************)
EXTENDS RangeStart

VARIABLES
    rangeState,           \* "off", "running", "done" (nil error) or "failed"
    endBlock,             \* last block of the range
    nextCommit,           \* the block to be committed next
    expectedParentHash,   \* hash of the block committed last, or ""
    fetched               \* n -> hash read for block n, NoHash if that failed

rangeVars == <<rangeState, endBlock, nextCommit, expectedParentHash, fetched>>

RangeTypeOK ==
    /\ rangeState \in {"off", "running", "done", "failed"}
    /\ endBlock \in 0..MaxHeight
    /\ nextCommit \in 0..MaxHeight
    /\ expectedParentHash \in Hash \cup {NoHash}
    /\ DOMAIN fetched \subseteq 0..MaxHeight
    /\ \A n \in DOMAIN fetched : fetched[n] \in Hash \cup {NoHash}

RangeOff ==
    /\ rangeState = "off"
    /\ endBlock = 0
    /\ nextCommit = 0
    /\ expectedParentHash = NoHash
    /\ fetched = NoRows

Put(f, n, h) == [m \in DOMAIN f \cup {n} |-> IF m = n THEN h ELSE f[m]]

Without(f, n) == [m \in DOMAIN f \ {n} |-> f[m]]

ReturnRange(outcome) ==
    /\ rangeState' = outcome
    /\ fetched' = NoRows

\* The prologue, with one read of the store.
IndexRange(start, end) ==
    /\ rangeState = "off"
    /\ start <= end
    /\ endBlock' = end
    /\ IF AlreadyIndexed(start, end)
       THEN /\ rangeState' = "done"
            /\ UNCHANGED <<nextCommit, expectedParentHash>>
       ELSE /\ rangeState' = "running"
            /\ nextCommit' = NextBlock(start)
            /\ expectedParentHash' = FirstExpectedParent(start)
    /\ UNCHANGED fetched
    /\ UNCHANGED storeVars

\* The header of block n, and with it the identity of its logs, is read.
Fetch(n) ==
    /\ rangeState = "running"
    /\ n \in nextCommit..endBlock
    /\ n \notin DOMAIN fetched
    /\ fetched' = Put(fetched, n, IF HasBlock(n) THEN canonical[n] ELSE NoHash)
    /\ UNCHANGED <<rangeState, endBlock, nextCommit, expectedParentHash>>
    /\ UNCHANGED storeVars

\* Reading the header or the logs of block n fails for good.
FetchError(n) ==
    /\ rangeState = "running"
    /\ n \in nextCommit..endBlock
    /\ fetched' = Put(fetched, n, NoHash)
    /\ UNCHANGED <<rangeState, endBlock, nextCommit, expectedParentHash>>
    /\ UNCHANGED storeVars

\* Mutant of ReadyToCommit: a log that cannot be decoded is skipped.
ReadyWithoutDecoding ==
    /\ rangeState = "running"
    /\ nextCommit \in DOMAIN fetched
    /\ fetched[nextCommit] # NoHash
    /\ ValidParent(fetched[nextCommit], expectedParentHash)

ReadyToCommit ==
    /\ rangeState = "running"
    /\ nextCommit \in DOMAIN fetched
    /\ fetched[nextCommit] # NoHash
    /\ LogsDecode(fetched[nextCommit])
    /\ ValidParent(fetched[nextCommit], expectedParentHash)

\* Mutant of CommitNext: the expected parent is not moved on.
CommitKeepsParent ==
    /\ ReadyToCommit
    /\ SaveIndexedBlock(fetched[nextCommit])
    /\ IF nextCommit = endBlock
       THEN /\ ReturnRange("done")
            /\ UNCHANGED nextCommit
       ELSE /\ nextCommit' = nextCommit + 1
            /\ fetched' = Without(fetched, nextCommit)
            /\ UNCHANGED rangeState
    /\ UNCHANGED <<endBlock, expectedParentHash>>

CommitNext ==
    /\ ReadyToCommit
    /\ SaveIndexedBlock(fetched[nextCommit])
    /\ expectedParentHash' = fetched[nextCommit]
    /\ IF nextCommit = endBlock
       THEN /\ ReturnRange("done")
            /\ UNCHANGED nextCommit
       ELSE /\ nextCommit' = nextCommit + 1
            /\ fetched' = Without(fetched, nextCommit)
            /\ UNCHANGED rangeState
    /\ UNCHANGED endBlock

\* The next block could not be read or decoded, has the wrong parent, or its height is
\* recorded with another hash.
RejectNext ==
    /\ rangeState = "running"
    /\ nextCommit \in DOMAIN fetched
    /\ LET b == fetched[nextCommit]
       IN  b # NoHash => \/ ~LogsDecode(b)
                        \/ ~ValidParent(b, expectedParentHash)
                        \/ HashConflict(Number[b], b)
    /\ ReturnRange("failed")
    /\ UNCHANGED <<endBlock, nextCommit, expectedParentHash>>
    /\ UNCHANGED storeVars

\* A statement of the store fails and changes nothing, or the context ends.
RangeError ==
    /\ rangeState = "running"
    /\ ReturnRange("failed")
    /\ UNCHANGED <<endBlock, nextCommit, expectedParentHash>>
    /\ UNCHANGED storeVars

\* Loading the checkpoint fails, or the range is empty (start > end).
RangeRefused ==
    /\ rangeState = "off"
    /\ rangeState' = "failed"
    /\ UNCHANGED <<endBlock, nextCommit, expectedParentHash, fetched>>
    /\ UNCHANGED storeVars

\* PostgreSQL committed the block but the answer to COMMIT was lost.
SaveAnswerLost ==
    /\ ReadyToCommit
    /\ SaveIndexedBlock(fetched[nextCommit])
    /\ ReturnRange("failed")
    /\ UNCHANGED <<endBlock, nextCommit, expectedParentHash>>

RangeStep ==
    \/ \E n \in 0..MaxHeight : Fetch(n)
    \/ CommitNext
    \/ RejectNext

RangeFault ==
    \/ \E n \in 0..MaxHeight : FetchError(n)
    \/ RangeError
    \/ SaveAnswerLost

RangeInit ==
    /\ ChainInit
    /\ \/ EmptyStore
       \/ \E f \in Chains, lo, hi \in 0..MaxHeight :
             Indexable(f, lo, hi) /\ HoldsBranch(f, lo, hi)
    /\ RangeOff

RangeNext ==
    \/ ChainMove /\ UNCHANGED storeVars /\ UNCHANGED rangeVars
    \/ /\ \/ \E start, end \in 0..MaxHeight : IndexRange(start, end)
          \/ RangeRefused
          \/ RangeStep
          \/ RangeFault
       /\ UNCHANGED chainVars

RangeSpec == RangeInit /\ [][RangeNext]_<<chainVars, storeVars, rangeVars>>
=============================================================================
