---------------------------- MODULE ReorgManager ----------------------------
(***************************************************************************)
(* ReorgManager.Reconcile (internal/indexer/reorg.go): before indexing, the *)
(* saved checkpoint is compared with the canonical chain and, on a          *)
(* mismatch, the store is rolled back to the nearest recorded ancestor that *)
(* is still canonical, at most MaxReorgDepth blocks down.                   *)
(*                                                                          *)
(* Every RPC request and every database statement is a step of its own, so  *)
(* the chain may move between any two of them; any step may fail, and a     *)
(* write may fail after PostgreSQL applied it (the answer was lost).        *)
(***************************************************************************)
EXTENDS EthereumChain, BlockStore

CONSTANT MaxReorgDepth   \* config.MaxReorgDepth, validated to be positive

ASSUME MaxReorgDepthAssumption == MaxReorgDepth \in Nat \ {0}

VARIABLES
    reconcile,   \* where the call is, or how it ended
    previous,    \* the checkpoint loaded at the start of the call
    candidate    \* the checkpoint compared last; its number is "height"

reorgVars == <<reconcile, previous, candidate>>

Reconciling == {"load", "verify", "ensure", "search", "rollback"}

\* Reconcile returned a result: no checkpoint, checkpoint verified, rolled back.
ReconcileOk == {"absent", "verified", "rolledBack"}

ReconcileFailed == {"tooDeep", "historyUnavailable", "error"}

ReorgTypeOK ==
    /\ reconcile \in {"off"} \cup Reconciling \cup ReconcileOk \cup ReconcileFailed
    /\ previous \in Checkpoints \cup {NoCheckpoint}
    /\ candidate \in Checkpoints \cup {NoCheckpoint}

ReorgOff ==
    /\ reconcile = "off"
    /\ previous = NoCheckpoint
    /\ candidate = NoCheckpoint

BeginReconcile ==
    /\ reconcile = "off"
    /\ reconcile' = "load"
    /\ UNCHANGED <<previous, candidate>>

\* store.Load
LoadCheckpoint ==
    /\ reconcile = "load"
    /\ previous' = checkpoint
    /\ candidate' = checkpoint
    /\ reconcile' = IF Exists(checkpoint) THEN "verify" ELSE "absent"
    /\ UNCHANGED storeVars

\* Mutants of AnotherDepth: the bound is off by one, either way.
OneDepthLess(height) ==
    /\ previous.Number - height + 1 < MaxReorgDepth
    /\ height > 0

OneDepthMore(height) ==
    /\ previous.Number - height <= MaxReorgDepth
    /\ height > 0

\* The loop test: depth <= maxDepth && height > 0, evaluated before the
\* height is decremented.
AnotherDepth(height) ==
    /\ previous.Number - height + 1 <= MaxReorgDepth
    /\ height > 0

\* GetObservedBlockByNumber(checkpoint.Number)
VerifyCheckpoint ==
    /\ reconcile = "verify"
    /\ HasBlock(candidate.Number)
    /\ reconcile' = IF canonical[candidate.Number] = candidate.Hash THEN "ensure"
                    ELSE IF AnotherDepth(candidate.Number) THEN "search"
                    ELSE "tooDeep"
    /\ UNCHANGED <<previous, candidate>>
    /\ UNCHANGED storeVars

RecordCheckpoint ==
    /\ reconcile = "ensure"
    /\ EnsureIndexedBlock(candidate)
    /\ reconcile' = "verified"
    /\ UNCHANGED <<previous, candidate>>

\* One iteration of the search: the stored hash one block down, missing.
HistoryMissing ==
    /\ reconcile = "search"
    /\ candidate.Number - 1 \notin DOMAIN indexed_blocks
    /\ reconcile' = "historyUnavailable"
    /\ UNCHANGED <<previous, candidate>>
    /\ UNCHANGED storeVars

\* One iteration of the search: the stored hash one block down against the
\* canonical block there.  Only this process writes the store, so reading it
\* and asking the node are one step.
SearchAncestor ==
    LET height == candidate.Number - 1
        storedHash == indexed_blocks[height].block_hash
    IN  /\ reconcile = "search"
        /\ height \in DOMAIN indexed_blocks
        /\ HasBlock(height)
        /\ candidate' = [Number |-> height, Hash |-> storedHash]
        /\ reconcile' = IF canonical[height] = storedHash THEN "rollback"
                        ELSE IF AnotherDepth(height) THEN "search"
                        ELSE "tooDeep"
        /\ UNCHANGED previous
        /\ UNCHANGED storeVars

RollBack ==
    /\ reconcile = "rollback"
    /\ RollbackTo(candidate)
    /\ reconcile' = "rolledBack"
    /\ UNCHANGED <<previous, candidate>>

\* A request fails (the retries of the RPC client included), a statement
\* fails, recordIndexedBlock reports a hash conflict, or the context ends.
ReconcileError ==
    /\ reconcile \in Reconciling
    /\ reconcile' = "error"
    /\ UNCHANGED <<previous, candidate>>
    /\ UNCHANGED storeVars

\* PostgreSQL committed the statement but the answer never came back.
ReconcileAnswerLost ==
    /\ \/ reconcile = "ensure" /\ EnsureIndexedBlock(candidate)
       \/ reconcile = "rollback" /\ RollbackTo(candidate)
    /\ reconcile' = "error"
    /\ UNCHANGED <<previous, candidate>>

\* GetObservedBlockByNumber of a height above the head: "not found" is an
\* error as well, whatever the health of the node.
AboveHead ==
    \/ reconcile = "verify" /\ ~HasBlock(candidate.Number)
    \/ /\ reconcile = "search"
       /\ candidate.Number - 1 \in DOMAIN indexed_blocks
       /\ ~HasBlock(candidate.Number - 1)

BlockNotFound ==
    /\ AboveHead
    /\ reconcile' = "error"
    /\ UNCHANGED <<previous, candidate>>
    /\ UNCHANGED storeVars

ReconcileStep ==
    \/ LoadCheckpoint
    \/ VerifyCheckpoint
    \/ RecordCheckpoint
    \/ HistoryMissing
    \/ SearchAncestor
    \/ RollBack
    \/ BlockNotFound

ReconcileFault ==
    \/ ReconcileError
    \/ ReconcileAnswerLost

-----------------------------------------------------------------------------
\* What Reconcile computes.

CanonicalAt(n, h) == HasBlock(n) /\ canonical[n] = h

\* The recorded blocks a rollback may go to: canonical, below the checkpoint,
\* and at most MaxReorgDepth below.
CommonAncestors ==
    {n \in DOMAIN indexed_blocks :
        /\ previous.Number - n \in 1..MaxReorgDepth
        /\ CanonicalAt(n, indexed_blocks[n].block_hash)}
=============================================================================
