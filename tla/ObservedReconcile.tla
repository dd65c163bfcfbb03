-------------------------- MODULE ObservedReconcile --------------------------
(***************************************************************************)
(* ChainWatch with an observer that sees whether a Reconcile in progress    *)
(* was disturbed, for what the call computes when it was not.  The stores    *)
(* Reconcile meets are then the ones the process itself left behind.         *)
(***************************************************************************)
EXTENDS ChainWatch

VARIABLE undisturbed   \* no fault and no change of the chain in this call

observedVars == <<vars, undisturbed>>

\* "not found" above the head is an answer of the node and no fault.
Undisturbed ==
    /\ UNCHANGED chainVars
    /\ reconcile' = "error" => reconcile = "error" \/ AboveHead

ObservedInit == Init /\ undisturbed = TRUE

ObservedNext ==
    /\ Next
    /\ undisturbed' = (phase = "reconcile" /\ phase' = "reconcile"
                         => undisturbed /\ Undisturbed)

ObservedSpec == ObservedInit /\ [][ObservedNext]_observedVars /\ WF_vars(Process)

-----------------------------------------------------------------------------

\* How an undisturbed Reconcile ends, against its definition by sets: it goes
\* to the nearest recorded common ancestor and to no other, reports a
\* reorganisation as too deep or its history as missing only if there is none
\* within the bound, and touches the store in no other case.  The last conjunct
\* is about a chain that ends below the checkpoint: the first request fails and
\* so does the call (reorg.go:87-94), unsearched, although an ancestor may be in
\* reach.  docs/PRODUCTION_REVIEW.md:93 says of a checkpoint that is no longer
\* canonical "Startup searches recorded history, atomically rolls back to the
\* common ancestor, then replays"; of such a chain that is not true.
ReconcileOutcome ==
    undisturbed =>
    /\ reconcile = "verified" =>
          /\ checkpoint = previous /\ CanonicalAt(previous.Number, previous.Hash)
          /\ previous.Number \in DOMAIN indexed_blocks
    /\ reconcile = "rollback" =>
          /\ ~CanonicalAt(previous.Number, previous.Hash)
          /\ candidate.Number \in CommonAncestors
          /\ \A n \in CommonAncestors : n <= candidate.Number
    /\ reconcile = "rolledBack" =>
          /\ checkpoint = candidate
          /\ previous.Number - checkpoint.Number \in 1..MaxReorgDepth
          /\ \A n \in DOMAIN indexed_blocks : n <= checkpoint.Number
    /\ reconcile \in ReconcileFailed => checkpoint = previous
    /\ reconcile = "tooDeep" =>
          /\ CommonAncestors = {}
          /\ \A n \in 0..(previous.Number - 1) :
                previous.Number - n <= MaxReorgDepth => n \in DOMAIN indexed_blocks
    /\ reconcile = "historyUnavailable" =>
          /\ CommonAncestors = {}
          /\ \E n \in 0..(previous.Number - 1) :
                previous.Number - n <= MaxReorgDepth /\ n \notin DOMAIN indexed_blocks
    /\ reconcile = "error" => ~HasBlock(previous.Number)
=============================================================================
