---------------------------- MODULE RangeIndexers ----------------------------
(***************************************************************************)
(* indexer.RangeIndexer and its two implementations: a caller is given the  *)
(* concurrent or the sequential indexer and must not be able to tell which. *)
(***************************************************************************)
EXTENDS ConcurrentIndexer

VARIABLES
    implementation,   \* the indexer this caller was given
    pc, block         \* of the sequential indexer

Sequential == INSTANCE SequentialIndexer

indexersVars == <<vars, implementation, pc, block>>

\* Nothing else runs before the call.
IndexersInit ==
    /\ ConcurrentInit
    /\ Sequential!SequentialInit
    /\ implementation \in {"concurrent", "sequential"}

SequentialUnused == UNCHANGED <<implementation, pc, block>>
ConcurrentUnused == UNCHANGED <<implementation, pending, orderedResults, ctxDone, poolVars>>

ConcurrentStep ==
    /\ implementation = "concurrent"
    /\ \/ Invoke
       \/ Coordinator
       \/ Dispatcher
       \/ \E w \in Worker : WorkerStep(w)
       \/ CloseResults
       \/ CancelContext
    /\ SequentialUnused

SequentialStep ==
    /\ implementation = "sequential"
    /\ Sequential!Invoke \/ Sequential!Step
    /\ UNCHANGED chainVars
    /\ ConcurrentUnused

IndexersNext ==
    \/ ConcurrentStep
    \/ SequentialStep
    \/ MoveChain /\ SequentialUnused

\* The Go scheduler runs every goroutine that can run, and a request or a
\* statement comes back, if only with an error.
Fairness ==
    /\ WF_indexersVars(implementation = "concurrent" /\ Coordinator /\ SequentialUnused)
    /\ WF_indexersVars(implementation = "concurrent" /\ Dispatcher /\ SequentialUnused)
    /\ \A w \in Worker :
          WF_indexersVars(implementation = "concurrent" /\ WorkerStep(w) /\ SequentialUnused)
    /\ WF_indexersVars(implementation = "concurrent" /\ CloseResults /\ SequentialUnused)
    /\ WF_indexersVars(/\ implementation = "sequential"
                       /\ Sequential!Step
                       /\ UNCHANGED chainVars
                       /\ ConcurrentUnused)

IndexersSpec == IndexersInit /\ [][IndexersNext]_indexersVars /\ Fairness

-----------------------------------------------------------------------------
Contract == INSTANCE RangeIndexer WITH
               fetched <- IF rangeState # "running" THEN NoRows
                          ELSE IF implementation = "concurrent" THEN Fetched
                          ELSE Sequential!SequentialFetched

\* However workers, dispatcher and coordinator interleave, however the chain
\* moves and whenever the context ends, one call of either IndexRange only does
\* what the RangeIndexer specification allows: blocks are committed in
\* ascending order without gaps, each on top of the one before, nothing is
\* committed after a failed block, and a nil error means the whole range.
ImplementsRangeIndexer == Contract!RangeSpec

\* No block of a concurrent range is given to two workers or lost between the
\* channels while the call runs: every number below the dispatcher's and not
\* yet committed is at exactly one place.
EachBlockInOnePlace ==
    implementation = "concurrent" /\ rangeState = "running" =>
        \A n \in nextCommit..endBlock :
            /\ Places(n) <= 1
            /\ n < dispatch \/ (jobsClosed /\ ~ctxDone) => Places(n) = 1
=============================================================================
