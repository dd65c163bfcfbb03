------------------------- MODULE ConcurrentIndexer -------------------------
(***************************************************************************)
(* ConcurrentRangeIndexer.IndexRange (internal/indexer/concurrent_indexer   *)
(* .go): a dispatcher hands block numbers to the workers over an unbuffered *)
(* channel, the workers read blocks and push results into a channel of      *)
(* capacity workerCount, a closer closes that channel once every worker has *)
(* returned, and the calling goroutine, the coordinator, commits results in *)
(* ascending order.  One call is modelled, together with the goroutines     *)
(* that outlive it.                                                         *)
(***************************************************************************)
EXTENDS RangeStart, Sequences, FiniteSets

CONSTANT Worker   \* the worker goroutines; config.WorkerCount of them

ASSUME WorkerAssumption == IsFiniteSet(Worker) /\ Worker # {}

VARIABLES
    rangeState,           \* of the coordinator, as in RangeIndexer
    endBlock,
    nextCommit,
    expectedParentHash,
    pending,              \* pending[n]: result received and not yet committed
    orderedResults,       \* hashes of the blocks committed, in order
    ctxDone,              \* the caller's context has ended
    dispatch,             \* the block number the dispatcher offers next
    jobsClosed,           \* the dispatcher has returned
    worker,               \* each worker's pc, block number and hash read
    results,              \* the buffered results channel
    resultsClosed

callVars == <<rangeState, endBlock, nextCommit, expectedParentHash, pending,
              orderedResults>>
poolVars == <<dispatch, jobsClosed, worker, results, resultsClosed>>
vars == <<chainVars, storeVars, callVars, ctxDone, poolVars>>

Result == [number : 0..MaxHeight, hash : Hash \cup {NoHash}]

\* "dropped": returned because its context ended, with a result in hand.
WorkerState == [pc : {"receive", "header", "logs", "send", "exited", "dropped"},
                number : 0..MaxHeight, hash : Hash \cup {NoHash}]

Idle == [pc |-> "receive", number |-> 0, hash |-> NoHash]

Returned == rangeState \in {"done", "failed"}

\* Mutant of WorkerCtxDone: no defer cancel() in IndexRange.
CallerCtxDone == ctxDone

\* workerCtx: a child of the caller's context, cancelled as IndexRange returns.
WorkerCtxDone == ctxDone \/ Returned

WorkerGone(w) == worker[w].pc \in {"exited", "dropped"}

ConcurrentTypeOK ==
    /\ ChainTypeOK
    /\ StoreTypeOK
    /\ rangeState \in {"off", "running", "done", "failed"}
    /\ {endBlock, nextCommit, dispatch} \subseteq 0..MaxHeight
    /\ expectedParentHash \in Hash \cup {NoHash}
    /\ DOMAIN pending \subseteq 0..MaxHeight
    /\ \A n \in DOMAIN pending : pending[n] \in Hash \cup {NoHash}
    /\ orderedResults \in Seq(Hash)
    /\ {ctxDone, jobsClosed, resultsClosed} \subseteq BOOLEAN
    /\ worker \in [Worker -> WorkerState]
    /\ results \in Seq(Result)
    /\ Len(results) <= Cardinality(Worker)

ConcurrentInit ==
    /\ ChainInit
    /\ \/ EmptyStore
       \/ \E f \in Chains, lo, hi \in 0..MaxHeight :
             Indexable(f, lo, hi) /\ HoldsBranch(f, lo, hi)
    /\ rangeState = "off"
    /\ endBlock = 0
    /\ nextCommit = 0
    /\ expectedParentHash = NoHash
    /\ pending = NoRows
    /\ orderedResults = <<>>
    /\ ctxDone = FALSE
    /\ dispatch = 0
    /\ jobsClosed = TRUE
    /\ worker = [w \in Worker |-> [pc |-> "exited", number |-> 0, hash |-> NoHash]]
    /\ results = <<>>
    /\ resultsClosed = TRUE

-----------------------------------------------------------------------------
\* The coordinator.

\* Both channels are made and the workers, the dispatcher and the closer run.
StartGoroutines(first) ==
    /\ dispatch' = first
    /\ jobsClosed' = FALSE
    /\ worker' = [w \in Worker |-> Idle]
    /\ resultsClosed' = FALSE

\* The prologue up to the first receive.
Call(start, end) ==
    /\ rangeState = "off"
    /\ start <= end
    /\ endBlock' = end
    /\ IF AlreadyIndexed(start, end)
       THEN /\ rangeState' = "done"
            /\ UNCHANGED <<nextCommit, expectedParentHash, dispatch, jobsClosed,
                           worker, resultsClosed>>
       ELSE /\ rangeState' = "running"
            /\ nextCommit' = NextBlock(start)
            /\ expectedParentHash' = FirstExpectedParent(start)
            /\ StartGoroutines(NextBlock(start))
    /\ UNCHANGED <<chainVars, storeVars, pending, orderedResults, ctxDone, results>>

\* start > end, or persistence.Load fails: nothing is started.
Refuse ==
    /\ rangeState = "off"
    /\ rangeState' = "failed"
    /\ UNCHANGED <<chainVars, storeVars, endBlock, nextCommit, expectedParentHash,
                   pending, orderedResults, ctxDone, poolVars>>

\* nextResult, found := pending[nextCommit]
Found == rangeState = "running" /\ nextCommit \in DOMAIN pending

\* The outer loop: receive a result when the next one is not at hand.
Receive ==
    /\ rangeState = "running" /\ ~Found
    /\ results # <<>>
    /\ LET r == Head(results)
       IN  pending' = [n \in DOMAIN pending \cup {r.number} |->
                          IF n = r.number THEN r.hash ELSE pending[n]]
    /\ results' = Tail(results)
    /\ UNCHANGED <<chainVars, storeVars, rangeState, endBlock, nextCommit,
                   expectedParentHash, orderedResults, ctxDone, dispatch,
                   jobsClosed, worker, resultsClosed>>

\* Mutant of Acceptable: the coordinator does not compare the parent.
AcceptableAnyParent ==
    /\ Found
    /\ pending[nextCommit] # NoHash

Acceptable ==
    /\ Found
    /\ pending[nextCommit] # NoHash
    /\ ValidParent(pending[nextCommit], expectedParentHash)

Commit ==
    /\ Acceptable
    /\ SaveIndexedBlock(pending[nextCommit])
    /\ expectedParentHash' = pending[nextCommit]
    /\ orderedResults' = Append(orderedResults, pending[nextCommit])
    /\ pending' = [n \in DOMAIN pending \ {nextCommit} |-> pending[n]]
    /\ IF nextCommit = endBlock
       THEN rangeState' = "done" /\ UNCHANGED nextCommit
       ELSE nextCommit' = nextCommit + 1 /\ UNCHANGED rangeState
    /\ UNCHANGED <<chainVars, endBlock, ctxDone, poolVars>>

\* An error result, a wrong parent, or a hash conflict in the store.
Reject ==
    /\ Found
    /\ LET b == pending[nextCommit]
       IN  b # NoHash => \/ ~ValidParent(b, expectedParentHash)
                        \/ HashConflict(Number[b], b)
    /\ rangeState' = "failed"
    /\ UNCHANGED <<chainVars, storeVars, endBlock, nextCommit, expectedParentHash,
                   pending, orderedResults, ctxDone, poolVars>>

\* SaveIndexedBlock returns an error: rolled back, or the answer was lost.
SaveFails ==
    /\ Acceptable
    /\ \/ UNCHANGED storeVars
       \/ SaveIndexedBlock(pending[nextCommit])
    /\ rangeState' = "failed"
    /\ UNCHANGED <<chainVars, endBlock, nextCommit, expectedParentHash, pending,
                   orderedResults, ctxDone, poolVars>>

\* Mutant of ResultsExhausted: ctx.Err() is not looked at.
ExhaustedMeansDone ==
    /\ rangeState = "running" /\ ~Found
    /\ results = <<>> /\ resultsClosed
    /\ rangeState' = "done"
    /\ UNCHANGED <<chainVars, storeVars, endBlock, nextCommit, expectedParentHash,
                   pending, orderedResults, ctxDone, poolVars>>

\* The results channel is closed and drained before endBlock was committed.
ResultsExhausted ==
    /\ rangeState = "running" /\ ~Found
    /\ results = <<>> /\ resultsClosed
    /\ rangeState' = IF ctxDone THEN "failed" ELSE "done"
    /\ UNCHANGED <<chainVars, storeVars, endBlock, nextCommit, expectedParentHash,
                   pending, orderedResults, ctxDone, poolVars>>

-----------------------------------------------------------------------------
\* The goroutines.

UnchangedCall == UNCHANGED <<chainVars, storeVars, callVars, ctxDone>>

\* jobs <- blockNumber meets a worker that waits in its range loop; after
\* endBlock the dispatcher closes jobs.
Dispatch(w) ==
    /\ ~jobsClosed
    /\ worker[w].pc = "receive"
    /\ worker' = [worker EXCEPT ![w] =
                     [pc |-> "header", number |-> dispatch, hash |-> NoHash]]
    /\ IF dispatch = endBlock
       THEN jobsClosed' = TRUE /\ UNCHANGED dispatch
       ELSE dispatch' = dispatch + 1 /\ UNCHANGED jobsClosed
    /\ UNCHANGED <<results, resultsClosed>>
    /\ UnchangedCall

DispatcherCancelled ==
    /\ ~jobsClosed
    /\ WorkerCtxDone
    /\ jobsClosed' = TRUE
    /\ UNCHANGED <<dispatch, worker, results, resultsClosed>>
    /\ UnchangedCall

\* GetObservedBlockByNumber: the block, "not found", or an error.
FetchHeader(w) ==
    /\ worker[w].pc = "header"
    /\ \/ /\ HasBlock(worker[w].number)
          /\ worker' = [worker EXCEPT ![w].pc = "logs",
                                      ![w].hash = canonical[worker[w].number]]
       \/ worker' = [worker EXCEPT ![w].pc = "send"]
    /\ UNCHANGED <<dispatch, jobsClosed, results, resultsClosed>>
    /\ UnchangedCall

\* GetERC20TransfersByBlock: the logs of that very hash, or an error.
FetchLogs(w) ==
    /\ worker[w].pc = "logs"
    /\ \/ /\ LogsDecode(worker[w].hash)
          /\ worker' = [worker EXCEPT ![w].pc = "send"]
       \/ worker' = [worker EXCEPT ![w].pc = "send", ![w].hash = NoHash]
    /\ UNCHANGED <<dispatch, jobsClosed, results, resultsClosed>>
    /\ UnchangedCall

\* Mutant of SendResult: a non-blocking send, lost when the channel is full.
SendOrLose(w) ==
    /\ worker[w].pc = "send"
    /\ results' = IF Len(results) < Cardinality(Worker)
                  THEN Append(results, [number |-> worker[w].number,
                                        hash |-> worker[w].hash])
                  ELSE results
    /\ worker' = [worker EXCEPT ![w] = Idle]
    /\ UNCHANGED <<dispatch, jobsClosed, resultsClosed>>
    /\ UnchangedCall

SendResult(w) ==
    /\ worker[w].pc = "send"
    /\ Len(results) < Cardinality(Worker)
    /\ results' = Append(results, [number |-> worker[w].number, hash |-> worker[w].hash])
    /\ worker' = [worker EXCEPT ![w] = Idle]
    /\ UNCHANGED <<dispatch, jobsClosed, resultsClosed>>
    /\ UnchangedCall

\* case <-workerCtx.Done(): return
DropResult(w) ==
    /\ worker[w].pc = "send"
    /\ WorkerCtxDone
    /\ worker' = [worker EXCEPT ![w].pc = "dropped"]
    /\ UNCHANGED <<dispatch, jobsClosed, results, resultsClosed>>
    /\ UnchangedCall

\* for blockNumber := range jobs ends once jobs is closed.
WorkerExit(w) ==
    /\ worker[w].pc = "receive"
    /\ jobsClosed
    /\ worker' = [worker EXCEPT ![w].pc = "exited"]
    /\ UNCHANGED <<dispatch, jobsClosed, results, resultsClosed>>
    /\ UnchangedCall

\* Mutant of CloseResults: the channel is closed when the dispatcher is done.
CloseWithJobs ==
    /\ jobsClosed
    /\ ~resultsClosed
    /\ resultsClosed' = TRUE
    /\ UNCHANGED <<dispatch, jobsClosed, worker, results>>
    /\ UnchangedCall

\* Mutant of CloseResults: workers.Done() is not deferred, so a worker that
\* drops its result is waited for without end.
CloseAfterExits ==
    /\ \A w \in Worker : worker[w].pc = "exited"
    /\ ~resultsClosed
    /\ resultsClosed' = TRUE
    /\ UNCHANGED <<dispatch, jobsClosed, worker, results>>
    /\ UnchangedCall

\* workers.Wait(); close(results)
CloseResults ==
    /\ \A w \in Worker : WorkerGone(w)
    /\ ~resultsClosed
    /\ resultsClosed' = TRUE
    /\ UNCHANGED <<dispatch, jobsClosed, worker, results>>
    /\ UnchangedCall

-----------------------------------------------------------------------------
\* The environment.

CancelContext ==
    /\ ~ctxDone
    /\ ctxDone' = TRUE
    /\ UNCHANGED <<chainVars, storeVars, callVars, poolVars>>

MoveChain ==
    /\ ChainMove
    /\ UNCHANGED <<storeVars, callVars, ctxDone, poolVars>>

Invoke ==
    \/ \E start, end \in 0..MaxHeight : Call(start, end)
    \/ Refuse

Coordinator ==
    \/ Receive
    \/ Commit
    \/ Reject
    \/ SaveFails
    \/ ResultsExhausted

WorkerStep(w) ==
    \/ FetchHeader(w)
    \/ FetchLogs(w)
    \/ SendResult(w)
    \/ DropResult(w)
    \/ WorkerExit(w)

Dispatcher == DispatcherCancelled \/ \E w \in Worker : Dispatch(w)

-----------------------------------------------------------------------------
\* Properties.

\* The blocks read and not yet committed: in a worker's hand, in the results
\* channel, or pending.
InHand == {w \in Worker : worker[w].pc \in {"logs", "send", "dropped"}}

ReadBlocks ==
    {[number |-> worker[w].number, hash |-> worker[w].hash] : w \in InHand}
    \cup {results[i] : i \in DOMAIN results}
    \cup {[number |-> n, hash |-> pending[n]] : n \in DOMAIN pending}

Fetched ==
    [n \in {r.number : r \in ReadBlocks} |->
        (CHOOSE r \in ReadBlocks : r.number = n).hash]

\* A nil error is never returned for part of the range: the checkpoint has
\* reached endBlock, and the returned blocks are the newest stored ones in
\* ascending order.  It guards the fall-through return after the results loop.
NilMeansComplete ==
    rangeState = "done" =>
        /\ Exists(checkpoint) /\ checkpoint.Number >= endBlock
        /\ \A i \in DOMAIN orderedResults :
              LET n == endBlock - Len(orderedResults) + i
              IN  /\ n \in DOMAIN indexed_blocks
                  /\ indexed_blocks[n].block_hash = orderedResults[i]

\* Where block n is: with how many workers, in the channel, pending.
Places(n) ==
    Cardinality({w \in Worker : worker[w].number = n /\ worker[w] # Idle
                                /\ worker[w].pc # "exited"})
    + Cardinality({i \in DOMAIN results : results[i].number = n})
    + (IF n \in DOMAIN pending THEN 1 ELSE 0)

\* A send on a closed channel panics: no worker may still hold a result, or
\* receive a job, once results is closed.
NoSendAfterClose ==
    resultsClosed => \A w \in Worker : WorkerGone(w)

\* IndexRange returns, and no early return leaves a goroutine behind: however
\* coordinator, dispatcher and workers wait for each other, in the end all of
\* them have returned and the results channel is closed.
CallReturns ==
    (rangeState = "running") ~>
        (Returned /\ jobsClosed /\ resultsClosed /\ \A w \in Worker : WorkerGone(w))
=============================================================================
