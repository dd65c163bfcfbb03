------------------------ MODULE RangeIndexersProofs ------------------------
(***************************************************************************)
(* Both implementations of indexer.RangeIndexer, for any number of workers,  *)
(* any range, any chain and any interleaving: no block is lost or read       *)
(* twice between dispatcher, workers and coordinator, nothing is sent on a   *)
(* closed channel, and a nil error means the whole range.                    *)
(***************************************************************************)
EXTENDS RangeIndexers, FiniteSetTheorems, TLAPS

Concurrent == implementation = "concurrent"
Running == Concurrent /\ rangeState = "running"

\* Worker w has a block number and has not handed its result on.
Busy(w) == worker[w].pc \in {"header", "logs", "send", "dropped"}

Located(n) ==
    \/ \E w \in Worker : Busy(w) /\ worker[w].number = n
    \/ \E i \in 1..Len(results) : results[i].number = n
    \/ n \in DOMAIN pending

\* What was read for height n is a block of that height.
AtHeight(n, h) == h # NoHash => Number[h] = n

\* ... and its logs were decoded.
Complete(n, h) == h # NoHash => Number[h] = n /\ LogsDecode(h)

-----------------------------------------------------------------------------
\* The inductive invariant.

CallTypes ==
    /\ ChainTypeOK
    /\ MaxHeight \in Nat
    /\ checkpoint.Number \in 0..MaxHeight
    /\ implementation \in {"concurrent", "sequential"}
    /\ rangeState \in {"off", "running", "done", "failed"}
    /\ endBlock \in 0..MaxHeight
    /\ nextCommit \in 0..MaxHeight
    /\ rangeState = "running" => nextCommit <= endBlock

PoolTypes ==
    /\ dispatch \in 0..MaxHeight
    /\ DOMAIN pending \subseteq 0..MaxHeight
    /\ \A n \in DOMAIN pending : pending[n] \in Hash \cup {NoHash}
    /\ orderedResults \in Seq(Hash)
    /\ worker \in [Worker -> WorkerState]
    /\ \A w \in Worker : worker[w].pc = "receive" => worker[w] = Idle
    /\ results \in Seq(Result)

\* Nothing of the pool runs before the call, or for the sequential indexer.
PoolAtRest ==
    rangeState = "off" \/ ~Concurrent =>
        /\ DOMAIN pending = {}
        /\ results = <<>>
        /\ orderedResults = <<>>
        /\ jobsClosed /\ resultsClosed
        /\ \A w \in Worker : worker[w].pc = "exited"

\* What is in a worker's hand, in the channel or pending was read at its height.
ReadInv ==
    /\ \A w \in Worker :
          /\ worker[w].pc = "header" => worker[w].hash = NoHash
          /\ worker[w].pc = "logs" =>
                worker[w].hash \in Hash /\ AtHeight(worker[w].number, worker[w].hash)
          /\ worker[w].pc \in {"send", "dropped"} => Complete(worker[w].number, worker[w].hash)
    /\ \A i \in 1..Len(results) : Complete(results[i].number, results[i].hash)
    /\ \A n \in DOMAIN pending : Complete(n, pending[n])

\* No block is at two places.
OnePlace ==
    /\ \A w, v \in Worker :
          Busy(w) /\ Busy(v) /\ worker[w].number = worker[v].number => w = v
    /\ \A i, j \in 1..Len(results) : results[i].number = results[j].number => i = j
    /\ \A w \in Worker, i \in 1..Len(results) : Busy(w) => worker[w].number # results[i].number
    /\ \A w \in Worker : Busy(w) => worker[w].number \notin DOMAIN pending
    /\ \A i \in 1..Len(results) : results[i].number \notin DOMAIN pending

\* The dispatcher went past n: n is behind it, or the last block and given out.
Dispatched(n) == n < dispatch \/ (jobsClosed /\ n = dispatch /\ dispatch = endBlock)

\* Only dispatched blocks are somewhere, also after the call has returned;
\* while it runs, what was dispatched and not committed is.
DispatchInv ==
    /\ ~jobsClosed => dispatch <= endBlock
    /\ \A n \in 0..MaxHeight : Located(n) => Dispatched(n)
    /\ Running =>
          /\ nextCommit <= dispatch /\ dispatch <= endBlock
          /\ \A n \in 0..MaxHeight : Located(n) => n \in nextCommit..endBlock
          /\ \A n \in nextCommit..endBlock : n < dispatch \/ (jobsClosed /\ ~ctxDone) => Located(n)

\* While the context lives a worker returns only when jobs is closed.
ExitInv ==
    Running /\ ~ctxDone =>
        \A w \in Worker : /\ worker[w].pc # "dropped"
                          /\ worker[w].pc = "exited" => jobsClosed

\* The blocks committed so far are the newest ones of the store.
CommittedUpTo(n) ==
    \A i \in 1..Len(orderedResults) :
        /\ n - Len(orderedResults) + i \in DOMAIN indexed_blocks
        /\ indexed_blocks[n - Len(orderedResults) + i].block_hash = orderedResults[i]

ResultInv ==
    /\ rangeState = "running" => CommittedUpTo(nextCommit - 1)
    /\ rangeState = "done" => /\ Exists(checkpoint) /\ checkpoint.Number >= endBlock
                              /\ CommittedUpTo(endBlock)

\* The sequential indexer's block is the one of its loop variable.
SequentialInv ==
    ~Concurrent =>
        /\ pc \in {"header", "logs", "save"}
        /\ block \in Hash \cup {NoHash}
        /\ rangeState = "off" => pc = "header" /\ block = NoHash
        /\ rangeState = "running" =>
              /\ block = NoHash <=> pc = "header"
              /\ AtHeight(nextCommit, block)
              /\ pc = "save" => LogsDecode(block)

IndexersInv ==
    /\ CallTypes
    /\ PoolTypes
    /\ PoolAtRest
    /\ ReadInv
    /\ OnePlace
    /\ DispatchInv
    /\ ExitInv
    /\ NoSendAfterClose
    /\ ResultInv
    /\ SequentialInv

-----------------------------------------------------------------------------
\* A chain that can become canonical is a branch from block 0 to its head.
LEMMA ChainIsBranch ==
    ASSUME NEW f \in Chains, NEW h \in 0..MaxHeight, DOMAIN f = 0..h
    PROVE  IsBranch(f, 0, h)
<1>1. PICK top \in 0..MaxHeight : IsBranch(f, 0, top)
  BY ChainsAssumption
<1>2. 0..h = 0..top
  BY <1>1 DEF IsBranch
<1>3. h = top
  BY <1>2, HeightAssumption
<1> QED
  BY <1>1, <1>3

\* The canonical block at a height that exists has that height.
LEMMA CanonicalBlock ==
    ASSUME ChainTypeOK, NEW n \in 0..MaxHeight, HasBlock(n)
    PROVE  canonical[n] \in Hash /\ canonical[n] # NoHash /\ Number[canonical[n]] = n
<1>1. n \in 0..head
  BY HeightAssumption DEF ChainTypeOK, HasBlock
<1> QED
  BY <1>1, HashAssumption DEF ChainTypeOK, IsBranch

\* Saving a block moves the checkpoint to it and records it, and nothing else.
LEMMA SaveFacts ==
    ASSUME NEW b \in Hash, SaveIndexedBlock(b)
    PROVE  /\ checkpoint' = [Number |-> Number[b], Hash |-> b]
           /\ Number[b] \in 0..MaxHeight
           /\ Exists(checkpoint)'
           /\ DOMAIN indexed_blocks' = DOMAIN indexed_blocks \cup {Number[b]}
           /\ indexed_blocks'[Number[b]].block_hash = b
           /\ \A n \in DOMAIN indexed_blocks :
                 n # Number[b] => indexed_blocks'[n] = indexed_blocks[n]
<1>1. checkpoint' = [Number |-> Number[b], Hash |-> b] /\ Number[b] \in 0..MaxHeight
  BY NumberAssumption DEF SaveIndexedBlock
<1> QED
  BY <1>1, HashAssumption DEF SaveIndexedBlock, RecordIndexedBlock, Exists

\* No call has been made: everything is at rest.
LEMMA InitIndexers == IndexersInit => IndexersInv
<1> SUFFICES ASSUME IndexersInit PROVE IndexersInv
  OBVIOUS
<1> USE DEF IndexersInit, ConcurrentInit, Sequential!SequentialInit
<1>1. ChainTypeOK
  BY ChainIsBranch DEF ChainInit, ChainTypeOK
<1>2. checkpoint.Number \in 0..MaxHeight
  BY HeightAssumption DEF EmptyStore, NoCheckpoint, HoldsBranch
<1>3. CallTypes
  BY <1>1, <1>2, HeightAssumption DEF CallTypes
<1>4. DOMAIN pending = {} /\ 1..Len(results) = {} /\ 1..Len(orderedResults) = {}
  BY DEF NoRows
<1>5. <<>> \in Seq(Hash) /\ <<>> \in Seq(Result)
  OBVIOUS
<1>6. \A w \in Worker : worker[w].pc = "exited" /\ worker[w] \in WorkerState
  BY HeightAssumption DEF WorkerState
<1>7. PoolTypes
  BY <1>4, <1>5, <1>6, HeightAssumption DEF PoolTypes
<1>8. PoolAtRest
  BY <1>4, <1>6 DEF PoolAtRest
<1>9. ReadInv /\ OnePlace
  BY <1>4, <1>6 DEF ReadInv, OnePlace, Busy
<1>10. DispatchInv /\ ExitInv /\ ResultInv
  BY <1>4, <1>6 DEF DispatchInv, ExitInv, ResultInv, Running, Located, Busy
<1>11. NoSendAfterClose
  BY <1>6 DEF NoSendAfterClose, WorkerGone
<1>12. SequentialInv
  BY DEF SequentialInv
<1> QED
  BY <1>3, <1>7, <1>8, <1>9, <1>10, <1>11, <1>12 DEF IndexersInv

\* IndexRange begins: where it resumes lies in the range.
LEMMA ResumePoint ==
    ASSUME CallTypes, NEW start \in 0..MaxHeight, NEW end \in 0..MaxHeight, start <= end
    PROVE  /\ AlreadyIndexed(start, end) => Exists(checkpoint) /\ checkpoint.Number >= end
           /\ ~AlreadyIndexed(start, end) =>
                 NextBlock(start) \in 0..MaxHeight /\ NextBlock(start) <= end
  BY DEF CallTypes, AlreadyIndexed, NextBlock, Resumes

\* The concurrent call: the goroutines start with nothing in hand.
LEMMA CallKeeps ==
    ASSUME IndexersInv, Concurrent, SequentialUnused,
           NEW start \in 0..MaxHeight, NEW end \in 0..MaxHeight, Call(start, end)
    PROVE  IndexersInv'
<1> USE DEF IndexersInv
<1>1. /\ rangeState = "off" /\ start <= end /\ endBlock' = end /\ Concurrent'
      /\ UNCHANGED <<head, canonical, checkpoint, indexed_blocks, pending, orderedResults, ctxDone, results>>
  BY DEF Call, chainVars, storeVars, SequentialUnused, Concurrent
<1>2. /\ DOMAIN pending = {} /\ results = <<>> /\ orderedResults = <<>>
      /\ 1..Len(results) = {} /\ 1..Len(orderedResults) = {}
      /\ \A w \in Worker : worker[w].pc = "exited"
  BY <1>1 DEF PoolAtRest
<1>3. CASE AlreadyIndexed(start, end)
  <2>1. /\ rangeState' = "done"
        /\ UNCHANGED <<nextCommit, expectedParentHash, dispatch, jobsClosed, worker, resultsClosed>>
    BY <1>3 DEF Call
  <2>2. CallTypes' /\ PoolTypes'
    BY <1>1, <2>1 DEF CallTypes, PoolTypes, ChainTypeOK, SequentialUnused
  <2>3. PoolAtRest' /\ ExitInv' /\ SequentialInv'
    BY <1>1, <2>1 DEF PoolAtRest, ExitInv, SequentialInv, Running
  <2>4. ReadInv' /\ OnePlace' /\ NoSendAfterClose'
    BY <1>1, <1>2, <2>1 DEF ReadInv, OnePlace, NoSendAfterClose, Busy, WorkerGone
  <2>5. ResultInv'
    BY <1>1, <1>2, <1>3, <2>1, ResumePoint DEF ResultInv, CommittedUpTo, Exists
  <2>6. DispatchInv'
    <3>1. \A n : ~Located(n)'
      BY <1>1, <1>2, <2>1 DEF Located, Busy
    <3> QED
      BY <1>1, <2>1, <3>1 DEF DispatchInv, Running, PoolAtRest
  <2> QED
    BY <2>2, <2>3, <2>4, <2>5, <2>6
<1>4. CASE ~AlreadyIndexed(start, end)
  <2> DEFINE first == NextBlock(start)
  <2>1. /\ rangeState' = "running" /\ nextCommit' = first /\ dispatch' = first
        /\ ~jobsClosed' /\ ~resultsClosed' /\ worker' = [w \in Worker |-> Idle]
        /\ first \in 0..MaxHeight /\ first <= end
    BY <1>1, <1>4, ResumePoint DEF Call, StartGoroutines
  <2>2. \A w \in Worker : worker'[w] = Idle /\ worker'[w].pc = "receive"
    BY <2>1 DEF Idle
  <2>3. Idle \in WorkerState
    BY HeightAssumption DEF Idle, WorkerState
  <2>4. CallTypes' /\ PoolTypes'
    BY <1>1, <2>1, <2>2, <2>3 DEF CallTypes, PoolTypes, ChainTypeOK, Concurrent
  <2>5. PoolAtRest' /\ SequentialInv'
    BY <1>1, <2>1 DEF PoolAtRest, SequentialInv
  <2>6. ReadInv' /\ OnePlace' /\ NoSendAfterClose' /\ ExitInv'
    BY <1>1, <1>2, <2>1, <2>2 DEF ReadInv, OnePlace, NoSendAfterClose, ExitInv, Busy
  <2>7. \A n : ~Located(n)'
    BY <1>1, <1>2, <2>2 DEF Located, Busy
  <2>8. DispatchInv'
    BY <1>1, <2>1, <2>7 DEF DispatchInv, Running
  <2>9. ResultInv'
    BY <1>1, <1>2, <2>1 DEF ResultInv, CommittedUpTo
  <2> QED
    BY <2>4, <2>5, <2>6, <2>8, <2>9
<1> QED
  BY <1>3, <1>4

\* Receiving from a channel that holds something takes its first element.
LEMMA ChannelReceive ==
    ASSUME NEW S, NEW q \in Seq(S), q # <<>>
    PROVE  /\ Len(q) \in Nat /\ Len(q) >= 1 /\ Head(q) = q[1] /\ Head(q) \in S
           /\ Tail(q) \in Seq(S) /\ Len(Tail(q)) = Len(q) - 1
           /\ \A i \in 1..Len(Tail(q)) : i + 1 \in 1..Len(q) /\ Tail(q)[i] = q[i + 1]
  OBVIOUS

\* The coordinator takes the oldest result from the channel: it only changes
\* its place.
LEMMA ReceiveKeeps ==
    ASSUME IndexersInv, Concurrent, SequentialUnused, Receive
    PROVE  IndexersInv'
<1> USE DEF IndexersInv
<1> DEFINE r == Head(results)
<1>1. /\ rangeState = "running" /\ nextCommit \notin DOMAIN pending /\ Concurrent'
      /\ results # <<>> /\ results' = Tail(results)
      /\ DOMAIN pending' = DOMAIN pending \cup {r.number}
      /\ pending'[r.number] = r.hash
      /\ \A n \in DOMAIN pending : n # r.number => pending'[n] = pending[n]
      /\ UNCHANGED <<head, canonical, checkpoint, indexed_blocks, rangeState, endBlock, nextCommit,
                     orderedResults, ctxDone, dispatch, jobsClosed, worker, resultsClosed>>
  BY DEF Receive, Found, chainVars, storeVars, SequentialUnused, Concurrent
<1>2. results \in Seq(Result)
  BY DEF PoolTypes
<1>3. /\ Len(results) \in Nat /\ Len(results) >= 1 /\ r = results[1] /\ r \in Result
      /\ Tail(results) \in Seq(Result) /\ Len(Tail(results)) = Len(results) - 1
      /\ \A i \in 1..Len(Tail(results)) : i + 1 \in 1..Len(results) /\ Tail(results)[i] = results[i + 1]
  BY <1>1, <1>2, ChannelReceive
<1>4. \A i \in 1..Len(results) : i = 1 \/ (i - 1 \in 1..Len(results') /\ results'[i - 1] = results[i])
  BY <1>1, <1>3
<1>5. r.number \in 0..MaxHeight /\ r.hash \in Hash \cup {NoHash}
  BY <1>3 DEF Result
<1>6. CallTypes' /\ PoolTypes'
  BY <1>1, <1>3, <1>5 DEF CallTypes, PoolTypes, ChainTypeOK, SequentialUnused
<1>7. PoolAtRest' /\ SequentialInv' /\ ExitInv' /\ NoSendAfterClose' /\ ResultInv'
  BY <1>1 DEF PoolAtRest, SequentialInv, ExitInv, NoSendAfterClose, WorkerGone, ResultInv,
              CommittedUpTo, Running, Exists
<1>8. ReadInv'
  BY <1>1, <1>3 DEF ReadInv, Complete, AtHeight
<1>9. OnePlace'
  BY <1>1, <1>3 DEF OnePlace, Busy
<1>10. ASSUME NEW n PROVE Located(n)' <=> Located(n)
  <2>1. (\E i \in 1..Len(results) : results[i].number = n) <=>
            n = r.number \/ \E i \in 1..Len(results') : results'[i].number = n
    <3>1. ASSUME NEW i \in 1..Len(results), results[i].number = n, n # r.number
          PROVE  \E j \in 1..Len(results') : results'[j].number = n
      BY <1>3, <1>4, <3>1
    <3>2. ASSUME NEW j \in 1..Len(results'), results'[j].number = n
          PROVE  \E i \in 1..Len(results) : results[i].number = n
      BY <1>1, <1>3, <3>2
    <3>3. 1 \in 1..Len(results) /\ results[1].number = r.number
      BY <1>3
    <3> QED
      BY <3>1, <3>2, <3>3
  <2> QED
    BY <1>1, <2>1 DEF Located, Busy
<1>11. DispatchInv'
  BY <1>1, <1>10 DEF DispatchInv, Running, Dispatched
<1> QED
  BY <1>6, <1>7, <1>8, <1>9, <1>11

\* The coordinator commits the next block: it leaves its place, and the block
\* after it is the next one.
LEMMA CommitKeeps ==
    ASSUME IndexersInv, Concurrent, SequentialUnused, Commit
    PROVE  IndexersInv'
<1> USE DEF IndexersInv
<1> DEFINE b == pending[nextCommit]
<1>1. /\ rangeState = "running" /\ nextCommit \in DOMAIN pending /\ Concurrent'
      /\ b # NoHash /\ SaveIndexedBlock(b)
      /\ orderedResults' = Append(orderedResults, b)
      /\ DOMAIN pending' = DOMAIN pending \ {nextCommit}
      /\ \A n \in DOMAIN pending' : pending'[n] = pending[n]
      /\ UNCHANGED <<head, canonical, endBlock, ctxDone, dispatch, jobsClosed, worker,
                     results, resultsClosed, implementation>>
  BY DEF Commit, Acceptable, Found, chainVars, poolVars, SequentialUnused, Concurrent
<1>2. b \in Hash /\ Number[b] = nextCommit
  BY <1>1 DEF PoolTypes, ReadInv, Complete
<1>3. /\ checkpoint' = [Number |-> nextCommit, Hash |-> b] /\ Exists(checkpoint)'
      /\ DOMAIN indexed_blocks' = DOMAIN indexed_blocks \cup {nextCommit}
      /\ indexed_blocks'[nextCommit].block_hash = b
      /\ \A n \in DOMAIN indexed_blocks : n # nextCommit => indexed_blocks'[n] = indexed_blocks[n]
  BY <1>1, <1>2, SaveFacts
<1>4. \/ nextCommit = endBlock /\ rangeState' = "done" /\ nextCommit' = nextCommit
      \/ nextCommit # endBlock /\ rangeState' = "running" /\ nextCommit' = nextCommit + 1
  BY <1>1 DEF Commit
<1>5. nextCommit \in 0..MaxHeight /\ endBlock \in 0..MaxHeight /\ nextCommit <= endBlock
      /\ MaxHeight \in Nat
  BY <1>1 DEF CallTypes
<1>6. CallTypes'
  BY <1>1, <1>3, <1>4, <1>5 DEF CallTypes, ChainTypeOK
<1>7. PoolTypes'
  <2>1. Append(orderedResults, b) \in Seq(Hash)
    BY <1>2 DEF PoolTypes
  <2> QED
    BY <1>1, <2>1 DEF PoolTypes
<1>8. PoolAtRest' /\ SequentialInv' /\ NoSendAfterClose'
  BY <1>1, <1>4 DEF PoolAtRest, SequentialInv, NoSendAfterClose, WorkerGone
<1>9. ReadInv' /\ OnePlace'
  BY <1>1 DEF ReadInv, OnePlace, Busy
<1>10. ExitInv'
  BY <1>1, <1>4 DEF ExitInv, Running
<1>11. ASSUME NEW n PROVE Located(n)' <=> Located(n) /\ n # nextCommit
  BY <1>1 DEF Located, OnePlace, Busy
<1>12. DispatchInv'
  <2>1. /\ ~jobsClosed' => dispatch' <= endBlock'
        /\ \A n \in 0..MaxHeight : Located(n)' => Dispatched(n)'
    BY <1>1, <1>11 DEF DispatchInv, Dispatched
  <2>2. ASSUME rangeState' = "running"
        PROVE  /\ nextCommit' <= dispatch /\ dispatch <= endBlock
               /\ \A n \in 0..MaxHeight : Located(n)' => n \in nextCommit'..endBlock
               /\ \A n \in nextCommit'..endBlock : n < dispatch \/ (jobsClosed /\ ~ctxDone) => Located(n)'
    <3>1. nextCommit # endBlock /\ nextCommit' = nextCommit + 1
      BY <1>4, <2>2
    <3>2. Running /\ Located(nextCommit)
      BY <1>1 DEF Running, Located
    <3>3. nextCommit < dispatch /\ dispatch <= endBlock /\ dispatch \in 0..MaxHeight
      BY <1>5, <3>1, <3>2 DEF DispatchInv, Dispatched, PoolTypes
    <3>4. \A n \in 0..MaxHeight : Located(n)' => n \in nextCommit..endBlock /\ n # nextCommit
      BY <1>11, <3>2 DEF DispatchInv
    <3>5. \A n \in 0..MaxHeight : Located(n)' => n \in (nextCommit + 1)..endBlock
      BY <1>5, <3>4
    <3>6. ASSUME NEW n \in (nextCommit + 1)..endBlock, n < dispatch \/ (jobsClosed /\ ~ctxDone)
          PROVE  Located(n)'
      <4>1. n \in nextCommit..endBlock /\ n # nextCommit
        BY <1>5
      <4> QED
        BY <1>11, <3>2, <3>6, <4>1 DEF DispatchInv
    <3> QED
      BY <1>5, <3>1, <3>3, <3>5, <3>6
  <2> QED
    BY <1>1, <2>1, <2>2 DEF DispatchInv, Running
<1>13. ResultInv'
  <2>1. /\ Len(orderedResults) \in Nat /\ Len(orderedResults') = Len(orderedResults) + 1
        /\ orderedResults'[Len(orderedResults) + 1] = b
        /\ \A i \in 1..Len(orderedResults) : orderedResults'[i] = orderedResults[i]
    BY <1>1, <1>2 DEF PoolTypes
  <2>2. CommittedUpTo(nextCommit - 1)
    BY <1>1 DEF ResultInv
  <2>3. ASSUME NEW i \in 1..Len(orderedResults')
        PROVE  /\ nextCommit - Len(orderedResults') + i \in DOMAIN indexed_blocks'
               /\ indexed_blocks'[nextCommit - Len(orderedResults') + i].block_hash = orderedResults'[i]
    <3>1. CASE i = Len(orderedResults')
      <4>1. nextCommit - Len(orderedResults') + i = nextCommit
        BY <1>5, <2>1, <3>1
      <4> QED
        BY <1>3, <2>1, <3>1, <4>1
    <3>2. CASE i # Len(orderedResults')
      <4> DEFINE n == (nextCommit - 1) - Len(orderedResults) + i
      <4>1. i \in 1..Len(orderedResults) /\ nextCommit - Len(orderedResults') + i = n /\ n # nextCommit
        BY <1>5, <2>1, <3>2
      <4>2. n \in DOMAIN indexed_blocks /\ indexed_blocks[n].block_hash = orderedResults[i]
        BY <2>2, <4>1 DEF CommittedUpTo
      <4> QED
        BY <1>3, <2>1, <4>1, <4>2
    <3> QED
      BY <3>1, <3>2
  <2>4. rangeState' = "running" => nextCommit' - 1 = nextCommit
    BY <1>4, <1>5
  <2>5. rangeState' = "done" => endBlock' = nextCommit /\ checkpoint'.Number >= endBlock'
    BY <1>1, <1>3, <1>4, <1>5
  <2>6. CommittedUpTo(nextCommit)'  <=>
          \A i \in 1..Len(orderedResults') :
            /\ nextCommit' - Len(orderedResults') + i \in DOMAIN indexed_blocks'
            /\ indexed_blocks'[nextCommit' - Len(orderedResults') + i].block_hash = orderedResults'[i]
    BY DEF CommittedUpTo
  <2> QED
    BY <1>3, <1>4, <2>3, <2>4, <2>5 DEF ResultInv, CommittedUpTo
<1> QED
  BY <1>6, <1>7, <1>8, <1>9, <1>10, <1>12, <1>13

\* The call returns an error: the store may have one more block.
LEMMA ReturnErrorKeeps ==
    ASSUME IndexersInv, Concurrent, SequentialUnused, rangeState' = "failed",
           checkpoint'.Number \in 0..MaxHeight,
           UNCHANGED <<chainVars, endBlock, nextCommit, pending, orderedResults, ctxDone, poolVars>>
    PROVE  IndexersInv'
<1> USE DEF IndexersInv
<1>1. /\ Concurrent'
      /\ UNCHANGED <<head, canonical, endBlock, nextCommit, pending, orderedResults, ctxDone,
                     dispatch, jobsClosed, worker, results, resultsClosed, implementation>>
  BY DEF chainVars, poolVars, SequentialUnused, Concurrent
<1>2. CallTypes' /\ PoolTypes'
  BY <1>1 DEF CallTypes, PoolTypes, ChainTypeOK
<1>3. PoolAtRest' /\ DispatchInv' /\ ExitInv' /\ ResultInv' /\ SequentialInv'
  BY <1>1 DEF PoolAtRest, DispatchInv, Dispatched, ExitInv, ResultInv, SequentialInv, Running,
              Located, Busy
<1>4. ReadInv' /\ OnePlace' /\ NoSendAfterClose'
  BY <1>1 DEF ReadInv, OnePlace, NoSendAfterClose, WorkerGone, Busy
<1> QED
  BY <1>2, <1>3, <1>4

\* The fall-through return after the results loop is never a nil error: with a
\* live context the next block cannot be missing once the channel is drained.
LEMMA ExhaustedMeansCancelled ==
    ASSUME IndexersInv, Concurrent, ResultsExhausted
    PROVE  ctxDone
<1> SUFFICES ASSUME ~ctxDone PROVE FALSE
  OBVIOUS
<1> USE DEF IndexersInv
<1>1. Running /\ nextCommit \notin DOMAIN pending /\ results = <<>> /\ resultsClosed
  BY DEF ResultsExhausted, Found, Running
<1>2. \A w \in Worker : worker[w].pc = "exited" /\ jobsClosed
  BY <1>1 DEF NoSendAfterClose, WorkerGone, ExitInv
<1>3. nextCommit \in nextCommit..endBlock /\ jobsClosed
  BY <1>1, <1>2, WorkerAssumption DEF CallTypes, Running
<1>4. Located(nextCommit)
  BY <1>1, <1>3 DEF DispatchInv
<1>5. 1..Len(results) = {}
  BY <1>1
<1> QED
  BY <1>1, <1>2, <1>4, <1>5 DEF Located, Busy

\* What else the coordinator and the caller do.
LEMMA CoordinatorKeeps ==
    ASSUME IndexersInv, Concurrent, SequentialUnused, Coordinator \/ Refuse
    PROVE  IndexersInv'
<1>1. checkpoint.Number \in 0..MaxHeight
  BY DEF IndexersInv, CallTypes
<1>2. CASE Reject \/ Refuse
  BY <1>1, <1>2, ReturnErrorKeeps DEF Reject, Refuse, storeVars
<1>3. CASE ResultsExhausted
  <2>1. ctxDone
    BY <1>3, ExhaustedMeansCancelled
  <2> QED
    BY <1>1, <1>3, <2>1, ReturnErrorKeeps DEF ResultsExhausted, storeVars
<1>4. CASE SaveFails
  <2>1. pending[nextCommit] \in Hash
    BY <1>4 DEF SaveFails, Acceptable, Found, IndexersInv, PoolTypes
  <2>2. checkpoint'.Number \in 0..MaxHeight
    <3>1. CASE UNCHANGED storeVars
      BY <1>1, <3>1 DEF storeVars
    <3>2. CASE SaveIndexedBlock(pending[nextCommit])
      <4> DEFINE b == pending[nextCommit]
      <4>1. checkpoint' = [Number |-> Number[b], Hash |-> b] /\ Number[b] \in 0..MaxHeight
        BY <2>1, <3>2, SaveFacts
      <4> QED
        BY <4>1
    <3> QED
      BY <1>4, <3>1, <3>2 DEF SaveFails
  <2> QED
    BY <1>4, <2>2, ReturnErrorKeeps DEF SaveFails
<1> QED
  BY <1>2, <1>3, <1>4, ReceiveKeeps, CommitKeeps DEF Coordinator

\* A step of one worker that keeps its block in hand, or has none.
LEMMA SameWork ==
    ASSUME IndexersInv, Concurrent, SequentialUnused, UnchangedCall,
           UNCHANGED <<dispatch, jobsClosed, results, resultsClosed>>,
           NEW w \in Worker, worker' \in [Worker -> WorkerState],
           \A u \in Worker : u # w => worker'[u] = worker[u],
           Busy(w)' <=> Busy(w),
           worker'[w].number = worker[w].number,
           ~WorkerGone(w), worker'[w].pc \notin {"receive", "header"},
           worker'[w].pc = "logs" =>
               worker'[w].hash \in Hash /\ AtHeight(worker[w].number, worker'[w].hash),
           worker'[w].pc \in {"send", "dropped"} => Complete(worker[w].number, worker'[w].hash),
           worker'[w].pc = "dropped" => WorkerCtxDone,
           worker'[w].pc = "exited" => jobsClosed
    PROVE  IndexersInv'
<1> USE DEF IndexersInv
<1>1. /\ Concurrent' /\ ~resultsClosed /\ rangeState # "off"
      /\ UNCHANGED <<head, canonical, checkpoint, indexed_blocks, rangeState, endBlock, nextCommit,
                     pending, orderedResults, ctxDone, dispatch, jobsClosed, results, resultsClosed,
                     implementation>>
  BY DEF UnchangedCall, callVars, chainVars, storeVars, SequentialUnused, Concurrent,
         NoSendAfterClose, PoolAtRest, WorkerGone
<1>2. \A u \in Worker : (Busy(u)' <=> Busy(u)) /\ worker'[u].number = worker[u].number
  BY DEF Busy
<1>3. CallTypes' /\ PoolTypes'
  BY <1>1 DEF CallTypes, PoolTypes, ChainTypeOK
<1>4. PoolAtRest' /\ SequentialInv' /\ NoSendAfterClose' /\ ResultInv'
  BY <1>1 DEF PoolAtRest, SequentialInv, NoSendAfterClose, ResultInv, CommittedUpTo, Exists
<1>5. ReadInv'
  BY <1>1 DEF ReadInv, Complete, AtHeight
<1>6. OnePlace'
  BY <1>1, <1>2 DEF OnePlace
<1>7. ExitInv'
  BY <1>1 DEF ExitInv, Running, WorkerCtxDone, Returned
<1>8. ASSUME NEW n PROVE Located(n)' <=> Located(n)
  BY <1>1, <1>2 DEF Located
<1>9. DispatchInv'
  BY <1>1, <1>8 DEF DispatchInv, Running, Dispatched
<1> QED
  BY <1>3, <1>4, <1>5, <1>6, <1>7, <1>9

\* Reading the header and the logs, and returning.
LEMMA WorkerKeeps ==
    ASSUME IndexersInv, Concurrent, SequentialUnused, NEW w \in Worker,
           FetchHeader(w) \/ FetchLogs(w) \/ DropResult(w) \/ WorkerExit(w)
    PROVE  IndexersInv'
<1>1. /\ worker \in [Worker -> WorkerState] /\ ChainTypeOK
      /\ worker[w].number \in 0..MaxHeight /\ worker[w].hash \in Hash \cup {NoHash}
      /\ worker[w].pc = "logs" =>
            worker[w].hash \in Hash /\ AtHeight(worker[w].number, worker[w].hash)
      /\ worker[w].pc = "header" => worker[w].hash = NoHash
      /\ worker[w].pc = "send" => Complete(worker[w].number, worker[w].hash)
  BY DEF IndexersInv, PoolTypes, CallTypes, ReadInv, WorkerState
<1>2. UnchangedCall /\ UNCHANGED <<dispatch, jobsClosed, results, resultsClosed>>
  BY DEF FetchHeader, FetchLogs, DropResult, WorkerExit
<1> DEFINE n == worker[w].number
<1>3. CASE FetchHeader(w)
  <2>1. CASE /\ HasBlock(n)
             /\ worker' = [worker EXCEPT ![w].pc = "logs", ![w].hash = canonical[n]]
    <3>1. canonical[n] \in Hash /\ Number[canonical[n]] = n
      BY <1>1, <2>1, CanonicalBlock
    <3>2. /\ worker' \in [Worker -> WorkerState]
          /\ \A u \in Worker : u # w => worker'[u] = worker[u]
          /\ worker'[w].pc = "logs" /\ worker'[w].number = n /\ worker'[w].hash = canonical[n]
      BY <1>1, <2>1, <3>1 DEF WorkerState
    <3> QED
      BY <1>2, <1>3, <3>1, <3>2, SameWork DEF FetchHeader, Busy, WorkerGone, AtHeight
  <2>2. CASE worker' = [worker EXCEPT ![w].pc = "send"]
    <3>1. /\ worker' \in [Worker -> WorkerState]
          /\ \A u \in Worker : u # w => worker'[u] = worker[u]
          /\ worker'[w].pc = "send" /\ worker'[w].number = n /\ worker'[w].hash = NoHash
      BY <1>1, <1>3, <2>2 DEF WorkerState, FetchHeader
    <3> QED
      BY <1>2, <1>3, <3>1, SameWork DEF FetchHeader, Busy, WorkerGone, Complete
  <2> QED
    BY <1>3, <2>1, <2>2 DEF FetchHeader
<1>4. CASE FetchLogs(w)
  <2>1. /\ worker' \in [Worker -> WorkerState]
        /\ \A u \in Worker : u # w => worker'[u] = worker[u]
        /\ worker'[w].pc = "send" /\ worker'[w].number = n
        /\ worker'[w].hash = NoHash \/ (worker'[w].hash = worker[w].hash /\ LogsDecode(worker[w].hash))
    BY <1>1, <1>4 DEF FetchLogs, WorkerState
  <2> QED
    BY <1>1, <1>2, <1>4, <2>1, SameWork DEF FetchLogs, Busy, WorkerGone, Complete, AtHeight
<1>5. CASE DropResult(w)
  <2>1. /\ worker' \in [Worker -> WorkerState]
        /\ \A u \in Worker : u # w => worker'[u] = worker[u]
        /\ worker'[w].pc = "dropped" /\ worker'[w].number = n /\ worker'[w].hash = worker[w].hash
    BY <1>1, <1>5 DEF DropResult, WorkerState
  <2> QED
    BY <1>1, <1>2, <1>5, <2>1, SameWork DEF DropResult, Busy, WorkerGone
<1>6. CASE WorkerExit(w)
  <2>1. /\ worker' \in [Worker -> WorkerState]
        /\ \A u \in Worker : u # w => worker'[u] = worker[u]
        /\ worker'[w].pc = "exited" /\ worker'[w].number = n
    BY <1>1, <1>6 DEF WorkerExit, WorkerState
  <2> QED
    BY <1>1, <1>2, <1>6, <2>1, SameWork DEF WorkerExit, Busy, WorkerGone
<1> QED
  BY <1>3, <1>4, <1>5, <1>6

\* jobs <- blockNumber: the block of the dispatcher is new to the pool.
LEMMA DispatchKeeps ==
    ASSUME IndexersInv, Concurrent, SequentialUnused, NEW w \in Worker, Dispatch(w)
    PROVE  IndexersInv'
<1> USE DEF IndexersInv
<1>1. /\ ~jobsClosed /\ worker[w].pc = "receive" /\ Concurrent' /\ ~resultsClosed /\ rangeState # "off"
      /\ UNCHANGED <<head, canonical, checkpoint, indexed_blocks, rangeState, endBlock, nextCommit,
                     pending, orderedResults, ctxDone, results, resultsClosed, implementation>>
  BY DEF Dispatch, UnchangedCall, callVars, chainVars, storeVars, SequentialUnused, Concurrent,
         NoSendAfterClose, PoolAtRest, WorkerGone
<1>2. /\ dispatch \in 0..MaxHeight /\ endBlock \in 0..MaxHeight /\ MaxHeight \in Nat
      /\ dispatch <= endBlock
  BY <1>1 DEF PoolTypes, CallTypes, DispatchInv
<1>3. /\ worker' \in [Worker -> WorkerState]
      /\ \A u \in Worker : u # w => worker'[u] = worker[u]
      /\ worker'[w].pc = "header" /\ worker'[w].number = dispatch /\ worker'[w].hash = NoHash
  BY <1>2 DEF Dispatch, PoolTypes, WorkerState
<1>4. \/ dispatch = endBlock /\ jobsClosed' /\ dispatch' = dispatch
      \/ dispatch # endBlock /\ ~jobsClosed' /\ dispatch' = dispatch + 1
  BY <1>1 DEF Dispatch
<1>5. ~Busy(w) /\ Busy(w)' /\ \A u \in Worker : u # w => (Busy(u)' <=> Busy(u))
  BY <1>1, <1>3 DEF Busy
<1>6. ~Located(dispatch)
  BY <1>1, <1>2 DEF DispatchInv, Dispatched
<1>7. CallTypes'
  BY <1>1 DEF CallTypes, ChainTypeOK
<1>8. PoolTypes'
  BY <1>1, <1>2, <1>3, <1>4 DEF PoolTypes
<1>9. PoolAtRest' /\ SequentialInv' /\ NoSendAfterClose' /\ ResultInv'
  BY <1>1 DEF PoolAtRest, SequentialInv, NoSendAfterClose, ResultInv, CommittedUpTo, Exists
<1>10. ReadInv'
  BY <1>1, <1>3 DEF ReadInv, Complete, AtHeight
<1>11. OnePlace'
  BY <1>1, <1>3, <1>5, <1>6 DEF OnePlace, Located
<1>12. ExitInv'
  BY <1>1, <1>3, <1>4 DEF ExitInv, Running
<1>13. ASSUME NEW n PROVE Located(n)' <=> Located(n) \/ n = dispatch
  BY <1>1, <1>3, <1>5 DEF Located
<1>14. DispatchInv'
  <2>1. ~jobsClosed' => dispatch' <= endBlock'
    BY <1>1, <1>2, <1>4
  <2>2. \A n \in 0..MaxHeight : Located(n)' => Dispatched(n)'
    BY <1>1, <1>2, <1>4, <1>13 DEF DispatchInv, Dispatched
  <2>3. ASSUME Running
        PROVE  /\ nextCommit <= dispatch' /\ dispatch' <= endBlock
               /\ \A n \in 0..MaxHeight : Located(n)' => n \in nextCommit..endBlock
               /\ \A n \in nextCommit..endBlock :
                     n < dispatch' \/ (jobsClosed' /\ ~ctxDone) => Located(n)'
    <3>1. nextCommit \in 0..MaxHeight /\ nextCommit <= dispatch
      BY <2>3 DEF DispatchInv, CallTypes
    <3>2. nextCommit <= dispatch' /\ dispatch' <= endBlock /\ dispatch \in nextCommit..endBlock
      BY <1>2, <1>4, <3>1
    <3>3. \A n \in 0..MaxHeight : Located(n)' => n \in nextCommit..endBlock
      BY <1>13, <2>3, <3>2 DEF DispatchInv
    <3>4. \A n \in nextCommit..endBlock : n < dispatch \/ n = dispatch => Located(n)'
      BY <1>13, <2>3 DEF DispatchInv
    <3>5. \A n \in nextCommit..endBlock :
              n < dispatch' \/ (jobsClosed' /\ ~ctxDone) => n < dispatch \/ n = dispatch
      BY <1>2, <1>4, <3>1
    <3> QED
      BY <3>2, <3>3, <3>4, <3>5
  <2> QED
    BY <1>1, <2>1, <2>2, <2>3 DEF DispatchInv, Running
<1> QED
  BY <1>7, <1>8, <1>9, <1>10, <1>11, <1>12, <1>14

\* A send appends to the channel what the worker had in hand.
LEMMA ChannelSend ==
    ASSUME NEW S, NEW q \in Seq(S), NEW e \in S
    PROVE  /\ Len(q) \in Nat /\ Append(q, e) \in Seq(S) /\ Len(Append(q, e)) = Len(q) + 1
           /\ Append(q, e)[Len(q) + 1] = e
           /\ \A i \in 1..Len(q) : Append(q, e)[i] = q[i]
  OBVIOUS

\* results <- result: the block goes from the worker to the channel.
LEMMA SendKeeps ==
    ASSUME IndexersInv, Concurrent, SequentialUnused, NEW w \in Worker, SendResult(w)
    PROVE  IndexersInv'
<1> USE DEF IndexersInv
<1> DEFINE r == [number |-> worker[w].number, hash |-> worker[w].hash]
<1> DEFINE last == Len(results) + 1
<1>1. /\ worker[w].pc = "send" /\ Concurrent' /\ ~resultsClosed /\ rangeState # "off"
      /\ results' = Append(results, r)
      /\ UNCHANGED <<head, canonical, checkpoint, indexed_blocks, rangeState, endBlock, nextCommit,
                     pending, orderedResults, ctxDone, dispatch, jobsClosed, resultsClosed,
                     implementation>>
  BY DEF SendResult, UnchangedCall, callVars, chainVars, storeVars, SequentialUnused, Concurrent,
         NoSendAfterClose, PoolAtRest, WorkerGone
<1>2. r \in Result /\ results \in Seq(Result) /\ Busy(w)
  BY <1>1 DEF PoolTypes, WorkerState, Result, Busy
<1>3. /\ Len(results) \in Nat /\ results' \in Seq(Result) /\ Len(results') = last
      /\ results'[last] = r /\ last \in 1..Len(results')
      /\ \A i \in 1..Len(results) : results'[i] = results[i]
      /\ \A i \in 1..Len(results') : i \in 1..Len(results) \/ i = last
      /\ \A i \in 1..Len(results) : i # last /\ i \in 1..Len(results')
  <2>1. /\ Len(results) \in Nat /\ results' \in Seq(Result) /\ Len(results') = last
        /\ results'[last] = r
        /\ \A i \in 1..Len(results) : results'[i] = results[i]
    BY <1>1, <1>2, ChannelSend
  <2> QED
    BY <2>1
<1> HIDE DEF last
<1>4. /\ worker' \in [Worker -> WorkerState]
      /\ \A u \in Worker : u # w => worker'[u] = worker[u]
      /\ worker'[w] = Idle /\ worker'[w].pc = "receive"
  BY HeightAssumption DEF SendResult, PoolTypes, WorkerState, Idle
<1>5. ~Busy(w)' /\ \A u \in Worker : u # w => (Busy(u)' <=> Busy(u))
  BY <1>4 DEF Busy
<1>6. r.number = worker[w].number /\ r.hash = worker[w].hash
  OBVIOUS
<1> HIDE DEF r
<1>7. CallTypes' /\ PoolTypes'
  BY <1>1, <1>3, <1>4 DEF CallTypes, PoolTypes, ChainTypeOK
<1>8. PoolAtRest' /\ SequentialInv' /\ NoSendAfterClose' /\ ResultInv'
  BY <1>1 DEF PoolAtRest, SequentialInv, NoSendAfterClose, ResultInv, CommittedUpTo, Exists
<1>9. ReadInv'
  <2>1. \A i \in 1..Len(results') : Complete(results'[i].number, results'[i].hash)
    BY <1>1, <1>3, <1>6 DEF ReadInv
  <2> QED
    BY <1>1, <1>4, <2>1 DEF ReadInv, Complete, AtHeight
<1>10. OnePlace'
  <2>1. \A i, j \in 1..Len(results') : results'[i].number = results'[j].number => i = j
    BY <1>2, <1>3, <1>6 DEF OnePlace
  <2>2. \A u \in Worker, i \in 1..Len(results') : Busy(u)' => worker'[u].number # results'[i].number
    BY <1>2, <1>3, <1>4, <1>5, <1>6 DEF OnePlace
  <2>3. \A i \in 1..Len(results') : results'[i].number \notin DOMAIN pending'
    BY <1>1, <1>2, <1>3, <1>6 DEF OnePlace
  <2> QED
    BY <1>1, <1>4, <1>5, <2>1, <2>2, <2>3 DEF OnePlace
<1>11. ExitInv'
  BY <1>1, <1>4 DEF ExitInv, Running
<1>12. ASSUME NEW n PROVE Located(n)' <=> Located(n)
  <2>1. (\E i \in 1..Len(results') : results'[i].number = n) <=>
            n = r.number \/ \E i \in 1..Len(results) : results[i].number = n
    BY <1>3
  <2>2. (\E u \in Worker : Busy(u) /\ worker[u].number = n) <=>
            n = r.number \/ \E u \in Worker : Busy(u)' /\ worker'[u].number = n
    BY <1>2, <1>4, <1>5, <1>6
  <2> QED
    BY <1>1, <2>1, <2>2 DEF Located
<1>13. DispatchInv'
  BY <1>1, <1>12 DEF DispatchInv, Running, Dispatched
<1> QED
  BY <1>7, <1>8, <1>9, <1>10, <1>11, <1>13

\* What ends without touching a block: the dispatcher, the channel, the context.
LEMMA EndingKeeps ==
    ASSUME IndexersInv, Concurrent, SequentialUnused,
           DispatcherCancelled \/ CloseResults \/ CancelContext
    PROVE  IndexersInv'
<1> USE DEF IndexersInv
<1>1. /\ Concurrent'
      /\ UNCHANGED <<head, canonical, checkpoint, indexed_blocks, rangeState, endBlock, nextCommit,
                     pending, orderedResults, dispatch, worker, results, implementation>>
      /\ (ctxDone => ctxDone') /\ (jobsClosed => jobsClosed') /\ (resultsClosed => resultsClosed')
      /\ jobsClosed' = jobsClosed \/ WorkerCtxDone
      /\ resultsClosed' = resultsClosed \/ \A w \in Worker : WorkerGone(w)
  BY DEF DispatcherCancelled, CloseResults, CancelContext, UnchangedCall, callVars, poolVars,
         chainVars, storeVars, SequentialUnused, Concurrent
<1>2. CallTypes' /\ PoolTypes' /\ PoolAtRest' /\ SequentialInv'
  BY <1>1 DEF CallTypes, PoolTypes, PoolAtRest, SequentialInv, ChainTypeOK
<1>3. ReadInv' /\ OnePlace' /\ NoSendAfterClose' /\ ResultInv'
  BY <1>1 DEF ReadInv, OnePlace, NoSendAfterClose, ResultInv, Complete, AtHeight, Busy, WorkerGone,
              CommittedUpTo, Exists
<1>4. ExitInv'
  BY <1>1 DEF ExitInv, Running
<1>5. \A n : Located(n)' <=> Located(n)
  BY <1>1 DEF Located, Busy
<1>6. DispatchInv'
  BY <1>1, <1>5 DEF DispatchInv, Dispatched, Running, WorkerCtxDone, Returned
<1> QED
  BY <1>2, <1>3, <1>4, <1>6

\* The chain moves: what was read keeps the height it was read at.
LEMMA MoveChainKeeps ==
    ASSUME IndexersInv, MoveChain, SequentialUnused
    PROVE  IndexersInv'
<1> USE DEF IndexersInv
<1>1. PICK f \in Chains, h \in 0..MaxHeight : DOMAIN f = 0..h /\ canonical' = f /\ head' = h
  BY DEF MoveChain, ChainMove
<1>2. ChainTypeOK'
  BY <1>1, ChainIsBranch DEF ChainTypeOK
<1>3. UNCHANGED <<checkpoint, indexed_blocks, rangeState, endBlock, nextCommit, pending, orderedResults,
                  ctxDone, dispatch, jobsClosed, worker, results, resultsClosed, implementation,
                  pc, block>>
  BY DEF MoveChain, callVars, poolVars, storeVars, SequentialUnused
<1>4. CallTypes' /\ PoolTypes' /\ PoolAtRest'
  BY <1>2, <1>3 DEF CallTypes, PoolTypes, PoolAtRest, Concurrent
<1>5. ReadInv' /\ OnePlace' /\ NoSendAfterClose' /\ ResultInv'
  BY <1>3 DEF ReadInv, OnePlace, NoSendAfterClose, ResultInv, Complete, AtHeight, Busy, WorkerGone,
              CommittedUpTo, Exists
<1>6. ExitInv' /\ DispatchInv' /\ SequentialInv'
  BY <1>3 DEF ExitInv, DispatchInv, Dispatched, Running, Concurrent, Located, Busy, SequentialInv, AtHeight
<1> QED
  BY <1>4, <1>5, <1>6

\* For the sequential indexer the pool stays at rest, and only the call counts.
LEMMA PoolStaysAtRest ==
    ASSUME IndexersInv, ~Concurrent, ConcurrentUnused, UNCHANGED chainVars,
           CallTypes', ResultInv', SequentialInv'
    PROVE  IndexersInv'
<1> USE DEF IndexersInv
<1>1. /\ ~Concurrent'
      /\ UNCHANGED <<pending, orderedResults, ctxDone, dispatch, jobsClosed, worker, results,
                     resultsClosed, implementation>>
  BY DEF ConcurrentUnused, poolVars, Concurrent
<1>2. /\ DOMAIN pending = {} /\ 1..Len(results) = {} /\ jobsClosed /\ resultsClosed
      /\ \A w \in Worker : worker[w].pc = "exited"
  BY DEF PoolAtRest
<1>3. PoolTypes' /\ PoolAtRest'
  BY <1>1 DEF PoolTypes, PoolAtRest
<1>4. ReadInv' /\ OnePlace' /\ NoSendAfterClose'
  BY <1>1, <1>2 DEF ReadInv, OnePlace, NoSendAfterClose, Busy, WorkerGone
<1>5. ExitInv' /\ DispatchInv'
  BY <1>1, <1>2 DEF ExitInv, DispatchInv, Running, Located, Busy
<1> QED
  BY <1>3, <1>4, <1>5

\* The sequential indexer's calls and steps.
LEMMA SequentialKeeps ==
    ASSUME IndexersInv, SequentialStep
    PROVE  IndexersInv'
<1>1. /\ ~Concurrent /\ ~Concurrent' /\ ConcurrentUnused
      /\ UNCHANGED <<chainVars, head, canonical, orderedResults>>
      /\ orderedResults = <<>> /\ 1..Len(orderedResults) = {}
  BY DEF SequentialStep, Concurrent, ConcurrentUnused, chainVars, IndexersInv, PoolAtRest
<1>2. CallTypes /\ ResultInv /\ SequentialInv
  BY DEF IndexersInv
<1>3. /\ ChainTypeOK /\ ChainTypeOK' /\ MaxHeight \in Nat
      /\ implementation' \in {"concurrent", "sequential"}
  BY <1>1, <1>2 DEF CallTypes, ChainTypeOK, ConcurrentUnused
<1> USE DEF Sequential!storeVars, storeVars
<1>4. ASSUME NEW start \in 0..MaxHeight, NEW end \in 0..MaxHeight, Sequential!Call(start, end)
      PROVE  IndexersInv'
  <2> USE DEF Sequential!AlreadyIndexed, Sequential!Resumes, Sequential!Exists, Sequential!NextBlock,
              AlreadyIndexed, Resumes, Exists, NextBlock
  <2>1. /\ rangeState = "off" /\ start <= end /\ endBlock' = end
        /\ UNCHANGED <<checkpoint, indexed_blocks, pc, block>>
        /\ \/ AlreadyIndexed(start, end) /\ rangeState' = "done" /\ nextCommit' = nextCommit
           \/ /\ ~AlreadyIndexed(start, end) /\ rangeState' = "running"
              /\ nextCommit' = NextBlock(start)
    BY <1>4 DEF Sequential!Call
  <2> HIDE DEF Sequential!AlreadyIndexed, Sequential!Resumes, Sequential!Exists, Sequential!NextBlock,
               AlreadyIndexed, Resumes, Exists, NextBlock
  <2>2. CallTypes' /\ ResultInv'
    BY <1>1, <1>2, <1>3, <2>1, ResumePoint DEF CallTypes, ResultInv, CommittedUpTo, Exists
  <2>3. SequentialInv'
    BY <1>1, <1>2, <2>1 DEF SequentialInv, AtHeight
  <2> QED
    BY <1>1, <2>2, <2>3, PoolStaysAtRest
<1>5. CASE Sequential!Refuse \/ Sequential!Fail
  <2>1. rangeState' = "failed" /\ UNCHANGED <<checkpoint, endBlock, nextCommit, pc, block>>
    BY <1>5 DEF Sequential!Refuse, Sequential!Fail
  <2>2. CallTypes' /\ ResultInv' /\ SequentialInv'
    BY <1>1, <1>2, <1>3, <2>1 DEF CallTypes, ResultInv, SequentialInv
  <2> QED
    BY <1>1, <2>2, PoolStaysAtRest
<1>6. CASE Sequential!FetchHeader
  <2>1. /\ rangeState = "running" /\ pc' = "logs" /\ HasBlock(nextCommit)
        /\ block' = canonical[nextCommit]
        /\ UNCHANGED <<checkpoint, indexed_blocks, rangeState, endBlock, nextCommit>>
    BY <1>6 DEF Sequential!FetchHeader, Sequential!HasBlock, HasBlock
  <2>2. block' \in Hash /\ block' # NoHash /\ Number[block'] = nextCommit
    BY <1>2, <1>3, <2>1, CanonicalBlock DEF CallTypes
  <2>3. CallTypes' /\ ResultInv'
    BY <1>1, <1>2, <1>3, <2>1 DEF CallTypes, ResultInv, CommittedUpTo
  <2>4. SequentialInv'
    BY <1>1, <2>1, <2>2 DEF SequentialInv, AtHeight
  <2> QED
    BY <1>1, <2>3, <2>4, PoolStaysAtRest
<1>7. CASE Sequential!FetchLogs
  <2>1. /\ rangeState = "running" /\ pc = "logs" /\ pc' = "save" /\ LogsDecode(block)
        /\ UNCHANGED <<checkpoint, indexed_blocks, rangeState, endBlock, nextCommit, block>>
    BY <1>7 DEF Sequential!FetchLogs, Sequential!LogsDecode, LogsDecode
  <2>2. CallTypes' /\ ResultInv' /\ SequentialInv'
    BY <1>1, <1>2, <1>3, <2>1 DEF CallTypes, ResultInv, CommittedUpTo, SequentialInv, AtHeight
  <2> QED
    BY <1>1, <2>2, PoolStaysAtRest
<1>8. CASE Sequential!Save \/ Sequential!SaveAnswerLost
  <2>1. rangeState = "running" /\ pc = "save" /\ Sequential!SaveIndexedBlock(block)
        /\ endBlock' = endBlock
    BY <1>8 DEF Sequential!Save, Sequential!SaveAnswerLost
  <2>2. block \in Hash /\ Number[block] = nextCommit
    BY <1>1, <1>2, <2>1 DEF SequentialInv, AtHeight
  <2>3. SaveIndexedBlock(block)
    BY <2>1 DEF Sequential!SaveIndexedBlock, SaveIndexedBlock, Sequential!HashConflict, HashConflict,
                Sequential!InsertTransfers, InsertTransfers, Sequential!RecordIndexedBlock,
                RecordIndexedBlock, Sequential!RecordedParent, RecordedParent
  <2>4. /\ checkpoint' = [Number |-> nextCommit, Hash |-> block] /\ Exists(checkpoint)'
        /\ nextCommit \in 0..MaxHeight /\ endBlock \in 0..MaxHeight /\ nextCommit <= endBlock
    BY <1>2, <2>1, <2>2, <2>3, SaveFacts DEF CallTypes
  <2>5. \/ /\ nextCommit = endBlock /\ rangeState' = "done" /\ nextCommit' = nextCommit
           /\ pc' = "header" /\ block' = NoHash
        \/ /\ nextCommit # endBlock /\ rangeState' = "running" /\ nextCommit' = nextCommit + 1
           /\ pc' = "header" /\ block' = NoHash
        \/ rangeState' = "failed" /\ UNCHANGED <<nextCommit, pc, block>>
    BY <1>8, <2>1 DEF Sequential!Save, Sequential!SaveAnswerLost
  <2>6. CallTypes'
    BY <1>2, <1>3, <2>1, <2>4, <2>5 DEF CallTypes
  <2>7. ResultInv'
    BY <1>1, <2>1, <2>4, <2>5 DEF ResultInv, CommittedUpTo
  <2>8. SequentialInv'
    BY <1>1, <1>2, <2>5 DEF SequentialInv, AtHeight
  <2> QED
    BY <1>1, <2>6, <2>7, <2>8, PoolStaysAtRest
<1> QED
  BY <1>4, <1>5, <1>6, <1>7, <1>8 DEF SequentialStep, Sequential!Invoke, Sequential!Step

\* Every step keeps the invariant.
LEMMA NextIndexers == IndexersInv /\ [IndexersNext]_indexersVars => IndexersInv'
<1> SUFFICES ASSUME IndexersInv, [IndexersNext]_indexersVars PROVE IndexersInv'
  OBVIOUS
<1>1. ASSUME ConcurrentStep PROVE IndexersInv'
  <2>1. Concurrent /\ SequentialUnused
    BY <1>1 DEF ConcurrentStep, Concurrent
  <2>2. CASE Invoke
    BY <2>1, <2>2, CallKeeps, CoordinatorKeeps DEF Invoke
  <2>3. CASE Coordinator
    BY <2>1, <2>3, CoordinatorKeeps
  <2>4. CASE Dispatcher
    BY <2>1, <2>4, DispatchKeeps, EndingKeeps DEF Dispatcher
  <2>5. ASSUME NEW w \in Worker, WorkerStep(w) PROVE IndexersInv'
    BY <2>1, <2>5, WorkerKeeps, SendKeeps DEF WorkerStep
  <2>6. CASE CloseResults \/ CancelContext
    BY <2>1, <2>6, EndingKeeps
  <2> QED
    BY <1>1, <2>2, <2>3, <2>4, <2>5, <2>6 DEF ConcurrentStep
<1>2. CASE UNCHANGED indexersVars
  <2>1. UNCHANGED <<head, canonical, checkpoint, indexed_blocks, rangeState, endBlock, nextCommit,
                    pending, orderedResults, ctxDone, dispatch, jobsClosed, worker, results,
                    resultsClosed, implementation, pc, block>>
    BY <1>2 DEF indexersVars, vars, callVars, poolVars, chainVars, storeVars
  <2>2. CallTypes' /\ PoolTypes' /\ PoolAtRest'
    BY <2>1 DEF IndexersInv, CallTypes, PoolTypes, PoolAtRest, Concurrent, ChainTypeOK
  <2>3. ReadInv' /\ OnePlace' /\ NoSendAfterClose' /\ ResultInv'
    BY <2>1 DEF IndexersInv, ReadInv, OnePlace, NoSendAfterClose, ResultInv, Complete, AtHeight, Busy,
                WorkerGone, CommittedUpTo, Exists
  <2>4. ExitInv' /\ DispatchInv' /\ SequentialInv'
    BY <2>1 DEF IndexersInv, ExitInv, DispatchInv, Dispatched, Running, Concurrent, Located, Busy,
                SequentialInv, AtHeight
  <2> QED
    BY <2>2, <2>3, <2>4 DEF IndexersInv
<1> QED
  BY <1>1, <1>2, SequentialKeeps, MoveChainKeeps DEF IndexersNext

LEMMA IndexersInvariant == IndexersSpec => []IndexersInv
<1>1. IndexersInit => IndexersInv
  BY InitIndexers
<1>2. IndexersInv /\ [IndexersNext]_indexersVars => IndexersInv'
  BY NextIndexers
<1> QED
  BY <1>1, <1>2, PTL DEF IndexersSpec

-----------------------------------------------------------------------------
\* However many workers there are and however they stop, close(results) comes
\* after the last of them has returned: no send can panic.
THEOREM CloseTheorem == IndexersSpec => []NoSendAfterClose
<1>1. IndexersInv => NoSendAfterClose
  BY DEF IndexersInv
<1> QED
  BY <1>1, IndexersInvariant, PTL

\* A nil error of either IndexRange means that the checkpoint has reached
\* endBlock and that the returned blocks are the newest ones of the store, in
\* ascending order without a gap, whatever the workers, the channels and the
\* context did.
THEOREM CompleteTheorem == IndexersSpec => []NilMeansComplete
<1>1. ASSUME IndexersInv PROVE NilMeansComplete
  <2>1. orderedResults \in Seq(Hash)
    BY <1>1 DEF IndexersInv, PoolTypes
  <2>2. DOMAIN orderedResults = 1..Len(orderedResults)
    BY <2>1
  <2> QED
    BY <1>1, <2>2 DEF IndexersInv, ResultInv, NilMeansComplete, CommittedUpTo
<1> QED
  BY <1>1, IndexersInvariant, PTL

\* A set whose elements are all equal has at most one.
LEMMA AtMostOne ==
    ASSUME NEW S, \A x, y \in S : x = y
    PROVE  IF S = {} THEN Cardinality(S) = 0 ELSE Cardinality(S) = 1
<1>1. CASE S = {}
  BY <1>1, FS_EmptySet
<1>2. CASE S # {}
  <2>1. PICK x : x \in S
    BY <1>2
  <2>2. S = {x}
    BY <2>1
  <2> QED
    BY <1>2, <2>2, FS_Singleton
<1> QED
  BY <1>1, <1>2

\* While a concurrent call runs no block number is given to two workers, sits
\* twice in the channel or gets lost on the way to the coordinator.
THEOREM PlacesTheorem == IndexersSpec => []EachBlockInOnePlace
<1>1. ASSUME IndexersInv PROVE EachBlockInOnePlace
  <2> SUFFICES ASSUME Running, NEW n \in nextCommit..endBlock
               PROVE  /\ Places(n) <= 1
                      /\ n < dispatch \/ (jobsClosed /\ ~ctxDone) => Places(n) = 1
    BY DEF EachBlockInOnePlace, Running, Concurrent
  <2> DEFINE W == {w \in Worker : worker[w].number = n /\ worker[w] # Idle /\ worker[w].pc # "exited"}
             R == {i \in DOMAIN results : results[i].number = n}
  <2>1. DOMAIN results = 1..Len(results)
    BY <1>1 DEF IndexersInv, PoolTypes
  <2>2. \A w \in Worker : w \in W <=> Busy(w) /\ worker[w].number = n
    BY <1>1 DEF IndexersInv, PoolTypes, WorkerState, Busy, Idle
  <2>3. \A i \in DOMAIN results : i \in R <=> results[i].number = n
    OBVIOUS
  <2>4. W \subseteq Worker /\ R \subseteq DOMAIN results
    OBVIOUS
  <2>5. Places(n) = Cardinality(W) + Cardinality(R) + (IF n \in DOMAIN pending THEN 1 ELSE 0)
    BY DEF Places
  <2> HIDE DEF W, R
  <2>6. /\ \A x, y \in W : x = y
        /\ \A x, y \in R : x = y
        /\ W = {} \/ R = {}
        /\ n \in DOMAIN pending => W = {} /\ R = {}
    BY <1>1, <2>1, <2>2, <2>3, <2>4 DEF IndexersInv, OnePlace
  <2>7. Located(n) <=> W # {} \/ R # {} \/ n \in DOMAIN pending
    BY <2>1, <2>2, <2>3, <2>4 DEF Located
  <2>8. Places(n) = IF Located(n) THEN 1 ELSE 0
    BY <2>5, <2>6, <2>7, AtMostOne
  <2>9. n < dispatch \/ (jobsClosed /\ ~ctxDone) => Located(n)
    BY <1>1 DEF IndexersInv, DispatchInv
  <2> QED
    BY <2>8, <2>9
<1> QED
  BY <1>1, IndexersInvariant, PTL

-----------------------------------------------------------------------------
(***************************************************************************)
(* The refinement.  What RangeIndexer calls fetched is, for the concurrent   *)
(* indexer, scattered over workers, channel and pending; OnePlace makes it a *)
(* function.                                                                 *)
(***************************************************************************)

\* The function a set of reads stands for.
ReadsOf(P) == [n \in {r.number : r \in P} |-> (CHOOSE r \in P : r.number = n).hash]

\* The fetched of RangeIndexer, as RangeIndexers maps it.
MappedFetched ==
    IF rangeState # "running" THEN NoRows
    ELSE IF implementation = "concurrent" THEN Fetched
    ELSE Sequential!SequentialFetched

OneReadEach(P) ==
    /\ P \subseteq Result
    /\ \A r, s \in P : r.number = s.number => r = s

\* With one read per block, the function has every read's hash.
LEMMA ReadsHave ==
    ASSUME NEW P, OneReadEach(P)
    PROVE  /\ DOMAIN ReadsOf(P) = {r.number : r \in P}
           /\ \A r \in P : ReadsOf(P)[r.number] = r.hash
<1>1. ASSUME NEW r \in P PROVE ReadsOf(P)[r.number] = r.hash
  <2> DEFINE s == CHOOSE q \in P : q.number = r.number
  <2>1. s \in P /\ s.number = r.number
    OBVIOUS
  <2>2. s = r
    BY <2>1 DEF OneReadEach
  <2>3. ReadsOf(P)[r.number] = s.hash
    BY DEF ReadsOf
  <2> QED
    BY <2>2, <2>3
<1> QED
  BY <1>1 DEF ReadsOf

\* A read added, or replacing the one of its block, is a Put.
LEMMA ReadsPut ==
    ASSUME NEW P, OneReadEach(P), NEW e \in Result
    PROVE  ReadsOf({r \in P : r.number # e.number} \cup {e}) =
               Contract!Put(ReadsOf(P), e.number, e.hash)
<1> DEFINE Q == {r \in P : r.number # e.number} \cup {e}
<1>1. OneReadEach(Q)
  BY DEF OneReadEach
<1>2. /\ DOMAIN ReadsOf(Q) = {r.number : r \in Q}
      /\ \A r \in Q : ReadsOf(Q)[r.number] = r.hash
  BY <1>1, ReadsHave
<1>3. /\ DOMAIN ReadsOf(P) = {r.number : r \in P}
      /\ \A r \in P : ReadsOf(P)[r.number] = r.hash
  BY ReadsHave
<1>4. ReadsOf(Q) = [n \in DOMAIN ReadsOf(Q) |-> ReadsOf(Q)[n]]
  BY DEF ReadsOf
<1>5. {r.number : r \in Q} = {r.number : r \in P} \cup {e.number}
  OBVIOUS
<1>6. ASSUME NEW n \in {r.number : r \in Q}
      PROVE  ReadsOf(Q)[n] = IF n = e.number THEN e.hash ELSE ReadsOf(P)[n]
  <2>1. PICK r \in Q : r.number = n
    OBVIOUS
  <2> QED
    BY <1>2, <1>3, <2>1
<1> HIDE DEF Q
<1>7. ReadsOf(Q) = [n \in DOMAIN ReadsOf(P) \cup {e.number} |->
                      IF n = e.number THEN e.hash ELSE ReadsOf(P)[n]]
  BY <1>2, <1>3, <1>4, <1>5, <1>6
<1> QED
  BY <1>7 DEF Contract!Put, Q

\* A block whose read is gone is a Without.
LEMMA ReadsWithout ==
    ASSUME NEW P, OneReadEach(P), NEW k
    PROVE  ReadsOf({r \in P : r.number # k}) = Contract!Without(ReadsOf(P), k)
<1> DEFINE Q == {r \in P : r.number # k}
<1>1. OneReadEach(Q)
  BY DEF OneReadEach
<1>2. /\ DOMAIN ReadsOf(Q) = {r.number : r \in Q}
      /\ \A r \in Q : ReadsOf(Q)[r.number] = r.hash
  BY <1>1, ReadsHave
<1>3. /\ DOMAIN ReadsOf(P) = {r.number : r \in P}
      /\ \A r \in P : ReadsOf(P)[r.number] = r.hash
  BY ReadsHave
<1>4. ReadsOf(Q) = [n \in DOMAIN ReadsOf(Q) |-> ReadsOf(Q)[n]]
  BY DEF ReadsOf
<1>5. {r.number : r \in Q} = {r.number : r \in P} \ {k}
  OBVIOUS
<1>6. ASSUME NEW n \in {r.number : r \in Q}
      PROVE  ReadsOf(Q)[n] = ReadsOf(P)[n]
  <2>1. PICK r \in Q : r.number = n
    OBVIOUS
  <2> QED
    BY <1>2, <1>3, <2>1
<1> HIDE DEF Q
<1>7. ReadsOf(Q) = [n \in DOMAIN ReadsOf(P) \ {k} |-> ReadsOf(P)[n]]
  BY <1>2, <1>3, <1>4, <1>5, <1>6
<1> QED
  BY <1>7 DEF Contract!Without, Q

\* What has been read, element by element.
LEMMA ReadBlocksAre ==
    ASSUME IndexersInv
    PROVE  /\ OneReadEach(ReadBlocks)
           /\ Fetched = ReadsOf(ReadBlocks)
           /\ \A e : e \in ReadBlocks <=>
                 \/ \E w \in InHand : e = [number |-> worker[w].number, hash |-> worker[w].hash]
                 \/ \E i \in 1..Len(results) : e = results[i]
                 \/ \E n \in DOMAIN pending : e = [number |-> n, hash |-> pending[n]]
<1>1. \A e : e \in ReadBlocks <=>
          \/ \E w \in InHand : e = [number |-> worker[w].number, hash |-> worker[w].hash]
          \/ \E i \in 1..Len(results) : e = results[i]
          \/ \E n \in DOMAIN pending : e = [number |-> n, hash |-> pending[n]]
  <2>1. DOMAIN results = 1..Len(results)
    BY DEF IndexersInv, PoolTypes
  <2> QED
    BY <2>1 DEF ReadBlocks
<1>2. ReadBlocks \subseteq Result
  <2>1. \A w \in InHand : [number |-> worker[w].number, hash |-> worker[w].hash] \in Result
    BY DEF IndexersInv, PoolTypes, WorkerState, Result, InHand
  <2>2. \A i \in 1..Len(results) : results[i] \in Result
    BY DEF IndexersInv, PoolTypes
  <2>3. \A n \in DOMAIN pending : [number |-> n, hash |-> pending[n]] \in Result
    BY DEF IndexersInv, PoolTypes, Result
  <2> QED
    BY <1>1, <2>1, <2>2, <2>3
<1>3. \A w \in InHand : w \in Worker /\ Busy(w)
  BY DEF InHand, Busy
<1>4. ASSUME NEW r \in ReadBlocks, NEW s \in ReadBlocks, r.number = s.number
      PROVE  r = s
  BY <1>1, <1>3, <1>4 DEF IndexersInv, OnePlace
<1>5. Fetched = ReadsOf(ReadBlocks)
  BY DEF Fetched, ReadsOf
<1> QED
  BY <1>1, <1>2, <1>4, <1>5 DEF OneReadEach

\* The variables of RangeIndexer, seen from here.
ContractVars == <<Contract!chainVars, Contract!storeVars, Contract!rangeVars>>

LEMMA ContractStutters ==
    ASSUME UNCHANGED <<chainVars, storeVars, rangeState, endBlock, nextCommit, expectedParentHash>>,
           MappedFetched' = MappedFetched
    PROVE  UNCHANGED ContractVars
  BY DEF ContractVars, Contract!chainVars, Contract!storeVars, Contract!rangeVars, chainVars, storeVars,
         MappedFetched

\* Saving a block is the same transaction on both sides.
LEMMA SameSave ==
    ASSUME NEW b, SaveIndexedBlock(b)
    PROVE  Contract!SaveIndexedBlock(b)
  BY DEF SaveIndexedBlock, Contract!SaveIndexedBlock, HashConflict, Contract!HashConflict,
         InsertTransfers, Contract!InsertTransfers, RecordIndexedBlock, Contract!RecordIndexedBlock,
         RecordedParent, Contract!RecordedParent

\* The call begins.
LEMMA ContractCalls ==
    ASSUME NEW start \in 0..MaxHeight, NEW end \in 0..MaxHeight,
           rangeState = "off", start <= end, endBlock' = end,
           IF AlreadyIndexed(start, end)
           THEN rangeState' = "done" /\ UNCHANGED <<nextCommit, expectedParentHash>>
           ELSE /\ rangeState' = "running"
                /\ nextCommit' = NextBlock(start)
                /\ expectedParentHash' = FirstExpectedParent(start),
           UNCHANGED <<chainVars, storeVars>>, MappedFetched' = MappedFetched
    PROVE  Contract!RangeNext
<1>1. Contract!IndexRange(start, end)
  BY DEF Contract!IndexRange, Contract!AlreadyIndexed, AlreadyIndexed, Contract!Resumes, Resumes,
         Contract!Exists, Exists, Contract!NextBlock, NextBlock, Contract!FirstExpectedParent,
         FirstExpectedParent, Contract!storeVars, storeVars, MappedFetched
<1> QED
  BY <1>1 DEF Contract!RangeNext, Contract!chainVars, chainVars

\* The call returns an error, or refuses to begin.
LEMMA ContractFails ==
    ASSUME rangeState \in {"off", "running"}, rangeState' = "failed",
           UNCHANGED <<chainVars, storeVars, endBlock, nextCommit, expectedParentHash>>
    PROVE  Contract!RangeNext
<1>1. MappedFetched' = NoRows
  BY DEF MappedFetched, NoRows
<1>2. CASE rangeState = "running"
  <2>1. Contract!RangeError
    BY <1>1, <1>2 DEF Contract!RangeError, Contract!ReturnRange, Contract!storeVars, storeVars,
                      Contract!NoRows, NoRows, MappedFetched
  <2> QED
    BY <2>1 DEF Contract!RangeNext, Contract!RangeFault, Contract!chainVars, chainVars
<1>3. CASE rangeState = "off"
  <2>1. MappedFetched = NoRows
    BY <1>3 DEF MappedFetched
  <2>2. Contract!RangeRefused
    BY <1>1, <1>3, <2>1 DEF Contract!RangeRefused, Contract!storeVars, storeVars, MappedFetched
  <2> QED
    BY <2>2 DEF Contract!RangeNext, Contract!chainVars, chainVars
<1> QED
  BY <1>2, <1>3

\* A header was read, or reading the header or the logs failed.
LEMMA ContractReads ==
    ASSUME rangeState = "running", NEW n \in 0..MaxHeight, n \in nextCommit..endBlock, NEW h,
           MappedFetched' = Contract!Put(MappedFetched, n, h),
           h = NoHash \/ (n \notin DOMAIN MappedFetched /\ HasBlock(n) /\ h = canonical[n]),
           UNCHANGED <<chainVars, storeVars, rangeState, endBlock, nextCommit, expectedParentHash>>
    PROVE  Contract!RangeNext
<1>1. CASE h = NoHash
  <2>1. Contract!FetchError(n)
    BY <1>1 DEF Contract!FetchError, Contract!storeVars, storeVars, MappedFetched
  <2> QED
    BY <2>1 DEF Contract!RangeNext, Contract!RangeFault, Contract!chainVars, chainVars
<1>2. CASE n \notin DOMAIN MappedFetched /\ HasBlock(n) /\ h = canonical[n]
  <2>1. Contract!Fetch(n)
    BY <1>2 DEF Contract!Fetch, Contract!storeVars, storeVars, MappedFetched, Contract!HasBlock, HasBlock
  <2> QED
    BY <2>1 DEF Contract!RangeNext, Contract!RangeStep, Contract!chainVars, chainVars
<1> QED
  BY <1>1, <1>2

\* The next block is saved, and the call goes on, ends, or loses the answer.
LEMMA ContractSaves ==
    ASSUME rangeState = "running", NEW b, b # NoHash, LogsDecode(b),
           ValidParent(b, expectedParentHash), SaveIndexedBlock(b),
           nextCommit \in DOMAIN MappedFetched, MappedFetched[nextCommit] = b,
           \/ /\ expectedParentHash' = b
              /\ \/ nextCommit = endBlock /\ rangeState' = "done" /\ UNCHANGED nextCommit
                 \/ /\ nextCommit # endBlock /\ rangeState' = rangeState /\ nextCommit' = nextCommit + 1
                    /\ MappedFetched' = Contract!Without(MappedFetched, nextCommit)
           \/ rangeState' = "failed" /\ UNCHANGED <<nextCommit, expectedParentHash>>,
           UNCHANGED <<chainVars, endBlock>>
    PROVE  Contract!RangeNext
<1>1. Contract!ReadyToCommit /\ Contract!SaveIndexedBlock(MappedFetched[nextCommit])
  BY SameSave DEF Contract!ReadyToCommit, MappedFetched, Contract!LogsDecode, LogsDecode,
                  Contract!ValidParent, ValidParent
<1>2. rangeState' # "running" => MappedFetched' = Contract!NoRows
  BY DEF MappedFetched, NoRows, Contract!NoRows
<1>3. CASE expectedParentHash' = b /\ nextCommit = endBlock /\ rangeState' = "done" /\ UNCHANGED nextCommit
  <2>1. Contract!CommitNext
    BY <1>1, <1>2, <1>3 DEF Contract!CommitNext, Contract!ReturnRange, MappedFetched
  <2> QED
    BY <2>1 DEF Contract!RangeNext, Contract!RangeStep, Contract!chainVars, chainVars
<1>4. CASE /\ expectedParentHash' = b
           /\ nextCommit # endBlock /\ rangeState' = rangeState /\ nextCommit' = nextCommit + 1
           /\ MappedFetched' = Contract!Without(MappedFetched, nextCommit)
  <2>1. Contract!CommitNext
    BY <1>1, <1>4 DEF Contract!CommitNext, MappedFetched
  <2> QED
    BY <2>1 DEF Contract!RangeNext, Contract!RangeStep, Contract!chainVars, chainVars
<1>5. CASE rangeState' = "failed" /\ UNCHANGED <<nextCommit, expectedParentHash>>
  <2>1. Contract!SaveAnswerLost
    BY <1>1, <1>2, <1>5 DEF Contract!SaveAnswerLost, Contract!ReturnRange, MappedFetched
  <2> QED
    BY <2>1 DEF Contract!RangeNext, Contract!RangeFault, Contract!chainVars, chainVars
<1> QED
  BY <1>3, <1>4, <1>5

\* The goroutines never change the call; without a new read they are invisible.
LEMMA PoolStutters ==
    ASSUME Concurrent, SequentialUnused, UNCHANGED <<chainVars, storeVars, callVars>>,
           rangeState = "running" => ReadBlocks' = ReadBlocks
    PROVE  UNCHANGED ContractVars
<1>1. /\ implementation' = implementation /\ implementation = "concurrent"
      /\ UNCHANGED <<rangeState, endBlock, nextCommit, expectedParentHash>>
  BY DEF SequentialUnused, Concurrent, callVars
<1>2. MappedFetched' = MappedFetched
  <2>1. rangeState = "running" => Fetched' = Fetched
    BY DEF Fetched
  <2> QED
    BY <1>1, <2>1 DEF MappedFetched, NoRows
<1> QED
  BY <1>1, <1>2, ContractStutters

LEMMA HandsKeep ==
    ASSUME UNCHANGED <<results, pending>>, InHand' = InHand,
           \A w \in InHand : worker'[w].number = worker[w].number /\ worker'[w].hash = worker[w].hash
    PROVE  ReadBlocks' = ReadBlocks
  BY DEF ReadBlocks

\* The steps by which nothing is read and nothing changes its place.
LEMMA QuietStutters ==
    ASSUME IndexersInv, Concurrent, SequentialUnused,
           \/ DispatcherCancelled \/ CloseResults \/ CancelContext
           \/ \E w \in Worker : Dispatch(w) \/ DropResult(w) \/ WorkerExit(w)
    PROVE  UNCHANGED ContractVars
<1>1. worker \in [Worker -> WorkerState]
  BY DEF IndexersInv, PoolTypes
<1>2. UNCHANGED <<results, pending>> /\ UNCHANGED <<chainVars, storeVars, callVars>>
  BY DEF DispatcherCancelled, CloseResults, CancelContext, Dispatch, DropResult, WorkerExit, UnchangedCall,
         callVars, poolVars
<1>3. /\ InHand' = InHand
      /\ \A w \in InHand : worker'[w].number = worker[w].number /\ worker'[w].hash = worker[w].hash
  <2>1. CASE DispatcherCancelled \/ CloseResults \/ CancelContext
    BY <2>1 DEF DispatcherCancelled, CloseResults, CancelContext, poolVars, InHand
  <2>2. ASSUME NEW w \in Worker, Dispatch(w) \/ DropResult(w) \/ WorkerExit(w)
        PROVE  /\ \A u \in Worker : u # w => worker'[u] = worker[u]
               /\ \/ worker[w].pc = "receive" /\ worker'[w].pc \in {"header", "exited"}
                  \/ /\ worker[w].pc = "send" /\ worker'[w].pc = "dropped"
                     /\ worker'[w].number = worker[w].number /\ worker'[w].hash = worker[w].hash
    BY <1>1, <2>2 DEF Dispatch, DropResult, WorkerExit, WorkerState
  <2> QED
    BY <2>1, <2>2 DEF InHand
<1> QED
  BY <1>2, <1>3, HandsKeep, PoolStutters

\* Worker w reads its block, or reads it again as an error.
LEMMA ReadReplaced ==
    ASSUME IndexersInv, NEW w \in Worker, Busy(w), UNCHANGED <<results, pending>>,
           InHand' = InHand \cup {w}, \A u \in InHand : u # w => worker'[u] = worker[u],
           worker'[w].number = worker[w].number
    PROVE  ReadBlocks' = {r \in ReadBlocks : r.number # worker[w].number}
                         \cup {[number |-> worker[w].number, hash |-> worker'[w].hash]}
<1> DEFINE e == [number |-> worker[w].number, hash |-> worker'[w].hash]
<1>1. \A x : x \in ReadBlocks' <=>
          \/ x = e
          \/ \E u \in InHand : u # w /\ x = [number |-> worker[u].number, hash |-> worker[u].hash]
          \/ \E i \in 1..Len(results) : x = results[i]
          \/ \E n \in DOMAIN pending : x = [number |-> n, hash |-> pending[n]]
  <2>1. DOMAIN results = 1..Len(results)
    BY DEF IndexersInv, PoolTypes
  <2> QED
    BY <2>1 DEF ReadBlocks
<1>2. \A u \in InHand : u \in Worker /\ Busy(u)
  BY DEF InHand, Busy
<1>3. \A x : x \in ReadBlocks /\ x.number # worker[w].number <=>
          \/ \E u \in InHand : u # w /\ x = [number |-> worker[u].number, hash |-> worker[u].hash]
          \/ \E i \in 1..Len(results) : x = results[i]
          \/ \E n \in DOMAIN pending : x = [number |-> n, hash |-> pending[n]]
  BY <1>2, ReadBlocksAre DEF IndexersInv, OnePlace
<1> QED
  BY <1>1, <1>3

\* A read of worker w is one Fetch or FetchError of RangeIndexer, or is not
\* seen once the call has returned.
LEMMA ReadRefines ==
    ASSUME IndexersInv, Concurrent, SequentialUnused, UnchangedCall, UNCHANGED results,
           NEW w \in Worker, Busy(w), NEW h \in Hash \cup {NoHash},
           InHand' = InHand \cup {w}, \A u \in InHand : u # w => worker'[u] = worker[u],
           worker'[w].number = worker[w].number, worker'[w].hash = h,
           h = NoHash \/ (worker[w].pc = "header" /\ HasBlock(worker[w].number)
                          /\ h = canonical[worker[w].number])
    PROVE  Contract!RangeNext \/ UNCHANGED ContractVars
<1> DEFINE n == worker[w].number
<1> DEFINE e == [number |-> n, hash |-> h]
<1>1. /\ UNCHANGED <<chainVars, storeVars, callVars>>
      /\ UNCHANGED <<rangeState, endBlock, nextCommit, expectedParentHash, pending, implementation>>
  BY DEF UnchangedCall, callVars, SequentialUnused
<1>2. CASE rangeState # "running"
  BY <1>1, <1>2, PoolStutters
<1>3. CASE rangeState = "running"
  <2>1. n \in 0..MaxHeight /\ e \in Result
    BY DEF IndexersInv, PoolTypes, WorkerState, Result
  <2>2. Located(n)
    BY DEF Located
  <2>3. n \in nextCommit..endBlock
    BY <1>3, <2>1, <2>2 DEF IndexersInv, DispatchInv, Running
  <2>4. ReadBlocks' = {r \in ReadBlocks : r.number # n} \cup {e}
    BY <1>1, ReadReplaced
  <2>5. OneReadEach(ReadBlocks) /\ Fetched = ReadsOf(ReadBlocks) /\ Fetched' = ReadsOf(ReadBlocks')
    BY ReadBlocksAre DEF Fetched, ReadsOf
  <2>6. MappedFetched = Fetched /\ MappedFetched' = Fetched'
    BY <1>1, <1>3 DEF MappedFetched, Concurrent
  <2>7. ReadsOf({r \in ReadBlocks : r.number # e.number} \cup {e}) =
            Contract!Put(ReadsOf(ReadBlocks), e.number, e.hash)
    BY <2>1, <2>5, ReadsPut
  <2>8. MappedFetched' = Contract!Put(MappedFetched, n, h)
    BY <2>4, <2>5, <2>6, <2>7
  <2>9. worker[w].pc = "header" => n \notin DOMAIN MappedFetched
    <3>1. DOMAIN MappedFetched = {r.number : r \in ReadBlocks}
      BY <2>5, <2>6, ReadsHave
    <3>2. \A u \in InHand : u \in Worker /\ Busy(u) /\ worker[u].pc # "header"
      BY DEF InHand, Busy
    <3>3. worker[w].pc = "header" => \A r \in ReadBlocks : r.number # n
      BY <3>2, ReadBlocksAre DEF IndexersInv, OnePlace
    <3> QED
      BY <3>1, <3>3
  <2> QED
    BY <1>1, <1>3, <2>1, <2>3, <2>8, <2>9, ContractReads
<1> QED
  BY <1>2, <1>3

\* Reading headers and logs.
LEMMA FetchRefines ==
    ASSUME IndexersInv, Concurrent, SequentialUnused, NEW w \in Worker, FetchHeader(w) \/ FetchLogs(w)
    PROVE  Contract!RangeNext \/ UNCHANGED ContractVars
<1>1. /\ worker \in [Worker -> WorkerState] /\ ChainTypeOK
      /\ worker[w].number \in 0..MaxHeight /\ worker[w].hash \in Hash \cup {NoHash}
      /\ worker[w].pc = "header" => worker[w].hash = NoHash
  BY DEF IndexersInv, PoolTypes, CallTypes, ReadInv, WorkerState
<1>2. UnchangedCall /\ UNCHANGED <<results, pending>> /\ UNCHANGED <<chainVars, storeVars, callVars>>
  BY DEF FetchHeader, FetchLogs, UnchangedCall, callVars
<1>3. Busy(w)
  BY DEF FetchHeader, FetchLogs, Busy
<1> DEFINE n == worker[w].number
<1>4. CASE FetchHeader(w)
  <2>1. ASSUME NEW h \in Hash \cup {NoHash}, NEW p \in {"logs", "send"},
               h = NoHash \/ (HasBlock(n) /\ h = canonical[n]),
               \A u \in Worker : u # w => worker'[u] = worker[u],
               worker'[w].pc = p, worker'[w].number = n, worker'[w].hash = h
        PROVE  Contract!RangeNext \/ UNCHANGED ContractVars
    <3>1. InHand' = InHand \cup {w} /\ \A u \in InHand : u # w => worker'[u] = worker[u]
      BY <2>1 DEF InHand
    <3> QED
      BY <1>2, <1>3, <1>4, <2>1, <3>1, ReadRefines DEF FetchHeader
  <2>2. CASE HasBlock(n) /\ worker' = [worker EXCEPT ![w].pc = "logs", ![w].hash = canonical[n]]
    <3>1. canonical[n] \in Hash
      BY <1>1, <2>2, CanonicalBlock
    <3>2. /\ \A u \in Worker : u # w => worker'[u] = worker[u]
          /\ worker'[w].pc = "logs" /\ worker'[w].number = n /\ worker'[w].hash = canonical[n]
      BY <1>1, <2>2 DEF WorkerState
    <3> QED
      BY <2>1, <2>2, <3>1, <3>2
  <2>3. CASE worker' = [worker EXCEPT ![w].pc = "send"]
    <3>1. /\ \A u \in Worker : u # w => worker'[u] = worker[u]
          /\ worker'[w].pc = "send" /\ worker'[w].number = n /\ worker'[w].hash = NoHash
      BY <1>1, <1>4, <2>3 DEF WorkerState, FetchHeader
    <3> QED
      BY <2>1, <3>1
  <2> QED
    BY <1>4, <2>2, <2>3 DEF FetchHeader
<1>5. CASE FetchLogs(w)
  <2>1. /\ \A u \in Worker : u # w => worker'[u] = worker[u]
        /\ worker[w].pc = "logs" /\ worker'[w].pc = "send" /\ worker'[w].number = n
        /\ worker'[w].hash = NoHash \/ worker'[w].hash = worker[w].hash
    BY <1>1, <1>5 DEF FetchLogs, WorkerState
  <2>2. InHand' = InHand /\ w \in InHand /\ InHand' = InHand \cup {w} /\ InHand \subseteq Worker
    BY <2>1 DEF InHand
  <2>3. CASE worker'[w].hash = worker[w].hash
    BY <1>2, <2>1, <2>2, <2>3, HandsKeep, PoolStutters
  <2>4. CASE worker'[w].hash = NoHash
    BY <1>2, <1>3, <2>1, <2>2, <2>4, ReadRefines
  <2> QED
    BY <2>1, <2>3, <2>4
<1> QED
  BY <1>4, <1>5

\* Handing a read on, from the worker to the channel and from there to
\* pending, is not seen.
LEMMA HandOnStutters ==
    ASSUME IndexersInv, Concurrent, SequentialUnused,
           Receive \/ \E w \in Worker : SendResult(w)
    PROVE  UNCHANGED ContractVars
<1> DEFINE InChannel(x) == \E i \in 1..Len(results) : x = results[i]
           IsPending(x) == \E n \in DOMAIN pending : x = [number |-> n, hash |-> pending[n]]
           InHands(x) == \E w \in InHand : x = [number |-> worker[w].number, hash |-> worker[w].hash]
<1>1. results \in Seq(Result) /\ worker \in [Worker -> WorkerState] /\ OnePlace
  BY DEF IndexersInv, PoolTypes
<1>2. \A x : x \in ReadBlocks <=> InHands(x) \/ InChannel(x) \/ IsPending(x)
  BY ReadBlocksAre
<1>3. CASE Receive
  <2> DEFINE r == Head(results)
  <2>1. /\ results # <<>> /\ results' = Tail(results) /\ worker' = worker
        /\ DOMAIN pending' = DOMAIN pending \cup {r.number}
        /\ pending'[r.number] = r.hash
        /\ \A n \in DOMAIN pending : n # r.number => pending'[n] = pending[n]
        /\ UNCHANGED <<chainVars, storeVars, rangeState, endBlock, nextCommit, expectedParentHash>>
        /\ UNCHANGED implementation
    BY <1>3 DEF Receive, SequentialUnused
  <2>2. /\ Len(results) \in Nat /\ Len(results) >= 1 /\ r = results[1] /\ r \in Result
        /\ results' \in Seq(Result) /\ Len(results') = Len(results) - 1
        /\ \A i \in 1..Len(results') : i + 1 \in 1..Len(results) /\ results'[i] = results[i + 1]
    BY <1>1, <2>1, ChannelReceive
  <2>3. r.number \notin DOMAIN pending /\ r = [number |-> r.number, hash |-> r.hash]
    BY <1>1, <2>2 DEF OnePlace, Result
  <2> HIDE DEF r
  <2>4. \A x : InChannel(x) <=> x = r \/ \E i \in 1..Len(results') : x = results'[i]
    <3>1. \A i \in 1..Len(results) : i = 1 \/ (i - 1 \in 1..Len(results') /\ results'[i - 1] = results[i])
      BY <2>2
    <3>2. ASSUME NEW x, NEW i \in 1..Len(results), x = results[i], x # r
          PROVE  \E j \in 1..Len(results') : x = results'[j]
      BY <2>2, <3>1, <3>2
    <3>3. ASSUME NEW x, NEW j \in 1..Len(results'), x = results'[j]
          PROVE  InChannel(x)
      BY <2>2, <3>3
    <3>4. InChannel(r)
      BY <2>2
    <3> QED
      BY <3>2, <3>3, <3>4
  <2>5. \A x : (\E n \in DOMAIN pending' : x = [number |-> n, hash |-> pending'[n]]) <=> x = r \/ IsPending(x)
    BY <2>1, <2>3
  <2>6. \A x : x \in ReadBlocks' <=>
            \/ InHands(x)
            \/ \E i \in 1..Len(results') : x = results'[i]
            \/ \E n \in DOMAIN pending' : x = [number |-> n, hash |-> pending'[n]]
    <3>1. DOMAIN results' = 1..Len(results') /\ InHand' = InHand
      BY <2>1, <2>2 DEF InHand
    <3> QED
      BY <2>1, <3>1 DEF ReadBlocks
  <2> HIDE DEF InChannel, IsPending, InHands
  <2>7. ReadBlocks' = ReadBlocks
    BY <1>2, <2>4, <2>5, <2>6
  <2>8. MappedFetched' = MappedFetched
    BY <2>1, <2>7 DEF MappedFetched, Fetched, Concurrent, NoRows
  <2> QED
    BY <2>1, <2>8, ContractStutters
<1>4. ASSUME NEW w \in Worker, SendResult(w)
      PROVE  UNCHANGED ContractVars
  <2> DEFINE r == [number |-> worker[w].number, hash |-> worker[w].hash]
  <2>1. /\ worker[w].pc = "send" /\ results' = Append(results, r)
        /\ worker' = [worker EXCEPT ![w] = Idle]
        /\ UNCHANGED <<chainVars, storeVars, callVars>> /\ pending' = pending
    BY <1>4 DEF SendResult, UnchangedCall, callVars
  <2>2. r \in Result /\ w \in InHand
    BY <1>1, <2>1 DEF WorkerState, Result, InHand
  <2>3. /\ \A u \in Worker : u # w => worker'[u] = worker[u]
        /\ InHand' = InHand \ {w} /\ InHand \subseteq Worker
    BY <1>1, <2>1 DEF InHand, Idle
  <2>4. \A x : InHands(x) <=>
            x = r \/ \E u \in InHand' : x = [number |-> worker'[u].number, hash |-> worker'[u].hash]
    BY <2>2, <2>3
  <2> HIDE DEF r
  <2>5. /\ Len(results) \in Nat /\ results' \in Seq(Result) /\ Len(results') = Len(results) + 1
        /\ results'[Len(results) + 1] = r
        /\ \A i \in 1..Len(results) : results'[i] = results[i]
    BY <1>1, <2>1, <2>2, ChannelSend
  <2>6. \A x : (\E i \in 1..Len(results') : x = results'[i]) <=> x = r \/ InChannel(x)
    BY <2>5
  <2>7. \A x : x \in ReadBlocks' <=>
            \/ \E u \in InHand' : x = [number |-> worker'[u].number, hash |-> worker'[u].hash]
            \/ \E i \in 1..Len(results') : x = results'[i]
            \/ IsPending(x)
    <3>1. DOMAIN results' = 1..Len(results')
      BY <2>5
    <3> QED
      BY <2>1, <3>1 DEF ReadBlocks
  <2> HIDE DEF InChannel, IsPending, InHands
  <2>8. ReadBlocks' = ReadBlocks
    BY <1>2, <2>4, <2>6, <2>7
  <2> QED
    BY <2>1, <2>8, PoolStutters
<1> QED
  BY <1>3, <1>4

\* The coordinator's commit, and a commit whose answer was lost.
LEMMA CommitRefines ==
    ASSUME IndexersInv, Concurrent, SequentialUnused, Commit \/ SaveFails
    PROVE  Contract!RangeNext
<1> DEFINE b == pending[nextCommit]
<1>1. /\ rangeState = "running" /\ nextCommit \in DOMAIN pending /\ b # NoHash
      /\ ValidParent(b, expectedParentHash)
      /\ UNCHANGED <<chainVars, endBlock, ctxDone, poolVars, implementation>>
  BY DEF Commit, SaveFails, Acceptable, Found, SequentialUnused
<1>2. b \in Hash /\ LogsDecode(b)
  BY <1>1 DEF IndexersInv, PoolTypes, ReadInv, Complete
<1> DEFINE e == [number |-> nextCommit, hash |-> b]
<1>3. e \in ReadBlocks /\ OneReadEach(ReadBlocks) /\ Fetched = ReadsOf(ReadBlocks)
  BY <1>1, ReadBlocksAre
<1>4. MappedFetched = Fetched
  BY <1>1 DEF MappedFetched, Concurrent
<1>5. nextCommit \in DOMAIN MappedFetched /\ MappedFetched[nextCommit] = b
  <2>1. e.number = nextCommit /\ e.hash = b
    OBVIOUS
  <2>2. e.number \in DOMAIN ReadsOf(ReadBlocks) /\ ReadsOf(ReadBlocks)[e.number] = e.hash
    BY <1>3, ReadsHave
  <2> QED
    BY <1>3, <1>4, <2>1, <2>2
<1>6. CASE Commit
  <2>1. /\ SaveIndexedBlock(b) /\ expectedParentHash' = b
        /\ \/ nextCommit = endBlock /\ rangeState' = "done" /\ UNCHANGED nextCommit
           \/ nextCommit # endBlock /\ rangeState' = rangeState /\ nextCommit' = nextCommit + 1
        /\ DOMAIN pending' = DOMAIN pending \ {nextCommit}
        /\ \A n \in DOMAIN pending' : pending'[n] = pending[n]
        /\ UNCHANGED <<results, worker>>
    BY <1>6 DEF Commit, poolVars
  <2>2. \A x : x \in ReadBlocks' <=>
            \/ \E w \in InHand : x = [number |-> worker[w].number, hash |-> worker[w].hash]
            \/ \E i \in 1..Len(results) : x = results[i]
            \/ \E n \in DOMAIN pending : n # nextCommit /\ x = [number |-> n, hash |-> pending[n]]
    <3>1. DOMAIN results = 1..Len(results) /\ InHand' = InHand
      BY <2>1 DEF IndexersInv, PoolTypes, InHand
    <3> QED
      BY <2>1, <3>1 DEF ReadBlocks
  <2>3. /\ \A w \in InHand : worker[w].number # nextCommit
        /\ \A i \in 1..Len(results) : results[i].number # nextCommit
    BY <1>1 DEF IndexersInv, OnePlace, InHand, Busy
  <2>4. ReadBlocks' = {r \in ReadBlocks : r.number # nextCommit}
    BY <2>2, <2>3, ReadBlocksAre
  <2>5. Fetched' = Contract!Without(Fetched, nextCommit)
    <3>1. Fetched' = ReadsOf(ReadBlocks')
      BY DEF Fetched, ReadsOf
    <3> QED
      BY <1>3, <2>4, <3>1, ReadsWithout
  <2>6. rangeState' = rangeState => MappedFetched' = Contract!Without(MappedFetched, nextCommit)
    BY <1>1, <1>4, <2>5 DEF MappedFetched, Concurrent
  <2> QED
    BY <1>1, <1>2, <1>5, <2>1, <2>6, ContractSaves
<1>7. CASE SaveFails
  <2>1. rangeState' = "failed" /\ UNCHANGED <<nextCommit, expectedParentHash>>
    BY <1>7 DEF SaveFails
  <2>2. CASE UNCHANGED storeVars
    BY <1>1, <2>1, <2>2, ContractFails
  <2>3. CASE SaveIndexedBlock(b)
    BY <1>1, <1>2, <1>5, <2>1, <2>3, ContractSaves
  <2> QED
    BY <1>7, <2>2, <2>3 DEF SaveFails
<1> QED
  BY <1>6, <1>7

\* The concurrent call begins with nothing read.
LEMMA CallRefines ==
    ASSUME IndexersInv, Concurrent, SequentialUnused,
           NEW start \in 0..MaxHeight, NEW end \in 0..MaxHeight, Call(start, end)
    PROVE  Contract!RangeNext
<1>1. /\ rangeState = "off" /\ start <= end /\ endBlock' = end
      /\ UNCHANGED <<chainVars, storeVars, pending, results, implementation>>
  BY DEF Call, SequentialUnused
<1>2. DOMAIN pending = {} /\ DOMAIN results = {}
  BY <1>1 DEF IndexersInv, PoolAtRest
<1>3. rangeState' = "running" => ReadBlocks' = {}
  <2>1. rangeState' = "running" => worker' = [w \in Worker |-> Idle]
    BY DEF Call, StartGoroutines
  <2>2. rangeState' = "running" => InHand' = {}
    BY <2>1 DEF InHand, Idle
  <2> QED
    BY <1>1, <1>2, <2>2 DEF ReadBlocks
<1>4. rangeState' = "running" => Fetched' = NoRows
  <2>1. Fetched' = ReadsOf(ReadBlocks')
    BY DEF Fetched, ReadsOf
  <2>2. ReadsOf({}) = NoRows
    BY DEF ReadsOf, NoRows
  <2> QED
    BY <1>3, <2>1, <2>2
<1>5. MappedFetched = NoRows /\ MappedFetched' = NoRows
  BY <1>1, <1>4 DEF MappedFetched, Concurrent, NoRows
<1> QED
  BY <1>1, <1>5, ContractCalls DEF Call

LEMMA ConcurrentRefines ==
    ASSUME IndexersInv, ConcurrentStep
    PROVE  Contract!RangeNext \/ UNCHANGED ContractVars
<1>1. Concurrent /\ SequentialUnused
  BY DEF ConcurrentStep, Concurrent
<1>2. CASE Invoke
  <2>1. CASE Refuse
    BY <2>1, ContractFails DEF Refuse
  <2> QED
    BY <1>1, <1>2, <2>1, CallRefines DEF Invoke
<1>3. CASE Coordinator
  <2>1. CASE Reject
    BY <2>1, ContractFails DEF Reject, Found
  <2>2. CASE ResultsExhausted
    <3>1. ctxDone
      BY <1>1, <2>2, ExhaustedMeansCancelled
    <3> QED
      BY <2>2, <3>1, ContractFails DEF ResultsExhausted
  <2> QED
    BY <1>1, <1>3, <2>1, <2>2, CommitRefines, HandOnStutters DEF Coordinator
<1>4. CASE Dispatcher \/ CloseResults \/ CancelContext
  BY <1>1, <1>4, QuietStutters DEF Dispatcher
<1>5. ASSUME NEW w \in Worker, WorkerStep(w)
      PROVE  Contract!RangeNext \/ UNCHANGED ContractVars
  BY <1>1, <1>5, FetchRefines, HandOnStutters, QuietStutters DEF WorkerStep
<1> QED
  BY <1>2, <1>3, <1>4, <1>5 DEF ConcurrentStep

\* The sequential indexer has read at most the block of its loop variable.
LEMMA SequentialRefines ==
    ASSUME IndexersInv, SequentialStep
    PROVE  Contract!RangeNext \/ UNCHANGED ContractVars
<1> DEFINE Read == Sequential!SequentialFetched
<1>1. /\ implementation = "sequential" /\ implementation' = "sequential" /\ UNCHANGED chainVars
      /\ SequentialInv /\ CallTypes
  BY DEF SequentialStep, ConcurrentUnused, IndexersInv
<1>2. /\ rangeState # "running" => MappedFetched = NoRows
      /\ rangeState = "running" => MappedFetched = Read
      /\ rangeState' # "running" => MappedFetched' = NoRows
      /\ rangeState' = "running" => MappedFetched' = Read'
  BY <1>1 DEF MappedFetched, NoRows
<1>3. /\ block = NoHash => Read = NoRows
      /\ block # NoHash => Read = [n \in {nextCommit} |-> block]
      /\ block' = NoHash => Read' = NoRows
      /\ block' # NoHash => Read' = [n \in {nextCommit'} |-> block']
  BY DEF Sequential!SequentialFetched, Sequential!NoRows, NoRows
<1> HIDE DEF Read
<1> USE DEF Sequential!storeVars, storeVars
<1>4. ASSUME NEW start \in 0..MaxHeight, NEW end \in 0..MaxHeight, Sequential!Call(start, end)
      PROVE  Contract!RangeNext
  <2>1. rangeState = "off" /\ block = NoHash /\ block' = NoHash
    BY <1>1, <1>4 DEF Sequential!Call, SequentialInv, Concurrent
  <2>2. MappedFetched' = MappedFetched
    BY <1>2, <1>3, <2>1
  <2>3. /\ start <= end /\ endBlock' = end /\ UNCHANGED <<chainVars, storeVars>>
        /\ IF AlreadyIndexed(start, end)
           THEN rangeState' = "done" /\ UNCHANGED <<nextCommit, expectedParentHash>>
           ELSE /\ rangeState' = "running"
                /\ nextCommit' = NextBlock(start)
                /\ expectedParentHash' = FirstExpectedParent(start)
    BY <1>1, <1>4 DEF Sequential!Call, Sequential!AlreadyIndexed, AlreadyIndexed, Sequential!Resumes,
           Resumes, Sequential!Exists, Exists, Sequential!NextBlock, NextBlock,
           Sequential!FirstExpectedParent, FirstExpectedParent
  <2> QED
    BY <2>1, <2>2, <2>3, ContractCalls
<1>5. CASE Sequential!Refuse \/ Sequential!Fail
  BY <1>1, <1>5, ContractFails DEF Sequential!Refuse, Sequential!Fail
<1>6. CASE Sequential!FetchHeader
  <2>1. /\ rangeState = "running" /\ pc = "header" /\ HasBlock(nextCommit)
        /\ block' = canonical[nextCommit]
        /\ UNCHANGED <<storeVars, rangeState, endBlock, nextCommit, expectedParentHash>>
    BY <1>6 DEF Sequential!FetchHeader, Sequential!HasBlock, HasBlock
  <2>2. nextCommit \in 0..MaxHeight /\ nextCommit \in nextCommit..endBlock /\ block = NoHash
    BY <1>1, <2>1 DEF CallTypes, SequentialInv, Concurrent
  <2>3. block' # NoHash
    BY <1>1, <2>1, <2>2, CanonicalBlock DEF CallTypes
  <2>4. MappedFetched = NoRows /\ MappedFetched' = [n \in {nextCommit} |-> block']
    BY <1>2, <1>3, <2>1, <2>2, <2>3
  <2>5. MappedFetched' = Contract!Put(MappedFetched, nextCommit, block')
        /\ nextCommit \notin DOMAIN MappedFetched
    BY <2>4 DEF Contract!Put, NoRows
  <2> QED
    BY <1>1, <2>1, <2>2, <2>5, ContractReads
<1>7. CASE Sequential!FetchLogs
  <2>1. UNCHANGED <<storeVars, rangeState, endBlock, nextCommit, expectedParentHash, block>>
    BY <1>7 DEF Sequential!FetchLogs
  <2>2. MappedFetched' = MappedFetched
    BY <1>2, <1>3, <2>1
  <2> QED
    BY <1>1, <2>1, <2>2, ContractStutters
<1>8. CASE Sequential!Save \/ Sequential!SaveAnswerLost
  <2>1. /\ rangeState = "running" /\ pc = "save" /\ Sequential!SaveIndexedBlock(block)
        /\ ValidParent(block, expectedParentHash) /\ endBlock' = endBlock
    BY <1>8 DEF Sequential!Save, Sequential!SaveAnswerLost, Sequential!ValidParent, ValidParent
  <2>2. SaveIndexedBlock(block)
    BY <2>1 DEF Sequential!SaveIndexedBlock, SaveIndexedBlock, Sequential!HashConflict, HashConflict,
                Sequential!InsertTransfers, InsertTransfers, Sequential!RecordIndexedBlock,
                RecordIndexedBlock, Sequential!RecordedParent, RecordedParent
  <2>3. block # NoHash /\ LogsDecode(block)
    BY <1>1, <2>1 DEF SequentialInv, Concurrent
  <2>4. MappedFetched = [n \in {nextCommit} |-> block]
    BY <1>2, <1>3, <2>1, <2>3
  <2>5. nextCommit \in DOMAIN MappedFetched /\ MappedFetched[nextCommit] = block
        /\ Contract!Without(MappedFetched, nextCommit) = NoRows
    BY <2>4 DEF Contract!Without, NoRows
  <2>6. \/ /\ expectedParentHash' = block /\ block' = NoHash
           /\ \/ nextCommit = endBlock /\ rangeState' = "done" /\ UNCHANGED nextCommit
              \/ nextCommit # endBlock /\ rangeState' = rangeState /\ nextCommit' = nextCommit + 1
        \/ rangeState' = "failed" /\ UNCHANGED <<nextCommit, expectedParentHash>>
    BY <1>8 DEF Sequential!Save, Sequential!SaveAnswerLost
  <2>7. block' = NoHash => MappedFetched' = NoRows
    BY <1>2, <1>3
  <2> QED
    BY <1>1, <2>1, <2>2, <2>3, <2>5, <2>6, <2>7, ContractSaves
<1> QED
  BY <1>4, <1>5, <1>6, <1>7, <1>8 DEF SequentialStep, Sequential!Invoke, Sequential!Step

\* The initial states are those of RangeIndexer.
LEMMA InitRefines == IndexersInit => Contract!RangeInit
<1> SUFFICES ASSUME IndexersInit PROVE Contract!RangeInit
  OBVIOUS
<1>1. Contract!ChainInit
  BY DEF IndexersInit, ConcurrentInit, ChainInit, Contract!ChainInit
<1>2. \/ Contract!EmptyStore
      \/ \E f \in Chains, lo, hi \in 0..MaxHeight :
            Contract!Indexable(f, lo, hi) /\ Contract!HoldsBranch(f, lo, hi)
  <2>1. CASE EmptyStore
    BY <2>1 DEF EmptyStore, Contract!EmptyStore, NoCheckpoint, Contract!NoCheckpoint, NoRows,
                Contract!NoRows
  <2>2. ASSUME NEW f \in Chains, NEW lo \in 0..MaxHeight, NEW hi \in 0..MaxHeight,
               Indexable(f, lo, hi), HoldsBranch(f, lo, hi)
        PROVE  Contract!Indexable(f, lo, hi) /\ Contract!HoldsBranch(f, lo, hi)
    BY <2>2 DEF Indexable, Contract!Indexable, LogsDecode, Contract!LogsDecode, HoldsBranch,
                Contract!HoldsBranch, TransfersOf, Contract!TransfersOf
  <2> QED
    BY <2>1, <2>2 DEF IndexersInit, ConcurrentInit
<1>3. Contract!RangeOff
  BY DEF IndexersInit, ConcurrentInit, Contract!RangeOff, Contract!NoRows, NoRows
<1> QED
  BY <1>1, <1>2, <1>3 DEF Contract!RangeInit

\* Every step of either implementation is a step of RangeIndexer or a stutter.
LEMMA StepRefines ==
    IndexersInv /\ [IndexersNext]_indexersVars => [Contract!RangeNext]_ContractVars
<1> SUFFICES ASSUME IndexersInv, [IndexersNext]_indexersVars
             PROVE  Contract!RangeNext \/ UNCHANGED ContractVars
  OBVIOUS
<1>1. ASSUME UNCHANGED <<storeVars, rangeState, endBlock, nextCommit, expectedParentHash, pending, results,
                         worker, implementation, block>>
      PROVE  MappedFetched' = MappedFetched
  <2>1. ReadBlocks' = ReadBlocks
    BY <1>1 DEF ReadBlocks, InHand
  <2>2. Fetched' = Fetched
    BY <2>1 DEF Fetched
  <2> QED
    BY <1>1, <2>2 DEF MappedFetched, NoRows, Sequential!SequentialFetched, Sequential!NoRows
<1>2. CASE MoveChain /\ SequentialUnused
  <2>1. /\ ChainMove
        /\ UNCHANGED <<storeVars, rangeState, endBlock, nextCommit, expectedParentHash, pending, results,
                       worker, implementation, block>>
    BY <1>2 DEF MoveChain, callVars, poolVars, SequentialUnused
  <2>2. MappedFetched' = MappedFetched
    BY <1>1, <2>1
  <2>3. UNCHANGED Contract!rangeVars /\ UNCHANGED Contract!storeVars
    BY <2>1, <2>2 DEF Contract!rangeVars, Contract!storeVars, storeVars, MappedFetched
  <2>4. Contract!ChainMove
    BY <2>1 DEF ChainMove, Contract!ChainMove
  <2> QED
    BY <2>3, <2>4 DEF Contract!RangeNext
<1>3. CASE UNCHANGED indexersVars
  <2>1. UNCHANGED <<chainVars, storeVars, rangeState, endBlock, nextCommit, expectedParentHash, pending,
                    results, worker, implementation, block>>
    BY <1>3 DEF indexersVars, vars, callVars, poolVars
  <2> QED
    BY <1>1, <2>1, ContractStutters
<1> QED
  BY <1>2, <1>3, ConcurrentRefines, SequentialRefines DEF IndexersNext

\* For every number of workers, every range and every tree of blocks, both the
\* concurrent and the sequential IndexRange implement the RangeIndexer
\* specification with which the rest of the system is composed: ascending
\* commits without gaps, each on top of the one before, nothing after a
\* failure.
THEOREM RangeIndexerTheorem == IndexersSpec => ImplementsRangeIndexer
<1>1. IndexersInit => Contract!RangeInit
  BY InitRefines
<1>2. IndexersInv /\ [IndexersNext]_indexersVars
          => [Contract!RangeNext]_<<Contract!chainVars, Contract!storeVars, Contract!rangeVars>>
  BY StepRefines DEF ContractVars
<1> QED
  BY <1>1, <1>2, IndexersInvariant, PTL DEF IndexersSpec, ImplementsRangeIndexer, Contract!RangeSpec
=============================================================================
