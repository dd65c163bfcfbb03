---------------------------- MODULE StoreProofs ----------------------------
(***************************************************************************)
(* The two stores.  The transactions of the PostgreSQL store, statement by   *)
(* statement: for any number of sessions left behind by dead processes, each *)
(* call takes effect at one instant and the tables hold one branch, as long  *)
(* as no rollback runs next to another open transaction.  And the in-memory  *)
(* store, which answers its callers like the PostgreSQL store.               *)
(***************************************************************************)
EXTENDS PostgresSessions, MemoryStore, TLAPS

Saves == {"insert", "checkpoint", "commit"}

BlockAt(n) == indexed_blocks[n].block_hash

-----------------------------------------------------------------------------
\* The inductive invariant.

\* The tables hold the blocks lo to the checkpoint of one branch.
HeldFrom(lo) ==
    /\ lo \in 0..MaxHeight
    /\ checkpoint \in Checkpoints
    /\ lo <= checkpoint.Number
    /\ DOMAIN indexed_blocks = lo..checkpoint.Number
    /\ indexed_blocks = [n \in DOMAIN indexed_blocks |-> indexed_blocks[n]]
    /\ checkpoint.Hash = BlockAt(checkpoint.Number)
    /\ \A n \in lo..checkpoint.Number :
          /\ BlockAt(n) \in Hash /\ Number[BlockAt(n)] = n
          /\ indexed_blocks[n] = [block_hash |-> BlockAt(n), parent_hash |-> ParentHash[BlockAt(n)]]
          /\ n > lo => ParentHash[BlockAt(n)] = BlockAt(n - 1)
          /\ \A t \in Transfers[BlockAt(n)] :
                /\ t \in DOMAIN erc20_transfers
                /\ erc20_transfers[t] = [block_number |-> n, block_hash |-> BlockAt(n)]
    /\ erc20_transfers = [t \in DOMAIN erc20_transfers |-> erc20_transfers[t]]
    /\ \A t \in DOMAIN erc20_transfers :
          \E n \in lo..checkpoint.Number : t \in Transfers[BlockAt(n)]

Held == \E lo \in 0..MaxHeight : HeldFrom(lo)

\* What a transaction consists of.
Versions(Key, Row) == UNION {[S -> Row \cup {Gone}] : S \in SUBSET Key}
TransferRows == [block_number : 0..MaxHeight, block_hash : Hash]
BlockRows == [block_hash : Hash, parent_hash : {ParentHash[b] : b \in Hash}]
TransferVersions == Versions(TransferId, TransferRows)
BlockVersions == Versions(0..MaxHeight, BlockRows)

Transaction ==
    [at : {"idle"} \cup Saves \cup Rollbacks, to : Checkpoints \cup {NoCheckpoint},
     todo : SUBSET TransferId, transfers : TransferVersions, blocks : BlockVersions,
     checkpoint : Checkpoints \cup {NoCheckpoint}]

SessionTypes ==
    /\ tx \in [Session -> Transaction]
    /\ \A s \in Session : tx[s].at = "idle" => tx[s] = Idle
    /\ live \in Session \cup {NoSession}
    /\ mode \in {"down", "reconcile", "index"}

\* A row that two transactions wrote would belong to both.
LockInv ==
    \A s, o \in Session : s # o =>
        /\ DOMAIN tx[s].transfers \cap DOMAIN tx[o].transfers = {}
        /\ DOMAIN tx[s].blocks \cap DOMAIN tx[o].blocks = {}
        /\ tx[s].checkpoint = NoCheckpoint \/ tx[o].checkpoint = NoCheckpoint

\* A transaction that saves: of the transfers it has dealt with it holds those
\* that are not committed, whatever was committed since, and nobody else has
\* recorded its height.
SaveOK(s) ==
    tx[s].at \in Saves =>
        LET b == tx[s].to.Hash
        IN  /\ b \in Hash /\ tx[s].to = [Number |-> Number[b], Hash |-> b]
            /\ tx[s].todo \subseteq Transfers[b]
            /\ tx[s].at # "insert" => tx[s].todo = {}
            /\ DOMAIN tx[s].transfers \subseteq Transfers[b] \ tx[s].todo
            /\ \A t \in Transfers[b] \ tx[s].todo :
                  t \in DOMAIN tx[s].transfers <=> t \notin DOMAIN erc20_transfers
            /\ \A t \in DOMAIN tx[s].transfers :
                  tx[s].transfers[t] = [block_number |-> Number[b], block_hash |-> b]
            /\ tx[s].at = "insert" => DOMAIN tx[s].blocks = {}
            /\ tx[s].at # "insert" =>
                  /\ DOMAIN tx[s].blocks = {Number[b]}
                  /\ tx[s].blocks[Number[b]] = [block_hash |-> b, parent_hash |-> ParentHash[b]]
                  /\ ~HashConflict(Number[b], b)
            /\ tx[s].checkpoint = IF tx[s].at = "commit" THEN tx[s].to ELSE NoCheckpoint

\* A transaction that rolls back is alone: what it has found is all there is.
RollbackOK(s) ==
    tx[s].at \in Rollbacks =>
        /\ \A o \in Session \ {s} : tx[o] = Idle
        /\ live = s \/ mode = "down"
        /\ tx[s].to.Number \in DOMAIN indexed_blocks
        /\ tx[s].to.Hash = BlockAt(tx[s].to.Number)
        /\ DOMAIN tx[s].transfers =
              IF tx[s].at = "delete transfers" THEN {}
              ELSE {t \in DOMAIN erc20_transfers :
                       erc20_transfers[t].block_number > tx[s].to.Number}
        /\ DOMAIN tx[s].blocks =
              IF tx[s].at \in {"delete transfers", "delete blocks"} THEN {}
              ELSE {n \in DOMAIN indexed_blocks : n > tx[s].to.Number}
        /\ \A t \in DOMAIN tx[s].transfers : tx[s].transfers[t] = Gone
        /\ \A n \in DOMAIN tx[s].blocks : tx[s].blocks[n] = Gone
        /\ tx[s].checkpoint = IF tx[s].at = "commit rollback" THEN tx[s].to ELSE NoCheckpoint

SaveInv == \A s \in Session : SaveOK(s)
RollbackInv == \A s \in Session : RollbackOK(s)

\* The process knows the checkpoint, or its parent: one COMMIT of a predecessor
\* can come after it has looked, and then no other can.
ProcessInv ==
    /\ live # NoSession =>
          /\ mode # "down" /\ tx[live].at # "idle"
          /\ tx[live].at \in Saves =>
                /\ mode = "index"
                /\ tx[live].to.Number = cp.Number + 1
                /\ ParentHash[tx[live].to.Hash] = cp.Hash
    /\ mode # "down" =>
          /\ cp \in Checkpoints
          /\ cp.Number \in DOMAIN indexed_blocks /\ cp.Hash = BlockAt(cp.Number)
          /\ \/ cp = checkpoint
             \/ /\ checkpoint.Number = cp.Number + 1
                /\ \A s \in Session \ {live} : tx[s].at # "commit"

\* What will be committed is the next block, or the block that is there already.
CommitOK(s) ==
    tx[s].at = "commit" \/ (live = s /\ tx[s].at = "checkpoint") =>
        \/ tx[s].to.Number = checkpoint.Number + 1 /\ ParentHash[tx[s].to.Hash] = checkpoint.Hash
        \/ tx[s].to = checkpoint

CommitInv == \A s \in Session : CommitOK(s)

SessionsInv ==
    Held /\ SessionTypes /\ LockInv /\ SaveInv /\ RollbackInv /\ ProcessInv /\ CommitInv

-----------------------------------------------------------------------------
\* The tables.

\* A row is not the mark of a deleted one.
LEMMA RowNotGone ==
    /\ \A n, h : [block_number |-> n, block_hash |-> h] # Gone
    /\ \A h, p : [block_hash |-> h, parent_hash |-> p] # Gone
<1>1. DOMAIN Gone = {}
  BY DEF Gone, NoRows
<1>2. ASSUME NEW n, NEW h PROVE [block_number |-> n, block_hash |-> h] # Gone
  <2>1. "block_hash" \in DOMAIN [block_number |-> n, block_hash |-> h]
    OBVIOUS
  <2> QED
    BY <1>1, <2>1
<1>3. ASSUME NEW h, NEW p PROVE [block_hash |-> h, parent_hash |-> p] # Gone
  <2>1. "block_hash" \in DOMAIN [block_hash |-> h, parent_hash |-> p]
    OBVIOUS
  <2> QED
    BY <1>1, <2>1
<1> QED
  BY <1>2, <1>3

LEMMA HeldBranch == Held => HoldsOneBranch
<1> SUFFICES ASSUME NEW lo \in 0..MaxHeight, HeldFrom(lo) PROVE HoldsOneBranch
  BY DEF Held
<1> DEFINE branch == [n \in DOMAIN indexed_blocks |-> indexed_blocks[n].block_hash]
           hi == checkpoint.Number
<1>1. /\ hi \in 0..MaxHeight /\ lo <= hi /\ lo \in lo..hi /\ hi \in lo..hi
      /\ DOMAIN indexed_blocks = lo..hi /\ MaxHeight \in Nat
  BY HeightAssumption DEF HeldFrom, Checkpoints
<1>2. /\ branch \in [lo..hi -> Hash]
      /\ \A n \in lo..hi : branch[n] = BlockAt(n)
  BY <1>1 DEF HeldFrom, BlockAt
<1>3. \A n \in lo..hi :
          /\ Number[branch[n]] = n
          /\ indexed_blocks[n] = [block_hash |-> branch[n], parent_hash |-> ParentHash[branch[n]]]
          /\ \A t \in Transfers[branch[n]] :
                /\ t \in DOMAIN erc20_transfers
                /\ erc20_transfers[t] = [block_number |-> n, block_hash |-> branch[n]]
  <2> HIDE DEF branch
  <2> TAKE n \in lo..hi
  <2>1. branch[n] = BlockAt(n)
    BY <1>2
  <2> QED
    BY <2>1 DEF HeldFrom
<1>4. \A t \in DOMAIN erc20_transfers : \E n \in lo..hi : t \in Transfers[branch[n]]
  BY <1>2 DEF HeldFrom
<1>5. \A n \in lo..hi : n > lo => n - 1 \in lo..hi /\ ParentHash[branch[n]] = branch[n - 1]
  <2> TAKE n \in lo..hi
  <2> HAVE n > lo
  <2>1. n - 1 \in lo..hi
    BY <1>1
  <2>2. ParentHash[BlockAt(n)] = BlockAt(n - 1)
    BY DEF HeldFrom
  <2> HIDE DEF branch
  <2> QED
    BY <1>2, <2>1, <2>2
<1>6. checkpoint = [Number |-> hi, Hash |-> branch[hi]]
  BY <1>1, <1>2 DEF HeldFrom, Checkpoints
<1>10. /\ indexed_blocks = [n \in lo..hi |-> indexed_blocks[n]]
       /\ erc20_transfers = [t \in DOMAIN erc20_transfers |-> erc20_transfers[t]]
  BY <1>1 DEF HeldFrom
<1> HIDE DEF branch, hi
<1>11. IsBranch(branch, lo, hi)
  BY <1>2, <1>3, <1>5 DEF IsBranch
<1>12. indexed_blocks = [n \in lo..hi |-> [block_hash |-> branch[n], parent_hash |-> ParentHash[branch[n]]]]
  BY <1>3, <1>10
<1>13. erc20_transfers = TransfersOf(branch, lo, hi)
  <2> DEFINE T == UNION {Transfers[branch[n]] : n \in lo..hi}
             At(t) == CHOOSE m \in lo..hi : t \in Transfers[branch[m]]
  <2>1. DOMAIN erc20_transfers = T
    <3>1. ASSUME NEW t \in T PROVE t \in DOMAIN erc20_transfers
      <4>1. PICK n \in lo..hi : t \in Transfers[branch[n]]
        OBVIOUS
      <4> QED
        BY <1>3, <4>1
    <3>2. ASSUME NEW t \in DOMAIN erc20_transfers PROVE t \in T
      BY <1>4
    <3> QED
      BY <3>1, <3>2
  <2>2. \A t \in T : At(t) \in lo..hi /\ t \in Transfers[branch[At(t)]]
    OBVIOUS
  <2> HIDE DEF T, At
  <2>3. \A t \in T : erc20_transfers[t] = [block_number |-> At(t), block_hash |-> branch[At(t)]]
    BY <1>3, <2>2
  <2>4. erc20_transfers = [t \in T |-> [block_number |-> At(t), block_hash |-> branch[At(t)]]]
    BY <1>10, <2>1, <2>3
  <2> QED
    BY <2>4 DEF TransfersOf, T, At
<1>7. HoldsBranch(branch, lo, hi)
  BY <1>1, <1>2, <1>6, <1>12, <1>13 DEF HoldsBranch
<1>8. lo \in DOMAIN branch
  BY <1>1, <1>2
<1> QED
  BY <1>7, <1>8, <1>11 DEF HoldsOneBranch, branch, hi

LEMMA InitHeld == Init => Held
<1> SUFFICES ASSUME NEW b \in Hash, HoldsBranch([n \in {Number[b]} |-> b], Number[b], Number[b])
             PROVE  Held
  BY DEF Init
<1> DEFINE k == Number[b]
           f == [n \in {k} |-> b]
<1>1. k \in 0..MaxHeight /\ k..k = {k} /\ f[k] = b
  BY NumberAssumption
<1>2. /\ checkpoint = [Number |-> k, Hash |-> b]
      /\ DOMAIN indexed_blocks = {k}
      /\ indexed_blocks = [n \in {k} |-> indexed_blocks[n]]
      /\ indexed_blocks[k] = [block_hash |-> b, parent_hash |-> ParentHash[b]]
      /\ erc20_transfers = TransfersOf(f, k, k)
  BY <1>1 DEF HoldsBranch
<1>3. UNION {Transfers[f[n]] : n \in k..k} = Transfers[b]
  BY <1>1
<1>4. \A t \in Transfers[b] : (CHOOSE m \in k..k : t \in Transfers[f[m]]) = k
  BY <1>1
<1> HIDE DEF f, k
<1>5. /\ DOMAIN erc20_transfers = Transfers[b]
      /\ erc20_transfers = [t \in Transfers[b] |-> erc20_transfers[t]]
      /\ \A t \in Transfers[b] : erc20_transfers[t] = [block_number |-> k, block_hash |-> b]
  BY <1>1, <1>2, <1>3, <1>4 DEF TransfersOf
<1>6. HeldFrom(k)
  <2>1. checkpoint \in Checkpoints /\ checkpoint.Number = k /\ checkpoint.Hash = b
    BY <1>1, <1>2 DEF Checkpoints
  <2>2. BlockAt(k) = b /\ b \in Hash /\ Number[b] = k
    BY <1>2 DEF BlockAt, k
  <2>3. \A n \in k..k : n = k /\ ~(n > k)
    BY <1>1
  <2>4. k <= k
    BY <1>1
  <2>5. ASSUME NEW n \in k..k
        PROVE  /\ BlockAt(n) \in Hash /\ Number[BlockAt(n)] = n
               /\ indexed_blocks[n] = [block_hash |-> BlockAt(n), parent_hash |-> ParentHash[BlockAt(n)]]
               /\ n > k => ParentHash[BlockAt(n)] = BlockAt(n - 1)
               /\ \A t \in Transfers[BlockAt(n)] :
                     /\ t \in DOMAIN erc20_transfers
                     /\ erc20_transfers[t] = [block_number |-> n, block_hash |-> BlockAt(n)]
    BY <1>2, <1>5, <2>2, <2>3
  <2>6. \A t \in DOMAIN erc20_transfers : \E n \in k..k : t \in Transfers[BlockAt(n)]
    BY <1>1, <1>5, <2>2
  <2>7. /\ DOMAIN indexed_blocks = k..k
        /\ indexed_blocks = [n \in DOMAIN indexed_blocks |-> indexed_blocks[n]]
        /\ erc20_transfers = [t \in DOMAIN erc20_transfers |-> erc20_transfers[t]]
    BY <1>1, <1>2, <1>5
  <2> QED
    BY <1>1, <2>1, <2>2, <2>4, <2>5, <2>6, <2>7 DEF HeldFrom
<1> QED
  BY <1>1, <1>6 DEF Held

\* Saving the next block extends the branch; no row of an earlier block is in
\* the way of its transfers.
LEMMA SaveHeld ==
    ASSUME Held, NEW b \in Hash, Number[b] = checkpoint.Number + 1,
           ParentHash[b] = checkpoint.Hash, SaveIndexedBlock(b)
    PROVE  Held'
<1>1. PICK lo \in 0..MaxHeight : HeldFrom(lo)
  BY DEF Held
<1> DEFINE h == checkpoint.Number
           g == [n \in lo..(h + 1) |-> IF n = h + 1 THEN b ELSE BlockAt(n)]
<1>2. /\ h \in 0..MaxHeight /\ lo <= h /\ h + 1 \in 0..MaxHeight /\ h + 1 = Number[b]
      /\ MaxHeight \in Nat /\ DOMAIN indexed_blocks = lo..h
      /\ checkpoint.Hash = BlockAt(h)
  BY <1>1, NumberAssumption, HeightAssumption DEF HeldFrom, Checkpoints
<1>3. /\ lo..(h + 1) = (lo..h) \cup {h + 1} /\ h + 1 \notin lo..h
      /\ \A n \in lo..(h + 1) : n > lo => n - 1 \in lo..h
  BY <1>2
<1>4. ASSUME NEW n \in lo..h
      PROVE  /\ BlockAt(n) \in Hash /\ Number[BlockAt(n)] = n
             /\ indexed_blocks[n] = [block_hash |-> BlockAt(n), parent_hash |-> ParentHash[BlockAt(n)]]
             /\ n > lo => ParentHash[BlockAt(n)] = BlockAt(n - 1)
             /\ \A t \in Transfers[BlockAt(n)] :
                   /\ t \in DOMAIN erc20_transfers
                   /\ erc20_transfers[t] = [block_number |-> n, block_hash |-> BlockAt(n)]
  BY <1>1 DEF HeldFrom
<1>5. /\ g \in [lo..(h + 1) -> Hash] /\ g[h + 1] = b
      /\ \A n \in lo..h : g[n] = BlockAt(n)
  BY <1>3, <1>4
<1> HIDE DEF g
<1>6. IsBranch(g, lo, h + 1)
  <2>1. ASSUME NEW n \in lo..(h + 1)
        PROVE  Number[g[n]] = n /\ (n > lo => ParentHash[g[n]] = g[n - 1])
    <3>1. CASE n = h + 1
      BY <1>2, <1>3, <1>5, <3>1
    <3>2. CASE n \in lo..h
      <4>1. n > lo => n - 1 \in lo..h
        BY <1>3
      <4> QED
        BY <1>4, <1>5, <3>2, <4>1
    <3> QED
      BY <1>3, <3>1, <3>2
  <2> QED
    BY <1>5, <2>1 DEF IsBranch
<1>7. \A t \in Transfers[b] : t \notin DOMAIN erc20_transfers
  <2> SUFFICES ASSUME NEW t \in Transfers[b], t \in DOMAIN erc20_transfers PROVE FALSE
    OBVIOUS
  <2>1. PICK n \in lo..h : t \in Transfers[BlockAt(n)]
    BY <1>1 DEF HeldFrom
  <2>2. n \in lo..(h + 1) /\ h + 1 \in lo..(h + 1) /\ n # h + 1
    BY <1>3
  <2>3. Transfers[g[n]] \cap Transfers[g[h + 1]] = {}
    BY <1>2, <1>5, <1>6, <2>2, TransferIdentity
  <2> QED
    BY <1>5, <2>1, <2>3
<1>8. checkpoint' = [Number |-> h + 1, Hash |-> b]
  BY <1>2 DEF SaveIndexedBlock
<1>9. /\ DOMAIN indexed_blocks' = lo..(h + 1)
      /\ indexed_blocks' = [n \in DOMAIN indexed_blocks' |-> indexed_blocks'[n]]
      /\ \A n \in lo..h : indexed_blocks'[n] = indexed_blocks[n]
      /\ indexed_blocks'[h + 1] = [block_hash |-> b, parent_hash |-> ParentHash[b]]
  BY <1>2, <1>3 DEF SaveIndexedBlock, RecordIndexedBlock, RecordedParent
<1>10. /\ DOMAIN erc20_transfers' = DOMAIN erc20_transfers \cup Transfers[b]
       /\ erc20_transfers' = [t \in DOMAIN erc20_transfers' |-> erc20_transfers'[t]]
       /\ \A t \in DOMAIN erc20_transfers : erc20_transfers'[t] = erc20_transfers[t]
       /\ \A t \in Transfers[b] : erc20_transfers'[t] = [block_number |-> h + 1, block_hash |-> b]
  BY <1>2, <1>7 DEF SaveIndexedBlock, InsertTransfers
<1>11. \A n \in lo..(h + 1) : BlockAt(n)' = g[n]
  BY <1>3, <1>5, <1>9 DEF BlockAt
<1>12. ASSUME NEW n \in lo..(h + 1)
       PROVE  /\ g[n] \in Hash /\ Number[g[n]] = n
              /\ indexed_blocks'[n] = [block_hash |-> g[n], parent_hash |-> ParentHash[g[n]]]
              /\ n > lo => ParentHash[g[n]] = g[n - 1] /\ n - 1 \in lo..(h + 1)
              /\ \A t \in Transfers[g[n]] :
                    /\ t \in DOMAIN erc20_transfers'
                    /\ erc20_transfers'[t] = [block_number |-> n, block_hash |-> g[n]]
  <2>1. /\ g[n] \in Hash /\ Number[g[n]] = n
        /\ n > lo => ParentHash[g[n]] = g[n - 1] /\ n - 1 \in lo..(h + 1)
    BY <1>3, <1>6 DEF IsBranch
  <2>2. CASE n = h + 1
    BY <1>5, <1>9, <1>10, <2>1, <2>2
  <2>3. CASE n \in lo..h
    BY <1>4, <1>5, <1>9, <1>10, <2>1, <2>3
  <2> QED
    BY <1>3, <2>2, <2>3
<1>13. \A t \in DOMAIN erc20_transfers' : \E n \in lo..(h + 1) : t \in Transfers[g[n]]
  <2> TAKE t \in DOMAIN erc20_transfers'
  <2>1. CASE t \in Transfers[b]
    BY <1>3, <1>5, <2>1
  <2>2. CASE t \in DOMAIN erc20_transfers
    <3>1. PICK n \in lo..h : t \in Transfers[BlockAt(n)]
      BY <1>1, <2>2 DEF HeldFrom
    <3> QED
      BY <1>3, <1>5, <3>1
  <2> QED
    BY <1>10, <2>1, <2>2
<1>14. checkpoint' \in Checkpoints /\ checkpoint'.Number = h + 1 /\ checkpoint'.Hash = b
  BY <1>2, <1>8 DEF Checkpoints
<1>15. lo <= h + 1 /\ h + 1 \in lo..(h + 1)
  BY <1>2
<1> HIDE DEF h
<1>16. HeldFrom(lo)'
  BY <1>5, <1>9, <1>10, <1>11, <1>12, <1>13, <1>14, <1>15 DEF HeldFrom
<1> QED
  BY <1>16 DEF Held

\* Saving the last block again changes nothing.
LEMMA SaveAgain ==
    ASSUME Held, NEW b \in Hash, checkpoint = [Number |-> Number[b], Hash |-> b],
           SaveIndexedBlock(b)
    PROVE  UNCHANGED storeVars
<1>1. PICK lo \in 0..MaxHeight : HeldFrom(lo)
  BY DEF Held
<1> DEFINE n == Number[b]
<1>2. n \in lo..checkpoint.Number /\ BlockAt(n) = b /\ n \in DOMAIN indexed_blocks
  BY <1>1, HeightAssumption, NumberAssumption DEF HeldFrom
<1>3. /\ indexed_blocks[n] = [block_hash |-> b, parent_hash |-> ParentHash[b]]
      /\ \A t \in Transfers[b] : t \in DOMAIN erc20_transfers
      /\ indexed_blocks = [m \in DOMAIN indexed_blocks |-> indexed_blocks[m]]
      /\ erc20_transfers = [t \in DOMAIN erc20_transfers |-> erc20_transfers[t]]
  <2> HIDE DEF n
  <2>1. /\ indexed_blocks[n] = [block_hash |-> BlockAt(n), parent_hash |-> ParentHash[BlockAt(n)]]
        /\ \A t \in Transfers[BlockAt(n)] : t \in DOMAIN erc20_transfers
    BY <1>1, <1>2 DEF HeldFrom
  <2>2. /\ indexed_blocks = [m \in DOMAIN indexed_blocks |-> indexed_blocks[m]]
        /\ erc20_transfers = [t \in DOMAIN erc20_transfers |-> erc20_transfers[t]]
    BY <1>1 DEF HeldFrom
  <2> QED
    BY <1>2, <2>1, <2>2
<1>4. RecordedParent(n, ParentHash[b]) = ParentHash[b]
  BY <1>2, <1>3 DEF RecordedParent
<1> HIDE DEF n
<1>5. indexed_blocks' = [m \in DOMAIN indexed_blocks |->
          IF m = n THEN [block_hash |-> b, parent_hash |-> ParentHash[b]] ELSE indexed_blocks[m]]
  <2>1. DOMAIN indexed_blocks \cup {n} = DOMAIN indexed_blocks
    BY <1>2
  <2> QED
    BY <1>4, <2>1 DEF SaveIndexedBlock, RecordIndexedBlock, n
<1>6. indexed_blocks' = indexed_blocks
  BY <1>2, <1>3, <1>5
<1>7. erc20_transfers' = erc20_transfers
  <2>1. DOMAIN erc20_transfers \cup Transfers[b] = DOMAIN erc20_transfers
    BY <1>3
  <2> QED
    BY <1>3, <2>1 DEF SaveIndexedBlock, InsertTransfers
<1> QED
  BY <1>6, <1>7 DEF SaveIndexedBlock, storeVars, n

\* Rolling back to a recorded block keeps the branch up to it.
LEMMA RollbackHeld ==
    ASSUME Held, NEW to \in Checkpoints, to.Number \in DOMAIN indexed_blocks,
           to.Hash = BlockAt(to.Number), RollbackTo(to)
    PROVE  Held'
<1>1. PICK lo \in 0..MaxHeight : HeldFrom(lo)
  BY DEF Held
<1> DEFINE h == checkpoint.Number
           k == to.Number
<1>2. /\ h \in 0..MaxHeight /\ DOMAIN indexed_blocks = lo..h /\ k \in lo..h
      /\ MaxHeight \in Nat
  BY <1>1, HeightAssumption DEF HeldFrom, Checkpoints
<1>3. /\ lo <= k /\ k \in lo..k /\ lo..k \subseteq lo..h
      /\ {m \in lo..h : m <= k} = lo..k
      /\ \A n \in lo..k : n <= k /\ (n > lo => n - 1 \in lo..k)
  BY <1>2
<1>4. ASSUME NEW n \in lo..h
      PROVE  /\ BlockAt(n) \in Hash /\ Number[BlockAt(n)] = n
             /\ indexed_blocks[n] = [block_hash |-> BlockAt(n), parent_hash |-> ParentHash[BlockAt(n)]]
             /\ n > lo => ParentHash[BlockAt(n)] = BlockAt(n - 1)
             /\ \A t \in Transfers[BlockAt(n)] :
                   /\ t \in DOMAIN erc20_transfers
                   /\ erc20_transfers[t] = [block_number |-> n, block_hash |-> BlockAt(n)]
  BY <1>1 DEF HeldFrom
<1>5. checkpoint' = to /\ checkpoint' \in Checkpoints /\ to.Hash = BlockAt(k)
  BY DEF RollbackTo
<1>6. /\ DOMAIN indexed_blocks' = lo..k
      /\ indexed_blocks' = [n \in DOMAIN indexed_blocks' |-> indexed_blocks'[n]]
      /\ \A n \in lo..k : indexed_blocks'[n] = indexed_blocks[n]
  <2>1. indexed_blocks' = [n \in lo..k |-> indexed_blocks[n]]
    BY <1>2, <1>3 DEF RollbackTo
  <2> QED
    BY <2>1
<1>7. /\ DOMAIN erc20_transfers' =
            {t \in DOMAIN erc20_transfers : erc20_transfers[t].block_number <= k}
      /\ erc20_transfers' = [t \in DOMAIN erc20_transfers' |-> erc20_transfers'[t]]
      /\ \A t \in DOMAIN erc20_transfers' : erc20_transfers'[t] = erc20_transfers[t]
  BY DEF RollbackTo
<1>8. \A n \in lo..k : BlockAt(n)' = BlockAt(n)
  BY <1>6 DEF BlockAt
<1> HIDE DEF h, k
<1>9. ASSUME NEW n \in lo..k
      PROVE  /\ BlockAt(n)' \in Hash /\ Number[BlockAt(n)'] = n
             /\ indexed_blocks'[n] = [block_hash |-> BlockAt(n)', parent_hash |-> ParentHash[BlockAt(n)']]
             /\ n > lo => ParentHash[BlockAt(n)'] = BlockAt(n - 1)'
             /\ \A t \in Transfers[BlockAt(n)'] :
                   /\ t \in DOMAIN erc20_transfers'
                   /\ erc20_transfers'[t] = [block_number |-> n, block_hash |-> BlockAt(n)']
  <2>1. n \in lo..h /\ BlockAt(n)' = BlockAt(n) /\ n <= k
    BY <1>3, <1>8
  <2>2. n > lo => ParentHash[BlockAt(n)] = BlockAt(n - 1)'
    BY <1>3, <1>4, <1>8, <2>1
  <2>3. \A t \in Transfers[BlockAt(n)] :
           /\ t \in DOMAIN erc20_transfers'
           /\ erc20_transfers'[t] = [block_number |-> n, block_hash |-> BlockAt(n)]
    <3> TAKE t \in Transfers[BlockAt(n)]
    <3>1. /\ t \in DOMAIN erc20_transfers
          /\ erc20_transfers[t] = [block_number |-> n, block_hash |-> BlockAt(n)]
      BY <1>4, <2>1
    <3>2. erc20_transfers[t].block_number <= k
      BY <2>1, <3>1
    <3> QED
      BY <1>7, <3>1, <3>2
  <2> QED
    BY <1>4, <1>6, <2>1, <2>2, <2>3
<1>10. \A t \in DOMAIN erc20_transfers' : \E n \in lo..k : t \in Transfers[BlockAt(n)']
  <2> TAKE t \in DOMAIN erc20_transfers'
  <2>1. t \in DOMAIN erc20_transfers /\ erc20_transfers[t].block_number <= k
    BY <1>7
  <2>2. PICK n \in lo..h : t \in Transfers[BlockAt(n)]
    BY <1>1, <2>1 DEF HeldFrom, h
  <2>3. n <= k
    <3>1. erc20_transfers[t] = [block_number |-> n, block_hash |-> BlockAt(n)]
      BY <1>4, <2>2
    <3>2. erc20_transfers[t].block_number = n
      BY <3>1
    <3> QED
      BY <2>1, <3>2
  <2>4. n \in lo..k
    BY <1>3, <2>3
  <2> QED
    BY <1>8, <2>2, <2>4
<1>11. checkpoint'.Number = k /\ checkpoint'.Hash = BlockAt(k)'
  BY <1>3, <1>5, <1>8 DEF k
<1>12. HeldFrom(lo)'
  BY <1>3, <1>5, <1>6, <1>7, <1>9, <1>10, <1>11 DEF HeldFrom
<1> QED
  BY <1>12 DEF Held

LEMMA HeldTip ==
    ASSUME Held
    PROVE  /\ checkpoint \in Checkpoints
           /\ checkpoint.Number \in DOMAIN indexed_blocks
           /\ checkpoint.Hash = BlockAt(checkpoint.Number)
           /\ indexed_blocks = [n \in DOMAIN indexed_blocks |-> indexed_blocks[n]]
           /\ DOMAIN indexed_blocks \subseteq 0..MaxHeight
           /\ \A n \in DOMAIN indexed_blocks :
                 /\ BlockAt(n) \in Hash
                 /\ indexed_blocks[n] =
                       [block_hash |-> BlockAt(n), parent_hash |-> ParentHash[BlockAt(n)]]
           /\ \A t \in DOMAIN erc20_transfers :
                 t \in TransferId /\ erc20_transfers[t].block_number \in 0..MaxHeight
<1>1. PICK lo \in 0..MaxHeight : HeldFrom(lo)
  BY DEF Held
<1>2. /\ checkpoint \in Checkpoints /\ checkpoint.Number \in 0..MaxHeight
      /\ lo <= checkpoint.Number /\ DOMAIN indexed_blocks = lo..checkpoint.Number
      /\ MaxHeight \in Nat
  BY <1>1, HeightAssumption DEF HeldFrom, Checkpoints
<1>3. /\ checkpoint.Number \in DOMAIN indexed_blocks /\ DOMAIN indexed_blocks \subseteq 0..MaxHeight
  BY <1>2
<1>4. /\ checkpoint.Hash = BlockAt(checkpoint.Number)
      /\ indexed_blocks = [n \in DOMAIN indexed_blocks |-> indexed_blocks[n]]
      /\ \A n \in DOMAIN indexed_blocks :
            /\ BlockAt(n) \in Hash
            /\ indexed_blocks[n] = [block_hash |-> BlockAt(n), parent_hash |-> ParentHash[BlockAt(n)]]
  BY <1>1, <1>2 DEF HeldFrom
<1>5. ASSUME NEW t \in DOMAIN erc20_transfers
      PROVE  t \in TransferId /\ erc20_transfers[t].block_number \in 0..MaxHeight
  <2>1. PICK n \in lo..checkpoint.Number : t \in Transfers[BlockAt(n)]
    BY <1>1 DEF HeldFrom
  <2>2. /\ erc20_transfers[t] = [block_number |-> n, block_hash |-> BlockAt(n)]
        /\ BlockAt(n) \in Hash
    BY <1>1, <2>1 DEF HeldFrom
  <2>3. n \in 0..MaxHeight
    BY <1>2, <1>3
  <2> QED
    BY <2>1, <2>2, <2>3, TransfersAssumption
<1> QED
  BY <1>2, <1>3, <1>4, <1>5

-----------------------------------------------------------------------------
\* Transactions.

LEMMA IdleFacts ==
    /\ Idle \in Transaction
    /\ Idle.at = "idle" /\ Idle.at \notin Saves /\ Idle.at \notin Rollbacks
    /\ DOMAIN Idle.transfers = {} /\ DOMAIN Idle.blocks = {}
    /\ Idle.checkpoint = NoCheckpoint
<1>1. NoRows \in TransferVersions /\ NoRows \in BlockVersions
  <2>1. ASSUME NEW K, NEW R PROVE NoRows \in Versions(K, R)
    <3>1. NoRows \in [{} -> R \cup {Gone}] /\ {} \in SUBSET K
      BY DEF NoRows
    <3> QED
      BY <3>1 DEF Versions
  <2> QED
    BY <2>1 DEF TransferVersions, BlockVersions
<1>2. DOMAIN NoRows = {}
  BY DEF NoRows
<1> QED
  BY <1>1, <1>2 DEF Idle, Transaction, Saves, Rollbacks

LEMMA PutTransfers ==
    ASSUME NEW f \in TransferVersions, NEW S \in SUBSET TransferId, NEW v,
           v = Gone \/ v \in TransferRows
    PROVE  /\ Put(f, S, v) \in TransferVersions
           /\ \A x : x \in DOMAIN Put(f, S, v) <=> x \in DOMAIN f \/ x \in S
           /\ \A x \in S : Put(f, S, v)[x] = v
           /\ \A x \in DOMAIN f \ S : Put(f, S, v)[x] = f[x]
<1> DEFINE K == TransferId
           R == TransferRows \cup {Gone}
<1>1. TransferVersions = UNION {[D -> R] : D \in SUBSET K} /\ S \in SUBSET K /\ v \in R
  BY DEF TransferVersions, Versions
<1> HIDE DEF K, R
<1>2. PICK D \in SUBSET K : f \in [D -> R]
  BY <1>1
<1>3. Put(f, S, v) \in [D \cup S -> R] /\ D \cup S \in SUBSET K
  BY <1>1, <1>2 DEF Put
<1>4. Put(f, S, v) \in TransferVersions
  BY <1>1, <1>3
<1> QED
  BY <1>2, <1>4 DEF Put

LEMMA PutBlocks ==
    ASSUME NEW f \in BlockVersions, NEW S \in SUBSET (0..MaxHeight), NEW v,
           v = Gone \/ v \in BlockRows
    PROVE  /\ Put(f, S, v) \in BlockVersions
           /\ \A x : x \in DOMAIN Put(f, S, v) <=> x \in DOMAIN f \/ x \in S
           /\ \A x \in S : Put(f, S, v)[x] = v
           /\ \A x \in DOMAIN f \ S : Put(f, S, v)[x] = f[x]
<1> DEFINE K == 0..MaxHeight
           R == BlockRows \cup {Gone}
<1>1. BlockVersions = UNION {[D -> R] : D \in SUBSET K} /\ S \in SUBSET K /\ v \in R
  BY DEF BlockVersions, Versions
<1> HIDE DEF K, R
<1>2. PICK D \in SUBSET K : f \in [D -> R]
  BY <1>1
<1>3. Put(f, S, v) \in [D \cup S -> R] /\ D \cup S \in SUBSET K
  BY <1>1, <1>2 DEF Put
<1>4. Put(f, S, v) \in BlockVersions
  BY <1>1, <1>3
<1> QED
  BY <1>2, <1>4 DEF Put

\* Only the transaction of one session moves.
LEMMA OneMoves ==
    ASSUME tx \in [Session -> Transaction], NEW s \in Session, NEW T, Advance(s, T)
    PROVE  /\ tx'[s] = T
           /\ \A o \in Session \ {s} : tx'[o] = tx[o]
           /\ T \in Transaction => tx' \in [Session -> Transaction]
  BY DEF Advance

LEMMA SaveSame ==
    ASSUME UNCHANGED storeVars, NEW s \in Session, tx'[s] = tx[s]
    PROVE  SaveOK(s) => SaveOK(s)'
  BY DEF SaveOK, HashConflict, storeVars

LEMMA InitSessions == Init => SessionsInv
<1> SUFFICES ASSUME Init PROVE SessionsInv
  OBVIOUS
<1>1. Held
  BY InitHeld
<1>2. tx = [s \in Session |-> Idle] /\ live = NoSession /\ mode = "down"
  BY DEF Init
<1>3. \A s \in Session : tx[s] = Idle /\ live # s
  BY <1>2, SessionAssumption
<1>4. SessionTypes
  BY <1>2, <1>3, IdleFacts DEF SessionTypes
<1>5. LockInv
  BY <1>3, IdleFacts DEF LockInv
<1>6. SaveInv /\ RollbackInv /\ CommitInv
  BY <1>3, IdleFacts DEF SaveInv, SaveOK, RollbackInv, RollbackOK, CommitInv, CommitOK
<1>7. ProcessInv
  BY <1>2 DEF ProcessInv
<1> QED
  BY <1>1, <1>4, <1>5, <1>6, <1>7 DEF SessionsInv

-----------------------------------------------------------------------------
\* Steps that leave the tables and the transactions alone.

LEMMA ProcessStep ==
    ASSUME SessionsInv, UNCHANGED <<storeVars, tx>>,
           \/ live' = live /\ mode' = mode /\ cp' = cp
           \/ live' = NoSession /\ mode' = "down"
           \/ /\ live = NoSession /\ live' = live /\ mode' = "reconcile" /\ cp' = checkpoint
              /\ \A s \in Session : tx[s].at \notin Rollbacks
           \/ /\ live = NoSession /\ live' = live /\ mode = "reconcile" /\ mode' = "index" /\ cp' = cp
    PROVE  SessionsInv'
<1>1. UNCHANGED <<checkpoint, indexed_blocks, erc20_transfers, tx>>
  BY DEF storeVars
<1>2. Held'
  BY <1>1 DEF SessionsInv, Held, HeldFrom, BlockAt
<1>3. SessionTypes'
  BY <1>1 DEF SessionsInv, SessionTypes
<1>4. LockInv'
  BY <1>1 DEF SessionsInv, LockInv
<1>5. SaveInv'
  BY <1>1, SaveSame DEF SessionsInv, SaveInv, storeVars
<1>6. RollbackInv'
  <2> SUFFICES ASSUME NEW s \in Session PROVE RollbackOK(s)'
    BY DEF RollbackInv
  <2>1. RollbackOK(s) /\ s # NoSession
    BY SessionAssumption DEF SessionsInv, RollbackInv
  <2>2. tx[s].at \in Rollbacks => live' = s \/ mode' = "down"
    BY <2>1 DEF RollbackOK
  <2> QED
    BY <1>1, <2>1, <2>2 DEF RollbackOK, BlockAt
<1>7. ProcessInv'
  <2>1. /\ checkpoint \in Checkpoints /\ checkpoint.Number \in DOMAIN indexed_blocks
        /\ checkpoint.Hash = BlockAt(checkpoint.Number)
    BY HeldTip DEF SessionsInv
  <2>2. ProcessInv /\ BlockAt(cp.Number)' = indexed_blocks[cp'.Number].block_hash
    BY <1>1 DEF SessionsInv, BlockAt
  <2>3. CASE live' = live /\ mode' = mode /\ cp' = cp
    BY <1>1, <2>2, <2>3 DEF ProcessInv, BlockAt
  <2>4. CASE live' = NoSession /\ mode' = "down"
    BY <2>4 DEF ProcessInv
  <2>5. CASE live = NoSession /\ live' = live /\ mode' = "reconcile" /\ cp' = checkpoint
    BY <1>1, <2>1, <2>5 DEF ProcessInv, BlockAt
  <2>6. CASE live = NoSession /\ live' = live /\ mode = "reconcile" /\ mode' = "index" /\ cp' = cp
    BY <1>1, <2>2, <2>6 DEF ProcessInv, BlockAt
  <2> QED
    BY <2>3, <2>4, <2>5, <2>6
<1>8. CommitInv'
  <2> SUFFICES ASSUME NEW s \in Session PROVE CommitOK(s)'
    BY DEF CommitInv
  <2>1. CommitOK(s) /\ s # NoSession
    BY SessionAssumption DEF SessionsInv, CommitInv
  <2> QED
    BY <1>1, <2>1 DEF CommitOK
<1> QED
  BY <1>2, <1>3, <1>4, <1>5, <1>6, <1>7, <1>8 DEF SessionsInv

\* EnsureIndexedBlock finds the row that is there.
LEMMA EnsureChangesNothing ==
    ASSUME SessionsInv, EnsureBlock
    PROVE  UNCHANGED storeVars
<1>1. /\ cp.Number \in DOMAIN indexed_blocks /\ cp.Hash = BlockAt(cp.Number)
      /\ mode = "reconcile" /\ EnsureIndexedBlock(cp)
  BY DEF SessionsInv, ProcessInv, EnsureBlock
<1>2. /\ indexed_blocks = [n \in DOMAIN indexed_blocks |-> indexed_blocks[n]]
      /\ BlockAt(cp.Number) \in Hash
      /\ indexed_blocks[cp.Number] = [block_hash |-> cp.Hash, parent_hash |-> ParentHash[cp.Hash]]
  BY <1>1, HeldTip DEF SessionsInv
<1>3. RecordedParent(cp.Number, NoHash) = ParentHash[cp.Hash]
  BY <1>1, <1>2, ParentAssumption DEF RecordedParent
<1>4. DOMAIN indexed_blocks \cup {cp.Number} = DOMAIN indexed_blocks
  BY <1>1
<1>5. RecordIndexedBlock(cp.Number, cp.Hash, NoHash) = indexed_blocks
  BY <1>2, <1>3, <1>4 DEF RecordIndexedBlock
<1> QED
  BY <1>1, <1>5 DEF EnsureIndexedBlock, storeVars

-----------------------------------------------------------------------------
\* A session comes to its end without COMMIT.
LEMMA ClosingStep ==
    ASSUME SessionsInv, NEW s \in Session, Advance(s, Idle), UNCHANGED <<storeVars, cp>>,
           \/ live = s /\ live' = NoSession /\ mode' = "down"
           \/ live # s /\ live' = live /\ mode' = mode
    PROVE  SessionsInv'
<1>1. tx \in [Session -> Transaction] /\ UNCHANGED <<checkpoint, indexed_blocks, erc20_transfers>>
  BY DEF SessionsInv, SessionTypes, storeVars
<1>2. /\ tx'[s] = Idle /\ tx' \in [Session -> Transaction]
      /\ \A o \in Session \ {s} : tx'[o] = tx[o]
  BY <1>1, OneMoves, IdleFacts
<1>3. Held'
  BY <1>1 DEF SessionsInv, Held, HeldFrom, BlockAt
<1>4. SessionTypes'
  BY <1>2 DEF SessionsInv, SessionTypes
<1>5. LockInv'
  BY <1>2, IdleFacts DEF SessionsInv, LockInv
<1>6. SaveInv'
  <2> SUFFICES ASSUME NEW o \in Session PROVE SaveOK(o)'
    BY DEF SaveInv
  <2>1. CASE o = s
    BY <1>2, <2>1, IdleFacts DEF SaveOK
  <2>2. CASE o # s
    BY <1>2, <2>2, SaveSame DEF SessionsInv, SaveInv
  <2> QED
    BY <2>1, <2>2
<1>7. RollbackInv'
  <2> SUFFICES ASSUME NEW o \in Session, tx'[o].at \in Rollbacks PROVE RollbackOK(o)'
    BY DEF RollbackInv, RollbackOK
  <2>1. o # s /\ tx'[o] = tx[o] /\ RollbackOK(o)
    BY <1>2, IdleFacts DEF SessionsInv, RollbackInv
  <2>2. \A p \in Session \ {o} : tx'[p] = Idle
    BY <1>2, <2>1 DEF RollbackOK
  <2> QED
    BY <1>1, <2>1, <2>2 DEF RollbackOK, BlockAt
<1>8. ProcessInv'
  <2>1. ProcessInv
    BY DEF SessionsInv
  <2>2. CASE live = s /\ live' = NoSession /\ mode' = "down"
    BY <2>2 DEF ProcessInv
  <2>3. CASE live # s /\ live' = live /\ mode' = mode
    <3>1. live # NoSession => live \in Session \ {s} /\ tx'[live] = tx[live]
      BY <1>2, <2>3 DEF SessionsInv, SessionTypes
    <3>2. \A p \in Session : tx'[p].at = "commit" => tx[p].at = "commit"
      BY <1>2, IdleFacts
    <3> QED
      BY <1>1, <2>1, <2>3, <3>1, <3>2 DEF ProcessInv, BlockAt
  <2> QED
    BY <2>2, <2>3
<1>9. CommitInv'
  <2> SUFFICES ASSUME NEW o \in Session PROVE CommitOK(o)'
    BY DEF CommitInv
  <2>1. CASE o = s
    BY <1>2, <2>1, IdleFacts DEF CommitOK
  <2>2. CASE o # s
    BY <1>1, <1>2, <2>2, SessionAssumption DEF SessionsInv, CommitInv, CommitOK
  <2> QED
    BY <2>1, <2>2
<1> QED
  BY <1>3, <1>4, <1>5, <1>6, <1>7, <1>8, <1>9 DEF SessionsInv

\* The running process begins a transaction or carries out a statement of it: what
\* has to be seen to is its own session and the locks.
LEMMA LiveStep ==
    ASSUME SessionsInv, NEW s \in Session, NEW T \in Transaction, Advance(s, T),
           UNCHANGED <<storeVars, mode, cp>>,
           live' = s, live \in {s, NoSession}, mode # "down", T.at # "idle",
           T.at \in Saves => /\ mode = "index" /\ T.to.Number = cp.Number + 1
                             /\ ParentHash[T.to.Hash] = cp.Hash,
           \A o \in Session \ {s} :
              /\ DOMAIN T.transfers \cap DOMAIN tx[o].transfers = {}
              /\ DOMAIN T.blocks \cap DOMAIN tx[o].blocks = {}
              /\ T.checkpoint = NoCheckpoint \/ tx[o].checkpoint = NoCheckpoint,
           SaveOK(s)', RollbackOK(s)', CommitOK(s)'
    PROVE  SessionsInv'
<1>1. tx \in [Session -> Transaction] /\ UNCHANGED <<checkpoint, indexed_blocks, erc20_transfers>>
  BY DEF SessionsInv, SessionTypes, storeVars
<1>2. /\ tx'[s] = T /\ tx' \in [Session -> Transaction]
      /\ \A o \in Session \ {s} : tx'[o] = tx[o]
  BY <1>1, OneMoves
<1>3. Held'
  BY <1>1 DEF SessionsInv, Held, HeldFrom, BlockAt
<1>4. SessionTypes'
  BY <1>2 DEF SessionsInv, SessionTypes
<1>5. LockInv'
  <2> SUFFICES ASSUME NEW p \in Session, NEW o \in Session, p # o
               PROVE  /\ DOMAIN tx'[p].transfers \cap DOMAIN tx'[o].transfers = {}
                      /\ DOMAIN tx'[p].blocks \cap DOMAIN tx'[o].blocks = {}
                      /\ tx'[p].checkpoint = NoCheckpoint \/ tx'[o].checkpoint = NoCheckpoint
    BY DEF LockInv
  <2>1. CASE p = s
    BY <1>2, <2>1
  <2>2. CASE o = s
    BY <1>2, <2>2
  <2>3. CASE p # s /\ o # s
    BY <1>2, <2>3 DEF SessionsInv, LockInv
  <2> QED
    BY <2>1, <2>2, <2>3
<1>6. SaveInv'
  BY <1>2, SaveSame DEF SessionsInv, SaveInv
<1>7. RollbackInv'
  <2> SUFFICES ASSUME NEW o \in Session \ {s} PROVE tx'[o].at \notin Rollbacks
    BY DEF RollbackInv, RollbackOK
  <2>1. RollbackOK(o) /\ tx'[o] = tx[o] /\ o # NoSession
    BY <1>2, SessionAssumption DEF SessionsInv, RollbackInv
  <2> QED
    BY <2>1 DEF RollbackOK
<1>8. ProcessInv'
  <2>1. ProcessInv
    BY DEF SessionsInv
  <2>2. \A p \in Session \ {s} : tx'[p].at = "commit" => tx[p].at = "commit" /\ p # live
    BY <1>2, SessionAssumption
  <2> QED
    BY <1>1, <1>2, <2>1, <2>2 DEF ProcessInv, BlockAt
<1>9. CommitInv'
  <2> SUFFICES ASSUME NEW o \in Session \ {s} PROVE CommitOK(o)'
    BY DEF CommitInv
  <2> QED
    BY <1>1, <1>2 DEF SessionsInv, CommitInv, CommitOK
<1> QED
  BY <1>3, <1>4, <1>5, <1>6, <1>7, <1>8, <1>9 DEF SessionsInv

LEMMA BeginSaveStep ==
    ASSUME SessionsInv, NEW s \in Session, NEW b \in Hash, BeginSave(s, b)
    PROVE  SessionsInv'
<1> DEFINE T == [Idle EXCEPT !.at = "insert", !.todo = Transfers[b],
                             !.to = [Number |-> Number[b], Hash |-> b]]
<1>1. /\ T.at = "insert" /\ T.to.Number = Number[b] /\ T.to.Hash = b
      /\ T.to = [Number |-> Number[b], Hash |-> b] /\ T.todo = Transfers[b]
      /\ DOMAIN T.transfers = {} /\ DOMAIN T.blocks = {} /\ T.checkpoint = NoCheckpoint
  BY IdleFacts DEF Idle
<1>2. T \in Transaction
  <2>1. Idle \in Transaction
    BY IdleFacts
  <2>2. [Number |-> Number[b], Hash |-> b] \in Checkpoints /\ Transfers[b] \in SUBSET TransferId
    BY NumberAssumption, TransfersAssumption DEF Checkpoints
  <2> QED
    BY <2>1, <2>2 DEF Transaction, Idle, Saves
<1>3. /\ Advance(s, T) /\ UNCHANGED <<storeVars, mode, cp>> /\ live' = s /\ live = NoSession
      /\ mode = "index" /\ Number[b] = cp.Number + 1 /\ ParentHash[b] = cp.Hash
  BY DEF BeginSave
<1> HIDE DEF T
<1>4. tx'[s] = T
  BY <1>2, <1>3, OneMoves DEF SessionsInv, SessionTypes
<1>5. SaveOK(s)' /\ RollbackOK(s)' /\ CommitOK(s)'
  BY <1>1, <1>4 DEF SaveOK, RollbackOK, CommitOK, Rollbacks
<1> QED
  BY <1>1, <1>2, <1>3, <1>5, LiveStep

LEMMA BeginRollbackStep ==
    ASSUME ~RollbackOverlaps, SessionsInv, NEW s \in Session, NEW n \in 0..MaxHeight,
           BeginRollback(s, n)
    PROVE  SessionsInv'
<1> DEFINE T == [Idle EXCEPT !.at = "delete transfers",
                             !.to = [Number |-> n, Hash |-> indexed_blocks[n].block_hash]]
<1>1. /\ T.at = "delete transfers" /\ T.to.Number = n /\ T.to.Hash = BlockAt(n)
      /\ DOMAIN T.transfers = {} /\ DOMAIN T.blocks = {} /\ T.checkpoint = NoCheckpoint
  BY IdleFacts DEF Idle, BlockAt
<1>2. /\ Advance(s, T) /\ UNCHANGED <<storeVars, mode, cp>> /\ live' = s /\ live = NoSession
      /\ mode = "reconcile" /\ n \in DOMAIN indexed_blocks
      /\ \A o \in Session : tx[o] = Idle
  BY DEF BeginRollback, Open
<1>3. T \in Transaction
  <2>1. Idle \in Transaction
    BY IdleFacts
  <2>2. [Number |-> n, Hash |-> indexed_blocks[n].block_hash] \in Checkpoints
    BY <1>2, HeldTip DEF Checkpoints, SessionsInv, BlockAt
  <2> QED
    BY <2>1, <2>2 DEF Transaction, Idle, Rollbacks
<1> HIDE DEF T
<1>4. tx'[s] = T /\ \A o \in Session \ {s} : tx'[o] = Idle
  BY <1>2, <1>3, OneMoves DEF SessionsInv, SessionTypes
<1>5. UNCHANGED <<indexed_blocks, erc20_transfers>>
  BY <1>2 DEF storeVars
<1>6. SaveOK(s)' /\ CommitOK(s)'
  BY <1>1, <1>4 DEF SaveOK, CommitOK, Saves
<1>7. RollbackOK(s)'
  BY <1>1, <1>2, <1>4, <1>5 DEF RollbackOK, BlockAt
<1> QED
  BY <1>1, <1>2, <1>3, <1>6, <1>7, LiveStep DEF Saves

-----------------------------------------------------------------------------
\* The statements of a transaction.

\* What the running process's session is like between two statements.
Working(s) ==
    /\ tx[s] \in Transaction /\ tx[s].at # "idle" /\ mode # "down"
    /\ SaveOK(s) /\ RollbackOK(s) /\ CommitOK(s)
    /\ tx[s].at \in Saves => /\ mode = "index" /\ tx[s].to.Number = cp.Number + 1
                             /\ ParentHash[tx[s].to.Hash] = cp.Hash
    /\ \A o \in Session \ {s} :
          /\ DOMAIN tx[s].transfers \cap DOMAIN tx[o].transfers = {}
          /\ DOMAIN tx[s].blocks \cap DOMAIN tx[o].blocks = {}
          /\ tx[s].checkpoint = NoCheckpoint \/ tx[o].checkpoint = NoCheckpoint

LEMMA LiveSession ==
    ASSUME SessionsInv, NEW s \in Session, live = s
    PROVE  Working(s)
<1>1. live # NoSession
  BY SessionAssumption
<1> QED
  BY <1>1 DEF Working, SessionsInv, SessionTypes, ProcessInv, SaveInv, RollbackInv, CommitInv, LockInv

LEMMA InsertTransferStep ==
    ASSUME SessionsInv, NEW s \in Session, NEW t \in TransferId, InsertTransfer(s, t)
    PROVE  SessionsInv'
<1> DEFINE row == [block_number |-> tx[s].to.Number, block_hash |-> tx[s].to.Hash]
           V == IF t \in DOMAIN erc20_transfers THEN tx[s].transfers ELSE Put(tx[s].transfers, {t}, row)
           T == [tx[s] EXCEPT !.todo = @ \ {t}, !.transfers = V]
           b == tx[s].to.Hash
<1>1. /\ live = s /\ tx[s].at = "insert" /\ t \in tx[s].todo /\ ~TransferLocked(s, t)
      /\ Advance(s, T) /\ UNCHANGED <<storeVars, live, mode, cp>>
  BY DEF InsertTransfer, Unchanged
<1>2. Working(s)
  BY <1>1, LiveSession
<1>3. /\ b \in Hash /\ tx[s].to = [Number |-> Number[b], Hash |-> b] /\ tx[s].to.Number = Number[b]
      /\ tx[s].todo \subseteq Transfers[b]
      /\ DOMAIN tx[s].transfers \subseteq Transfers[b] \ tx[s].todo
      /\ \A u \in Transfers[b] \ tx[s].todo :
            u \in DOMAIN tx[s].transfers <=> u \notin DOMAIN erc20_transfers
      /\ \A u \in DOMAIN tx[s].transfers :
            tx[s].transfers[u] = [block_number |-> Number[b], block_hash |-> b]
      /\ DOMAIN tx[s].blocks = {} /\ tx[s].checkpoint = NoCheckpoint
  BY <1>1, <1>2 DEF Working, SaveOK, Saves
<1>4. /\ tx[s].transfers \in TransferVersions /\ row \in TransferRows /\ {t} \in SUBSET TransferId
  BY <1>2, <1>3, NumberAssumption DEF Working, Transaction, TransferRows
<1>5. /\ V \in TransferVersions
      /\ DOMAIN V = DOMAIN tx[s].transfers \cup (IF t \in DOMAIN erc20_transfers THEN {} ELSE {t})
      /\ \A u \in DOMAIN tx[s].transfers \ {t} : V[u] = tx[s].transfers[u]
      /\ t \notin DOMAIN erc20_transfers => V[t] = row
  <2>1. CASE t \in DOMAIN erc20_transfers
    BY <1>4, <2>1
  <2>2. CASE t \notin DOMAIN erc20_transfers
    <3>1. V = Put(tx[s].transfers, {t}, row)
      BY <2>2
    <3> DEFINE f == tx[s].transfers
               S == {t}
    <3>2. /\ V = Put(f, S, row) /\ f \in TransferVersions /\ S \in SUBSET TransferId
          /\ row \in TransferRows
      BY <1>4, <3>1
    <3> HIDE DEF V, row, f, S
    <3>3. /\ Put(f, S, row) \in TransferVersions
          /\ \A x : x \in DOMAIN Put(f, S, row) <=> x \in DOMAIN f \/ x \in S
          /\ \A x \in S : Put(f, S, row)[x] = row
          /\ \A x \in DOMAIN f \ S : Put(f, S, row)[x] = f[x]
      BY <3>2, PutTransfers
    <3> QED
      BY <2>2, <3>2, <3>3 DEF f, S
  <2> QED
    BY <2>1, <2>2
<1> HIDE DEF V
<1>6. /\ T.at = "insert" /\ T.to = tx[s].to /\ T.todo = tx[s].todo \ {t} /\ T.transfers = V
      /\ T.blocks = tx[s].blocks /\ T.checkpoint = tx[s].checkpoint /\ T \in Transaction
  BY <1>1, <1>2, <1>5 DEF Working, Transaction
<1> HIDE DEF T
<1>7. tx'[s] = T /\ erc20_transfers' = erc20_transfers
  BY <1>1, <1>6, OneMoves DEF SessionsInv, SessionTypes, storeVars
<1>8. SaveOK(s)'
  <2>1. /\ T.todo \subseteq Transfers[b] /\ DOMAIN V \subseteq Transfers[b] \ T.todo
        /\ \A u \in Transfers[b] \ T.todo : u \in DOMAIN V <=> u \notin DOMAIN erc20_transfers
        /\ \A u \in DOMAIN V : V[u] = [block_number |-> Number[b], block_hash |-> b]
    BY <1>1, <1>3, <1>5, <1>6
  <2> QED
    BY <1>3, <1>6, <1>7, <2>1 DEF SaveOK, Saves
<1>9. RollbackOK(s)' /\ CommitOK(s)'
  BY <1>6, <1>7 DEF RollbackOK, CommitOK, Rollbacks
<1>10. \A o \in Session \ {s} :
          /\ DOMAIN T.transfers \cap DOMAIN tx[o].transfers = {}
          /\ DOMAIN T.blocks \cap DOMAIN tx[o].blocks = {}
          /\ T.checkpoint = NoCheckpoint
  BY <1>1, <1>2, <1>3, <1>5, <1>6 DEF TransferLocked, Working
<1> QED
  BY <1>1, <1>2, <1>6, <1>8, <1>9, <1>10, LiveStep DEF Working, Saves

LEMMA RecordBlockStep ==
    ASSUME SessionsInv, NEW s \in Session, RecordBlock(s)
    PROVE  SessionsInv'
<1> DEFINE b == tx[s].to.Hash
           n == tx[s].to.Number
           row == [block_hash |-> b, parent_hash |-> ParentHash[b]]
           V == Put(tx[s].blocks, {n}, row)
           T == [tx[s] EXCEPT !.at = "checkpoint", !.blocks = V]
<1>1. /\ live = s /\ tx[s].at = "insert" /\ tx[s].todo = {} /\ ~BlockLocked(s, n)
      /\ ~HashConflict(n, b) /\ UNCHANGED <<storeVars, live, mode, cp>>
      /\ Advance(s, [tx[s] EXCEPT !.at = "checkpoint",
                        !.blocks = Put(@, {n}, [block_hash |-> b,
                                                parent_hash |-> RecordedParent(n, ParentHash[b])])])
  BY DEF RecordBlock, Unchanged
<1>2. Working(s)
  BY <1>1, LiveSession
<1>3. /\ b \in Hash /\ tx[s].to = [Number |-> Number[b], Hash |-> b] /\ n = Number[b]
      /\ DOMAIN tx[s].transfers \subseteq Transfers[b]
      /\ \A u \in Transfers[b] :
            u \in DOMAIN tx[s].transfers <=> u \notin DOMAIN erc20_transfers
      /\ \A u \in DOMAIN tx[s].transfers :
            tx[s].transfers[u] = [block_number |-> Number[b], block_hash |-> b]
      /\ DOMAIN tx[s].blocks = {} /\ tx[s].checkpoint = NoCheckpoint
  BY <1>1, <1>2 DEF Working, SaveOK, Saves
<1>4. RecordedParent(n, ParentHash[b]) = ParentHash[b]
  <2>1. CASE n \in DOMAIN indexed_blocks
    <3>1. BlockAt(n) = b
      BY <1>1, <2>1 DEF HashConflict, BlockAt
    <3>2. indexed_blocks[n] = row
      BY <2>1, <3>1, HeldTip DEF SessionsInv
    <3> QED
      BY <3>2 DEF RecordedParent
  <2>2. CASE n \notin DOMAIN indexed_blocks
    BY <2>2 DEF RecordedParent
  <2> QED
    BY <2>1, <2>2
<1>5. Advance(s, T)
  BY <1>1, <1>4
<1>6. /\ tx[s].blocks \in BlockVersions /\ {n} \in SUBSET (0..MaxHeight)
      /\ row \in BlockRows
  BY <1>2, <1>3, NumberAssumption DEF Working, Transaction, BlockRows
<1>7. V \in BlockVersions /\ DOMAIN V = {n} /\ V[n] = row
  <2> DEFINE f == tx[s].blocks
             S == {n}
  <2>1. /\ V = Put(f, S, row) /\ f \in BlockVersions /\ S \in SUBSET (0..MaxHeight)
        /\ DOMAIN f = {} /\ \A x : x \in S <=> x = n
    BY <1>3, <1>6
  <2> HIDE DEF V, row, n, f, S
  <2>2. /\ Put(f, S, row) \in BlockVersions
        /\ \A x : x \in DOMAIN Put(f, S, row) <=> x \in DOMAIN f \/ x \in S
        /\ \A x \in S : Put(f, S, row)[x] = row
    BY <1>6, <2>1, PutBlocks
  <2>3. \A x : x \in DOMAIN V <=> x = n
    BY <2>1, <2>2
  <2> QED
    BY <2>1, <2>2, <2>3
<1> HIDE DEF V
<1>8. /\ T.at = "checkpoint" /\ T.to = tx[s].to /\ T.todo = {} /\ T.transfers = tx[s].transfers
      /\ T.blocks = V /\ T.checkpoint = NoCheckpoint /\ T \in Transaction
  BY <1>1, <1>2, <1>3, <1>7 DEF Working, Transaction, Saves
<1> HIDE DEF T
<1>9. tx'[s] = T /\ UNCHANGED <<checkpoint, indexed_blocks, erc20_transfers>>
  BY <1>1, <1>5, <1>8, OneMoves DEF SessionsInv, SessionTypes, storeVars
<1>10. SaveOK(s)'
  BY <1>1, <1>3, <1>7, <1>8, <1>9 DEF SaveOK, Saves, HashConflict
<1>11. RollbackOK(s)'
  BY <1>8, <1>9 DEF RollbackOK, Rollbacks
<1>12. CommitOK(s)'
  <2>1. /\ n = cp.Number + 1 /\ ParentHash[b] = cp.Hash /\ mode = "index"
    BY <1>1, <1>2 DEF Working, Saves
  <2>2. cp = checkpoint \/ checkpoint.Number = n
    BY <2>1 DEF SessionsInv, ProcessInv
  <2>3. checkpoint.Number = n => tx[s].to = checkpoint
    <3>1. /\ checkpoint \in Checkpoints /\ checkpoint.Number \in DOMAIN indexed_blocks
          /\ checkpoint.Hash = BlockAt(checkpoint.Number)
      BY HeldTip DEF SessionsInv
    <3>2. checkpoint.Number = n => checkpoint.Hash = b
      BY <1>1, <3>1 DEF HashConflict, BlockAt
    <3>3. checkpoint = [Number |-> checkpoint.Number, Hash |-> checkpoint.Hash]
      BY <3>1 DEF Checkpoints
    <3> QED
      BY <1>3, <3>2, <3>3
  <2> QED
    BY <1>8, <1>9, <2>1, <2>2, <2>3 DEF CommitOK
<1>13. \A o \in Session \ {s} :
          /\ DOMAIN T.transfers \cap DOMAIN tx[o].transfers = {}
          /\ DOMAIN T.blocks \cap DOMAIN tx[o].blocks = {}
          /\ T.checkpoint = NoCheckpoint
  BY <1>1, <1>2, <1>7, <1>8 DEF BlockLocked, Working
<1> QED
  BY <1>1, <1>2, <1>5, <1>8, <1>10, <1>11, <1>12, <1>13, LiveStep DEF Working, Saves

LEMMA DeleteTransfersStep ==
    ASSUME SessionsInv, NEW s \in Session, DeleteTransfers(s)
    PROVE  SessionsInv'
<1> DEFINE f == tx[s].transfers
           rows == {t \in DOMAIN erc20_transfers :
                       erc20_transfers[t].block_number > tx[s].to.Number}
           V == Put(f, rows, Gone)
           T == [tx[s] EXCEPT !.at = "delete blocks", !.transfers = V]
<1>1. /\ live = s /\ tx[s].at = "delete transfers"
      /\ Advance(s, T) /\ UNCHANGED <<storeVars, live, mode, cp>>
  BY DEF DeleteTransfers, Unchanged
<1>2. Working(s)
  BY <1>1, LiveSession
<1>3. /\ \A o \in Session \ {s} : tx[o] = Idle
      /\ tx[s].to.Number \in DOMAIN indexed_blocks /\ tx[s].to.Hash = BlockAt(tx[s].to.Number)
      /\ DOMAIN f = {} /\ DOMAIN tx[s].blocks = {} /\ tx[s].checkpoint = NoCheckpoint
  BY <1>1, <1>2 DEF Working, RollbackOK, Rollbacks
<1>4. f \in TransferVersions /\ rows \in SUBSET TransferId
  BY <1>2, HeldTip DEF Working, Transaction, SessionsInv
<1>5. V \in TransferVersions /\ DOMAIN V = rows /\ \A t \in rows : V[t] = Gone
  <2> HIDE DEF f, rows
  <2>1. /\ Put(f, rows, Gone) \in TransferVersions
        /\ \A x : x \in DOMAIN Put(f, rows, Gone) <=> x \in DOMAIN f \/ x \in rows
        /\ \A x \in rows : Put(f, rows, Gone)[x] = Gone
    BY <1>4, PutTransfers
  <2> QED
    BY <1>3, <2>1
<1> HIDE DEF V
<1>6. /\ T.at = "delete blocks" /\ T.to = tx[s].to /\ T.transfers = V
      /\ T.blocks = tx[s].blocks /\ T.checkpoint = NoCheckpoint /\ T \in Transaction
  BY <1>1, <1>2, <1>3, <1>5 DEF Working, Transaction, Rollbacks
<1> HIDE DEF T
<1>7. /\ tx'[s] = T /\ UNCHANGED <<checkpoint, indexed_blocks, erc20_transfers>>
      /\ \A o \in Session \ {s} : tx'[o] = Idle
  BY <1>1, <1>3, <1>6, OneMoves DEF SessionsInv, SessionTypes, storeVars
<1>8. SaveOK(s)' /\ CommitOK(s)'
  BY <1>6, <1>7 DEF SaveOK, CommitOK, Saves
<1>9. RollbackOK(s)'
  BY <1>1, <1>3, <1>5, <1>6, <1>7 DEF RollbackOK, BlockAt
<1>10. \A o \in Session \ {s} :
          /\ DOMAIN T.transfers \cap DOMAIN tx[o].transfers = {}
          /\ DOMAIN T.blocks \cap DOMAIN tx[o].blocks = {}
          /\ T.checkpoint = NoCheckpoint
  BY <1>3, <1>6, IdleFacts
<1> QED
  BY <1>1, <1>2, <1>6, <1>8, <1>9, <1>10, LiveStep DEF Working, Saves

LEMMA DeleteBlocksStep ==
    ASSUME SessionsInv, NEW s \in Session, DeleteBlocks(s)
    PROVE  SessionsInv'
<1> DEFINE f == tx[s].blocks
           rows == {n \in DOMAIN indexed_blocks : n > tx[s].to.Number}
           V == Put(f, rows, Gone)
           T == [tx[s] EXCEPT !.at = "move checkpoint", !.blocks = V]
<1>1. /\ live = s /\ tx[s].at = "delete blocks"
      /\ Advance(s, T) /\ UNCHANGED <<storeVars, live, mode, cp>>
  BY DEF DeleteBlocks, Unchanged
<1>2. Working(s)
  BY <1>1, LiveSession
<1>3. /\ \A o \in Session \ {s} : tx[o] = Idle
      /\ tx[s].to.Number \in DOMAIN indexed_blocks /\ tx[s].to.Hash = BlockAt(tx[s].to.Number)
      /\ DOMAIN f = {} /\ tx[s].checkpoint = NoCheckpoint
      /\ DOMAIN tx[s].transfers = {t \in DOMAIN erc20_transfers :
                                      erc20_transfers[t].block_number > tx[s].to.Number}
      /\ \A t \in DOMAIN tx[s].transfers : tx[s].transfers[t] = Gone
  BY <1>1, <1>2 DEF Working, RollbackOK, Rollbacks
<1>4. f \in BlockVersions /\ rows \in SUBSET (0..MaxHeight)
  BY <1>2, HeldTip DEF Working, Transaction, SessionsInv
<1>5. V \in BlockVersions /\ DOMAIN V = rows /\ \A n \in rows : V[n] = Gone
  <2> HIDE DEF f, rows
  <2>1. /\ Put(f, rows, Gone) \in BlockVersions
        /\ \A x : x \in DOMAIN Put(f, rows, Gone) <=> x \in DOMAIN f \/ x \in rows
        /\ \A x \in rows : Put(f, rows, Gone)[x] = Gone
    BY <1>4, PutBlocks
  <2> QED
    BY <1>3, <2>1
<1> HIDE DEF V
<1>6. /\ T.at = "move checkpoint" /\ T.to = tx[s].to /\ T.transfers = tx[s].transfers
      /\ T.blocks = V /\ T.checkpoint = NoCheckpoint /\ T \in Transaction
  BY <1>1, <1>2, <1>3, <1>5 DEF Working, Transaction, Rollbacks
<1> HIDE DEF T
<1>7. /\ tx'[s] = T /\ UNCHANGED <<checkpoint, indexed_blocks, erc20_transfers>>
      /\ \A o \in Session \ {s} : tx'[o] = Idle
  BY <1>1, <1>3, <1>6, OneMoves DEF SessionsInv, SessionTypes, storeVars
<1>8. SaveOK(s)' /\ CommitOK(s)'
  BY <1>6, <1>7 DEF SaveOK, CommitOK, Saves
<1>9. RollbackOK(s)'
  BY <1>1, <1>3, <1>5, <1>6, <1>7 DEF RollbackOK, BlockAt
<1>10. \A o \in Session \ {s} :
          /\ DOMAIN T.transfers \cap DOMAIN tx[o].transfers = {}
          /\ DOMAIN T.blocks \cap DOMAIN tx[o].blocks = {}
          /\ T.checkpoint = NoCheckpoint
  BY <1>3, <1>6, IdleFacts
<1> QED
  BY <1>1, <1>2, <1>6, <1>8, <1>9, <1>10, LiveStep DEF Working, Saves

LEMMA UpsertCheckpointStep ==
    ASSUME SessionsInv, NEW s \in Session, UpsertCheckpoint(s)
    PROVE  SessionsInv'
<1> DEFINE a == IF tx[s].at = "checkpoint" THEN "commit" ELSE "commit rollback"
           T == [tx[s] EXCEPT !.checkpoint = tx[s].to, !.at = a]
<1>1. /\ live = s /\ tx[s].at \in {"checkpoint", "move checkpoint"} /\ ~CheckpointLocked(s)
      /\ Advance(s, T) /\ UNCHANGED <<storeVars, live, mode, cp>>
  BY DEF UpsertCheckpoint, Unchanged
<1>2. Working(s)
  BY <1>1, LiveSession
<1>3. /\ T.at = a /\ T.to = tx[s].to /\ T.todo = tx[s].todo /\ T.transfers = tx[s].transfers
      /\ T.blocks = tx[s].blocks /\ T.checkpoint = tx[s].to /\ T \in Transaction
  BY <1>2 DEF Working, Transaction, Saves, Rollbacks
<1> HIDE DEF T
<1>4. /\ tx'[s] = T /\ UNCHANGED <<checkpoint, indexed_blocks, erc20_transfers>>
      /\ \A o \in Session \ {s} : tx'[o] = tx[o]
  BY <1>1, <1>3, OneMoves DEF SessionsInv, SessionTypes, storeVars
<1>5. ASSUME tx[s].at = "checkpoint"
      PROVE  SaveOK(s)' /\ RollbackOK(s)' /\ CommitOK(s)' /\ a # "idle"
  <2>1. a = "commit"
    BY <1>5
  <2>2. SaveOK(s)'
    BY <1>2, <1>3, <1>4, <1>5, <2>1 DEF Working, SaveOK, Saves, HashConflict
  <2>3. CommitOK(s)' /\ RollbackOK(s)'
    BY <1>1, <1>2, <1>3, <1>4, <1>5, <2>1 DEF Working, CommitOK, RollbackOK, Rollbacks
  <2> QED
    BY <2>1, <2>2, <2>3
<1>6. ASSUME tx[s].at = "move checkpoint"
      PROVE  SaveOK(s)' /\ RollbackOK(s)' /\ CommitOK(s)' /\ a # "idle"
  <2>1. a = "commit rollback"
    BY <1>6
  <2>2. SaveOK(s)' /\ CommitOK(s)'
    BY <1>3, <1>4, <2>1 DEF SaveOK, CommitOK, Saves
  <2>3. RollbackOK(s)'
    BY <1>1, <1>2, <1>3, <1>4, <1>6, <2>1 DEF Working, RollbackOK, Rollbacks, BlockAt
  <2> QED
    BY <2>1, <2>2, <2>3
<1>7. SaveOK(s)' /\ RollbackOK(s)' /\ CommitOK(s)' /\ T.at # "idle"
  BY <1>1, <1>3, <1>5, <1>6
<1>8. T.at \in Saves => tx[s].at \in Saves
  BY <1>1, <1>3 DEF Saves
<1>9. \A o \in Session \ {s} :
          /\ DOMAIN T.transfers \cap DOMAIN tx[o].transfers = {}
          /\ DOMAIN T.blocks \cap DOMAIN tx[o].blocks = {}
          /\ T.checkpoint = NoCheckpoint \/ tx[o].checkpoint = NoCheckpoint
  BY <1>1, <1>2, <1>3 DEF CheckpointLocked, Working
<1> QED
  BY <1>1, <1>2, <1>3, <1>7, <1>8, <1>9, LiveStep DEF Working

-----------------------------------------------------------------------------
\* COMMIT.

Tip ==
    /\ checkpoint \in Checkpoints /\ checkpoint.Number \in DOMAIN indexed_blocks
    /\ checkpoint.Hash = BlockAt(checkpoint.Number)

LEMMA HeldTipNext == Held' => Tip'
<1>1. Held => Tip
  BY HeldTip DEF Tip
<1> QED
  BY <1>1, PTL

\* What the COMMIT of a saving transaction makes visible is SaveIndexedBlock,
\* applied to the rows that are committed now.
LEMMA CommitSaves ==
    ASSUME SessionsInv, NEW s \in Session, Commit(s), tx[s].at = "commit"
    PROVE  tx[s].to.Hash \in Hash /\ SaveIndexedBlock(tx[s].to.Hash)
<1> DEFINE b == tx[s].to.Hash
           n == Number[b]
           row == [block_number |-> n, block_hash |-> b]
           V == tx[s].transfers
           W == tx[s].blocks
<1>1. /\ b \in Hash /\ tx[s].to = [Number |-> n, Hash |-> b] /\ tx[s].checkpoint = tx[s].to
      /\ DOMAIN V \subseteq Transfers[b]
      /\ \A t \in Transfers[b] : t \in DOMAIN V <=> t \notin DOMAIN erc20_transfers
      /\ \A t \in DOMAIN V : V[t] = row
      /\ DOMAIN W = {n} /\ W[n] = [block_hash |-> b, parent_hash |-> ParentHash[b]]
      /\ ~HashConflict(n, b)
  BY DEF SessionsInv, SaveInv, SaveOK, Saves
<1>2. /\ erc20_transfers' = Apply(erc20_transfers, V)
      /\ indexed_blocks' = Apply(indexed_blocks, W)
      /\ checkpoint' = tx[s].checkpoint
  BY DEF Commit
<1>3. /\ {t \in DOMAIN V : V[t] = Gone} = {}
      /\ {m \in DOMAIN W : W[m] = Gone} = {}
  BY <1>1, RowNotGone
<1>4. RecordedParent(n, ParentHash[b]) = ParentHash[b]
  <2>1. CASE n \in DOMAIN indexed_blocks
    <3>1. BlockAt(n) = b
      BY <1>1, <2>1 DEF HashConflict, BlockAt
    <3>2. indexed_blocks[n] = [block_hash |-> b, parent_hash |-> ParentHash[b]]
      BY <2>1, <3>1, HeldTip DEF SessionsInv
    <3> QED
      BY <3>2 DEF RecordedParent
  <2>2. CASE n \notin DOMAIN indexed_blocks
    BY <2>2 DEF RecordedParent
  <2> QED
    BY <2>1, <2>2
<1> HIDE DEF b, n, V, W, row
<1>5. erc20_transfers' = InsertTransfers(b)
  <2>1. erc20_transfers' = [t \in DOMAIN erc20_transfers \cup DOMAIN V |->
                               IF t \in DOMAIN V THEN V[t] ELSE erc20_transfers[t]]
    BY <1>2, <1>3 DEF Apply
  <2>2. DOMAIN erc20_transfers \cup DOMAIN V = DOMAIN erc20_transfers \cup Transfers[b]
    BY <1>1
  <2>3. \A t \in DOMAIN erc20_transfers \cup Transfers[b] :
           (IF t \in DOMAIN V THEN V[t] ELSE erc20_transfers[t])
           = (IF t \in DOMAIN erc20_transfers THEN erc20_transfers[t] ELSE row)
    BY <1>1
  <2>4. InsertTransfers(b) = [t \in DOMAIN erc20_transfers \cup Transfers[b] |->
                                 IF t \in DOMAIN erc20_transfers THEN erc20_transfers[t] ELSE row]
    BY DEF InsertTransfers, row, n
  <2> QED
    BY <2>1, <2>2, <2>3, <2>4
<1>6. indexed_blocks' = RecordIndexedBlock(n, b, ParentHash[b])
  BY <1>1, <1>2, <1>3, <1>4 DEF Apply, RecordIndexedBlock
<1> QED
  BY <1>1, <1>2, <1>5, <1>6 DEF SaveIndexedBlock, b, n

LEMMA Above == \A m, k \in 0..MaxHeight : m > k <=> ~(m <= k)
  BY HeightAssumption

\* What the COMMIT of a transaction that rolls back makes visible is RollbackTo.
LEMMA CommitRollsBack ==
    ASSUME SessionsInv, NEW s \in Session, Commit(s), tx[s].at = "commit rollback"
    PROVE  /\ tx[s].to \in Checkpoints /\ RollbackTo(tx[s].to)
           /\ tx[s].to.Number \in DOMAIN indexed_blocks
           /\ tx[s].to.Hash = BlockAt(tx[s].to.Number)
<1> DEFINE to == tx[s].to
           V == tx[s].transfers
           W == tx[s].blocks
<1>1. /\ to.Number \in DOMAIN indexed_blocks /\ to.Hash = BlockAt(to.Number)
      /\ tx[s].checkpoint = to
      /\ DOMAIN V = {t \in DOMAIN erc20_transfers : erc20_transfers[t].block_number > to.Number}
      /\ DOMAIN W = {n \in DOMAIN indexed_blocks : n > to.Number}
      /\ \A t \in DOMAIN V : V[t] = Gone
      /\ \A n \in DOMAIN W : W[n] = Gone
  BY DEF SessionsInv, RollbackInv, RollbackOK, Rollbacks
<1>2. /\ erc20_transfers' = Apply(erc20_transfers, V)
      /\ indexed_blocks' = Apply(indexed_blocks, W)
      /\ checkpoint' = tx[s].checkpoint
  BY DEF Commit
<1>3. to \in Checkpoints
  <2>1. to \in Checkpoints \cup {NoCheckpoint} /\ to.Hash \in Hash
    BY <1>1, HeldTip DEF SessionsInv, SessionTypes, Transaction
  <2>2. NoCheckpoint.Hash \notin Hash
    BY HashAssumption DEF NoCheckpoint
  <2> QED
    BY <2>1, <2>2
<1>4. /\ to.Number \in 0..MaxHeight /\ DOMAIN indexed_blocks \subseteq 0..MaxHeight
      /\ \A t \in DOMAIN erc20_transfers : erc20_transfers[t].block_number \in 0..MaxHeight
  BY <1>3, HeldTip DEF SessionsInv, Checkpoints
<1> HIDE DEF to, V, W
<1>5. /\ {t \in DOMAIN V : V[t] = Gone} = DOMAIN V
      /\ {n \in DOMAIN W : W[n] = Gone} = DOMAIN W
  BY <1>1
<1>6. /\ (DOMAIN erc20_transfers \cup DOMAIN V) \ DOMAIN V
            = {t \in DOMAIN erc20_transfers : erc20_transfers[t].block_number <= to.Number}
      /\ (DOMAIN indexed_blocks \cup DOMAIN W) \ DOMAIN W
            = {n \in DOMAIN indexed_blocks : n <= to.Number}
  <2>1. /\ \A t \in DOMAIN erc20_transfers :
              erc20_transfers[t].block_number <= to.Number <=> t \notin DOMAIN V
        /\ \A n \in DOMAIN indexed_blocks : n <= to.Number <=> n \notin DOMAIN W
    <3> DEFINE k == to.Number
               At(t) == erc20_transfers[t].block_number
    <3>4. \A t \in DOMAIN erc20_transfers : At(t) \in 0..MaxHeight
      BY <1>4
    <3>5. k \in 0..MaxHeight
      BY <1>4
    <3>2. /\ DOMAIN V = {t \in DOMAIN erc20_transfers : At(t) > k}
          /\ DOMAIN W = {n \in DOMAIN indexed_blocks : n > k}
          /\ DOMAIN indexed_blocks \subseteq 0..MaxHeight
      BY <1>1, <1>4
    <3> HIDE DEF k, At
    <3>1. \A m \in 0..MaxHeight : m > k <=> ~(m <= k)
      BY <3>5, Above
    <3>3. /\ \A t \in DOMAIN erc20_transfers : At(t) <= k <=> t \notin DOMAIN V
          /\ \A n \in DOMAIN indexed_blocks : n <= k <=> n \notin DOMAIN W
      BY <3>1, <3>2, <3>4
    <3> QED
      BY <3>3 DEF k, At
  <2>2. DOMAIN V \subseteq DOMAIN erc20_transfers /\ DOMAIN W \subseteq DOMAIN indexed_blocks
    BY <1>1
  <2> QED
    BY <2>1, <2>2
<1>7. erc20_transfers' =
         [t \in {u \in DOMAIN erc20_transfers : erc20_transfers[u].block_number <= to.Number} |->
             erc20_transfers[t]]
  <2> DEFINE K == {u \in DOMAIN erc20_transfers : erc20_transfers[u].block_number <= to.Number}
  <2>1. \A t \in K : t \notin DOMAIN V
    BY <1>6
  <2>2. erc20_transfers' = [t \in K |-> IF t \in DOMAIN V THEN V[t] ELSE erc20_transfers[t]]
    BY <1>2, <1>5, <1>6 DEF Apply
  <2> HIDE DEF K
  <2>3. erc20_transfers' = [t \in K |-> erc20_transfers[t]]
    BY <2>1, <2>2
  <2> QED
    BY <2>3 DEF K
<1>8. indexed_blocks' =
         [n \in {m \in DOMAIN indexed_blocks : m <= to.Number} |-> indexed_blocks[n]]
  <2> DEFINE K == {m \in DOMAIN indexed_blocks : m <= to.Number}
  <2>1. \A n \in K : n \notin DOMAIN W
    BY <1>6
  <2>2. indexed_blocks' = [n \in K |-> IF n \in DOMAIN W THEN W[n] ELSE indexed_blocks[n]]
    BY <1>2, <1>5, <1>6 DEF Apply
  <2> HIDE DEF K
  <2>3. indexed_blocks' = [n \in K |-> indexed_blocks[n]]
    BY <2>1, <2>2
  <2> QED
    BY <2>3 DEF K
<1> QED
  BY <1>1, <1>2, <1>3, <1>7, <1>8 DEF RollbackTo, to

LEMMA CommitRollbackStep ==
    ASSUME SessionsInv, NEW s \in Session, Commit(s), tx[s].at = "commit rollback"
    PROVE  SessionsInv'
<1>1. /\ \A o \in Session \ {s} : tx[o] = Idle
      /\ live = s \/ mode = "down"
      /\ tx[s].checkpoint = tx[s].to
  BY DEF SessionsInv, RollbackInv, RollbackOK, Rollbacks
<1>2. /\ Advance(s, Idle) /\ tx \in [Session -> Transaction] /\ checkpoint' = tx[s].to
      /\ IF live = s
         THEN live' = NoSession /\ cp' = tx[s].to /\ mode' = "index"
         ELSE UNCHANGED <<live, mode, cp>>
  BY <1>1 DEF Commit, SessionsInv, SessionTypes
<1>3. tx' \in [Session -> Transaction] /\ \A o \in Session : tx'[o] = Idle
  BY <1>1, <1>2, OneMoves, IdleFacts
<1>4. Held'
  BY CommitRollsBack, RollbackHeld DEF SessionsInv
<1>5. live' = NoSession /\ (mode' # "down" => mode' = "index" /\ cp' = checkpoint')
  <2>1. mode = "down" => live = NoSession
    BY DEF SessionsInv, ProcessInv
  <2> QED
    BY <1>1, <1>2, <2>1
<1>6. SessionTypes'
  BY <1>2, <1>3, <1>5 DEF SessionsInv, SessionTypes
<1>7. LockInv'
  BY <1>3, IdleFacts DEF LockInv
<1>8. SaveInv' /\ RollbackInv' /\ CommitInv'
  BY <1>3, IdleFacts DEF SaveInv, SaveOK, RollbackInv, RollbackOK, CommitInv, CommitOK
<1>9. ProcessInv'
  <2>1. Tip'
    BY <1>4, HeldTipNext
  <2> QED
    BY <1>5, <2>1 DEF ProcessInv, Tip, BlockAt
<1> QED
  BY <1>4, <1>6, <1>7, <1>8, <1>9 DEF SessionsInv

LEMMA CommitSaveStep ==
    ASSUME SessionsInv, NEW s \in Session, Commit(s), tx[s].at = "commit"
    PROVE  SessionsInv'
<1> DEFINE b == tx[s].to.Hash
           n == Number[b]
<1>1. /\ b \in Hash /\ tx[s].to = [Number |-> n, Hash |-> b] /\ tx[s].checkpoint = tx[s].to
      /\ tx[s].to.Number = n
      /\ \A t \in Transfers[b] : t \in DOMAIN tx[s].transfers <=> t \notin DOMAIN erc20_transfers
      /\ DOMAIN tx[s].blocks = {n} /\ ~HashConflict(n, b)
  <2>1. SaveOK(s) /\ tx[s].at \in Saves /\ tx[s].at # "insert"
    BY DEF SessionsInv, SaveInv, Saves
  <2>2. /\ b \in Hash /\ tx[s].to = [Number |-> n, Hash |-> b] /\ tx[s].checkpoint = tx[s].to
        /\ tx[s].todo = {} /\ DOMAIN tx[s].blocks = {n} /\ ~HashConflict(n, b)
    BY <2>1 DEF SaveOK
  <2>3. \A t \in Transfers[b] : t \in DOMAIN tx[s].transfers <=> t \notin DOMAIN erc20_transfers
    BY <2>1, <2>2 DEF SaveOK
  <2> QED
    BY <2>2, <2>3
<1>2. /\ Advance(s, Idle) /\ tx \in [Session -> Transaction]
      /\ live \in Session \cup {NoSession} /\ mode \in {"down", "reconcile", "index"}
      /\ IF live = s
         THEN live' = NoSession /\ cp' = tx[s].to /\ mode' = "index"
         ELSE UNCHANGED <<live, mode, cp>>
  BY DEF Commit, SessionsInv, SessionTypes
<1>3. /\ tx'[s] = Idle /\ tx' \in [Session -> Transaction]
      /\ \A o \in Session \ {s} : tx'[o] = tx[o]
  BY <1>2, OneMoves, IdleFacts
<1>4. SaveIndexedBlock(b)
  BY CommitSaves
<1>5. /\ checkpoint' = tx[s].to
      /\ \A t : t \in DOMAIN erc20_transfers' <=>
                   t \in DOMAIN erc20_transfers \/ t \in Transfers[b]
      /\ \A m : m \in DOMAIN indexed_blocks' <=> m \in DOMAIN indexed_blocks \/ m = n
      /\ \A m \in DOMAIN indexed_blocks \ {n} : indexed_blocks'[m] = indexed_blocks[m]
      /\ indexed_blocks'[n].block_hash = b
  BY <1>1, <1>4 DEF SaveIndexedBlock, InsertTransfers, RecordIndexedBlock
<1>6. \/ n = checkpoint.Number + 1 /\ ParentHash[b] = checkpoint.Hash
      \/ tx[s].to = checkpoint
  BY <1>1 DEF SessionsInv, CommitInv, CommitOK
<1>7. tx[s].to = checkpoint => UNCHANGED storeVars
  BY <1>1, <1>4, SaveAgain DEF SessionsInv
<1>8. Held'
  <2>1. CASE n = checkpoint.Number + 1 /\ ParentHash[b] = checkpoint.Hash
    BY <1>1, <1>4, <2>1, SaveHeld DEF SessionsInv
  <2>2. CASE tx[s].to = checkpoint
    BY <1>7, <2>2 DEF SessionsInv, Held, HeldFrom, BlockAt, storeVars
  <2> QED
    BY <1>6, <2>1, <2>2
<1>9. tx[s].checkpoint # NoCheckpoint
  <2>1. NoCheckpoint.Hash \notin Hash
    BY HashAssumption DEF NoCheckpoint
  <2> QED
    BY <1>1, <2>1
<1>10. ASSUME NEW o \in Session \ {s}
       PROVE  /\ DOMAIN tx[o].transfers \cap DOMAIN tx[s].transfers = {}
              /\ n \notin DOMAIN tx[o].blocks /\ tx[o].checkpoint = NoCheckpoint
  BY <1>1, <1>9 DEF SessionsInv, LockInv
<1>11. ASSUME NEW o \in Session \ {s}
       PROVE  tx[o].at # "commit" /\ tx[o].at \notin Rollbacks
  <2>1. tx[o].at # "commit"
    <3> SUFFICES ASSUME tx[o].at = "commit" PROVE FALSE
      OBVIOUS
    <3>1. /\ tx[o].to.Hash \in Hash /\ tx[o].checkpoint = tx[o].to
      BY DEF SessionsInv, SaveInv, SaveOK, Saves
    <3>2. NoCheckpoint.Hash \notin Hash
      BY HashAssumption DEF NoCheckpoint
    <3> QED
      BY <1>10, <3>1, <3>2
  <2>2. tx[o].at \notin Rollbacks
    BY IdleFacts DEF SessionsInv, RollbackInv, RollbackOK
  <2> QED
    BY <2>1, <2>2
<1>12. SessionTypes'
  <2>1. live' \in Session \cup {NoSession} /\ mode' \in {"down", "reconcile", "index"}
    BY <1>2
  <2> QED
    BY <1>3, <2>1 DEF SessionsInv, SessionTypes
<1>13. LockInv'
  BY <1>3, IdleFacts DEF SessionsInv, LockInv
<1>14. RollbackInv'
  BY <1>3, <1>11, IdleFacts DEF RollbackInv, RollbackOK
<1>15. SaveInv'
  <2> SUFFICES ASSUME NEW o \in Session, tx'[o].at \in Saves PROVE SaveOK(o)'
    BY DEF SaveInv, SaveOK
  <2>1. o # s /\ tx'[o] = tx[o] /\ o \in Session \ {s}
    BY <1>3, IdleFacts
  <2> DEFINE c == tx[o].to.Hash
  <2>2. SaveOK(o) /\ tx[o].at \in Saves
    BY <2>1 DEF SessionsInv, SaveInv
  <2>3. \A t \in Transfers[c] \ tx[o].todo :
           t \in DOMAIN tx[o].transfers <=> t \notin DOMAIN erc20_transfers'
    <3> TAKE t \in Transfers[c] \ tx[o].todo
    <3>1. t \in DOMAIN tx[o].transfers <=> t \notin DOMAIN erc20_transfers
      BY <2>2 DEF SaveOK
    <3>2. t \in DOMAIN tx[o].transfers => t \notin Transfers[b]
      BY <1>1, <1>10, <2>1, <3>1
    <3> QED
      BY <1>5, <3>1, <3>2
  <2>4. tx[o].at # "insert" => ~HashConflict(Number[c], c)'
    <3> SUFFICES ASSUME tx[o].at # "insert" PROVE ~HashConflict(Number[c], c)'
      OBVIOUS
    <3>1. DOMAIN tx[o].blocks = {Number[c]} /\ ~HashConflict(Number[c], c)
      BY <2>2 DEF SaveOK
    <3>2. Number[c] # n
      BY <1>10, <2>1, <3>1
    <3>3. /\ Number[c] \in DOMAIN indexed_blocks' => Number[c] \in DOMAIN indexed_blocks \ {n}
      BY <1>5, <3>2
    <3> QED
      BY <1>5, <2>1, <3>1, <3>3 DEF HashConflict
  <2> QED
    BY <2>1, <2>2, <2>3, <2>4 DEF SaveOK
<1>16. CommitInv'
  <2> SUFFICES ASSUME NEW o \in Session, tx'[o].at = "commit" \/ (live' = o /\ tx'[o].at = "checkpoint")
               PROVE  CommitOK(o)'
    BY DEF CommitInv, CommitOK
  <2>1. /\ o # s /\ tx'[o] = tx[o] /\ o \in Session \ {s} /\ o # NoSession
    BY <1>3, IdleFacts, SessionAssumption
  <2>2. tx[o].at = "checkpoint" /\ live = o
    BY <1>2, <1>11, <2>1
  <2>3. Working(o)
    BY <2>2, LiveSession
  <2>4. DOMAIN tx[o].blocks = {tx[o].to.Number} /\ tx[o].to.Number = cp.Number + 1
    BY <2>2, <2>3 DEF Working, SaveOK, Saves
  <2>5. cp = checkpoint
    BY <2>1, <2>2, <2>3 DEF SessionsInv, ProcessInv, Working
  <2>6. tx[o].to.Number # n
    BY <1>10, <2>1, <2>4
  <2>7. tx[s].to = checkpoint
    BY <1>6, <2>4, <2>5, <2>6
  <2>8. UNCHANGED checkpoint
    BY <1>7, <2>7 DEF storeVars
  <2> QED
    BY <2>1, <2>2, <2>3, <2>8 DEF Working, CommitOK
<1>17. ProcessInv'
  <2>1. Tip'
    BY <1>8, HeldTipNext
  <2>2. CASE live = s
    BY <1>2, <1>5, <2>1, <2>2 DEF ProcessInv, Tip, BlockAt
  <2>3. CASE live # s
    <3>1. UNCHANGED <<live, mode, cp>>
      BY <1>2, <2>3
    <3>2. live # NoSession => live \in Session \ {s} /\ tx'[live] = tx[live]
      BY <1>2, <1>3, <2>3
    <3>3. live # NoSession =>
             /\ mode # "down" /\ tx[live].at # "idle"
             /\ tx[live].at \in Saves =>
                   /\ mode = "index"
                   /\ tx[live].to.Number = cp.Number + 1
                   /\ ParentHash[tx[live].to.Hash] = cp.Hash
      BY DEF SessionsInv, ProcessInv
    <3>4. ASSUME mode # "down"
          PROVE  /\ cp \in Checkpoints
                 /\ cp.Number \in DOMAIN indexed_blocks' /\ cp.Hash = indexed_blocks'[cp.Number].block_hash
                 /\ \/ cp = checkpoint'
                    \/ /\ checkpoint'.Number = cp.Number + 1
                       /\ \A o \in Session \ {live} : tx'[o].at # "commit"
      <4>1. /\ cp \in Checkpoints /\ cp.Number \in DOMAIN indexed_blocks
            /\ cp.Hash = indexed_blocks[cp.Number].block_hash /\ cp = checkpoint
        BY <2>3, <3>4 DEF SessionsInv, ProcessInv, BlockAt
      <4>2. /\ cp.Number \in DOMAIN indexed_blocks' /\ cp.Hash = indexed_blocks'[cp.Number].block_hash
        BY <1>1, <1>5, <4>1 DEF HashConflict
      <4>3. \A o \in Session : tx'[o].at # "commit"
        BY <1>3, <1>11, IdleFacts
      <4> QED
        BY <1>1, <1>5, <1>6, <4>1, <4>2, <4>3
    <3> QED
      BY <3>1, <3>2, <3>3, <3>4 DEF ProcessInv, BlockAt
  <2> QED
    BY <2>2, <2>3
<1> QED
  BY <1>8, <1>12, <1>13, <1>14, <1>15, <1>16, <1>17 DEF SessionsInv

-----------------------------------------------------------------------------
LEMMA NextSessions == ASSUME ~RollbackOverlaps PROVE SessionsInv /\ [Next]_vars => SessionsInv'
<1> SUFFICES ASSUME SessionsInv, [Next]_vars PROVE SessionsInv'
  OBVIOUS
<1>1. CASE UNCHANGED vars
  BY <1>1, ProcessStep DEF vars
<1>2. ASSUME NEW s \in Session, Statement(s) PROVE SessionsInv'
  <2>1. ASSUME RecordConflict(s) PROVE SessionsInv'
    BY <2>1, ClosingStep DEF RecordConflict
  <2> QED
    BY <1>2, <2>1, InsertTransferStep, RecordBlockStep, DeleteTransfersStep, DeleteBlocksStep,
       UpsertCheckpointStep DEF Statement
<1>3. ASSUME NEW s \in Session, Commit(s) PROVE SessionsInv'
  <2>1. tx[s].at \in {"commit", "commit rollback"}
    BY <1>3 DEF Commit
  <2> QED
    BY <1>3, <2>1, CommitSaveStep, CommitRollbackStep
<1>4. ASSUME NEW s \in Session, StatementFails(s) PROVE SessionsInv'
  BY <1>4, ClosingStep DEF StatementFails
<1>5. ASSUME NEW s \in Session, OrphanAborts(s) PROVE SessionsInv'
  BY <1>5, ClosingStep DEF OrphanAborts, Unchanged
<1>6. CASE EnsureBlock
  <2>1. UNCHANGED storeVars
    BY <1>6, EnsureChangesNothing
  <2> QED
    BY <1>6, <2>1, ProcessStep DEF EnsureBlock
<1>7. CASE ProcessDies
  BY <1>7, ProcessStep DEF ProcessDies
<1>8. CASE Restart
  <2>1. live = NoSession
    BY <1>8 DEF Restart, SessionsInv, ProcessInv
  <2> QED
    BY <1>8, <2>1, ProcessStep DEF Restart
<1> QED
  BY <1>1, <1>2, <1>3, <1>4, <1>5, <1>6, <1>7, <1>8, BeginSaveStep, BeginRollbackStep DEF Next

LEMMA SessionsInvariant == ASSUME ~RollbackOverlaps PROVE Spec => []SessionsInv
<1>1. SessionsInv /\ [Next]_vars => SessionsInv'
  BY NextSessions
<1> QED
  BY <1>1, InitSessions, PTL DEF Spec

\* What other sessions see of SaveIndexedBlock, RollbackTo and EnsureIndexedBlock
\* (internal/store/postgres_block_persistence.go) is the whole call at one
\* instant, for any number of sessions that dead processes have left behind with
\* an unanswered COMMIT, as long as no rollback overlaps another transaction.
THEOREM AtomicTheorem == ASSUME ~RollbackOverlaps PROVE Spec => AtomicCalls
<1> DEFINE Call == \/ \E b \in Hash : SaveIndexedBlock(b)
                   \/ \E n \in 0..MaxHeight, h \in Hash :
                         \/ RollbackTo([Number |-> n, Hash |-> h])
                         \/ EnsureIndexedBlock([Number |-> n, Hash |-> h])
<1>1. SessionsInv /\ [Next]_vars => [Call]_storeVars
  <2> SUFFICES ASSUME SessionsInv, [Next]_vars PROVE Call \/ UNCHANGED storeVars
    OBVIOUS
  <2>1. ASSUME NEW s \in Session, Commit(s) PROVE Call
    <3>1. CASE tx[s].at = "commit"
      BY <2>1, <3>1, CommitSaves
    <3>2. CASE tx[s].at = "commit rollback"
      <4>1. tx[s].to \in Checkpoints /\ RollbackTo(tx[s].to)
        BY <2>1, <3>2, CommitRollsBack
      <4>2. PICK n \in 0..MaxHeight, h \in Hash : tx[s].to = [Number |-> n, Hash |-> h]
        BY <4>1 DEF Checkpoints
      <4>3. RollbackTo([Number |-> n, Hash |-> h])
        BY <4>1, <4>2
      <4> QED
        BY <4>3
    <3> QED
      BY <2>1, <3>1, <3>2 DEF Commit
  <2>2. ASSUME NEW s \in Session, Statement(s) PROVE UNCHANGED storeVars
    BY <2>2 DEF Statement, InsertTransfer, RecordBlock, RecordConflict, DeleteTransfers,
       DeleteBlocks, UpsertCheckpoint, Unchanged
  <2>3. EnsureBlock => UNCHANGED storeVars
    BY EnsureChangesNothing
  <2>4. (UNCHANGED vars) \/ ProcessDies \/ Restart => UNCHANGED storeVars
    BY DEF vars, ProcessDies, Restart
  <2>5. ASSUME NEW s \in Session, NEW b \in Hash, BeginSave(s, b) PROVE UNCHANGED storeVars
    BY <2>5 DEF BeginSave
  <2>6. ASSUME NEW s \in Session, NEW n \in 0..MaxHeight, BeginRollback(s, n)
        PROVE  UNCHANGED storeVars
    BY <2>6 DEF BeginRollback
  <2>7. ASSUME NEW s \in Session, StatementFails(s) \/ OrphanAborts(s) PROVE UNCHANGED storeVars
    BY <2>7 DEF StatementFails, OrphanAborts, Unchanged
  <2> HIDE DEF Call
  <2> QED
    BY <2>1, <2>2, <2>3, <2>4, <2>5, <2>6, <2>7 DEF Next
<1>2. Spec => [][Call]_storeVars
  BY <1>1, SessionsInvariant, PTL DEF Spec
<1> QED
  BY <1>2 DEF AtomicCalls

\* The committed rows of checkpoint, indexed_blocks and erc20_transfers are an
\* unbroken piece of one branch with exactly its transfers, however late the
\* COMMITs of dead processes arrive, as long as no rollback overlaps another
\* transaction.
THEOREM OneBranchTheorem == ASSUME ~RollbackOverlaps PROVE Spec => []HoldsOneBranch
<1>1. SessionsInv => HoldsOneBranch
  BY HeldBranch DEF SessionsInv
<1> QED
  BY <1>1, SessionsInvariant, PTL

-----------------------------------------------------------------------------
\* The in-memory store.

\* Both stores start empty and without a checkpoint.
LEMMA InitMemoryInv == MemoryInit => MemoryInv
<1> SUFFICES ASSUME MemoryInit PROVE MemoryInv
  OBVIOUS
<1>1. /\ checkpoint = NoCheckpoint /\ memCheckpoint = NoCheckpoint /\ exists = FALSE
      /\ DOMAIN indexes = {} /\ DOMAIN indexed_blocks = {} /\ DOMAIN erc20_transfers = {}
      /\ answers = [memory |-> "nil", postgres |-> "nil"]
  BY DEF MemoryInit, EmptyStore, NoRows
<1>2. MemoryTypeOK
  BY <1>1 DEF MemoryTypeOK, StoreTypeOK, Errors
<1>3. SameAnswers
  BY <1>1 DEF SameAnswers, Exists, NoCheckpoint
<1>4. NothingAbove
  BY <1>1 DEF NothingAbove
<1> QED
  BY <1>2, <1>3, <1>4 DEF MemoryInv

\* A block above everything recorded conflicts with nothing, so both stores
\* record it.
LEMMA IndexBlockKeeps ==
    ASSUME MemoryInv, NEW b \in Hash, IndexBlock(b)
    PROVE  MemoryInv'
<1> DEFINE k == Number[b]
<1>1. k \in 0..MaxHeight /\ b # NoHash
  BY NumberAssumption, HashAssumption
<1>2. \A n \in DOMAIN indexes : n < k /\ n \in 0..MaxHeight
  BY <1>1, HeightAssumption
  DEF IndexBlock, MemoryInv, NothingAbove, MemoryTypeOK, Checkpoints, NoCheckpoint
<1>3. k \notin DOMAIN indexes /\ DOMAIN indexes = DOMAIN indexed_blocks
  BY <1>1, <1>2 DEF MemoryInv, SameAnswers
<1>4. ~HashConflict(k, b)
  BY <1>3 DEF HashConflict
<1>5. /\ checkpoint' = [Number |-> k, Hash |-> b]
      /\ DOMAIN indexed_blocks' = DOMAIN indexed_blocks \cup {k}
      /\ \A n \in DOMAIN indexed_blocks : indexed_blocks'[n] = indexed_blocks[n]
      /\ indexed_blocks'[k] = [block_hash |-> b, parent_hash |-> ParentHash[b]]
  BY <1>3, <1>4 DEF IndexBlock, Postgres, SaveIndexedBlock, RecordIndexedBlock, RecordedParent
<1>6. erc20_transfers' = InsertTransfers(b)
  BY <1>4 DEF IndexBlock, Postgres, SaveIndexedBlock
<1>7. /\ memCheckpoint' = [Number |-> k, Hash |-> b] /\ exists' = TRUE
      /\ DOMAIN indexes' = DOMAIN indexes \cup {k}
      /\ \A n \in DOMAIN indexes : indexes'[n] = indexes[n]
      /\ indexes'[k] = Clone(b)
  BY <1>3 DEF IndexBlock, MemSaveIndexedBlock, SetIndex
<1>8. answers' = [memory |-> "nil", postgres |-> "nil"]
  BY <1>4 DEF IndexBlock, Answer, Conflict
<1>9. StoreTypeOK'
  <2>1. /\ DOMAIN erc20_transfers' \subseteq TransferId
        /\ \A t \in DOMAIN erc20_transfers' :
              erc20_transfers'[t] \in [block_number : 0..MaxHeight, block_hash : Hash]
    BY <1>1, <1>6, TransfersAssumption DEF InsertTransfers, MemoryInv, MemoryTypeOK, StoreTypeOK
  <2>2. \A n \in DOMAIN indexed_blocks' :
           indexed_blocks'[n] \in [block_hash : Hash,
                                   parent_hash : {ParentHash[c] : c \in Hash} \cup {NoHash}]
    BY <1>5 DEF MemoryInv, MemoryTypeOK, StoreTypeOK
  <2> QED
    BY <1>1, <1>5, <2>1, <2>2 DEF MemoryInv, MemoryTypeOK, StoreTypeOK, Checkpoints
<1>10. MemoryTypeOK'
  <2>1. /\ DOMAIN indexes' \subseteq 0..MaxHeight
        /\ \A n \in DOMAIN indexes' :
              /\ indexes'[n].BlockHash \in Hash
              /\ indexes'[n].ParentHash \in {ParentHash[c] : c \in Hash} \cup {NoHash}
              /\ indexes'[n].Transfers \subseteq TransferId
    BY <1>1, <1>7, TransfersAssumption DEF Clone, MemoryInv, MemoryTypeOK
  <2> QED
    BY <1>1, <1>7, <1>8, <1>9, <2>1 DEF MemoryTypeOK, Checkpoints, Errors
<1>11. SameAnswers'
  <2>1. \A n \in DOMAIN indexes' : Recorded(n, indexed_blocks[n].block_hash)'
    BY <1>3, <1>5, <1>7 DEF MemoryInv, SameAnswers, Recorded, Clone
  <2>2. exists' <=> Exists(checkpoint)'
    BY <1>1, <1>5, <1>7 DEF Exists
  <2> QED
    BY <1>3, <1>5, <1>7, <1>8, <2>1, <2>2 DEF SameAnswers
<1>12. NothingAbove'
  BY <1>1, <1>2, <1>3, <1>7 DEF NothingAbove, Recorded, Clone
<1> QED
  BY <1>10, <1>11, <1>12 DEF MemoryInv

\* A checkpoint can be seeded only while nothing is recorded.
LEMMA SeedKeeps ==
    ASSUME MemoryInv, NEW b \in Hash, Seed(b)
    PROVE  MemoryInv'
<1>1. Number[b] \in 0..MaxHeight /\ b # NoHash
  BY NumberAssumption, HashAssumption
<1>2. DOMAIN indexes = {} /\ DOMAIN indexed_blocks = {}
  BY DEF MemoryInv, NothingAbove, SameAnswers, Seed
<1>3. /\ checkpoint' = [Number |-> Number[b], Hash |-> b] /\ memCheckpoint' = checkpoint'
      /\ exists' = TRUE /\ answers' = [memory |-> "nil", postgres |-> "nil"]
      /\ UNCHANGED <<indexes, indexed_blocks, erc20_transfers>>
  BY DEF Seed, MemSave, Answer
<1>4. MemoryTypeOK'
  BY <1>1, <1>3 DEF MemoryInv, MemoryTypeOK, StoreTypeOK, Checkpoints, Errors
<1>5. SameAnswers' /\ NothingAbove'
  BY <1>1, <1>2, <1>3 DEF SameAnswers, NothingAbove, Exists
<1> QED
  BY <1>4, <1>5 DEF MemoryInv

\* At the checkpoint's height both stores have the checkpoint's block or none.
LEMMA ConfirmKeeps ==
    ASSUME MemoryInv, ConfirmCheckpoint
    PROVE  MemoryInv'
<1> DEFINE h == memCheckpoint.Number
           c == memCheckpoint.Hash
<1>1. /\ memCheckpoint = checkpoint /\ h \in 0..MaxHeight /\ c \in Hash /\ exists
      /\ memCheckpoint \in Checkpoints
  <2>1. exists /\ Exists(checkpoint) /\ memCheckpoint = checkpoint
    BY DEF MemoryInv, SameAnswers, ConfirmCheckpoint
  <2>2. memCheckpoint \in Checkpoints
    BY <2>1 DEF MemoryInv, MemoryTypeOK, NoCheckpoint, Exists
  <2> QED
    BY <2>1, <2>2 DEF Checkpoints
<1>2. DOMAIN indexes = DOMAIN indexed_blocks
      /\ \A n \in DOMAIN indexes : indexes[n].BlockHash = indexed_blocks[n].block_hash
  BY DEF MemoryInv, SameAnswers, Recorded
<1>3. h \in DOMAIN indexes => indexes[h].BlockHash = c
  BY DEF MemoryInv, NothingAbove, Recorded
<1>4. ~MemConflict(memCheckpoint) /\ ~HashConflict(h, c)
  BY <1>2, <1>3 DEF MemConflict, HashConflict, Recorded
<1>5. /\ UNCHANGED <<memCheckpoint, exists, checkpoint, erc20_transfers>>
      /\ answers' = [memory |-> "nil", postgres |-> "nil"]
      /\ indexes' = SetIndex(h, [BlockHash |-> c, ParentHash |-> NoHash, Transfers |-> {}])
      /\ indexed_blocks' = RecordIndexedBlock(h, c, NoHash)
  BY <1>4 DEF ConfirmCheckpoint, MemEnsureIndexedBlock, Postgres, EnsureIndexedBlock,
              Answer, Conflict
<1>6. /\ DOMAIN indexes' = DOMAIN indexes \cup {h}
      /\ \A n \in DOMAIN indexes : n # h => indexes'[n] = indexes[n]
      /\ indexes'[h] = [BlockHash |-> c, ParentHash |-> NoHash, Transfers |-> {}]
  BY <1>5 DEF SetIndex
<1>7. /\ DOMAIN indexed_blocks' = DOMAIN indexed_blocks \cup {h}
      /\ \A n \in DOMAIN indexed_blocks : n # h => indexed_blocks'[n] = indexed_blocks[n]
      /\ indexed_blocks'[h] = [block_hash |-> c, parent_hash |-> RecordedParent(h, NoHash)]
  BY <1>5 DEF RecordIndexedBlock
<1>8. StoreTypeOK'
  <2>1. RecordedParent(h, NoHash) \in {ParentHash[b] : b \in Hash} \cup {NoHash}
    BY DEF RecordedParent, MemoryInv, MemoryTypeOK, StoreTypeOK
  <2>2. \A n \in DOMAIN indexed_blocks' :
           indexed_blocks'[n] \in [block_hash : Hash,
                                   parent_hash : {ParentHash[b] : b \in Hash} \cup {NoHash}]
    BY <1>1, <1>7, <2>1 DEF MemoryInv, MemoryTypeOK, StoreTypeOK
  <2> QED
    BY <1>1, <1>5, <1>7, <2>2 DEF MemoryInv, MemoryTypeOK, StoreTypeOK
<1>9. MemoryTypeOK'
  <2>1. /\ DOMAIN indexes' \subseteq 0..MaxHeight
        /\ \A n \in DOMAIN indexes' :
              /\ indexes'[n].BlockHash \in Hash
              /\ indexes'[n].ParentHash \in {ParentHash[b] : b \in Hash} \cup {NoHash}
              /\ indexes'[n].Transfers \subseteq TransferId
    BY <1>1, <1>6 DEF MemoryInv, MemoryTypeOK
  <2> QED
    BY <1>1, <1>5, <1>8, <2>1 DEF MemoryTypeOK, Errors
<1>10. SameAnswers'
  <2>1. \A n \in DOMAIN indexes' : Recorded(n, indexed_blocks[n].block_hash)'
    BY <1>1, <1>2, <1>6, <1>7 DEF Recorded
  <2>2. exists' <=> Exists(checkpoint)'
    BY <1>5 DEF MemoryInv, SameAnswers, Exists
  <2> QED
    BY <1>1, <1>2, <1>5, <1>6, <1>7, <2>1, <2>2 DEF SameAnswers
<1>11. NothingAbove'
  BY <1>1, <1>5, <1>6 DEF MemoryInv, NothingAbove, Recorded
<1> QED
  BY <1>9, <1>10, <1>11 DEF MemoryInv

\* Both stores forget the same heights.
LEMMA RollBackKeeps ==
    ASSUME MemoryInv, NEW to \in Checkpoints, RollBackTo(to)
    PROVE  MemoryInv'
<1>1. /\ to.Number \in 0..MaxHeight /\ to.Hash \in Hash
      /\ checkpoint' = to /\ memCheckpoint' = to /\ exists' = TRUE
      /\ answers' = [memory |-> "nil", postgres |-> "nil"]
  BY DEF RollBackTo, MemRollbackTo, RollbackTo, Answer, Checkpoints
<1>2. /\ DOMAIN indexes' = {n \in DOMAIN indexes : n <= to.Number}
      /\ \A n \in DOMAIN indexes' : indexes'[n] = indexes[n]
  BY DEF RollBackTo, MemRollbackTo
<1>3. /\ DOMAIN indexed_blocks' = {n \in DOMAIN indexed_blocks : n <= to.Number}
      /\ \A n \in DOMAIN indexed_blocks' : indexed_blocks'[n] = indexed_blocks[n]
      /\ DOMAIN erc20_transfers' =
            {t \in DOMAIN erc20_transfers : erc20_transfers[t].block_number <= to.Number}
      /\ \A t \in DOMAIN erc20_transfers' : erc20_transfers'[t] = erc20_transfers[t]
  BY DEF RollBackTo, RollbackTo
<1>4. StoreTypeOK'
  BY <1>1, <1>3 DEF MemoryInv, MemoryTypeOK, StoreTypeOK
<1>5. MemoryTypeOK'
  BY <1>1, <1>2, <1>4 DEF MemoryInv, MemoryTypeOK, Errors
<1>6. SameAnswers'
  BY <1>1, <1>2, <1>3, HashAssumption DEF MemoryInv, SameAnswers, Exists, Recorded
<1>7. NothingAbove'
  BY <1>1, <1>2 DEF NothingAbove, RollBackTo, Recorded
<1> QED
  BY <1>5, <1>6, <1>7 DEF MemoryInv

\* Whatever the indexers and the reorg manager do, the memory store of their
\* tests (checkpoint.go) and the PostgreSQL store give them the same answers.
THEOREM SameAnswersTheorem == MemorySpec => []SameAnswers
<1>1. ASSUME MemoryInv, [MemoryNext]_memoryVars PROVE MemoryInv'
  <2>1. CASE UNCHANGED memoryVars
    <3>1. UNCHANGED <<checkpoint, indexed_blocks, erc20_transfers, memCheckpoint,
                      exists, indexes, answers>>
      BY <2>1 DEF memoryVars, storeVars
    <3> QED
      BY <1>1, <3>1 DEF MemoryInv, MemoryTypeOK, StoreTypeOK, SameAnswers, NothingAbove,
                        Recorded, Exists
  <2> QED
    BY <1>1, <2>1, SeedKeeps, IndexBlockKeeps, ConfirmKeeps, RollBackKeeps DEF MemoryNext
<1>2. MemoryInv => SameAnswers
  BY DEF MemoryInv
<1> QED
  BY InitMemoryInv, <1>1, <1>2, PTL DEF MemorySpec
=============================================================================
