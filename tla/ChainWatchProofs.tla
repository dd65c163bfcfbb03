-------------------------- MODULE ChainWatchProofs --------------------------
(***************************************************************************)
(* Proofs about ChainWatch, for every block tree, every height bound and     *)
(* every configured depth.  First the inductive invariant IndInv, and from it *)
(* the type invariant and the three safety invariants of the store.  Then     *)
(* what reorganisations do to the store: the process implements StoredChain,  *)
(* reorganisations below the confirmation depth leave no trace, and Reconcile *)
(* computes what its definition by sets says (ObservedReconcile).             *)
(***************************************************************************)
EXTENDS ObservedReconcile, TLAPS

\* Saving block b on top of the checkpoint (or into an empty store) extends
\* the piece of the branch the store holds by b: no row of b is lost to
\* ON CONFLICT DO NOTHING, because its transfers are new to the branch.
LEMMA SaveExtendsPiece ==
    ASSUME StoreTypeOK, StoreInv, NEW b \in Hash, LogsDecode(b),
           Exists(checkpoint) => /\ Number[b] = checkpoint.Number + 1
                                 /\ ParentHash[b] = checkpoint.Hash,
           SaveIndexedBlock(b)
    PROVE  StoreTypeOK' /\ StoreInv' /\ Exists(checkpoint)'
<1>1. checkpoint' = [Number |-> Number[b], Hash |-> b] /\ Number[b] \in 0..MaxHeight
  BY NumberAssumption DEF SaveIndexedBlock
<1>2. Exists(checkpoint)'
  BY <1>1, HashAssumption DEF Exists
<1>3. StoreTypeOK'
  <2>1. checkpoint' \in Checkpoints
    BY <1>1 DEF Checkpoints
  <2>2. DOMAIN indexed_blocks' = DOMAIN indexed_blocks \cup {Number[b]}
    BY DEF SaveIndexedBlock, RecordIndexedBlock
  <2>3. ASSUME NEW n \in DOMAIN indexed_blocks'
        PROVE  indexed_blocks'[n] \in
                  [block_hash : Hash,
                   parent_hash : {ParentHash[c] : c \in Hash} \cup {NoHash}]
    BY <2>2 DEF SaveIndexedBlock, RecordIndexedBlock, RecordedParent, StoreTypeOK
  <2>4. DOMAIN erc20_transfers' = DOMAIN erc20_transfers \cup Transfers[b]
    BY DEF SaveIndexedBlock, InsertTransfers
  <2>5. ASSUME NEW t \in DOMAIN erc20_transfers'
        PROVE  erc20_transfers'[t] \in [block_number : 0..MaxHeight, block_hash : Hash]
    BY <2>4, <1>1 DEF SaveIndexedBlock, InsertTransfers, StoreTypeOK
  <2> QED
    BY <2>1, <2>2, <2>3, <2>4, <2>5, <1>1, TransfersAssumption DEF StoreTypeOK
<1>4. CASE ~Exists(checkpoint)
  <2> DEFINE k == Number[b]
             g == [n \in k..k |-> b]
  <2>1. DOMAIN indexed_blocks = {} /\ DOMAIN erc20_transfers = {}
    BY <1>4 DEF StoreInv, EmptyStore, NoRows
  <2>2. k \in 0..MaxHeight /\ k..k = {k}
    BY <1>1
  <2>3. IsBranch(g, k, k) /\ g \in [k..k -> Hash] /\ g[k] = b
    BY <2>2 DEF IsBranch
  <2>4. DOMAIN indexed_blocks' = {k} /\ indexed_blocks'[k].block_hash = b
        /\ indexed_blocks'[k].parent_hash = ParentHash[b]
    BY <2>1 DEF SaveIndexedBlock, RecordIndexedBlock, RecordedParent
  <2>5. /\ DOMAIN erc20_transfers' = Transfers[b]
        /\ \A t \in Transfers[b] :
              erc20_transfers'[t] = [block_number |-> k, block_hash |-> b]
    BY <2>1 DEF SaveIndexedBlock, InsertTransfers
  <2> HIDE DEF g
  <2>6. HoldsPiece(g, k, checkpoint', indexed_blocks', erc20_transfers')
    BY <1>1, <2>2, <2>3, <2>4, <2>5 DEF HoldsPiece
  <2>7. g \in [k..checkpoint'.Number -> Hash]
    BY <1>1, <2>3
  <2> QED
    BY <1>2, <1>3, <2>2, <2>6, <2>7 DEF StoreInv, Exists
<1>5. CASE Exists(checkpoint)
  <2>0. PICK lo \in 0..MaxHeight : \E f \in [lo..checkpoint.Number -> Hash] :
            HoldsPiece(f, lo, checkpoint, indexed_blocks, erc20_transfers)
    BY <1>5 DEF StoreInv
  <2>1. PICK f \in [lo..checkpoint.Number -> Hash] :
            HoldsPiece(f, lo, checkpoint, indexed_blocks, erc20_transfers)
    BY <2>0
  <2> DEFINE h == checkpoint.Number
             g == [n \in lo..(h + 1) |-> IF n = h + 1 THEN b ELSE f[n]]
  <2>2. /\ h \in 0..MaxHeight /\ lo \in 0..MaxHeight /\ lo <= h
        /\ h + 1 = Number[b] /\ h + 1 \in 0..MaxHeight
    BY <1>5, <1>1, <2>1, HeightAssumption
    DEF HoldsPiece, StoreTypeOK, Checkpoints, NoCheckpoint, Exists
  <2>3. /\ g \in [lo..(h + 1) -> Hash]
        /\ g[h + 1] = b
        /\ \A n \in lo..h : g[n] = f[n]
    BY <2>2
  <2> HIDE DEF g
  <2>4. IsBranch(g, lo, h + 1)
    <3>1. \A n \in lo..h : Number[f[n]] = n /\ (n > lo => ParentHash[f[n]] = f[n - 1])
      BY <2>1 DEF HoldsPiece, IsBranch
    <3>2. ParentHash[b] = f[h]
      BY <1>5, <2>1 DEF HoldsPiece
    <3>3. ASSUME NEW n \in lo..(h + 1)
          PROVE  Number[g[n]] = n /\ (n > lo => ParentHash[g[n]] = g[n - 1])
      <4>1. CASE n = h + 1
        BY <2>2, <2>3, <3>2, <4>1
      <4>2. CASE n # h + 1
        <5>1. n \in lo..h /\ (n > lo => n - 1 \in lo..h)
          BY <2>2, <4>2
        <5> QED
          BY <2>3, <3>1, <5>1
      <4> QED
        BY <4>1, <4>2
    <3> QED
      BY <2>3, <3>3 DEF IsBranch
  <2>5. \A n \in lo..h : Transfers[f[n]] \cap Transfers[b] = {}
    <3>1. \A m \in lo..(h+1), n \in lo..(h+1) :
             m # n => Transfers[g[m]] \cap Transfers[g[n]] = {}
      BY <2>2, <2>3, <2>4, TransferIdentity
    <3>2. ASSUME NEW n \in lo..h
          PROVE  n \in lo..(h+1) /\ h + 1 \in lo..(h+1) /\ n # h + 1
      BY <2>2
    <3> QED
      BY <2>3, <3>1, <3>2
  <2>6. /\ DOMAIN erc20_transfers' = DOMAIN erc20_transfers \cup Transfers[b]
        /\ \A t \in DOMAIN erc20_transfers : erc20_transfers'[t] = erc20_transfers[t]
        /\ \A t \in Transfers[b] : t \notin DOMAIN erc20_transfers =>
              erc20_transfers'[t] = [block_number |-> h + 1, block_hash |-> b]
    BY <2>2 DEF SaveIndexedBlock, InsertTransfers
  <2>7. \A t \in DOMAIN erc20_transfers' : \E n \in lo..(h + 1) : t \in Transfers[g[n]]
    BY <2>1, <2>2, <2>3, <2>6 DEF HoldsPiece
  <2>8. \A n \in lo..(h + 1) : \A t \in Transfers[g[n]] :
              /\ t \in DOMAIN erc20_transfers'
              /\ erc20_transfers'[t] = [block_number |-> n, block_hash |-> g[n]]
    <3>1. \A t \in Transfers[b] : t \notin DOMAIN erc20_transfers
      BY <2>1, <2>2, <2>5 DEF HoldsPiece
    <3> QED
      BY <2>1, <2>2, <2>3, <2>6, <3>1 DEF HoldsPiece
  <2>9. /\ DOMAIN indexed_blocks' = DOMAIN indexed_blocks \cup {h + 1}
        /\ \A n \in DOMAIN indexed_blocks : indexed_blocks'[n] = indexed_blocks[n]
        /\ indexed_blocks'[h + 1] = [block_hash |-> b, parent_hash |-> ParentHash[b]]
    <3>1. h + 1 \notin DOMAIN indexed_blocks
      BY <2>1, <2>2 DEF HoldsPiece
    <3> QED
      BY <2>2, <3>1 DEF SaveIndexedBlock, RecordIndexedBlock, RecordedParent
  <2>10. \A n \in DOMAIN indexed_blocks' :
              /\ n \in lo..(h + 1) /\ n..(h + 1) \subseteq DOMAIN indexed_blocks'
              /\ indexed_blocks'[n].block_hash = g[n]
              /\ indexed_blocks'[n].parent_hash \in {NoHash, ParentHash[g[n]]}
    BY <2>1, <2>2, <2>3, <2>9 DEF HoldsPiece
  <2>11. checkpoint'.Number = h + 1 /\ checkpoint'.Hash = b
    BY <1>1, <2>2
  <2>12. HoldsPiece(g, lo, checkpoint', indexed_blocks', erc20_transfers')
    <3>1. \A n \in lo..(h + 1) : LogsDecode(g[n])
      BY <2>1, <2>2, <2>3 DEF HoldsPiece
    <3> QED
      BY <2>2, <2>3, <2>4, <2>7, <2>8, <2>10, <2>11, <3>1 DEF HoldsPiece
  <2>13. g \in [lo..checkpoint'.Number -> Hash]
    BY <2>3, <2>11
  <2> QED
    BY <1>2, <1>3, <2>2, <2>12, <2>13 DEF StoreInv, Exists
<1> QED
  BY <1>2, <1>3, <1>4, <1>5

\* Recording the checkpoint's own block only fills in the history of the tip.
LEMMA EnsureKeepsPiece ==
    ASSUME StoreTypeOK, StoreInv, Exists(checkpoint),
           EnsureIndexedBlock(checkpoint)
    PROVE  StoreTypeOK' /\ StoreInv'
<1> DEFINE h == checkpoint.Number
<1>1. checkpoint \in Checkpoints /\ h \in 0..MaxHeight /\ checkpoint.Hash \in Hash
  BY DEF StoreTypeOK, Checkpoints, NoCheckpoint, Exists
<1>2. /\ checkpoint' = checkpoint /\ erc20_transfers' = erc20_transfers
      /\ DOMAIN indexed_blocks' = DOMAIN indexed_blocks \cup {h}
      /\ \A n \in DOMAIN indexed_blocks : n # h => indexed_blocks'[n] = indexed_blocks[n]
      /\ indexed_blocks'[h] = [block_hash |-> checkpoint.Hash,
                               parent_hash |-> RecordedParent(h, NoHash)]
  BY DEF EnsureIndexedBlock, RecordIndexedBlock
<1>3. RecordedParent(h, NoHash) \in
          {NoHash} \cup {indexed_blocks[n].parent_hash : n \in {m \in DOMAIN indexed_blocks : m = h}}
  BY DEF RecordedParent
<1>4. StoreTypeOK'
  <2>1. ASSUME NEW n \in DOMAIN indexed_blocks'
        PROVE  indexed_blocks'[n] \in
                  [block_hash : Hash,
                   parent_hash : {ParentHash[c] : c \in Hash} \cup {NoHash}]
    BY <1>1, <1>2 DEF RecordedParent, StoreTypeOK
  <2> QED
    BY <1>1, <1>2, <2>1 DEF StoreTypeOK
<1>5. PICK lo \in 0..MaxHeight : \E f \in [lo..h -> Hash] :
          HoldsPiece(f, lo, checkpoint, indexed_blocks, erc20_transfers)
  BY DEF StoreInv
<1>6. PICK f \in [lo..h -> Hash] :
          HoldsPiece(f, lo, checkpoint, indexed_blocks, erc20_transfers)
  BY <1>5
<1>7. \A n \in DOMAIN indexed_blocks' :
          /\ n \in lo..h /\ n..h \subseteq DOMAIN indexed_blocks'
          /\ indexed_blocks'[n].block_hash = f[n]
          /\ indexed_blocks'[n].parent_hash \in {NoHash, ParentHash[f[n]]}
  BY <1>1, <1>2, <1>3, <1>6 DEF HoldsPiece
<1>8. HoldsPiece(f, lo, checkpoint', indexed_blocks', erc20_transfers')
  BY <1>2, <1>6, <1>7 DEF HoldsPiece
<1> QED
  BY <1>2, <1>4, <1>6, <1>8 DEF StoreInv, Exists

\* Rolling back to a recorded block keeps the lower part of the same branch,
\* with all of its transfers and no other.
LEMMA RollbackKeepsPiece ==
    ASSUME StoreTypeOK, StoreInv, Exists(checkpoint), NEW cp \in Checkpoints,
           cp.Number \in DOMAIN indexed_blocks,
           indexed_blocks[cp.Number].block_hash = cp.Hash,
           RollbackTo(cp)
    PROVE  StoreTypeOK' /\ StoreInv' /\ Exists(checkpoint)'
<1> DEFINE h == checkpoint.Number
           k == cp.Number
<1>1. k \in 0..MaxHeight /\ cp.Hash \in Hash /\ h \in 0..MaxHeight
  BY HeightAssumption DEF Checkpoints, StoreTypeOK, NoCheckpoint
<1>2. /\ checkpoint' = cp
      /\ DOMAIN indexed_blocks' = {m \in DOMAIN indexed_blocks : m <= k}
      /\ \A n \in DOMAIN indexed_blocks' : indexed_blocks'[n] = indexed_blocks[n]
      /\ DOMAIN erc20_transfers' =
            {t \in DOMAIN erc20_transfers : erc20_transfers[t].block_number <= k}
      /\ \A t \in DOMAIN erc20_transfers' : erc20_transfers'[t] = erc20_transfers[t]
  BY DEF RollbackTo
<1>3. Exists(checkpoint)'
  BY <1>1, <1>2, HashAssumption DEF Exists
<1>4. StoreTypeOK'
  BY <1>2 DEF StoreTypeOK
<1>5. PICK lo \in 0..MaxHeight : \E f \in [lo..h -> Hash] :
          HoldsPiece(f, lo, checkpoint, indexed_blocks, erc20_transfers)
  BY DEF StoreInv
<1>6. PICK f \in [lo..h -> Hash] :
          HoldsPiece(f, lo, checkpoint, indexed_blocks, erc20_transfers)
  BY <1>5
<1> DEFINE g == [n \in lo..k |-> f[n]]
<1>7. k \in lo..h /\ f[k] = cp.Hash /\ \A n \in lo..k : n \in lo..h
  BY <1>1, <1>6 DEF HoldsPiece
<1>8. g \in [lo..k -> Hash] /\ \A n \in lo..k : g[n] = f[n]
  BY <1>7
<1> HIDE DEF g
<1>9. IsBranch(g, lo, k)
  <2>1. ASSUME NEW n \in lo..k
        PROVE  Number[g[n]] = n /\ (n > lo => ParentHash[g[n]] = g[n - 1])
    <3>1. n > lo => n - 1 \in lo..k
      BY <1>1
    <3>2. Number[f[n]] = n /\ (n > lo => ParentHash[f[n]] = f[n - 1])
      BY <1>6, <1>7 DEF HoldsPiece, IsBranch
    <3> QED
      BY <1>8, <3>1, <3>2
  <2> QED
    BY <1>8, <2>1 DEF IsBranch
<1>10. \A n \in DOMAIN indexed_blocks' :
          /\ n \in lo..k /\ n..k \subseteq DOMAIN indexed_blocks'
          /\ indexed_blocks'[n].block_hash = g[n]
          /\ indexed_blocks'[n].parent_hash \in {NoHash, ParentHash[g[n]]}
  BY <1>1, <1>2, <1>6, <1>7, <1>8 DEF HoldsPiece
<1>11. \A t \in DOMAIN erc20_transfers' : \E n \in lo..k : t \in Transfers[g[n]]
  <2>1. ASSUME NEW t \in DOMAIN erc20_transfers' PROVE \E n \in lo..k : t \in Transfers[g[n]]
    <3>1. PICK n \in lo..h : t \in Transfers[f[n]]
      BY <1>2, <1>6 DEF HoldsPiece
    <3>2. erc20_transfers[t].block_number = n
      <4>1. erc20_transfers[t] = [block_number |-> n, block_hash |-> f[n]]
        BY <1>6, <3>1 DEF HoldsPiece
      <4> QED
        BY <4>1
    <3>3. n \in lo..k
      BY <1>1, <1>2, <3>1, <3>2
    <3> QED
      BY <1>8, <3>1, <3>3
  <2> QED
    BY <2>1
<1>12. \A n \in lo..k : \A t \in Transfers[g[n]] :
          /\ t \in DOMAIN erc20_transfers'
          /\ erc20_transfers'[t] = [block_number |-> n, block_hash |-> g[n]]
  BY <1>1, <1>2, <1>6, <1>7, <1>8 DEF HoldsPiece
<1>13. HoldsPiece(g, lo, checkpoint', indexed_blocks', erc20_transfers')
  <2>1. \A n \in lo..k : LogsDecode(g[n])
    BY <1>6, <1>7, <1>8 DEF HoldsPiece
  <2> QED
    BY <1>1, <1>2, <1>7, <1>8, <1>9, <1>10, <1>11, <1>12, <2>1 DEF HoldsPiece
<1>14. g \in [lo..checkpoint'.Number -> Hash]
  BY <1>2, <1>8
<1> QED
  BY <1>3, <1>4, <1>13, <1>14 DEF StoreInv, Exists

\* A step that does not write the store keeps what is known of it.
LEMMA StoreKept ==
    ASSUME StoreTypeOK, StoreInv, UNCHANGED storeVars
    PROVE  StoreTypeOK' /\ StoreInv'
  BY DEF storeVars, StoreTypeOK, StoreInv, EmptyStore, Exists

\* A legacy database holds a piece of a branch, with no history recorded.
LEMMA LegacyHoldsPiece ==
    ASSUME NEW f \in Chains, NEW lo \in 0..MaxHeight, NEW hi \in 0..MaxHeight,
           Indexable(f, lo, hi), LegacyStore(f, lo, hi)
    PROVE  StoreTypeOK /\ StoreInv
<1>1. PICK top \in 0..MaxHeight : IsBranch(f, 0, top)
  BY ChainsAssumption
<1>2. lo <= hi /\ hi \in 0..top
  BY <1>1 DEF LegacyStore, IsBranch
<1> DEFINE g == [n \in lo..hi |-> f[n]]
<1>3. \A n \in lo..hi : n \in 0..top /\ n \in 0..MaxHeight /\ f[n] \in Hash /\ Number[f[n]] = n
  BY <1>1, <1>2, HeightAssumption DEF IsBranch
<1>4. g \in [lo..hi -> Hash] /\ \A n \in lo..hi : g[n] = f[n]
  BY <1>3
<1> HIDE DEF g
<1>5. IsBranch(g, lo, hi)
  <2>1. ASSUME NEW n \in lo..hi PROVE n > lo => n - 1 \in lo..hi /\ n > 0
    OBVIOUS
  <2> QED
    BY <1>1, <1>3, <1>4, <2>1 DEF IsBranch
<1>6. checkpoint = [Number |-> hi, Hash |-> f[hi]] /\ f[hi] \in Hash
  BY <1>2, <1>3 DEF LegacyStore
<1>7. DOMAIN indexed_blocks = {}
  BY DEF LegacyStore, NoRows
<1>8. DOMAIN erc20_transfers = UNION {Transfers[f[n]] : n \in lo..hi}
  BY DEF LegacyStore, TransfersOf
<1>9. ASSUME NEW n \in lo..hi, NEW t \in Transfers[f[n]]
      PROVE  t \in DOMAIN erc20_transfers
             /\ erc20_transfers[t] = [block_number |-> n, block_hash |-> f[n]]
  <2> DEFINE c == CHOOSE m \in lo..hi : t \in Transfers[f[m]]
  <2>1. t \in DOMAIN erc20_transfers
    BY <1>8
  <2>2. c \in lo..hi /\ t \in Transfers[f[c]]
    BY <1>9
  <2>3. c = n
    <3>1. \A m \in lo..hi, p \in lo..hi :
             m # p => Transfers[g[m]] \cap Transfers[g[p]] = {}
      BY <1>4, <1>5, TransferIdentity
    <3> QED
      BY <1>4, <2>2, <3>1
  <2>4. erc20_transfers[t] = [block_number |-> c, block_hash |-> f[c]]
    BY <2>1 DEF LegacyStore, TransfersOf
  <2> QED
    BY <2>1, <2>3, <2>4
<1>10. \A t \in DOMAIN erc20_transfers : \E n \in lo..hi : t \in Transfers[f[n]]
  BY <1>8
<1>11. HoldsPiece(g, lo, checkpoint, indexed_blocks, erc20_transfers)
  <2>1. \A n \in lo..hi : LogsDecode(g[n])
    BY <1>1, <1>3, <1>4 DEF Indexable, IsBranch
  <2> QED
    BY <1>2, <1>4, <1>5, <1>6, <1>7, <1>9, <1>10, <2>1 DEF HoldsPiece
<1>12. StoreInv
  BY <1>4, <1>6, <1>11, HashAssumption DEF StoreInv, Exists
<1>13. StoreTypeOK
  <2>1. ASSUME NEW t \in DOMAIN erc20_transfers
        PROVE  t \in TransferId
               /\ erc20_transfers[t] \in [block_number : 0..MaxHeight, block_hash : Hash]
    <3>1. PICK n \in lo..hi : t \in Transfers[f[n]]
      BY <1>10
    <3>2. n \in 0..MaxHeight /\ f[n] \in Hash
      BY <1>3
    <3>3. erc20_transfers[t] = [block_number |-> n, block_hash |-> f[n]]
      BY <1>9, <3>1
    <3> QED
      BY <3>1, <3>2, <3>3, TransfersAssumption
  <2> QED
    BY <1>6, <1>7, <2>1 DEF StoreTypeOK, Checkpoints
<1> QED
  BY <1>12, <1>13

\* An empty or a legacy database and a process that is down: the initial states.
LEMMA InitIndInv == Init => IndInv
<1> SUFFICES ASSUME Init PROVE IndInv
  OBVIOUS
<1>1. ChainTypeOK
  <2>1. PICK h \in 0..MaxHeight : IsBranch(canonical, 0, h)
    BY ChainsAssumption DEF Init, ChainInit
  <2>2. head \in 0..MaxHeight /\ 0..head = 0..h
    BY <2>1 DEF Init, ChainInit, IsBranch
  <2>3. head = h
    BY <2>2, HeightAssumption
  <2> QED
    BY <2>1, <2>3 DEF ChainTypeOK
<1>2. StoreTypeOK /\ StoreInv
  <2>1. CASE EmptyStore
    BY <2>1, HeightAssumption DEF EmptyStore, StoreTypeOK, StoreInv, Exists, NoCheckpoint, NoRows
  <2>2. CASE \E f \in Chains, lo, hi \in 0..MaxHeight :
                Indexable(f, lo, hi) /\ LegacyStore(f, lo, hi)
    BY <2>2, LegacyHoldsPiece
  <2> QED
    BY <2>1, <2>2 DEF Init, StoreInit
<1>3. ReorgTypeOK /\ RangeTypeOK /\ phase \in Phases /\ startBlock \in 0..(MaxHeight + 1)
  BY HeightAssumption DEF Init, ReorgOff, RangeOff, ReorgTypeOK, RangeTypeOK, Phases, NoRows
<1>4. ReorgInv /\ RangeInv
  BY DEF Init, ReorgOff, RangeOff, ReorgInv, RangeInv, NoRows
<1> QED
  BY <1>1, <1>2, <1>3, <1>4 DEF IndInv, TypeOK

\* Every step of Reconcile, faults included.
LEMMA ReconcileKeepsIndInv ==
    ASSUME IndInv, Reconcile \/ ReconcileFaulty
    PROVE  IndInv'
<1> DEFINE Kept == StoreTypeOK' /\ StoreInv' /\ ReorgTypeOK' /\ ReorgInv'
<1>1. phase = "reconcile" /\ UNCHANGED <<chainVars, rangeVars, processVars>>
  BY DEF Reconcile, ReconcileFaulty
<1>2. ChainTypeOK' /\ RangeTypeOK' /\ phase' \in Phases /\ startBlock' \in 0..(MaxHeight + 1)
  BY <1>1 DEF IndInv, TypeOK, chainVars, rangeVars, processVars, ChainTypeOK, RangeTypeOK
<1>3. RangeInv'
  BY <1>1 DEF IndInv, RangeInv, chainVars, rangeVars, processVars
<1>4. phase' = "reconcile"
  BY <1>1 DEF processVars
<1>5. StoreTypeOK /\ StoreInv /\ ReorgTypeOK /\ ReorgInv
  BY DEF IndInv, TypeOK
<1>6. ASSUME LoadCheckpoint PROVE Kept
  <2>1. StoreTypeOK' /\ StoreInv'
    BY <1>5, <1>6, StoreKept DEF LoadCheckpoint
  <2>2. ReorgTypeOK'
    BY <1>5, <1>6 DEF LoadCheckpoint, ReorgTypeOK, StoreTypeOK, Reconciling, ReconcileOk
  <2>3. ReorgInv'
    BY <1>4, <1>6 DEF LoadCheckpoint, ReorgInv, storeVars, Exists
  <2> QED
    BY <2>1, <2>2, <2>3
<1>7. ASSUME VerifyCheckpoint PROVE Kept
  <2>1. StoreTypeOK' /\ StoreInv'
    BY <1>5, <1>7, StoreKept DEF VerifyCheckpoint
  <2>2. ReorgTypeOK'
    BY <1>5, <1>7 DEF VerifyCheckpoint, ReorgTypeOK, Reconciling, ReconcileFailed
  <2>3. /\ Exists(checkpoint) /\ candidate = checkpoint /\ previous = checkpoint
        /\ checkpoint.Number <= checkpoint.Number
    BY <1>5, <1>7, HeightAssumption
    DEF VerifyCheckpoint, ReorgInv, StoreTypeOK, Checkpoints, NoCheckpoint
  <2>4. /\ reconcile' \in {"ensure", "search", "tooDeep"}
        /\ reconcile' = "search" => AnotherDepth(candidate.Number)
        /\ UNCHANGED <<previous, candidate, checkpoint>>
    BY <1>7 DEF VerifyCheckpoint, storeVars
  <2>5. ReorgInv'
    BY <1>4, <2>3, <2>4 DEF ReorgInv, Exists, AnotherDepth
  <2> QED
    BY <2>1, <2>2, <2>5
<1>8. ASSUME reconcile = "ensure" /\ EnsureIndexedBlock(candidate)
           /\ reconcile' \in {"verified", "error"} /\ UNCHANGED <<previous, candidate>>
      PROVE  Kept
  <2>1. candidate = checkpoint /\ Exists(checkpoint)
    BY <1>5, <1>8 DEF ReorgInv
  <2>2. StoreTypeOK' /\ StoreInv' /\ checkpoint' = checkpoint
    BY <1>5, <1>8, <2>1, EnsureKeepsPiece DEF EnsureIndexedBlock
  <2>3. ReorgTypeOK'
    BY <1>5, <1>8 DEF ReorgTypeOK, ReconcileOk, ReconcileFailed
  <2>4. ReorgInv'
    BY <1>4, <1>8, <2>1, <2>2 DEF ReorgInv, Exists
  <2> QED
    BY <2>2, <2>3, <2>4
<1>9. ASSUME SearchAncestor PROVE Kept
  <2>1. StoreTypeOK' /\ StoreInv'
    BY <1>5, <1>9, StoreKept DEF SearchAncestor
  <2>2. /\ Exists(checkpoint) /\ previous = checkpoint /\ checkpoint \in Checkpoints
        /\ candidate.Number <= checkpoint.Number /\ AnotherDepth(candidate.Number)
    BY <1>5, <1>9 DEF SearchAncestor, ReorgInv, StoreTypeOK, Exists, NoCheckpoint
  <2> DEFINE k == candidate.Number - 1
  <2>3. /\ k \in DOMAIN indexed_blocks /\ k \in 0..MaxHeight
        /\ indexed_blocks[k].block_hash \in Hash
    BY <1>5, <1>9 DEF SearchAncestor, StoreTypeOK
  <2>4. candidate' = [Number |-> k, Hash |-> indexed_blocks[k].block_hash]
    BY <1>9 DEF SearchAncestor
  <2>5. reconcile' \in {"rollback", "search", "tooDeep"}
        /\ (reconcile' = "search" => AnotherDepth(k))
    BY <1>9 DEF SearchAncestor
  <2>6. UNCHANGED <<previous, checkpoint, indexed_blocks, erc20_transfers>>
    BY <1>9 DEF SearchAncestor, storeVars
  <2>7. ReorgTypeOK'
    BY <1>5, <2>3, <2>4, <2>5, <2>6
    DEF ReorgTypeOK, Checkpoints, Reconciling, ReconcileFailed
  <2>8. checkpoint.Number - k \in 1..MaxReorgDepth
    BY <2>2, <2>3, <1>5, MaxReorgDepthAssumption, HeightAssumption
    DEF AnotherDepth, Checkpoints, ReorgTypeOK, NoCheckpoint
  <2>9. reconcile' = "search" =>
           candidate'.Number <= checkpoint'.Number /\ AnotherDepth(candidate.Number)'
    BY <2>2, <2>3, <2>4, <2>5, <2>6, <2>8 DEF AnotherDepth, Checkpoints
  <2>10. reconcile' = "rollback" =>
          /\ candidate'.Number \in DOMAIN indexed_blocks'
          /\ indexed_blocks'[candidate'.Number].block_hash = candidate'.Hash
          /\ checkpoint'.Number - candidate'.Number \in 1..MaxReorgDepth
    BY <2>3, <2>4, <2>6, <2>8
  <2>11. ReorgInv'
    BY <1>4, <2>2, <2>5, <2>6, <2>9, <2>10 DEF ReorgInv, Exists, History
  <2> QED
    BY <2>1, <2>7, <2>11
<1>10. ASSUME reconcile = "rollback" /\ RollbackTo(candidate)
            /\ reconcile' \in {"rolledBack", "error"} /\ UNCHANGED <<previous, candidate>>
      PROVE  Kept
  <2>1. /\ Exists(checkpoint)
        /\ candidate.Number \in DOMAIN indexed_blocks
        /\ indexed_blocks[candidate.Number].block_hash = candidate.Hash
    BY <1>5, <1>10 DEF ReorgInv, History
  <2>2. candidate \in Checkpoints
    BY <1>5, <2>1, HashAssumption DEF ReorgTypeOK, StoreTypeOK, NoCheckpoint
  <2>3. PICK cp \in Checkpoints : cp = candidate
    BY <2>2
  <2>4. StoreTypeOK' /\ StoreInv' /\ Exists(checkpoint)' /\ checkpoint' = candidate
    BY <1>5, <1>10, <2>1, <2>3, RollbackKeepsPiece DEF RollbackTo
  <2>5. ReorgTypeOK'
    BY <1>5, <1>10 DEF ReorgTypeOK, ReconcileOk, ReconcileFailed
  <2>6. ReorgInv'
    BY <1>4, <1>10, <2>4 DEF ReorgInv, Exists
  <2> QED
    BY <2>4, <2>5, <2>6
<1>11. ASSUME reconcile' \in {"error", "historyUnavailable"}
            /\ UNCHANGED <<previous, candidate>> /\ UNCHANGED storeVars
      PROVE  Kept
  <2>1. StoreTypeOK' /\ StoreInv'
    BY <1>5, <1>11, StoreKept
  <2>2. ReorgTypeOK'
    BY <1>5, <1>11 DEF ReorgTypeOK, ReconcileFailed
  <2>3. ReorgInv'
    BY <1>4, <1>11 DEF ReorgInv
  <2> QED
    BY <2>1, <2>2, <2>3
<1>12. Kept
  BY <1>6, <1>7, <1>8, <1>9, <1>10, <1>11
  DEF Reconcile, ReconcileFaulty, ReconcileStep, ReconcileFault, RecordCheckpoint,
      HistoryMissing, RollBack, BlockNotFound, ReconcileError, ReconcileAnswerLost
<1> QED
  BY <1>2, <1>3, <1>12 DEF IndInv, TypeOK

\* Every step of a running IndexRange, faults included.  The commit is the
\* step that needs the whole invariant: the block it saves was read earlier,
\* and is on top of the checkpoint because it has expectedParentHash as parent.
LEMMA IndexingKeepsIndInv ==
    ASSUME IndInv, IndexBlocks \/ IndexingFaulty
    PROVE  IndInv'
<1> DEFINE Kept == StoreTypeOK' /\ StoreInv' /\ RangeTypeOK' /\ RangeInv'
<1>1. phase = "range" /\ UNCHANGED <<chainVars, reorgVars, processVars>>
  BY DEF IndexBlocks, IndexingFaulty
<1>2. ChainTypeOK' /\ ReorgTypeOK' /\ phase' \in Phases /\ startBlock' \in 0..(MaxHeight + 1)
  BY <1>1 DEF IndInv, TypeOK, chainVars, reorgVars, processVars, ChainTypeOK, ReorgTypeOK
<1>3. ReorgInv'
  BY <1>1 DEF IndInv, ReorgInv, reorgVars, processVars
<1>4. phase' = "range" /\ startBlock' = startBlock
  BY <1>1 DEF processVars
<1>5. StoreTypeOK /\ StoreInv /\ RangeTypeOK /\ RangeInv /\ ChainTypeOK
      /\ startBlock \in 0..(MaxHeight + 1)
  BY DEF IndInv, TypeOK
<1>6. ASSUME NEW n \in 0..MaxHeight, Fetch(n) \/ FetchError(n)
      PROVE  Kept
  <2>1. StoreTypeOK' /\ StoreInv'
    BY <1>5, <1>6, StoreKept DEF Fetch, FetchError
  <2>2. PICK h \in Hash \cup {NoHash} :
           /\ fetched' = Put(fetched, n, h)
           /\ h # NoHash => Number[h] = n
    <3>1. CASE Fetch(n)
      <4>1. HasBlock(n) => canonical[n] \in Hash /\ Number[canonical[n]] = n
        BY <1>5 DEF HasBlock, ChainTypeOK, IsBranch
      <4> QED
        BY <3>1, <4>1 DEF Fetch
    <3>2. CASE FetchError(n)
      BY <3>2 DEF FetchError
    <3> QED
      BY <1>6, <3>1, <3>2
  <2>3. /\ DOMAIN fetched' = DOMAIN fetched \cup {n}
        /\ \A m \in DOMAIN fetched' : fetched'[m] = IF m = n THEN h ELSE fetched[m]
    BY <2>2 DEF Put
  <2>4. UNCHANGED <<rangeState, endBlock, nextCommit, expectedParentHash, checkpoint>>
    BY <1>6 DEF Fetch, FetchError, storeVars
  <2>5. RangeTypeOK'
    BY <1>5, <2>2, <2>3, <2>4 DEF RangeTypeOK
  <2>6. \A m \in DOMAIN fetched' : fetched'[m] # NoHash => Number[fetched'[m]] = m
    BY <1>5, <2>2, <2>3 DEF RangeInv
  <2>7. RangeInv'
    BY <1>1, <1>4, <1>5, <2>4, <2>6 DEF RangeInv, Exists
  <2> QED
    BY <2>1, <2>5, <2>7
<1>7. ASSUME ReadyToCommit, SaveIndexedBlock(fetched[nextCommit])
      PROVE  /\ StoreTypeOK' /\ StoreInv' /\ Exists(checkpoint)'
             /\ checkpoint' = [Number |-> nextCommit, Hash |-> fetched[nextCommit]]
             /\ fetched[nextCommit] \in Hash
  <2>1. PICK b \in Hash : b = fetched[nextCommit]
    BY <1>5, <1>7 DEF ReadyToCommit, RangeTypeOK
  <2>2. Number[b] = nextCommit
    BY <1>5, <1>7, <2>1 DEF ReadyToCommit, RangeInv
  <2>3. Exists(checkpoint) => /\ Number[b] = checkpoint.Number + 1
                              /\ ParentHash[b] = checkpoint.Hash
    BY <1>5, <1>7, <2>1, <2>2, ParentAssumption
    DEF ReadyToCommit, ValidParent, RangeInv, Exists
  <2>4. StoreTypeOK' /\ StoreInv' /\ Exists(checkpoint)'
    BY <1>5, <1>7, <2>1, <2>3, SaveExtendsPiece DEF ReadyToCommit
  <2> QED
    BY <1>7, <2>1, <2>2, <2>4 DEF SaveIndexedBlock
<1>8. ASSUME CommitNext
      PROVE  Kept
  <2>1. /\ StoreTypeOK' /\ StoreInv' /\ Exists(checkpoint)'
        /\ checkpoint' = [Number |-> nextCommit, Hash |-> fetched[nextCommit]]
        /\ fetched[nextCommit] \in Hash
    BY <1>7, <1>8 DEF CommitNext
  <2>2. /\ rangeState = "running" /\ endBlock' = endBlock
        /\ expectedParentHash' = fetched[nextCommit]
        /\ startBlock <= nextCommit /\ nextCommit <= endBlock
        /\ nextCommit \in 0..MaxHeight /\ endBlock \in 0..MaxHeight
    BY <1>5, <1>8 DEF CommitNext, ReadyToCommit, RangeInv, RangeTypeOK
  <2>3. CASE nextCommit = endBlock
    <3>1. rangeState' = "done" /\ nextCommit' = nextCommit /\ DOMAIN fetched' = {}
      BY <1>8, <2>3 DEF CommitNext, ReturnRange, NoRows
    <3>2. RangeTypeOK'
      BY <2>1, <2>2, <3>1 DEF RangeTypeOK
    <3>3. RangeInv'
      BY <1>4, <1>5, <2>1, <2>2, <3>1 DEF RangeInv
    <3> QED
      BY <2>1, <3>2, <3>3
  <2>4. CASE nextCommit # endBlock
    <3>1. /\ rangeState' = "running" /\ nextCommit' = nextCommit + 1
          /\ fetched' = [m \in DOMAIN fetched \ {nextCommit} |-> fetched[m]]
      BY <1>8, <2>2, <2>4 DEF CommitNext, Without
    <3>2. nextCommit + 1 <= endBlock /\ nextCommit + 1 \in 0..MaxHeight
      BY <2>2, <2>4, HeightAssumption
    <3>3. RangeTypeOK'
      <4>1. DOMAIN fetched' \subseteq 0..MaxHeight
            /\ \A m \in DOMAIN fetched' : fetched'[m] \in Hash \cup {NoHash}
        BY <1>5, <3>1 DEF RangeTypeOK
      <4> QED
        BY <2>1, <2>2, <3>1, <3>2, <4>1 DEF RangeTypeOK
    <3>4. \A m \in DOMAIN fetched' : fetched'[m] # NoHash => Number[fetched'[m]] = m
      BY <1>5, <3>1 DEF RangeInv
    <3>5. /\ startBlock <= nextCommit + 1
          /\ checkpoint'.Number = nextCommit /\ checkpoint'.Hash = fetched[nextCommit]
      BY <1>5, <2>1, <2>2
    <3>6. RangeInv'
      BY <1>4, <2>2, <3>1, <3>2, <3>4, <3>5 DEF RangeInv
    <3> QED
      BY <2>1, <3>3, <3>6
  <2> QED
    BY <2>3, <2>4
<1>9. ASSUME rangeState' = "failed", fetched' = NoRows,
             UNCHANGED <<endBlock, nextCommit, expectedParentHash>>,
             StoreTypeOK' /\ StoreInv',
             Exists(checkpoint)' => startBlock <= checkpoint'.Number + 1
      PROVE  Kept
  <2>1. RangeTypeOK'
    BY <1>5, <1>9 DEF RangeTypeOK, NoRows
  <2>2. RangeInv'
    BY <1>4, <1>9 DEF RangeInv, NoRows
  <2> QED
    BY <1>9, <2>1, <2>2
<1>10. ASSUME SaveAnswerLost
       PROVE  Kept
  <2>1. /\ StoreTypeOK' /\ StoreInv'
        /\ checkpoint'.Number = nextCommit
    BY <1>7, <1>10 DEF SaveAnswerLost
  <2>2. startBlock <= checkpoint'.Number + 1
    BY <1>5, <1>10, <2>1 DEF SaveAnswerLost, ReadyToCommit, RangeInv, RangeTypeOK
  <2> QED
    BY <1>9, <1>10, <2>1, <2>2 DEF SaveAnswerLost, ReturnRange
<1>11. ASSUME RejectNext \/ RangeError
       PROVE  Kept
  <2>1. StoreTypeOK' /\ StoreInv' /\ checkpoint' = checkpoint
    BY <1>5, <1>11, StoreKept DEF RejectNext, RangeError, storeVars
  <2>2. Exists(checkpoint)' => startBlock <= checkpoint'.Number + 1
    BY <1>1, <1>5, <2>1 DEF RangeInv, Exists
  <2> QED
    BY <1>9, <1>11, <2>1, <2>2 DEF RejectNext, RangeError, ReturnRange
<1>12. Kept
  BY <1>6, <1>8, <1>10, <1>11 DEF IndexBlocks, IndexingFaulty, RangeStep, RangeFault
<1> QED
  BY <1>2, <1>3, <1>12 DEF IndInv, TypeOK

\* RunCycle's guard keeps the subtraction of the confirmation depth from wrapping.
LEMMA NoUnderflow ==
    ASSUME ChainTypeOK, RunCycle
    PROVE  IndexThrough = head - ConfirmationDepth /\ head - ConfirmationDepth \in 0..MaxHeight
<1>1. head \in 0..MaxHeight /\ MaxHeight \in Nat /\ ConfirmationDepth \in Nat
  BY HeightAssumption, ConfirmationDepthAssumption DEF ChainTypeOK
<1>2. head >= ConfirmationDepth
  BY <1>1 DEF RunCycle, NothingToIndex
<1> QED
  BY <1>1, <1>2 DEF IndexThrough

\* The steps that only move the process along: none of them writes the store.
LEMMA ControlKeepsIndInv ==
    ASSUME IndInv,
           \/ Start \/ ResumeFromCheckpoint \/ NoCheckpointYet \/ StartFromLatest
           \/ SkipCycle \/ RunCycle \/ CycleDone \/ Tick \/ ExitOnError \/ Stop
    PROVE  IndInv'
<1>1. UNCHANGED chainVars /\ UNCHANGED storeVars
  BY DEF Start, ResumeFromCheckpoint, NoCheckpointYet, StartFromLatest, SkipCycle,
         RunCycle, IndexRange, CycleDone, Tick, ExitOnError, Stop, LoseMemory
<1>2. ChainTypeOK' /\ StoreTypeOK' /\ StoreInv' /\ checkpoint' = checkpoint
      /\ indexed_blocks' = indexed_blocks
  BY <1>1, StoreKept DEF IndInv, TypeOK, chainVars, storeVars, ChainTypeOK
<1>3. ChainTypeOK /\ StoreTypeOK /\ ReorgTypeOK /\ RangeTypeOK /\ phase \in Phases
      /\ startBlock \in 0..(MaxHeight + 1) /\ ReorgInv /\ RangeInv
  BY DEF IndInv, TypeOK
<1>4. head \in 0..MaxHeight /\ checkpoint.Number \in 0..MaxHeight
      /\ (Exists(checkpoint) => checkpoint \in Checkpoints)
  BY <1>3, HeightAssumption DEF ChainTypeOK, StoreTypeOK, Checkpoints, NoCheckpoint, Exists
<1> DEFINE Kept == /\ ReorgTypeOK' /\ RangeTypeOK' /\ phase' \in Phases
                   /\ startBlock' \in 0..(MaxHeight + 1) /\ ReorgInv' /\ RangeInv'
<1>5. ASSUME Start PROVE Kept
  <2>1. ReorgTypeOK' /\ RangeTypeOK' /\ phase' \in Phases /\ startBlock' \in 0..(MaxHeight + 1)
    BY <1>3, <1>5 DEF Start, BeginReconcile, rangeVars, ReorgTypeOK, RangeTypeOK, Phases,
                      Reconciling
  <2>2. ReorgInv' /\ RangeInv'
    BY <1>3, <1>5 DEF Start, BeginReconcile, rangeVars, ReorgInv, RangeInv
  <2> QED
    BY <2>1, <2>2
<1>6. ASSUME ResumeFromCheckpoint \/ NoCheckpointYet PROVE Kept
  <2>1. /\ reconcile' = "off" /\ previous' = NoCheckpoint /\ candidate' = NoCheckpoint
        /\ UNCHANGED rangeVars /\ phase = "reconcile"
    BY <1>6 DEF ResumeFromCheckpoint, NoCheckpointYet, ForgetReconcile
  <2>2. \/ phase' = "latest" /\ startBlock' = startBlock /\ ~Exists(checkpoint)
        \/ phase' = "cycle" /\ startBlock' = checkpoint.Number + 1
    BY <1>3, <1>6 DEF ResumeFromCheckpoint, NoCheckpointYet, ReorgInv
  <2>3. startBlock' \in 0..(MaxHeight + 1)
    BY <1>3, <1>4, <2>2, HeightAssumption
  <2>4. ReorgTypeOK' /\ RangeTypeOK' /\ phase' \in Phases
    BY <1>3, <2>1, <2>2 DEF ReorgTypeOK, RangeTypeOK, rangeVars, Phases
  <2>5. ReorgInv'
    BY <2>1, <2>2 DEF ReorgInv
  <2>6. RangeInv'
    BY <1>2, <1>3, <1>4, <2>1, <2>2 DEF RangeInv, rangeVars, Exists
  <2> QED
    BY <2>3, <2>4, <2>5, <2>6
<1>7. ASSUME StartFromLatest PROVE Kept
  <2>1. /\ UNCHANGED reorgVars /\ UNCHANGED rangeVars
        /\ phase = "latest" /\ phase' = "cycle" /\ ~Exists(checkpoint)
    BY <1>3, <1>7 DEF StartFromLatest, RangeInv
  <2>2. startBlock' \in 0..(MaxHeight + 1)
    BY <1>4, <1>7, HeightAssumption, ConfirmationDepthAssumption DEF StartFromLatest, IndexThrough
  <2>3. ReorgTypeOK' /\ RangeTypeOK' /\ phase' \in Phases
    BY <1>3, <2>1 DEF ReorgTypeOK, RangeTypeOK, reorgVars, rangeVars, Phases
  <2>4. ReorgInv' /\ RangeInv'
    BY <1>2, <1>3, <2>1 DEF ReorgInv, RangeInv, reorgVars, rangeVars, Exists
  <2> QED
    BY <2>2, <2>3, <2>4
<1>8. ASSUME SkipCycle \/ Tick PROVE Kept
  <2>1. /\ UNCHANGED reorgVars /\ UNCHANGED rangeVars /\ startBlock' = startBlock
        /\ phase \in {"cycle", "idle"} /\ phase' \in {"cycle", "idle"}
    BY <1>8 DEF SkipCycle, Tick
  <2>2. ReorgTypeOK' /\ RangeTypeOK' /\ phase' \in Phases
    BY <1>3, <2>1 DEF ReorgTypeOK, RangeTypeOK, reorgVars, rangeVars, Phases
  <2>3. ReorgInv' /\ RangeInv'
    BY <1>2, <1>3, <2>1 DEF ReorgInv, RangeInv, reorgVars, rangeVars, Exists
  <2> QED
    BY <1>3, <2>1, <2>2, <2>3
<1>9. ASSUME RunCycle PROVE Kept
  <2> DEFINE end == head - ConfirmationDepth
  <2>1. /\ phase = "cycle" /\ phase' = "range" /\ startBlock' = startBlock
        /\ UNCHANGED reorgVars /\ fetched' = fetched /\ endBlock' = end
        /\ startBlock <= end
    BY <1>3, <1>9, NoUnderflow DEF RunCycle, IndexRange
  <2>2. end \in 0..MaxHeight
    BY <1>3, <1>9, NoUnderflow
  <2>3. Exists(checkpoint) => startBlock <= checkpoint.Number + 1
    BY <1>3, <2>1 DEF RangeInv
  <2>4. ReorgTypeOK' /\ ReorgInv' /\ phase' \in Phases
    BY <1>2, <1>3, <2>1 DEF ReorgTypeOK, ReorgInv, reorgVars, Phases
  <2>5. CASE AlreadyIndexed(startBlock, end)
    <3>1. rangeState' = "done" /\ UNCHANGED <<nextCommit, expectedParentHash>>
      BY <1>3, <1>9, <2>5, NoUnderflow DEF RunCycle, IndexRange
    <3>2. RangeTypeOK' /\ RangeInv'
      BY <1>2, <1>3, <2>1, <2>2, <2>3, <3>1 DEF RangeTypeOK, RangeInv, Exists
    <3> QED
      BY <1>3, <2>1, <2>4, <3>2
  <2>6. CASE ~AlreadyIndexed(startBlock, end)
    <3>1. /\ rangeState' = "running" /\ nextCommit' = NextBlock(startBlock)
          /\ expectedParentHash' = FirstExpectedParent(startBlock)
      BY <1>3, <1>9, <2>6, NoUnderflow DEF RunCycle, IndexRange
    <3>2. /\ startBlock <= NextBlock(startBlock) /\ NextBlock(startBlock) <= end
          /\ Exists(checkpoint) => NextBlock(startBlock) = checkpoint.Number + 1
          /\ NextBlock(startBlock) \in 0..MaxHeight
      BY <1>3, <1>4, <2>1, <2>2, <2>3, <2>6, HeightAssumption
      DEF NextBlock, AlreadyIndexed, Resumes
    <3>3. FirstExpectedParent(startBlock) = checkpoint.Hash
      BY <3>2 DEF FirstExpectedParent, Exists
    <3>4. checkpoint.Hash \in Hash \cup {NoHash}
      BY <1>3 DEF StoreTypeOK, Checkpoints, NoCheckpoint
    <3>5. RangeTypeOK'
      BY <1>3, <2>1, <2>2, <3>1, <3>2, <3>3, <3>4 DEF RangeTypeOK
    <3>6. RangeInv'
      BY <1>2, <1>3, <2>1, <2>3, <3>1, <3>2, <3>3 DEF RangeInv, Exists
    <3> QED
      BY <1>3, <2>1, <2>4, <3>5, <3>6
  <2> QED
    BY <2>5, <2>6
<1>10. ASSUME CycleDone PROVE Kept
  <2>1. /\ UNCHANGED reorgVars /\ startBlock' = startBlock /\ phase = "range"
        /\ phase' = "idle" /\ rangeState' = "off" /\ endBlock' = 0 /\ nextCommit' = 0
        /\ expectedParentHash' = NoHash /\ DOMAIN fetched' = {}
    BY <1>10 DEF CycleDone, ForgetRange, NoRows
  <2>2. ReorgTypeOK' /\ RangeTypeOK' /\ phase' \in Phases
    BY <1>3, <2>1, HeightAssumption DEF ReorgTypeOK, RangeTypeOK, reorgVars, Phases
  <2>3. ReorgInv' /\ RangeInv'
    BY <1>2, <1>3, <2>1 DEF ReorgInv, RangeInv, reorgVars, Exists
  <2> QED
    BY <1>3, <2>1, <2>2, <2>3
<1>11. ASSUME ExitOnError \/ Stop PROVE Kept
  <2>1. /\ phase' = "down" /\ startBlock' = 0 /\ reconcile' = "off"
        /\ previous' = NoCheckpoint /\ candidate' = NoCheckpoint
        /\ rangeState' = "off" /\ endBlock' = 0 /\ nextCommit' = 0
        /\ expectedParentHash' = NoHash /\ DOMAIN fetched' = {}
    BY <1>11 DEF ExitOnError, Stop, LoseMemory, ForgetReconcile, ForgetRange, NoRows
  <2>2. ReorgTypeOK' /\ RangeTypeOK' /\ phase' \in Phases /\ startBlock' \in 0..(MaxHeight + 1)
    BY <2>1, HeightAssumption DEF ReorgTypeOK, RangeTypeOK, Phases
  <2>3. ReorgInv' /\ RangeInv'
    BY <2>1 DEF ReorgInv, RangeInv
  <2> QED
    BY <2>2, <2>3
<1>12. Kept
  BY <1>5, <1>6, <1>7, <1>8, <1>9, <1>10, <1>11
<1> QED
  BY <1>2, <1>12 DEF IndInv, TypeOK

\* A reorganisation changes nothing the process or the store holds.
LEMMA MoveChainKeepsIndInv ==
    ASSUME IndInv, MoveChain
    PROVE  IndInv'
<1>1. ChainTypeOK'
  <2>1. PICK f \in Chains, h \in 0..MaxHeight :
            DOMAIN f = 0..h /\ canonical' = f /\ head' = h
    BY DEF MoveChain, ChainMove
  <2>2. PICK top \in 0..MaxHeight : IsBranch(f, 0, top)
    BY ChainsAssumption
  <2>3. 0..h = 0..top
    BY <2>1, <2>2 DEF IsBranch
  <2>4. h = top
    BY <2>3, HeightAssumption
  <2> QED
    BY <2>1, <2>2, <2>4 DEF ChainTypeOK
<1>2. UNCHANGED storeVars /\ UNCHANGED <<reorgVars, rangeVars, processVars>>
  BY DEF MoveChain, memory
<1>3. StoreTypeOK' /\ StoreInv'
  BY <1>2, StoreKept DEF IndInv, TypeOK
<1>4. ReorgTypeOK' /\ RangeTypeOK' /\ phase' \in Phases /\ startBlock' \in 0..(MaxHeight + 1)
  BY <1>2 DEF IndInv, TypeOK, ReorgTypeOK, RangeTypeOK, reorgVars, rangeVars, processVars
<1>5. ReorgInv' /\ RangeInv'
  BY <1>2 DEF IndInv, ReorgInv, RangeInv, reorgVars, rangeVars, processVars, storeVars,
              History, Exists, AnotherDepth
<1> QED
  BY <1>1, <1>3, <1>4, <1>5 DEF IndInv, TypeOK

\* Stuttering steps keep the invariant.
LEMMA StutterKeepsIndInv ==
    ASSUME IndInv, UNCHANGED vars
    PROVE  IndInv'
<1>1. StoreTypeOK' /\ StoreInv'
  BY StoreKept DEF IndInv, TypeOK, vars
<1>2. ChainTypeOK' /\ ReorgTypeOK' /\ RangeTypeOK' /\ phase' \in Phases
      /\ startBlock' \in 0..(MaxHeight + 1)
  BY DEF IndInv, TypeOK, vars, memory, chainVars, reorgVars, rangeVars, processVars,
         ChainTypeOK, ReorgTypeOK, RangeTypeOK
<1>3. ReorgInv' /\ RangeInv'
  BY DEF IndInv, ReorgInv, RangeInv, vars, memory, reorgVars, rangeVars, processVars,
         storeVars, History, Exists, AnotherDepth
<1> QED
  BY <1>1, <1>2, <1>3 DEF IndInv, TypeOK

\* The memory of the process always agrees with the database, through crashes,
\* lost answers and reorganisations of any depth.
THEOREM InductiveInvariant == Spec => []IndInv
<1>1. Init => IndInv
  BY InitIndInv
<1>2. IndInv /\ [Next]_vars => IndInv'
  BY ReconcileKeepsIndInv, IndexingKeepsIndInv, ControlKeepsIndInv,
     MoveChainKeepsIndInv, StutterKeepsIndInv
  DEF Next, Process, Fault
<1> QED
  BY <1>1, <1>2, PTL DEF Spec

\* Every variable of the indexing process and of the store stays in its type.
THEOREM TypeCorrect == Spec => []TypeOK
<1>1. IndInv => TypeOK
  BY DEF IndInv
<1> QED
  BY <1>1, InductiveInvariant, PTL

\* The piece of a branch the store holds, where there is a checkpoint.
LEMMA StoredPiece ==
    ASSUME IndInv, Exists(checkpoint)
    PROVE  /\ checkpoint.Number \in 0..MaxHeight
           /\ \E lo \in 0..MaxHeight : \E f \in [lo..checkpoint.Number -> Hash] :
                 HoldsPiece(f, lo, checkpoint, indexed_blocks, erc20_transfers)
  BY HeightAssumption DEF IndInv, TypeOK, StoreTypeOK, Checkpoints, NoCheckpoint, StoreInv

\* The checkpoint is the last committed block: the history ends at it without
\* a gap, and nothing is stored above it (SaveIndexedBlock, RollbackTo).
THEOREM CheckpointTheorem == Spec => []CheckpointIsTip
<1>1. ASSUME IndInv PROVE CheckpointIsTip
  <2>1. CASE ~Exists(checkpoint)
    BY <1>1, <2>1 DEF IndInv, StoreInv, EmptyStore, NoRows, CheckpointIsTip, History
  <2>2. CASE Exists(checkpoint)
    <3>1. PICK lo \in 0..MaxHeight : \E f \in [lo..checkpoint.Number -> Hash] :
              HoldsPiece(f, lo, checkpoint, indexed_blocks, erc20_transfers)
      BY <1>1, <2>2, StoredPiece
    <3>2. PICK f \in [lo..checkpoint.Number -> Hash] :
              HoldsPiece(f, lo, checkpoint, indexed_blocks, erc20_transfers)
      BY <3>1
    <3>3. checkpoint.Number \in 0..MaxHeight
      BY <1>1, <2>2, StoredPiece
    <3>4. ASSUME NEW n \in History
          PROVE  /\ n <= checkpoint.Number /\ n..checkpoint.Number \subseteq History
                 /\ checkpoint.Number \in History
      BY <3>2, <3>3 DEF HoldsPiece, History
    <3>5. checkpoint.Number \in History =>
              indexed_blocks[checkpoint.Number].block_hash = checkpoint.Hash
      BY <3>2 DEF HoldsPiece, History
    <3>6. ASSUME NEW t \in DOMAIN erc20_transfers
          PROVE  erc20_transfers[t].block_number <= checkpoint.Number
      <4>1. PICK n \in lo..checkpoint.Number : t \in Transfers[f[n]]
        BY <3>2 DEF HoldsPiece
      <4>2. erc20_transfers[t] = [block_number |-> n, block_hash |-> f[n]]
        BY <3>2, <4>1 DEF HoldsPiece
      <4> QED
        BY <3>3, <4>2
    <3> QED
      BY <2>2, <3>4, <3>5, <3>6 DEF CheckpointIsTip
  <2> QED
    BY <2>1, <2>2
<1> QED
  BY <1>1, InductiveInvariant, PTL

\* The history is a piece of one branch: no reorganisation between two reads
\* of a range ever joins blocks of different branches (validateParentHash).
THEOREM HistoryTheorem == Spec => []HistoryLinked
<1>1. ASSUME IndInv PROVE HistoryLinked
  <2>1. CASE ~Exists(checkpoint)
    BY <1>1, <2>1 DEF IndInv, StoreInv, EmptyStore, NoRows, HistoryLinked, History
  <2>2. CASE Exists(checkpoint)
    <3>1. PICK lo \in 0..MaxHeight : \E f \in [lo..checkpoint.Number -> Hash] :
              HoldsPiece(f, lo, checkpoint, indexed_blocks, erc20_transfers)
      BY <1>1, <2>2, StoredPiece
    <3>2. PICK f \in [lo..checkpoint.Number -> Hash] :
              HoldsPiece(f, lo, checkpoint, indexed_blocks, erc20_transfers)
      BY <3>1
    <3>3. ASSUME NEW n \in History
          PROVE  /\ n \in lo..checkpoint.Number /\ Number[f[n]] = n
                 /\ indexed_blocks[n].block_hash = f[n]
                 /\ indexed_blocks[n].parent_hash \in {NoHash, ParentHash[f[n]]}
                 /\ n > lo => ParentHash[f[n]] = f[n - 1]
      BY <3>2 DEF HoldsPiece, History, IsBranch
    <3>4. ASSUME NEW n \in History, n - 1 \in History
          PROVE  n > lo /\ indexed_blocks[n - 1].block_hash = f[n - 1]
      BY <3>3, <3>4
    <3> QED
      BY <3>3, <3>4 DEF HistoryLinked
  <2> QED
    BY <2>1, <2>2
<1> QED
  BY <1>1, InductiveInvariant, PTL

\* The transfers of a recorded block are stored completely and exclusively
\* (GetERC20TransfersByBlock, insertBlockTransfers with ON CONFLICT DO NOTHING,
\* RollbackTo's DELETE).
THEOREM TransfersTheorem == Spec => []TransfersExact
<1>1. ASSUME IndInv PROVE TransfersExact
  <2>1. CASE ~Exists(checkpoint)
    BY <1>1, <2>1 DEF IndInv, StoreInv, EmptyStore, NoRows, TransfersExact, History
  <2>2. CASE Exists(checkpoint)
    <3>1. PICK lo \in 0..MaxHeight : \E f \in [lo..checkpoint.Number -> Hash] :
              HoldsPiece(f, lo, checkpoint, indexed_blocks, erc20_transfers)
      BY <1>1, <2>2, StoredPiece
    <3>2. PICK f \in [lo..checkpoint.Number -> Hash] :
              HoldsPiece(f, lo, checkpoint, indexed_blocks, erc20_transfers)
      BY <3>1
    <3>3. ASSUME NEW n \in History
          PROVE  n \in lo..checkpoint.Number /\ indexed_blocks[n].block_hash = f[n]
      BY <3>2 DEF HoldsPiece, History
    <3>4. ASSUME NEW n \in History, NEW t \in Transfers[f[n]]
          PROVE  /\ t \in DOMAIN erc20_transfers
                 /\ erc20_transfers[t] = [block_number |-> n, block_hash |-> f[n]]
      BY <3>2, <3>3 DEF HoldsPiece
    <3>5. ASSUME NEW n \in History, NEW t \in DOMAIN erc20_transfers,
                 erc20_transfers[t] = [block_number |-> n, block_hash |-> f[n]]
          PROVE  t \in Transfers[f[n]]
      <4>1. PICK m \in lo..checkpoint.Number : t \in Transfers[f[m]]
        BY <3>2 DEF HoldsPiece
      <4>2. erc20_transfers[t] = [block_number |-> m, block_hash |-> f[m]]
        BY <3>2, <4>1 DEF HoldsPiece
      <4>3. m = n
        BY <3>5, <4>2
      <4> QED
        BY <4>1, <4>3
    <3>6. ASSUME NEW n \in History PROVE LogsDecode(f[n])
      BY <3>2, <3>3 DEF HoldsPiece
    <3> QED
      BY <3>3, <3>4, <3>5, <3>6 DEF TransfersExact
  <2> QED
    BY <2>1, <2>2
<1> QED
  BY <1>1, InductiveInvariant, PTL

-----------------------------------------------------------------------------
\* The store seen by its readers: refinement of StoredChain.

\* Indexing begins only on a checkpoint whose own block is recorded: Reconcile
\* has recorded it (a legacy store) or rolled back to a recorded block.
TipRecorded ==
    /\ Exists(checkpoint)
    /\ phase \in {"cycle", "range", "idle"} \/ reconcile \in {"verified", "rolledBack"}
    => checkpoint.Number \in History

\* Every step of the process keeps the tip recorded.
LEMMA NextTip ==
    ASSUME IndInv, TipRecorded, [Next]_vars
    PROVE  TipRecorded'
<1> USE DEF TipRecorded, History
<1>1. ReorgInv /\ RangeInv
  BY DEF IndInv
<1>2. ASSUME UNCHANGED storeVars, phase' \notin {"cycle", "range", "idle"},
             reconcile' \notin {"verified", "rolledBack"}
      PROVE  TipRecorded'
  BY <1>2
<1>3. ASSUME UNCHANGED storeVars,
             phase \in {"cycle", "range", "idle"} \/ reconcile \in {"verified", "rolledBack"}
      PROVE  TipRecorded'
  BY <1>3 DEF storeVars, Exists
<1>4. CASE Start \/ NoCheckpointYet \/ ExitOnError \/ Stop
  BY <1>2, <1>4 DEF Start, BeginReconcile, NoCheckpointYet, ForgetReconcile,
                    ExitOnError, Stop, LoseMemory
<1>5. CASE Reconcile
  <2>1. CASE RecordCheckpoint
    <3>1. candidate = checkpoint /\ checkpoint' = checkpoint
      BY <1>1, <2>1 DEF RecordCheckpoint, ReorgInv, EnsureIndexedBlock
    <3>2. candidate.Number \in DOMAIN indexed_blocks'
      BY <2>1 DEF RecordCheckpoint, EnsureIndexedBlock, RecordIndexedBlock
    <3> QED
      BY <3>1, <3>2
  <2>2. CASE RollBack
    <3>1. candidate.Number \in DOMAIN indexed_blocks /\ candidate.Number \in Int
      BY <1>1, <2>2 DEF RollBack, ReorgInv, IndInv, TypeOK, ReorgTypeOK, Checkpoints, NoCheckpoint
    <3>2. /\ checkpoint' = candidate
          /\ DOMAIN indexed_blocks' = {m \in DOMAIN indexed_blocks : m <= candidate.Number}
      BY <2>2 DEF RollBack, RollbackTo
    <3> QED
      BY <3>1, <3>2
  <2>3. CASE LoadCheckpoint \/ VerifyCheckpoint \/ HistoryMissing \/ SearchAncestor \/ BlockNotFound
    BY <1>2, <1>5, <2>3 DEF Reconcile, processVars, LoadCheckpoint, VerifyCheckpoint,
                            HistoryMissing, SearchAncestor, BlockNotFound
  <2> QED
    BY <1>5, <2>1, <2>2, <2>3 DEF Reconcile, ReconcileStep
<1>6. CASE ReconcileFaulty
  BY <1>6 DEF ReconcileFaulty, ReconcileFault, ReconcileError, ReconcileAnswerLost, processVars
<1>7. CASE ResumeFromCheckpoint \/ SkipCycle \/ RunCycle \/ CycleDone \/ Tick
  BY <1>3, <1>7 DEF ResumeFromCheckpoint, SkipCycle, RunCycle, IndexRange, CycleDone, Tick
<1>8. CASE StartFromLatest
  BY <1>1, <1>8 DEF StartFromLatest, RangeInv, storeVars, Exists
<1>9. CASE IndexBlocks \/ IndexingFaulty
  <2>1. CASE CommitNext \/ SaveAnswerLost
    BY <2>1 DEF CommitNext, SaveAnswerLost, SaveIndexedBlock, RecordIndexedBlock
  <2>2. CASE UNCHANGED storeVars
    BY <1>3, <1>9, <2>2 DEF IndexBlocks, IndexingFaulty
  <2>3. (CommitNext \/ SaveAnswerLost) \/ UNCHANGED storeVars
    BY <1>9 DEF IndexBlocks, IndexingFaulty, RangeStep, RangeFault, Fetch, RejectNext,
                FetchError, RangeError
  <2> QED
    BY <2>1, <2>2, <2>3
<1>10. CASE MoveChain \/ UNCHANGED vars
  BY <1>10 DEF MoveChain, vars, memory, storeVars, reorgVars, processVars, Exists
<1> QED
  BY <1>4, <1>5, <1>6, <1>7, <1>8, <1>9, <1>10 DEF Next, Process, Fault

\* The rows a reader sees are exactly those of the blocks of the segment, each
\* of which stands at its own height; the segment ends at the checkpoint.
SegmentFacts ==
    /\ \A n \in DOMAIN StoredSegment :
          /\ n \in 0..MaxHeight /\ n <= checkpoint.Number
          /\ StoredSegment[n] \in Hash /\ Number[StoredSegment[n]] = n
    /\ \A r : r \in StoredRows <=>
          \E n \in DOMAIN StoredSegment : \E t \in Transfers[StoredSegment[n]] :
             r = <<t, n, StoredSegment[n]>>
    /\ Exists(checkpoint) =>
          checkpoint.Number \in DOMAIN StoredSegment
          /\ StoredSegment[checkpoint.Number] = checkpoint.Hash
    /\ ~Exists(checkpoint) => DOMAIN StoredSegment = {}

\* The inductive invariant gives the reader's view.
LEMMA SegmentView == IndInv => SegmentFacts
<1> SUFFICES ASSUME IndInv PROVE SegmentFacts
  OBVIOUS
<1>1. CASE ~Exists(checkpoint)
  <2>1. DOMAIN indexed_blocks = {} /\ DOMAIN erc20_transfers = {}
    BY <1>1 DEF IndInv, StoreInv, EmptyStore, NoRows
  <2>2. DOMAIN StoredSegment = {}
    BY <1>1, <2>1 DEF StoredSegment, History
  <2>3. StoredRows = {}
    BY <2>1 DEF StoredRows
  <2> QED
    BY <1>1, <2>2, <2>3 DEF SegmentFacts
<1>2. CASE Exists(checkpoint)
  <2> DEFINE h == checkpoint.Number
             S == DOMAIN StoredSegment
  <2>1. PICK lo \in 0..MaxHeight : \E f \in [lo..h -> Hash] :
            HoldsPiece(f, lo, checkpoint, indexed_blocks, erc20_transfers)
    BY <1>2, StoredPiece
  <2>2. PICK f \in [lo..h -> Hash] :
            HoldsPiece(f, lo, checkpoint, indexed_blocks, erc20_transfers)
    BY <2>1
  <2>3. h \in 0..MaxHeight /\ h \in lo..h /\ f[h] = checkpoint.Hash /\ MaxHeight \in Nat
    BY <1>2, <2>2, StoredPiece, HeightAssumption DEF HoldsPiece
  <2>4. \A n \in S : n \in lo..h /\ StoredSegment[n] = f[n]
    <3>1. CASE History = {}
      BY <1>2, <2>3, <3>1 DEF StoredSegment
    <3>2. CASE History # {}
      BY <2>2, <3>2 DEF StoredSegment, History, HoldsPiece
    <3> QED
      BY <3>1, <3>2
  <2>5. h \in S
    BY <1>2, <2>2, <2>3 DEF StoredSegment, History, HoldsPiece
  <2>6. \A n \in lo..h : n \in 0..MaxHeight /\ n <= h /\ f[n] \in Hash /\ Number[f[n]] = n
    BY <2>2, <2>3 DEF HoldsPiece, IsBranch
  <2>7. ASSUME NEW r, r \in StoredRows
        PROVE  \E n \in S : \E t \in Transfers[StoredSegment[n]] : r = <<t, n, StoredSegment[n]>>
    <3>1. PICK t \in DOMAIN erc20_transfers :
              /\ erc20_transfers[t].block_number \in S
              /\ r = <<t, erc20_transfers[t].block_number, erc20_transfers[t].block_hash>>
      BY <2>7 DEF StoredRows
    <3>2. PICK n \in lo..h : t \in Transfers[f[n]]
      BY <2>2 DEF HoldsPiece
    <3>3. erc20_transfers[t] = [block_number |-> n, block_hash |-> f[n]]
      BY <2>2, <3>2 DEF HoldsPiece
    <3>4. n \in S /\ r = <<t, n, f[n]>>
      BY <3>1, <3>3
    <3> QED
      BY <2>4, <3>2, <3>4
  <2>8. ASSUME NEW n \in S, NEW t \in Transfers[StoredSegment[n]]
        PROVE  <<t, n, StoredSegment[n]>> \in StoredRows
    <3>1. n \in lo..h /\ StoredSegment[n] = f[n]
      BY <2>4
    <3>2. t \in DOMAIN erc20_transfers /\ erc20_transfers[t] = [block_number |-> n, block_hash |-> f[n]]
      BY <2>2, <3>1 DEF HoldsPiece
    <3>3. erc20_transfers[t].block_number = n /\ erc20_transfers[t].block_hash = f[n]
      BY <3>2
    <3> QED
      BY <3>1, <3>2, <3>3 DEF StoredRows
  <2> QED
    BY <1>2, <2>3, <2>4, <2>5, <2>6, <2>7, <2>8 DEF SegmentFacts
<1> QED
  BY <1>1, <1>2

\* A step that leaves the store alone leaves the reader's view alone.
LEMMA ViewKept ==
    ASSUME UNCHANGED storeVars
    PROVE  UNCHANGED <<StoredSegment, StoredRows>>
<1>1. UNCHANGED StoredSegment
  BY DEF storeVars, StoredSegment, History, Exists
<1>2. UNCHANGED StoredRows
  BY <1>1 DEF storeVars, StoredRows
<1> QED
  BY <1>1, <1>2

\* The first block saved begins the stored chain.
LEMMA SaveBegins ==
    ASSUME IndInv, IndInv', ~Exists(checkpoint), NEW b \in Hash, SaveIndexedBlock(b)
    PROVE  Stored!Begin(b)
<1>1. SegmentFacts /\ SegmentFacts'
  <2>1. (IndInv => SegmentFacts)'
    BY SegmentView, PTL
  <2> QED
    BY <2>1, SegmentView
<1>2. DOMAIN indexed_blocks = {}
  BY DEF IndInv, StoreInv, EmptyStore, NoRows
<1>3. DOMAIN StoredSegment = {}
  BY <1>1 DEF SegmentFacts
<1>4. StoredSegment' = [n \in {Number[b]} |-> b]
  <2>1. /\ DOMAIN indexed_blocks' = {Number[b]}
        /\ indexed_blocks'[Number[b]].block_hash = b
    BY <1>2 DEF SaveIndexedBlock, RecordIndexedBlock
  <2> QED
    BY <2>1 DEF StoredSegment, History
<1>5. StoredSegment' = Stored!Extend(b)
  BY <1>3, <1>4 DEF Stored!Extend, Stored!Heights
<1>6. StoredRows' = Stored!Rows(b)
  BY <1>1, <1>4 DEF SegmentFacts, Stored!Rows
<1> QED
  BY <1>3, <1>5, <1>6 DEF Stored!Begin, Stored!Heights

\* Every other block saved is appended to its parent at the tip.
LEMMA SaveGrows ==
    ASSUME IndInv, IndInv', Exists(checkpoint), checkpoint.Number \in History,
           NEW b \in Hash, Number[b] = checkpoint.Number + 1, ParentHash[b] = checkpoint.Hash,
           SaveIndexedBlock(b)
    PROVE  Stored!Grow(b)
<1> DEFINE h == checkpoint.Number
<1>1. SegmentFacts /\ SegmentFacts'
  <2>1. (IndInv => SegmentFacts)'
    BY SegmentView, PTL
  <2> QED
    BY <2>1, SegmentView
<1>2. h \in 0..MaxHeight /\ h \in DOMAIN StoredSegment /\ StoredSegment[h] = ParentHash[b]
  BY <1>1 DEF SegmentFacts
<1>3. StoredSegment = [n \in History |-> indexed_blocks[n].block_hash]
  BY DEF StoredSegment
<1>4. h + 1 \notin DOMAIN indexed_blocks
  BY <1>1, <1>2, <1>3 DEF SegmentFacts, History
<1>5. /\ DOMAIN indexed_blocks' = DOMAIN indexed_blocks \cup {h + 1}
      /\ \A n \in DOMAIN indexed_blocks : indexed_blocks'[n] = indexed_blocks[n]
      /\ indexed_blocks'[h + 1].block_hash = b
  BY <1>4 DEF SaveIndexedBlock, RecordIndexedBlock
<1>6. StoredSegment' = [n \in History \cup {h + 1} |-> IF n = h + 1 THEN b ELSE StoredSegment[n]]
  <2>1. StoredSegment' = [n \in DOMAIN indexed_blocks' |-> indexed_blocks'[n].block_hash]
    BY <1>5 DEF StoredSegment, History
  <2> QED
    BY <1>3, <1>4, <1>5, <2>1 DEF History
<1>7. StoredSegment' = Stored!Extend(b)
  BY <1>3, <1>6 DEF Stored!Extend, Stored!Heights
<1>8. Stored!IsTip(Number[b] - 1) /\ Number[b] - 1 = h
  BY <1>1, <1>2 DEF Stored!IsTip, Stored!Heights, SegmentFacts
<1>9. StoredRows' = StoredRows \cup Stored!Rows(b)
  <2>1. /\ DOMAIN StoredSegment' = DOMAIN StoredSegment \cup {h + 1}
        /\ \A n \in DOMAIN StoredSegment : StoredSegment'[n] = StoredSegment[n]
        /\ StoredSegment'[h + 1] = b
    BY <1>3, <1>4, <1>6 DEF History
  <2>2. ASSUME NEW r, r \in StoredRows' PROVE r \in StoredRows \cup Stored!Rows(b)
    <3>1. PICK n \in DOMAIN StoredSegment' :
              \E t \in Transfers[StoredSegment'[n]] : r = <<t, n, StoredSegment'[n]>>
      BY <1>1, <2>2 DEF SegmentFacts
    <3>2. CASE n = h + 1
      BY <2>1, <3>1, <3>2 DEF Stored!Rows
    <3>3. CASE n # h + 1
      BY <1>1, <2>1, <3>1, <3>3 DEF SegmentFacts
    <3> QED
      BY <3>2, <3>3
  <2>3. ASSUME NEW r \in Stored!Rows(b) PROVE r \in StoredRows'
    BY <1>1, <2>1, <2>3 DEF SegmentFacts, Stored!Rows
  <2>4. ASSUME NEW r \in StoredRows PROVE r \in StoredRows'
    <3>1. PICK n \in DOMAIN StoredSegment :
              \E t \in Transfers[StoredSegment[n]] : r = <<t, n, StoredSegment[n]>>
      BY <1>1, <2>4 DEF SegmentFacts
    <3>2. n \in DOMAIN StoredSegment' /\ StoredSegment'[n] = StoredSegment[n]
      BY <2>1, <3>1
    <3> QED
      BY <1>1, <3>1, <3>2 DEF SegmentFacts
  <2> QED
    BY <2>2, <2>3, <2>4
<1> QED
  BY <1>2, <1>7, <1>8, <1>9 DEF Stored!Grow

\* Recording the checkpoint's own block tells a reader nothing new.
LEMMA EnsureKeepsView ==
    ASSUME IndInv, IndInv', Exists(checkpoint), EnsureIndexedBlock(checkpoint)
    PROVE  UNCHANGED <<StoredSegment, StoredRows>>
<1> DEFINE h == checkpoint.Number
<1>1. SegmentFacts
  BY SegmentView
<1>2. /\ DOMAIN indexed_blocks' = DOMAIN indexed_blocks \cup {h}
      /\ \A n \in DOMAIN indexed_blocks : n # h => indexed_blocks'[n] = indexed_blocks[n]
      /\ indexed_blocks'[h].block_hash = checkpoint.Hash
      /\ UNCHANGED <<checkpoint, erc20_transfers>>
  BY DEF EnsureIndexedBlock, RecordIndexedBlock
<1>3. StoredSegment' = [n \in DOMAIN indexed_blocks' |-> indexed_blocks'[n].block_hash]
  BY <1>2 DEF StoredSegment, History
<1>4. UNCHANGED StoredSegment
  <2>1. CASE History = {}
    BY <1>2, <1>3, <2>1 DEF StoredSegment, History
  <2>2. CASE History # {}
    <3>1. StoredSegment = [n \in DOMAIN indexed_blocks |-> indexed_blocks[n].block_hash]
      BY <2>2 DEF StoredSegment, History
    <3>2. h \in DOMAIN indexed_blocks /\ indexed_blocks[h].block_hash = checkpoint.Hash
      BY <1>1, <3>1 DEF SegmentFacts
    <3> QED
      BY <1>2, <1>3, <3>1, <3>2
  <2> QED
    BY <2>1, <2>2
<1>5. UNCHANGED StoredRows
  BY <1>2, <1>4 DEF StoredRows
<1> QED
  BY <1>4, <1>5

\* A rollback gives up the blocks above a recorded one, MaxReorgDepth at most.
LEMMA RollbackGivesUp ==
    ASSUME IndInv, IndInv', Exists(checkpoint), reconcile = "rollback", RollbackTo(candidate)
    PROVE  candidate.Number \in 0..MaxHeight /\ Stored!GiveUpTo(candidate.Number)
<1> DEFINE k == candidate.Number
<1>1. SegmentFacts /\ SegmentFacts'
  <2>1. (IndInv => SegmentFacts)'
    BY SegmentView, PTL
  <2> QED
    BY <2>1, SegmentView
<1>2. /\ k \in History /\ checkpoint.Number - k \in 1..MaxReorgDepth
      /\ k \in 0..MaxHeight /\ checkpoint.Number \in 0..MaxHeight
  BY HeightAssumption DEF IndInv, ReorgInv, TypeOK, ReorgTypeOK, StoreTypeOK, Checkpoints,
                          NoCheckpoint
<1>3. StoredSegment = [n \in History |-> indexed_blocks[n].block_hash]
  BY <1>2 DEF StoredSegment
<1>4. /\ DOMAIN indexed_blocks' = {m \in DOMAIN indexed_blocks : m <= k}
      /\ \A n \in DOMAIN indexed_blocks' : indexed_blocks'[n] = indexed_blocks[n]
  BY DEF RollbackTo
<1>5. StoredSegment' = [n \in {m \in DOMAIN StoredSegment : m <= k} |-> StoredSegment[n]]
  <2>1. k \in DOMAIN indexed_blocks'
    BY <1>2, <1>4 DEF History
  <2>2. StoredSegment' = [n \in DOMAIN indexed_blocks' |-> indexed_blocks'[n].block_hash]
    BY <2>1 DEF StoredSegment, History
  <2> QED
    BY <1>3, <1>4, <2>2 DEF History
<1>6. StoredRows' = {r \in StoredRows : r[2] <= k}
  <2>1. ASSUME NEW r, r \in StoredRows' PROVE r \in StoredRows /\ r[2] <= k
    <3>1. PICK n \in DOMAIN StoredSegment' :
              \E t \in Transfers[StoredSegment'[n]] : r = <<t, n, StoredSegment'[n]>>
      BY <1>1, <2>1 DEF SegmentFacts
    <3>2. n \in DOMAIN StoredSegment /\ n <= k /\ StoredSegment'[n] = StoredSegment[n]
      BY <1>5, <3>1
    <3> QED
      BY <1>1, <3>1, <3>2 DEF SegmentFacts
  <2>2. ASSUME NEW r \in StoredRows, r[2] <= k PROVE r \in StoredRows'
    <3>1. PICK n \in DOMAIN StoredSegment :
              \E t \in Transfers[StoredSegment[n]] : r = <<t, n, StoredSegment[n]>>
      BY <1>1, <2>2 DEF SegmentFacts
    <3>2. n <= k
      BY <2>2, <3>1
    <3>3. n \in DOMAIN StoredSegment' /\ StoredSegment'[n] = StoredSegment[n]
      BY <1>5, <3>2
    <3> QED
      BY <1>1, <3>1, <3>3 DEF SegmentFacts
  <2> QED
    BY <2>1, <2>2
<1>7. Stored!IsTip(checkpoint.Number) /\ checkpoint.Number \in DOMAIN StoredSegment
  BY <1>1 DEF SegmentFacts, Stored!IsTip, Stored!Heights
<1> QED
  BY <1>2, <1>3, <1>5, <1>6, <1>7 DEF Stored!GiveUpTo, Stored!Heights

\* Every step of the process, every fault and every reorganisation is a step
\* of the stored chain or none at all.
LEMMA StepRefines ==
    ASSUME IndInv, IndInv', TipRecorded, [Next]_vars
    PROVE  [Stored!StoredNext]_<<StoredSegment, StoredRows>>
<1>1. ReorgInv /\ RangeInv /\ RangeTypeOK
  BY DEF IndInv, TypeOK
<1>2. CASE UNCHANGED storeVars
  BY <1>2, ViewKept
<1>3. CASE RecordCheckpoint \/ ReconcileAnswerLost \/ RollBack
  <2>1. CASE reconcile = "ensure"
    <3>1. Exists(checkpoint) /\ candidate = checkpoint
      BY <1>1, <2>1 DEF ReorgInv
    <3>2. EnsureIndexedBlock(candidate)
      BY <1>3, <2>1 DEF RecordCheckpoint, ReconcileAnswerLost, RollBack
    <3>3. UNCHANGED <<StoredSegment, StoredRows>>
      BY <3>1, <3>2, EnsureKeepsView
    <3> QED
      BY <3>3
  <2>2. CASE reconcile = "rollback"
    <3>1. Exists(checkpoint)
      BY <1>1, <2>2 DEF ReorgInv
    <3>2. RollbackTo(candidate)
      BY <1>3, <2>2 DEF RecordCheckpoint, ReconcileAnswerLost, RollBack
    <3> QED
      BY <2>2, <3>1, <3>2, RollbackGivesUp DEF Stored!StoredNext
  <2> QED
    BY <1>3, <2>1, <2>2 DEF RecordCheckpoint, ReconcileAnswerLost, RollBack
<1>4. CASE phase = "range" /\ (CommitNext \/ SaveAnswerLost)
  <2> DEFINE b == fetched[nextCommit]
  <2>1. ReadyToCommit /\ SaveIndexedBlock(b)
    BY <1>4 DEF CommitNext, SaveAnswerLost
  <2>2. b \in Hash /\ Number[b] = nextCommit
    BY <1>1, <2>1 DEF ReadyToCommit, RangeTypeOK, RangeInv
  <2>3. CASE ~Exists(checkpoint)
    BY <2>1, <2>2, <2>3, SaveBegins DEF Stored!StoredNext
  <2>4. CASE Exists(checkpoint)
    <3>1. Number[b] = checkpoint.Number + 1 /\ expectedParentHash = checkpoint.Hash
      BY <1>1, <2>1, <2>2, <2>4 DEF ReadyToCommit, RangeInv
    <3>2. ParentHash[b] = checkpoint.Hash
      BY <2>1, <2>2, <2>4, <3>1, ParentAssumption DEF ReadyToCommit, ValidParent, Exists
    <3>3. checkpoint.Number \in History
      BY <1>4, <2>4 DEF TipRecorded
    <3> QED
      BY <2>1, <2>2, <2>4, <3>1, <3>2, <3>3, SaveGrows DEF Stored!StoredNext
  <2> QED
    BY <2>3, <2>4
<1>5. CASE Reconcile \/ ReconcileFaulty
  BY <1>2, <1>3, <1>5 DEF Reconcile, ReconcileStep, ReconcileFaulty, ReconcileFault,
     LoadCheckpoint, VerifyCheckpoint, HistoryMissing, SearchAncestor, BlockNotFound, ReconcileError
<1>6. CASE IndexBlocks \/ IndexingFaulty
  BY <1>2, <1>4, <1>6 DEF IndexBlocks, RangeStep, IndexingFaulty, RangeFault, Fetch,
     RejectNext, FetchError, RangeError
<1>7. CASE \/ Start \/ ResumeFromCheckpoint \/ NoCheckpointYet \/ StartFromLatest
           \/ SkipCycle \/ RunCycle \/ CycleDone \/ Tick \/ ExitOnError \/ Stop
           \/ MoveChain \/ UNCHANGED vars
  <2>1. UNCHANGED storeVars
    BY <1>7 DEF Start, ResumeFromCheckpoint, NoCheckpointYet, StartFromLatest, SkipCycle,
       RunCycle, IndexRange, CycleDone, Tick, ExitOnError, Stop, LoseMemory, MoveChain, vars
  <2> QED
    BY <1>2, <2>1
<1> QED
  BY <1>5, <1>6, <1>7 DEF Next, Process, Fault

\* An empty database and a legacy one are initial states of the stored chain.
LEMMA InitRefines ==
    ASSUME Init, IndInv
    PROVE  Stored!StoredInit
<1>1. SegmentFacts
  BY SegmentView
<1>2. CASE ~Exists(checkpoint)
  <2>1. History = {} /\ DOMAIN StoredSegment = {}
    BY <1>1, <1>2 DEF SegmentFacts, IndInv, StoreInv, EmptyStore, NoRows, History
  <2>2. StoredSegment = [n \in {} |-> NoHash]
    BY <1>2, <2>1 DEF StoredSegment
  <2>3. StoredRows = {}
    BY <1>1, <2>1 DEF SegmentFacts
  <2> QED
    BY <2>2, <2>3 DEF Stored!StoredInit
<1>3. CASE Exists(checkpoint)
  <2> DEFINE b == checkpoint.Hash
  <2>1. History = {}
    BY DEF Init, StoreInit, EmptyStore, LegacyStore, NoRows, History
  <2>2. StoredSegment = [n \in {checkpoint.Number} |-> b]
    BY <1>3, <2>1 DEF StoredSegment
  <2>3. b \in Hash /\ Number[b] = checkpoint.Number
    BY <1>1, <2>2 DEF SegmentFacts
  <2>4. StoredRows = Stored!Rows(b)
    BY <1>1, <2>2, <2>3 DEF SegmentFacts, Stored!Rows
  <2> QED
    BY <2>2, <2>3, <2>4 DEF Stored!StoredInit
<1> QED
  BY <1>2, <1>3

\* The process never loses the tip of its history, whatever fails.
LEMMA TipAlways == Spec => [](IndInv /\ TipRecorded)
<1>1. Init => TipRecorded
  BY DEF Init, ReorgOff, TipRecorded
<1>2. IndInv /\ TipRecorded /\ [Next]_vars => TipRecorded'
  BY NextTip
<1> QED
  BY <1>1, <1>2, InductiveInvariant, PTL DEF Spec

\* Seen from the database the process implements StoredChain: every commit,
\* lost answer, crash, restart and reorganisation appends the child of the tip,
\* gives up at most MaxReorgDepth blocks at once, or changes nothing.
THEOREM StoredChainTheorem == Spec => ImplementsStoredChain
<1>1. Init /\ IndInv => Stored!StoredInit
  BY InitRefines
<1>2. IndInv /\ IndInv' /\ TipRecorded /\ [Next]_vars
          => [Stored!StoredNext]_<<StoredSegment, StoredRows>>
  BY StepRefines
<1> QED
  BY <1>1, <1>2, TipAlways, PTL DEF Spec, ImplementsStoredChain, Stored!StoredSpec

-----------------------------------------------------------------------------
\* Reorganisations below the confirmation depth.

\* Everything stored, and everything a running IndexRange has read, is final
\* and canonical, and Reconcile has seen no mismatch.
ShallowInv ==
    /\ Exists(checkpoint) =>
          /\ checkpoint.Number <= head - ConfirmationDepth
          /\ canonical[checkpoint.Number] = checkpoint.Hash
    /\ \A n \in History : canonical[n] = indexed_blocks[n].block_hash
    /\ reconcile \notin {"search", "rollback", "rolledBack", "tooDeep", "historyUnavailable"}
    /\ rangeState = "running" => endBlock <= head - ConfirmationDepth
    /\ \A n \in DOMAIN fetched :
          /\ n <= head - ConfirmationDepth
          /\ fetched[n] # NoHash => fetched[n] = canonical[n]

\* Numbers that the arithmetic below needs.
LEMMA Heights ==
    ASSUME IndInv
    PROVE  /\ MaxHeight \in Nat /\ ConfirmationDepth \in Nat
           /\ head \in 0..MaxHeight /\ checkpoint.Number \in 0..MaxHeight
           /\ endBlock \in 0..MaxHeight /\ nextCommit \in 0..MaxHeight
           /\ DOMAIN indexed_blocks \subseteq 0..MaxHeight
           /\ DOMAIN fetched \subseteq 0..MaxHeight
           /\ \A n \in DOMAIN indexed_blocks : n <= checkpoint.Number
<1>1. MaxHeight \in Nat /\ ConfirmationDepth \in Nat
  BY HeightAssumption, ConfirmationDepthAssumption
<1>2. checkpoint.Number \in 0..MaxHeight
  BY <1>1 DEF IndInv, TypeOK, StoreTypeOK, Checkpoints, NoCheckpoint
<1>3. ASSUME NEW n \in DOMAIN indexed_blocks PROVE n <= checkpoint.Number
  <2>1. Exists(checkpoint)
    BY <1>3 DEF IndInv, StoreInv, EmptyStore, NoRows
  <2>2. PICK lo \in 0..MaxHeight : \E f \in [lo..checkpoint.Number -> Hash] :
            HoldsPiece(f, lo, checkpoint, indexed_blocks, erc20_transfers)
    BY <2>1, StoredPiece
  <2> QED
    BY <1>2, <1>3, <2>2 DEF HoldsPiece
<1> QED
  BY <1>1, <1>2, <1>3 DEF IndInv, TypeOK, ChainTypeOK, StoreTypeOK, RangeTypeOK

\* A reorganisation below the confirmation depth moves nothing final.
LEMMA ShallowMoveKeeps ==
    ASSUME IndInv, ShallowInv, ShallowMove
    PROVE  ShallowInv'
<1>1. /\ head' >= head /\ head' \in 0..MaxHeight
      /\ \A n \in 0..(head - ConfirmationDepth) : canonical'[n] = canonical[n]
  BY DEF ShallowMove, ChainMove
<1>2. UNCHANGED <<checkpoint, indexed_blocks, reconcile, rangeState, endBlock, fetched>>
  BY DEF ShallowMove, storeVars, memory, reorgVars, rangeVars
<1>3. head' - ConfirmationDepth >= head - ConfirmationDepth
  BY <1>1, Heights
<1>4. Exists(checkpoint)' =>
          /\ checkpoint'.Number <= head' - ConfirmationDepth
          /\ canonical'[checkpoint'.Number] = checkpoint'.Hash
  BY <1>1, <1>2, <1>3, Heights DEF ShallowInv, Exists
<1>5. ASSUME NEW n \in History' PROVE canonical'[n] = indexed_blocks'[n].block_hash
  <2>1. Exists(checkpoint)
    BY <1>2, <1>5 DEF IndInv, StoreInv, EmptyStore, NoRows, History
  <2>2. n \in 0..(head - ConfirmationDepth)
    BY <1>2, <2>1, Heights DEF ShallowInv, History
  <2> QED
    BY <1>1, <1>2, <2>2 DEF ShallowInv, History
<1>6. rangeState' = "running" => endBlock' <= head' - ConfirmationDepth
  BY <1>1, <1>2, <1>3, Heights DEF ShallowInv
<1>7. ASSUME NEW n \in DOMAIN fetched'
      PROVE  /\ n <= head' - ConfirmationDepth
             /\ fetched'[n] # NoHash => fetched'[n] = canonical'[n]
  <2>1. n \in 0..(head - ConfirmationDepth)
    BY <1>2, Heights DEF ShallowInv
  <2> QED
    BY <1>1, <1>2, <1>3, <2>1, Heights DEF ShallowInv
<1> QED
  BY <1>2, <1>4, <1>5, <1>6, <1>7 DEF ShallowInv

\* Reconcile finds its checkpoint canonical, so it only records it.
LEMMA ShallowReconcile ==
    ASSUME IndInv, ShallowInv, Reconcile \/ ReconcileFaulty
    PROVE  ShallowInv'
<1>1. /\ UNCHANGED <<head, canonical, rangeState, endBlock, fetched>>
      /\ ReconcileStep \/ ReconcileFault
  BY DEF Reconcile, ReconcileFaulty, chainVars, rangeVars
<1>2. reconcile \notin {"search", "rollback"} /\ ReorgInv
  BY DEF ShallowInv, IndInv
<1>3. CASE RecordCheckpoint \/ ReconcileAnswerLost
  <2>1. candidate = checkpoint /\ Exists(checkpoint) /\ EnsureIndexedBlock(candidate)
    BY <1>2, <1>3 DEF RecordCheckpoint, ReconcileAnswerLost, ReorgInv
  <2>2. /\ DOMAIN indexed_blocks' = DOMAIN indexed_blocks \cup {checkpoint.Number}
        /\ \A n \in DOMAIN indexed_blocks :
              n # checkpoint.Number => indexed_blocks'[n] = indexed_blocks[n]
        /\ indexed_blocks'[checkpoint.Number].block_hash = checkpoint.Hash
        /\ checkpoint' = checkpoint
    BY <2>1 DEF EnsureIndexedBlock, RecordIndexedBlock
  <2>3. reconcile' \in {"verified", "error"}
    BY <1>3 DEF RecordCheckpoint, ReconcileAnswerLost
  <2> QED
    BY <1>1, <2>1, <2>2, <2>3 DEF ShallowInv, History, Exists
<1>4. CASE VerifyCheckpoint
  <2>1. candidate = checkpoint /\ Exists(checkpoint) /\ UNCHANGED storeVars
    BY <1>2, <1>4 DEF VerifyCheckpoint, ReorgInv
  <2>2. reconcile' = "ensure"
    BY <1>4, <2>1 DEF VerifyCheckpoint, ShallowInv
  <2> QED
    BY <1>1, <2>1, <2>2 DEF ShallowInv, History, Exists, storeVars
<1>5. CASE LoadCheckpoint \/ BlockNotFound \/ ReconcileError
  <2>1. UNCHANGED storeVars /\ reconcile' \in {"verify", "absent", "error"}
    BY <1>5 DEF LoadCheckpoint, BlockNotFound, ReconcileError
  <2> QED
    BY <1>1, <2>1 DEF ShallowInv, History, Exists, storeVars
<1> QED
  BY <1>1, <1>2, <1>3, <1>4, <1>5 DEF ReconcileStep, ReconcileFault, HistoryMissing,
                                      SearchAncestor, RollBack

\* IndexRange reads and commits final blocks only.
LEMMA ShallowIndexing ==
    ASSUME IndInv, ShallowInv, IndexBlocks \/ IndexingFaulty
    PROVE  ShallowInv'
<1>1. /\ UNCHANGED <<head, canonical, reconcile>> /\ UNCHANGED endBlock
      /\ RangeStep \/ RangeFault
  BY DEF IndexBlocks, IndexingFaulty, chainVars, reorgVars, RangeStep, RangeFault, Fetch,
         CommitNext, RejectNext, FetchError, RangeError, SaveAnswerLost
<1>2. ASSUME NEW n \in 0..MaxHeight, Fetch(n) \/ FetchError(n) PROVE ShallowInv'
  <2>1. /\ UNCHANGED storeVars /\ UNCHANGED rangeState
        /\ rangeState = "running" /\ n \in nextCommit..endBlock
        /\ DOMAIN fetched' = DOMAIN fetched \cup {n}
        /\ \A m \in DOMAIN fetched : m # n => fetched'[m] = fetched[m]
        /\ fetched'[n] \in {NoHash, canonical[n]}
    BY <1>2 DEF Fetch, FetchError, Put
  <2>2. n <= head - ConfirmationDepth
    BY <2>1, Heights DEF ShallowInv
  <2> QED
    BY <1>1, <2>1, <2>2 DEF ShallowInv, History, Exists, storeVars
<1>3. CASE CommitNext \/ SaveAnswerLost
  <2> DEFINE b == fetched[nextCommit]
  <2>1. ReadyToCommit /\ SaveIndexedBlock(b) /\ rangeState = "running"
    BY <1>3 DEF CommitNext, SaveAnswerLost, ReadyToCommit
  <2>2. /\ Number[b] = nextCommit /\ b = canonical[nextCommit]
        /\ nextCommit <= head - ConfirmationDepth
    BY <2>1 DEF ReadyToCommit, IndInv, RangeInv, ShallowInv
  <2>3. /\ checkpoint' = [Number |-> nextCommit, Hash |-> b]
        /\ DOMAIN indexed_blocks' = DOMAIN indexed_blocks \cup {nextCommit}
        /\ \A n \in DOMAIN indexed_blocks :
              n # nextCommit => indexed_blocks'[n] = indexed_blocks[n]
        /\ indexed_blocks'[nextCommit].block_hash = b
    BY <2>1, <2>2 DEF SaveIndexedBlock, RecordIndexedBlock
  <2>4. /\ DOMAIN fetched' \subseteq DOMAIN fetched
        /\ \A n \in DOMAIN fetched' : fetched'[n] = fetched[n]
    BY <1>3 DEF CommitNext, SaveAnswerLost, ReturnRange, NoRows, Without
  <2> QED
    BY <1>1, <2>1, <2>2, <2>3, <2>4 DEF ShallowInv, History
<1>4. CASE RejectNext \/ RangeError
  <2>1. UNCHANGED storeVars /\ DOMAIN fetched' = {} /\ rangeState' = "failed"
    BY <1>4 DEF RejectNext, RangeError, ReturnRange, NoRows
  <2> QED
    BY <1>1, <2>1 DEF ShallowInv, History, Exists, storeVars
<1> QED
  BY <1>1, <1>2, <1>3, <1>4 DEF RangeStep, RangeFault

\* The steps that move the process along: a range ends at the final block.
LEMMA ShallowControl ==
    ASSUME IndInv, ShallowInv,
           \/ Start \/ ResumeFromCheckpoint \/ NoCheckpointYet \/ StartFromLatest
           \/ SkipCycle \/ RunCycle \/ CycleDone \/ Tick \/ ExitOnError \/ Stop
           \/ UNCHANGED vars
    PROVE  ShallowInv'
<1>1. UNCHANGED <<head, canonical, checkpoint, indexed_blocks>>
  BY DEF Start, ResumeFromCheckpoint, NoCheckpointYet, StartFromLatest, SkipCycle,
         RunCycle, IndexRange, CycleDone, Tick, ExitOnError, Stop, LoseMemory,
         vars, chainVars, storeVars
<1>2. reconcile' \in {"load", "off", reconcile}
  BY DEF Start, BeginReconcile, ResumeFromCheckpoint, NoCheckpointYet, ForgetReconcile,
         StartFromLatest, SkipCycle, RunCycle, CycleDone, Tick, ExitOnError, Stop,
         LoseMemory, vars, memory, reorgVars
<1>3. /\ DOMAIN fetched' \subseteq DOMAIN fetched
      /\ \A n \in DOMAIN fetched' : fetched'[n] = fetched[n]
  BY DEF Start, ResumeFromCheckpoint, NoCheckpointYet, StartFromLatest, SkipCycle,
         RunCycle, IndexRange, CycleDone, Tick, ExitOnError, Stop, LoseMemory, ForgetRange,
         NoRows, vars, memory, rangeVars
<1>4. rangeState' = "running" => endBlock' <= head - ConfirmationDepth
  <2>1. CASE RunCycle
    <3>1. ChainTypeOK
      BY DEF IndInv, TypeOK
    <3>2. endBlock' = head - ConfirmationDepth
      BY <2>1, <3>1, NoUnderflow DEF RunCycle, IndexRange
    <3>3. head - ConfirmationDepth \in Int
      BY Heights
    <3> QED
      BY <3>2, <3>3
  <2>2. CASE CycleDone \/ ExitOnError \/ Stop
    BY <2>2 DEF CycleDone, ExitOnError, Stop, LoseMemory, ForgetRange
  <2>3. CASE \/ Start \/ ResumeFromCheckpoint \/ NoCheckpointYet \/ StartFromLatest
             \/ SkipCycle \/ Tick \/ UNCHANGED vars
    BY <2>3 DEF Start, ResumeFromCheckpoint, NoCheckpointYet, StartFromLatest, SkipCycle,
                Tick, vars, memory, rangeVars, ShallowInv
  <2> QED
    BY <2>1, <2>2, <2>3
<1> QED
  BY <1>1, <1>2, <1>3, <1>4 DEF ShallowInv, History, Exists

\* With shallow reorganisations both invariants hold at every moment.
LEMMA ShallowAlways == ShallowSpec => [](IndInv /\ ShallowInv)
<1>1. ShallowInit => IndInv /\ ShallowInv
  <2> SUFFICES ASSUME ShallowInit PROVE IndInv /\ ShallowInv
    OBVIOUS
  <2>1. IndInv
    BY InitIndInv DEF ShallowInit
  <2>2. DOMAIN indexed_blocks = {} /\ DOMAIN fetched = {} /\ reconcile = "off" /\ rangeState = "off"
    BY DEF ShallowInit, Init, StoreInit, EmptyStore, LegacyStore, NoRows, ReorgOff, RangeOff
  <2> QED
    BY <2>1, <2>2 DEF ShallowInit, ShallowInv, History
<1>2. ShallowMove => MoveChain
  BY DEF ShallowMove, MoveChain
<1>3. IndInv /\ [Process \/ Fault \/ ShallowMove]_vars => IndInv'
  BY <1>2, ReconcileKeepsIndInv, IndexingKeepsIndInv, ControlKeepsIndInv,
     MoveChainKeepsIndInv, StutterKeepsIndInv
  DEF Process, Fault
<1>4. IndInv /\ ShallowInv /\ [Process \/ Fault \/ ShallowMove]_vars => ShallowInv'
  BY ShallowMoveKeeps, ShallowReconcile, ShallowIndexing, ShallowControl DEF Process, Fault
<1> QED
  BY <1>1, <1>3, <1>4, PTL DEF ShallowSpec

\* With reorganisations below the confirmation depth everything recorded by
\* SaveIndexedBlock and EnsureIndexedBlock is final and canonical.
THEOREM FinalityTheorem == ShallowSpec => []FinalizedCanonical
<1>1. ShallowInv => FinalizedCanonical
  BY DEF ShallowInv, FinalizedCanonical
<1> QED
  BY <1>1, ShallowAlways, PTL

\* With such reorganisations Reconcile never searches for an ancestor, and no
\* block IndexRange read is refused for its parent (validateParentHash).
THEOREM NoFalseReorgTheorem == ShallowSpec => []NoFalseReorg
<1>1. ASSUME IndInv, ShallowInv PROVE NoFalseReorg
  <2> SUFFICES ASSUME rangeState = "running", nextCommit \in DOMAIN fetched,
                      fetched[nextCommit] # NoHash, LogsDecode(fetched[nextCommit])
               PROVE  ReadyToCommit
    BY <1>1 DEF NoFalseReorg, ShallowInv
  <2> DEFINE b == fetched[nextCommit]
  <2>1. /\ b = canonical[nextCommit] /\ nextCommit <= head - ConfirmationDepth
        /\ expectedParentHash = checkpoint.Hash
        /\ Exists(checkpoint) => nextCommit = checkpoint.Number + 1
    BY <1>1 DEF ShallowInv, IndInv, RangeInv
  <2>2. CASE Exists(checkpoint)
    <3>1. nextCommit \in 0..head /\ nextCommit > 0 /\ nextCommit - 1 = checkpoint.Number
      BY <1>1, <2>1, <2>2, Heights
    <3>2. ParentHash[b] = canonical[nextCommit - 1]
      BY <1>1, <2>1, <3>1 DEF IndInv, TypeOK, ChainTypeOK, IsBranch
    <3>3. ParentHash[b] = checkpoint.Hash
      BY <1>1, <2>2, <3>1, <3>2 DEF ShallowInv
    <3> QED
      BY <2>1, <3>3 DEF ReadyToCommit, ValidParent
  <2>3. CASE ~Exists(checkpoint)
    BY <2>1, <2>3 DEF ReadyToCommit, ValidParent, Exists
  <2> QED
    BY <2>2, <2>3
<1> QED
  BY <1>1, ShallowAlways, PTL

\* One step of a process under such reorganisations takes nothing back.
LEMMA NothingTakenBack ==
    ASSUME IndInv, ShallowInv, Exists(checkpoint), [Process \/ Fault \/ ShallowMove]_vars
    PROVE  /\ checkpoint'.Number >= checkpoint.Number
           /\ \A n \in History : n \in DOMAIN indexed_blocks'
                  /\ indexed_blocks'[n].block_hash = indexed_blocks[n].block_hash
<1> USE DEF History
<1>1. ReorgInv /\ RangeInv /\ reconcile \notin {"search", "rollback"}
  BY DEF IndInv, ShallowInv
<1>2. CASE UNCHANGED storeVars
  BY <1>2, Heights DEF storeVars
<1>3. CASE RecordCheckpoint \/ ReconcileAnswerLost
  <2>1. candidate = checkpoint /\ EnsureIndexedBlock(candidate)
    BY <1>1, <1>3 DEF RecordCheckpoint, ReconcileAnswerLost, ReorgInv
  <2> QED
    BY <2>1, Heights DEF EnsureIndexedBlock, RecordIndexedBlock, HashConflict
<1>4. CASE CommitNext \/ SaveAnswerLost
  <2> DEFINE b == fetched[nextCommit]
  <2>1. ReadyToCommit /\ SaveIndexedBlock(b)
    BY <1>4 DEF CommitNext, SaveAnswerLost
  <2>2. Number[b] = checkpoint.Number + 1
    BY <1>1, <2>1 DEF ReadyToCommit, RangeInv
  <2>3. checkpoint'.Number = checkpoint.Number + 1
    BY <2>1, <2>2 DEF SaveIndexedBlock
  <2> QED
    BY <2>1, <2>3, Heights DEF SaveIndexedBlock, RecordIndexedBlock, HashConflict
<1>5. CASE Reconcile \/ ReconcileFaulty
  BY <1>1, <1>2, <1>3, <1>5 DEF Reconcile, ReconcileStep, ReconcileFaulty, ReconcileFault,
     LoadCheckpoint, VerifyCheckpoint, HistoryMissing, SearchAncestor, RollBack,
     BlockNotFound, ReconcileError
<1>6. CASE IndexBlocks \/ IndexingFaulty
  BY <1>2, <1>4, <1>6 DEF IndexBlocks, RangeStep, IndexingFaulty, RangeFault, Fetch,
     RejectNext, FetchError, RangeError
<1>7. CASE \/ Start \/ ResumeFromCheckpoint \/ NoCheckpointYet \/ StartFromLatest
           \/ SkipCycle \/ RunCycle \/ CycleDone \/ Tick \/ ExitOnError \/ Stop
           \/ ShallowMove \/ UNCHANGED vars
  <2>1. UNCHANGED storeVars
    BY <1>7 DEF Start, ResumeFromCheckpoint, NoCheckpointYet, StartFromLatest, SkipCycle,
       RunCycle, IndexRange, CycleDone, Tick, ExitOnError, Stop, LoseMemory, ShallowMove, vars
  <2> QED
    BY <1>2, <2>1
<1> QED
  BY <1>5, <1>6, <1>7 DEF Process, Fault

\* With such reorganisations no committed block is ever taken back: neither
\* Reconcile nor a restart moves the checkpoint down or rewrites history.
THEOREM NoRollbackTheorem == ShallowSpec => NeverRollsBack
<1>1. IndInv /\ ShallowInv /\ [Process \/ Fault \/ ShallowMove]_vars =>
          [Exists(checkpoint) =>
              /\ checkpoint'.Number >= checkpoint.Number
              /\ \A n \in History : n \in DOMAIN indexed_blocks'
                     /\ indexed_blocks'[n].block_hash = indexed_blocks[n].block_hash]_vars
  BY NothingTakenBack
<1> QED
  BY <1>1, ShallowAlways, PTL DEF ShallowSpec, NeverRollsBack

-----------------------------------------------------------------------------
\* What Reconcile computes.

\* While the search runs undisturbed, every recorded block between the height
\* compared last and the checkpoint is known to be off the canonical chain.
SearchInv ==
    undisturbed =>
    /\ reconcile = "ensure" => CanonicalAt(previous.Number, previous.Hash)
    /\ reconcile \in {"search", "rollback", "tooDeep", "historyUnavailable"} =>
          /\ HasBlock(previous.Number) /\ ~CanonicalAt(previous.Number, previous.Hash)
          /\ previous = checkpoint
    /\ reconcile \in {"search", "tooDeep", "historyUnavailable"} =>
          /\ candidate.Number <= previous.Number
          /\ \A n \in candidate.Number..(previous.Number - 1) :
                n \in DOMAIN indexed_blocks /\ ~CanonicalAt(n, indexed_blocks[n].block_hash)
    /\ reconcile = "rollback" =>
          /\ CanonicalAt(candidate.Number, indexed_blocks[candidate.Number].block_hash)
          /\ \A n \in (candidate.Number + 1)..(previous.Number - 1) :
                ~CanonicalAt(n, indexed_blocks[n].block_hash)
    /\ reconcile = "tooDeep" => ~AnotherDepth(candidate.Number)
    /\ reconcile = "historyUnavailable" =>
          /\ AnotherDepth(candidate.Number)
          /\ candidate.Number - 1 \notin DOMAIN indexed_blocks
    /\ reconcile = "verified" =>
          /\ checkpoint = previous /\ CanonicalAt(previous.Number, previous.Hash)
          /\ previous.Number \in DOMAIN indexed_blocks
    /\ reconcile = "rolledBack" =>
          /\ checkpoint = candidate
          /\ previous.Number - checkpoint.Number \in 1..MaxReorgDepth
    /\ reconcile = "error" => checkpoint = previous /\ ~HasBlock(previous.Number)

\* Numbers that the search counts with.
LEMMA SearchNumbers ==
    ASSUME IndInv
    PROVE  /\ previous.Number \in Nat /\ candidate.Number \in Nat
           /\ head \in Nat /\ MaxReorgDepth \in Nat /\ MaxReorgDepth > 0
           /\ DOMAIN indexed_blocks \subseteq Nat
  BY HeightAssumption, MaxReorgDepthAssumption
  DEF IndInv, TypeOK, ReorgTypeOK, ChainTypeOK, StoreTypeOK, Checkpoints, NoCheckpoint

\* A step of Reconcile that is not disturbed.
LEMMA ReconcileSearches ==
    ASSUME IndInv, SearchInv, undisturbed, Undisturbed, undisturbed',
           ReconcileStep \/ ReconcileFault
    PROVE  SearchInv'
<1> USE SearchNumbers DEF SearchInv, HasBlock, CanonicalAt
<1>1. head' = head /\ canonical' = canonical /\ ReorgInv
  BY DEF Undisturbed, chainVars, IndInv
<1>2. CASE LoadCheckpoint
  BY <1>2 DEF LoadCheckpoint
<1>3. CASE VerifyCheckpoint
  <2>1. /\ previous = checkpoint /\ candidate = checkpoint
        /\ UNCHANGED <<previous, candidate>> /\ UNCHANGED storeVars
        /\ HasBlock(candidate.Number)
        /\ reconcile' = IF canonical[candidate.Number] = candidate.Hash THEN "ensure"
                        ELSE IF AnotherDepth(candidate.Number) THEN "search"
                        ELSE "tooDeep"
    BY <1>1, <1>3 DEF VerifyCheckpoint, ReorgInv
  <2>2. candidate.Number..(previous.Number - 1) = {}
    BY <2>1
  <2>3. CASE reconcile' = "ensure"
    BY <1>1, <2>1, <2>3
  <2>4. CASE reconcile' \in {"search", "tooDeep"}
    BY <1>1, <2>1, <2>2, <2>4 DEF storeVars, AnotherDepth
  <2> QED
    BY <2>1, <2>3, <2>4
<1>4. CASE RecordCheckpoint
  <2>1. candidate = checkpoint /\ previous = checkpoint
    BY <1>1, <1>4 DEF RecordCheckpoint, ReorgInv
  <2>2. /\ checkpoint' = checkpoint /\ candidate.Number \in DOMAIN indexed_blocks'
        /\ reconcile' = "verified" /\ reconcile = "ensure" /\ UNCHANGED <<previous, candidate>>
    BY <1>4 DEF RecordCheckpoint, EnsureIndexedBlock, RecordIndexedBlock
  <2> QED
    BY <1>1, <2>1, <2>2
<1>5. CASE HistoryMissing
  BY <1>1, <1>5 DEF HistoryMissing, storeVars, AnotherDepth, ReorgInv
<1>6. CASE SearchAncestor
  <2> DEFINE height == candidate.Number - 1
             storedHash == indexed_blocks[height].block_hash
  <2>1. /\ reconcile = "search" /\ height \in DOMAIN indexed_blocks /\ HasBlock(height)
        /\ candidate' = [Number |-> height, Hash |-> storedHash]
        /\ reconcile' = IF canonical[height] = storedHash THEN "rollback"
                        ELSE IF AnotherDepth(height) THEN "search"
                        ELSE "tooDeep"
        /\ previous' = previous /\ UNCHANGED storeVars
    BY <1>6 DEF SearchAncestor
  <2>2. candidate'.Number = height /\ height <= previous.Number
    BY <2>1
  <2>3. \A n \in height..(previous.Number - 1) : n = height \/ n \in candidate.Number..(previous.Number - 1)
    BY <2>1
  <2>4. CASE reconcile' = "rollback"
    <3>1. canonical[height] = storedHash
      BY <2>1, <2>4
    <3>2. \A n \in (height + 1)..(previous.Number - 1) : n \in candidate.Number..(previous.Number - 1)
      BY <2>1
    <3> QED
      BY <1>1, <2>1, <2>2, <2>4, <3>1, <3>2 DEF storeVars
  <2>5. CASE reconcile' \in {"search", "tooDeep"}
    <3>1. ~CanonicalAt(height, storedHash) /\ (reconcile' = "tooDeep" => ~AnotherDepth(height))
      BY <2>1, <2>5
    <3> QED
      BY <1>1, <2>1, <2>2, <2>3, <2>5, <3>1 DEF storeVars, AnotherDepth
  <2> QED
    BY <2>1, <2>4, <2>5
<1>7. CASE RollBack
  <2>1. /\ reconcile = "rollback" /\ reconcile' = "rolledBack" /\ checkpoint' = candidate
        /\ UNCHANGED <<previous, candidate>>
    BY <1>7 DEF RollBack, RollbackTo
  <2>2. previous.Number - candidate.Number \in 1..MaxReorgDepth
    BY <1>1, <2>1 DEF ReorgInv
  <2> QED
    BY <2>1, <2>2
<1>8. CASE BlockNotFound \/ ReconcileFault
  <2>1. /\ reconcile' = "error" /\ reconcile # "error" /\ AboveHead
        /\ UNCHANGED <<previous, candidate>>
    BY <1>8 DEF BlockNotFound, ReconcileFault, ReconcileError, ReconcileAnswerLost,
                Undisturbed, Reconciling, AboveHead
  <2>2. UNCHANGED storeVars
    BY <1>8, <2>1 DEF BlockNotFound, ReconcileFault, ReconcileError, ReconcileAnswerLost, AboveHead
  <2>3. reconcile = "verify" /\ ~HasBlock(candidate.Number)
    BY <2>1 DEF AboveHead
  <2>4. candidate = checkpoint /\ previous = checkpoint
    BY <1>1, <2>3 DEF ReorgInv
  <2> QED
    BY <1>1, <2>1, <2>2, <2>3, <2>4 DEF storeVars
<1> QED
  BY <1>2, <1>3, <1>4, <1>5, <1>6, <1>7, <1>8 DEF ReconcileStep

\* Every step of the process and of the chain keeps what the search knows.
LEMMA NextSearch ==
    ASSUME IndInv, SearchInv, [ObservedNext]_observedVars
    PROVE  SearchInv'
<1> SUFFICES ASSUME undisturbed' PROVE SearchInv'
  BY DEF SearchInv
<1>1. ReorgInv
  BY DEF IndInv
<1>2. CASE UNCHANGED observedVars
  BY <1>2 DEF observedVars, vars, memory, chainVars, storeVars, reorgVars, SearchInv,
              CanonicalAt, HasBlock, AnotherDepth
<1>3. CASE ObservedNext /\ phase = "reconcile" /\ phase' = "reconcile"
  <2>1. undisturbed /\ Undisturbed /\ Next
    BY <1>3 DEF ObservedNext
  <2>2. CASE Reconcile \/ ReconcileFaulty
    BY <2>1, <2>2, ReconcileSearches DEF Reconcile, ReconcileFaulty
  <2>3. CASE MoveChain
    BY <2>1, <2>3 DEF Undisturbed, MoveChain, memory, chainVars, storeVars, reorgVars,
                      SearchInv, CanonicalAt, HasBlock, AnotherDepth
  <2>4. Reconcile \/ ReconcileFaulty \/ MoveChain
    BY <1>3, <2>1 DEF Next, Process, Fault, Start, ResumeFromCheckpoint, NoCheckpointYet,
       StartFromLatest, SkipCycle, RunCycle, IndexBlocks, CycleDone, Tick, ExitOnError,
       Stop, LoseMemory, IndexingFaulty
  <2> QED
    BY <2>2, <2>3, <2>4
<1>4. CASE ObservedNext /\ ~(phase = "reconcile" /\ phase' = "reconcile")
  <2>1. reconcile' \in {"off", "load"}
    <3>1. CASE Reconcile \/ ReconcileFaulty
      BY <1>4, <3>1 DEF Reconcile, ReconcileFaulty, processVars
    <3>2. CASE Start \/ ResumeFromCheckpoint \/ NoCheckpointYet \/ ExitOnError \/ Stop
      BY <3>2 DEF Start, BeginReconcile, ResumeFromCheckpoint, NoCheckpointYet,
                  ForgetReconcile, ExitOnError, Stop, LoseMemory
    <3>3. CASE \/ StartFromLatest \/ SkipCycle \/ RunCycle \/ IndexBlocks
               \/ CycleDone \/ Tick \/ IndexingFaulty
      BY <1>1, <3>3 DEF StartFromLatest, SkipCycle, RunCycle, IndexBlocks, CycleDone, Tick,
                        IndexingFaulty, reorgVars, ReorgInv
    <3>4. CASE MoveChain
      BY <1>1, <1>4, <3>4 DEF MoveChain, memory, reorgVars, processVars, ReorgInv
    <3> QED
      BY <1>4, <3>1, <3>2, <3>3, <3>4 DEF ObservedNext, Next, Process, Fault
  <2> QED
    BY <2>1 DEF SearchInv
<1> QED
  BY <1>2, <1>3, <1>4

\* Reconcile, when neither a fault nor a reorganisation disturbs it, goes to the
\* nearest recorded common ancestor and to no other; it reports a fork as too
\* deep, or its history as missing, only if there is no such ancestor within
\* maxReorgDepth, and then leaves the store as it was.
THEOREM ReconcileTheorem == ObservedSpec => []ReconcileOutcome
<1>1. ObservedInit => IndInv /\ SearchInv
  BY InitIndInv DEF ObservedInit, Init, ReorgOff, SearchInv
<1>2. IndInv /\ [ObservedNext]_observedVars => IndInv'
  BY ReconcileKeepsIndInv, IndexingKeepsIndInv, ControlKeepsIndInv,
     MoveChainKeepsIndInv, StutterKeepsIndInv
  DEF ObservedNext, observedVars, Next, Process, Fault
<1>3. IndInv /\ SearchInv /\ [ObservedNext]_observedVars => SearchInv'
  BY NextSearch
<1>4. ASSUME IndInv, SearchInv PROVE ReconcileOutcome
  <2> SUFFICES ASSUME undisturbed PROVE ReconcileOutcome
    BY DEF ReconcileOutcome
  <2> USE SearchNumbers, <1>4
  <2>0. ReorgInv
    BY DEF IndInv
  <2>1. ASSUME reconcile = "rollback"
        PROVE  /\ candidate.Number \in CommonAncestors
               /\ \A n \in CommonAncestors : n <= candidate.Number
    <3>1. /\ candidate.Number \in DOMAIN indexed_blocks
          /\ previous.Number - candidate.Number \in 1..MaxReorgDepth
      BY <2>0, <2>1 DEF ReorgInv, History
    <3>2. candidate.Number \in CommonAncestors
      BY <2>1, <3>1 DEF CommonAncestors, SearchInv
    <3>3. ASSUME NEW n \in CommonAncestors PROVE n <= candidate.Number
      BY <2>1, <3>3 DEF CommonAncestors, SearchInv
    <3> QED
      BY <3>2, <3>3
  <2>2. ASSUME reconcile = "tooDeep"
        PROVE  /\ CommonAncestors = {}
               /\ \A n \in 0..(previous.Number - 1) :
                     previous.Number - n <= MaxReorgDepth => n \in DOMAIN indexed_blocks
    <3>1. ~(previous.Number - candidate.Number + 1 <= MaxReorgDepth /\ candidate.Number > 0)
      BY <2>2 DEF SearchInv, AnotherDepth
    <3>2. ASSUME NEW n \in 0..(previous.Number - 1), previous.Number - n <= MaxReorgDepth
          PROVE  n \in candidate.Number..(previous.Number - 1)
      BY <3>1, <3>2
    <3>3. \A n \in 0..(previous.Number - 1) : previous.Number - n <= MaxReorgDepth =>
              n \in DOMAIN indexed_blocks /\ ~CanonicalAt(n, indexed_blocks[n].block_hash)
      BY <2>2, <3>2 DEF SearchInv
    <3>4. ASSUME NEW n \in CommonAncestors PROVE FALSE
      BY <3>3, <3>4 DEF CommonAncestors
    <3> QED
      BY <3>3, <3>4
  <2>3. ASSUME reconcile = "historyUnavailable"
        PROVE  /\ CommonAncestors = {}
               /\ \E n \in 0..(previous.Number - 1) :
                     previous.Number - n <= MaxReorgDepth /\ n \notin DOMAIN indexed_blocks
    <3> DEFINE gap == candidate.Number - 1
    <3>1. /\ previous.Number - candidate.Number + 1 <= MaxReorgDepth /\ candidate.Number > 0
          /\ gap \notin DOMAIN indexed_blocks /\ candidate.Number <= previous.Number
      BY <2>3 DEF SearchInv, AnotherDepth
    <3>2. gap \in 0..(previous.Number - 1) /\ previous.Number - gap <= MaxReorgDepth
      BY <3>1
    <3>3. previous = checkpoint
      BY <2>3 DEF SearchInv
    <3>4. \A n \in DOMAIN indexed_blocks : n > gap
      <4> SUFFICES ASSUME NEW n \in DOMAIN indexed_blocks PROVE n > gap
        OBVIOUS
      <4>1. Exists(checkpoint)
        BY DEF IndInv, StoreInv, EmptyStore, NoRows
      <4>2. PICK lo \in 0..MaxHeight : \E f \in [lo..checkpoint.Number -> Hash] :
                HoldsPiece(f, lo, checkpoint, indexed_blocks, erc20_transfers)
        BY <4>1, StoredPiece
      <4>3. n..checkpoint.Number \subseteq DOMAIN indexed_blocks
        BY <4>2 DEF HoldsPiece
      <4> QED
        BY <3>1, <3>2, <3>3, <4>3
    <3>5. ASSUME NEW n \in CommonAncestors PROVE FALSE
      <4>1. n \in DOMAIN indexed_blocks /\ CanonicalAt(n, indexed_blocks[n].block_hash)
            /\ previous.Number - n \in 1..MaxReorgDepth
        BY <3>5 DEF CommonAncestors
      <4>2. n \in candidate.Number..(previous.Number - 1)
        BY <3>4, <4>1
      <4> QED
        BY <2>3, <4>1, <4>2 DEF SearchInv
    <3> QED
      BY <3>1, <3>2, <3>5
  <2>4. ASSUME reconcile = "rolledBack"
        PROVE  \A n \in DOMAIN indexed_blocks : n <= checkpoint.Number
    BY Heights
  <2>5. reconcile \in ReconcileFailed => checkpoint = previous
    BY DEF SearchInv, ReconcileFailed
  <2> QED
    BY <2>1, <2>2, <2>3, <2>4, <2>5 DEF ReconcileOutcome, SearchInv
<1> QED
  BY <1>1, <1>2, <1>3, <1>4, PTL DEF ObservedSpec
=============================================================================
