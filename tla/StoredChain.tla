----------------------------- MODULE StoredChain -----------------------------
(***************************************************************************)
(* What ChainWatch promises to the readers of its database: at every moment *)
(* the store is one unbroken piece of one branch of the chain, together     *)
(* with exactly the transfers of its blocks.  It grows at its tip by the     *)
(* child of the tip, and shrinks only by giving up at most MaxReorgDepth     *)
(* blocks at the tip at once.                                                *)
(***************************************************************************)
EXTENDS Blocks

CONSTANT MaxReorgDepth

VARIABLES
    segment,   \* height -> hash, over an interval of heights
    rows       \* transfer rows: identity, block number, block hash

Heights == DOMAIN segment

Rows(b) == {<<t, Number[b], b>> : t \in Transfers[b]}

Extend(b) == [n \in Heights \cup {Number[b]} |->
                 IF n = Number[b] THEN b ELSE segment[n]]

IsTip(n) == n \in Heights /\ \A m \in Heights : m <= n

StoredInit ==
    \/ segment = [n \in {} |-> NoHash] /\ rows = {}
    \/ \E b \in Hash : /\ segment = [n \in {Number[b]} |-> b]
                       /\ rows = Rows(b)

Begin(b) ==
    /\ Heights = {}
    /\ segment' = Extend(b)
    /\ rows' = Rows(b)

Grow(b) ==
    /\ IsTip(Number[b] - 1)
    /\ segment[Number[b] - 1] = ParentHash[b]
    /\ segment' = Extend(b)
    /\ rows' = rows \cup Rows(b)

GiveUpTo(k) ==
    /\ k \in Heights
    /\ \E tip \in Heights : IsTip(tip) /\ tip - k \in 1..MaxReorgDepth
    /\ segment' = [n \in {m \in Heights : m <= k} |-> segment[n]]
    /\ rows' = {r \in rows : r[2] <= k}

StoredNext ==
    \/ \E b \in Hash : Begin(b) \/ Grow(b)
    \/ \E k \in 0..MaxHeight : GiveUpTo(k)

StoredSpec == StoredInit /\ [][StoredNext]_<<segment, rows>>
=============================================================================
