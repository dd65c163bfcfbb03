------------------------------ MODULE MCLedger ------------------------------
(***************************************************************************)
(* Two-bit balances, so that sums overflow; the blocks hold a transaction   *)
(* that fails after one that succeeds, a transfer to oneself, the same       *)
(* transaction twice, and none.                                               *)
(***************************************************************************)
EXTENDS Ledger, TLC

Tx(hash, from, to, value) == [Hash |-> hash, From |-> from, To |-> to, ValueWei |-> value]

SmallAddress == {"x", "y", "z"}
SmallGenesis == {"x" :> 2, "x" :> 3 @@ "y" :> 3, "x" :> 1 @@ "y" :> 1}
SmallBlocks ==
    {<<>>,
     <<Tx("h1", "x", "y", 1)>>,
     <<Tx("h2", "x", "x", 1), Tx("h3", "y", "z", 1)>>,
     <<Tx("h4", "x", "y", 2), Tx("h4", "x", "y", 2)>>,
     <<Tx("h5", "y", "x", 1), Tx("h6", "z", "x", 1)>>,
     <<Tx("", "x", "y", 1)>>, <<Tx("h7", "x", "y", 0)>>}
=============================================================================
