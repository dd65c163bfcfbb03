------------------------------ MODULE MCBlocks ------------------------------
(***************************************************************************)
(* Small block trees for TLC.  A block is named by its branch and height.   *)
(* All of them fork, so that blocks of one height compete, and              *)
(* transaction t2 is included on both branches at different heights.        *)
(***************************************************************************)
EXTENDS Integers

\* The parent of a block 0: a hash no node serves, as Ethereum's zero hash.
ZeroHash == "zero"

\* a0 - a1 - a2 and a0 - b1 - b2
SmallHash == {"a0", "a1", "a2", "b1", "b2"}
SmallNumber == [b \in SmallHash |->
    CASE b = "a0" -> 0 [] b \in {"a1", "b1"} -> 1 [] OTHER -> 2]
SmallParent == [b \in SmallHash |->
    CASE b = "a0" -> ZeroHash [] b \in {"a1", "b1"} -> "a0"
      [] b = "a2" -> "a1" [] b = "b2" -> "b1"]
SmallTransfers == [b \in SmallHash |->
    CASE b = "a1" -> {"t1"} [] b = "a2" -> {"t2"} [] b = "b1" -> {"t2"}
      [] OTHER -> {}]

\* a0 - a1 - a2 - a3 and a1 - b2 - b3
TreeHash == {"a0", "a1", "a2", "a3", "b2", "b3"}
TreeNumber == [b \in TreeHash |->
    CASE b = "a0" -> 0 [] b = "a1" -> 1 [] b \in {"a2", "b2"} -> 2 [] OTHER -> 3]
TreeParent == [b \in TreeHash |->
    CASE b = "a0" -> ZeroHash [] b = "a1" -> "a0" [] b \in {"a2", "b2"} -> "a1"
      [] b = "a3" -> "a2" [] b = "b3" -> "b2"]
TreeTransfers == [b \in TreeHash |->
    CASE b = "a1" -> {"t1"} [] b = "a2" -> {"t2"} [] b = "b3" -> {"t2"}
      [] b = "a3" -> {"t3"} [] OTHER -> {}]

\* a0 - a1 - a2 - a3 - a4, a1 - b2 - b3 - b4 and a2 - c3 - c4
ForkedHash == {"a0", "a1", "a2", "a3", "a4", "b2", "b3", "b4", "c3", "c4"}
ForkedNumber == [b \in ForkedHash |->
    CASE b = "a0" -> 0 [] b = "a1" -> 1 [] b \in {"a2", "b2"} -> 2
      [] b \in {"a3", "b3", "c3"} -> 3 [] OTHER -> 4]
ForkedParent == [b \in ForkedHash |->
    CASE b = "a0" -> ZeroHash [] b = "a1" -> "a0" [] b \in {"a2", "b2"} -> "a1"
      [] b \in {"a3", "c3"} -> "a2" [] b = "b3" -> "b2"
      [] b = "a4" -> "a3" [] b = "b4" -> "b3" [] b = "c4" -> "c3"]
ForkedTransfers == [b \in ForkedHash |->
    CASE b = "a1" -> {"t1"} [] b = "a2" -> {"t2"} [] b = "b3" -> {"t2"}
      [] b \in {"a3", "b2", "c4"} -> {"t3"} [] OTHER -> {}]

\* The same with a block on top of two of its branches, for runs in which the
\* latest block is never final.
GrownHash == ForkedHash \cup {"a5", "b5"}
GrownNumber == [b \in GrownHash |-> IF b \in ForkedHash THEN ForkedNumber[b] ELSE 5]
GrownParent == [b \in GrownHash |->
    CASE b = "a5" -> "a4" [] b = "b5" -> "b4" [] OTHER -> ForkedParent[b]]
GrownTransfers == [b \in GrownHash |-> IF b \in ForkedHash THEN ForkedTransfers[b] ELSE {}]

\* The chain from block 0 to b.
ChainTo(b, number, parent) ==
    LET chain[n \in 0..number[b]] ==   \* the block n levels below b
            IF n = 0 THEN b ELSE parent[chain[n - 1]]
    IN  [n \in 0..number[b] |-> chain[number[b] - n]]

TallChains == {ChainTo(b, TreeNumber, TreeParent) : b \in {"a3", "b3"}}
ForkedChains == {ChainTo(b, ForkedNumber, ForkedParent) : b \in ForkedHash}
GrownChains == {ChainTo(b, GrownNumber, GrownParent) : b \in GrownHash}

\* Blocks with a log that cannot be decoded, alone on their branch or below
\* others, and competing with blocks that can be indexed.
TreeUndecodable == {"b2"}
ForkedUndecodable == {"b3"}
TipUndecodable == {"b4"}

TransferIds == {"t1", "t2", "t3"}
=============================================================================
