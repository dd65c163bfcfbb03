------------------------------- MODULE Blocks -------------------------------
(***************************************************************************)
(* The data the whole system talks about: blocks of an Ethereum-like       *)
(* chain.  A block is identified by its hash, and the hash commits to the   *)
(* block's number, its parent and the ERC-20 transfers in its logs, so      *)
(* those three are constant functions of the hash.                          *)
(***************************************************************************)
EXTENDS Integers

CONSTANTS
    Hash,        \* hashes of the blocks that can ever be seen
    NoHash,      \* the empty string, Go's zero value of domain.BlockHash
    MaxHeight,   \* bound on block numbers
    Number,      \* Number[b]: the number of block b
    ParentHash,  \* ParentHash[b]: never "" for a block that came from a node
    TransferId,  \* identities (transaction_hash, log_index) of transfers
    Transfers    \* Transfers[b]: the transfers decoded from b's logs

\* A branch over heights lo..hi: each block has its own height and the block
\* below it as its parent.
IsBranch(f, lo, hi) ==
    /\ f \in [lo..hi -> Hash]
    /\ \A n \in lo..hi : Number[f[n]] = n
    /\ \A n \in lo..hi : n > lo => ParentHash[f[n]] = f[n - 1]

ASSUME HashAssumption == NoHash \notin Hash

ASSUME HeightAssumption == MaxHeight \in Nat

ASSUME NumberAssumption == Number \in [Hash -> 0..MaxHeight]

ASSUME ParentAssumption ==
    \A b \in Hash : ParentHash[b] # NoHash

ASSUME TransfersAssumption == Transfers \in [Hash -> SUBSET TransferId]

\* A transaction is included once in a chain, so on one branch no two blocks
\* hold a transfer of the same identity.  Competing branches may well hold
\* the same transaction.
ASSUME TransferIdentity ==
    \A lo \in 0..MaxHeight, hi \in 0..MaxHeight :
        \A f \in [lo..hi -> Hash] :
            IsBranch(f, lo, hi) =>
                \A m \in lo..hi, n \in lo..hi :
                    m # n => Transfers[f[m]] \cap Transfers[f[n]] = {}
=============================================================================
