--------------------------- MODULE EthereumChain ---------------------------
(***************************************************************************)
(* The Ethereum node behind the RPC endpoint (external): the canonical      *)
(* chain it currently serves.  GetObservedBlockByNumber and                 *)
(* GetLatestObservedBlock (internal/ethereum/ethereum_client.go) read it;   *)
(* nothing in ChainWatch changes it.                                        *)
(***************************************************************************)
EXTENDS Blocks

CONSTANTS
    Chains,       \* the chains, from block 0 to a head, that can be canonical
    Undecodable   \* blocks with a Transfer log DecodeERC20Transfer refuses

ASSUME UndecodableAssumption == Undecodable \subseteq Hash

ASSUME ChainsAssumption ==
    \A f \in Chains : \E h \in 0..MaxHeight : IsBranch(f, 0, h)

VARIABLES
    head,       \* number of the latest block
    canonical   \* canonical[n]: hash of the canonical block at height n

chainVars == <<head, canonical>>

ChainTypeOK ==
    /\ head \in 0..MaxHeight
    /\ IsBranch(canonical, 0, head)

ChainInit == /\ canonical \in Chains
             /\ head \in 0..MaxHeight
             /\ DOMAIN canonical = 0..head

\* New blocks, a reorganisation of any depth, or a load balancer that hands
\* the connection to a node with another view.
ChainMove ==
    \E f \in Chains, h \in 0..MaxHeight :
        /\ f # canonical
        /\ DOMAIN f = 0..h
        /\ canonical' = f
        /\ head' = h

\* What GetObservedBlockByNumber(n) finds now: the hash of the canonical
\* block, or nothing ("not found") above the head.
HasBlock(n) == n <= head

\* GetERC20TransfersByBlock decodes every log of the block with this hash, or
\* returns the error of the first one it cannot decode (data that is not 32
\* bytes long), on every attempt.
LogsDecode(b) == b \notin Undecodable

\* A branch the indexer could have stored the blocks lo..hi of.
Indexable(f, lo, hi) == \A n \in DOMAIN f : n \in lo..hi => LogsDecode(f[n])
=============================================================================
