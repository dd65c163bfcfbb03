-------------------------- MODULE MCTransferReader --------------------------
(***************************************************************************)
(* Blocks with several transfers, so that a page ends inside a block, and   *)
(* transactions that are included at other heights on the other branch.     *)
(***************************************************************************)
EXTENDS TransferReader, MCBlocks

ReaderIds == {"p1", "p2", "p3", "p4"}
ReaderTransfers == [b \in SmallHash |->
    CASE b = "a1" -> {"p1", "p2", "p3"} [] b = "a2" -> {"p4"}
      [] b = "b1" -> {"p2", "p4"} [] b = "b2" -> {"p1", "p3"}
      [] OTHER -> {}]
ReaderLogIndex == [t \in ReaderIds |->
    CASE t = "p1" -> 0 [] t = "p2" -> 1 [] OTHER -> 2]

ReaderToken == [t \in ReaderIds |-> IF t = "p4" THEN "0xUSDT" ELSE "0xUsdc"]
ReaderParties == [t \in ReaderIds |->
    IF t \in {"p1", "p3"} THEN {"0xAlice", "0xBob"} ELSE {"0xBob"}]
ReaderLower == [a \in {"0xUSDT", "0xUsdc", "0xUSDC", "0xAlice", "0xALICE", "0xBob"} |->
    CASE a = "0xUSDT" -> "0xusdt" [] a \in {"0xUsdc", "0xUSDC"} -> "0xusdc"
      [] a \in {"0xAlice", "0xALICE"} -> "0xalice" [] OTHER -> "0xbob"]

Ask(block, token, address, limit) ==
    [BlockNumber |-> block, Token |-> token, Address |-> address, Limit |-> limit]

\* Everything, one block, a block number beyond int64, one token, one party.
ReaderQueries ==
    {Ask(None, None, None, 1), Ask(None, None, None, None), Ask(None, None, None, 9),
     Ask(1, None, None, 1), Ask(5, None, None, 1),
     Ask(None, "0xUSDC", None, 1), Ask(None, None, "0xALICE", 1)}
=============================================================================
