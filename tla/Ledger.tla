------------------------------- MODULE Ledger -------------------------------
(***************************************************************************)
(* The in-memory ledger of internal/domain/blockchain.go and the service    *)
(* that feeds it, internal/service/service.go: SyncLatestBlock fetches the   *)
(* latest block with retries and applies it as a whole or not at all.         *)
(* Balances are uint64: here unsigned integers of Width bits, added without   *)
(* an overflow check.                                                          *)
(***************************************************************************)
EXTENDS Integers, Sequences, SequencesExt, FiniteSetsExt

CONSTANTS
    Address,       \* addresses that are not empty
    Empty,         \* the empty string
    Width,         \* 64
    Genesis,       \* initial balances NewBlockchain may be given
    Block,         \* blocks the client may return: sequences of transactions
    MaxAttempts,   \* 3
    MaxBlocks      \* bound on the length of the ledger

\* Every transaction of every block.
Transaction == UNION {Range(b) : b \in Block}

Uint64 == 0..(2^Width - 1)

\* map[Address]uint64
Balances == UNION {[A -> Uint64] : A \in SUBSET (Address \cup {Empty})}

ASSUME WidthAssumption == Width \in Nat \ {0} /\ MaxAttempts \in Nat \ {0} /\ MaxBlocks \in Nat
ASSUME EmptyAssumption == Empty \notin Address
ASSUME GenesisAssumption == Genesis \subseteq Balances
ASSUME BlockAssumption ==
    /\ \A b \in Block : b \in Seq(Range(b))
    /\ \A tx \in Transaction : /\ {tx.From, tx.To} \subseteq Address \cup {Empty}
                               /\ tx.ValueWei \in Uint64

VARIABLES
    blocks, balances, processed,   \* the Blockchain
    genesis,   \* the balances it began with
    direct,    \* transactions applied by a ProcessTransaction of their own
    call,      \* of SyncLatestBlock: "idle", "fetch", "wait", "process"
    attempt,   \* of fetchLatestBlockWithRetry
    fetched,   \* the block in hand
    ctxDone,   \* has the caller's context ended?
    outcome    \* of the last call: error or nil, and the ledger's length before

ledgerVars == <<blocks, balances, processed, genesis, direct>>
serviceVars == <<call, attempt, fetched, ctxDone, outcome>>
syncVars == <<ledgerVars, serviceVars>>

-----------------------------------------------------------------------------
\* Blockchain

Uint(n) == n % 2^Width

Valid(tx) == tx.Hash # Empty /\ tx.From # Empty /\ tx.To # Empty /\ tx.ValueWei # 0

\* Reading an address that is not in the map gives 0.
Balance(b, a) == IF a \in DOMAIN b THEN b[a] ELSE 0

Accepts(state, tx) ==
    /\ Valid(tx)
    /\ tx.Hash \notin state.processed
    /\ tx.From \in DOMAIN state.balances
    /\ state.balances[tx.From] >= tx.ValueWei

\* Mutant of Move: both sides are computed from the old balances.
MoveFromOld(b, tx) ==
    [a \in DOMAIN b \cup {tx.To} |->
        IF a = tx.To THEN Uint(Balance(b, a) + tx.ValueWei)
        ELSE IF a = tx.From THEN b[a] - tx.ValueWei
        ELSE b[a]]

\* balances[From] -= ValueWei, then balances[To] += ValueWei
Move(b, tx) ==
    LET paid == [b EXCEPT ![tx.From] = @ - tx.ValueWei]
    IN  [a \in DOMAIN b \cup {tx.To} |->
            IF a = tx.To THEN Uint(Balance(paid, a) + tx.ValueWei) ELSE paid[a]]

\* What follows a failed transaction is not tried.
ProcessTransaction(state, tx) ==
    IF state.ok /\ Accepts(state, tx)
    THEN [state EXCEPT !.balances = Move(@, tx), !.processed = @ \cup {tx.Hash}]
    ELSE [state EXCEPT !.ok = FALSE]

\* copyBalances and copyProcessedTransactions, for ProcessBlock to work on.
Copy == [ok |-> TRUE, balances |-> balances, processed |-> processed]

\* The loop over the transactions of a block.
ProcessTransactions(b) ==
    LET after[i \in 0..Len(b)] ==
            IF i = 0 THEN Copy ELSE ProcessTransaction(after[i - 1], b[i])
    IN  after[Len(b)]

\* Mutant of ProcessBlock: the transactions are applied to the ledger itself.
ProcessBlockInPlace(b) ==
    LET after == ProcessTransactions(b)
    IN  /\ balances' = after.balances
        /\ processed' = after.processed
        /\ blocks' = IF after.ok THEN Append(blocks, b) ELSE blocks

\* All transactions on a copy, which replaces the ledger if all succeeded.
ProcessBlock(b) ==
    LET after == ProcessTransactions(b)
    IN  IF after.ok
        THEN /\ balances' = after.balances
             /\ processed' = after.processed
             /\ blocks' = Append(blocks, b)
        ELSE UNCHANGED <<balances, processed, blocks>>

\* A caller may also apply one transaction without a block.
ApplyDirectly(tx) ==
    /\ call = "idle" /\ Len(direct) + Len(blocks) < MaxBlocks
    /\ LET after == ProcessTransaction(Copy, tx)
       IN  /\ after.ok
           /\ balances' = after.balances
           /\ processed' = after.processed
    /\ direct' = Append(direct, tx)
    /\ UNCHANGED <<blocks, genesis, serviceVars>>

-----------------------------------------------------------------------------
\* ChainWatchService.SyncLatestBlock

Begin ==
    /\ call = "idle" /\ Len(direct) + Len(blocks) < MaxBlocks
    /\ call' = "fetch"
    /\ attempt' = 1
    /\ ctxDone' = FALSE
    /\ outcome' = [err |-> FALSE, height |-> Len(blocks)]
    /\ UNCHANGED <<ledgerVars, fetched>>

SyncFails ==
    /\ call' = "idle"
    /\ outcome' = [outcome EXCEPT !.err = TRUE]

FetchBlock ==
    /\ call = "fetch"
    /\ fetched' \in Block
    /\ call' = "process"
    /\ UNCHANGED <<ledgerVars, attempt, ctxDone, outcome>>

\* Any error but that of the context is tried again, up to MaxAttempts times.
FetchError ==
    /\ call = "fetch"
    /\ IF attempt = MaxAttempts THEN SyncFails ELSE call' = "wait" /\ UNCHANGED outcome
    /\ UNCHANGED <<ledgerVars, attempt, fetched, ctxDone>>

\* The client returns context.Canceled or DeadlineExceeded, be it of the caller's
\* context or of its own, or the context ends during the wait.
Cancelled ==
    /\ call = "fetch" \/ (call = "wait" /\ ctxDone)
    /\ SyncFails
    /\ UNCHANGED <<ledgerVars, attempt, fetched, ctxDone>>

\* Mutant of TryAgain: the attempts are not counted.
TryAgainUncounted ==
    /\ call = "wait"
    /\ call' = "fetch"
    /\ UNCHANGED <<ledgerVars, attempt, fetched, ctxDone, outcome>>

TryAgain ==
    /\ call = "wait"
    /\ call' = "fetch"
    /\ attempt' = attempt + 1
    /\ UNCHANGED <<ledgerVars, fetched, ctxDone, outcome>>

Process ==
    /\ call = "process"
    /\ ProcessBlock(fetched)
    /\ call' = "idle"
    /\ outcome' = [outcome EXCEPT !.err = ~ProcessTransactions(fetched).ok]
    /\ UNCHANGED <<genesis, direct, attempt, fetched, ctxDone>>

ContextEnds ==
    /\ call # "idle" /\ ~ctxDone
    /\ ctxDone' = TRUE
    /\ UNCHANGED <<ledgerVars, call, attempt, fetched, outcome>>

-----------------------------------------------------------------------------
LedgerInit ==
    /\ genesis \in Genesis
    /\ balances = genesis
    /\ blocks = <<>> /\ processed = {} /\ direct = <<>>
    /\ call = "idle" /\ attempt = 0 /\ fetched = <<>> /\ ctxDone = FALSE
    /\ outcome = [err |-> TRUE, height |-> 0]

\* The bound on the ledger is reached.
Full == call = "idle" /\ Len(direct) + Len(blocks) >= MaxBlocks /\ UNCHANGED syncVars

ServiceStep == FetchBlock \/ FetchError \/ Cancelled \/ TryAgain \/ Process

LedgerNext ==
    \/ \E b \in Block : \E i \in DOMAIN b : ApplyDirectly(b[i])
    \/ Begin
    \/ ServiceStep
    \/ ContextEnds
    \/ Full

\* The client answers and the timer fires.
LedgerSpec == LedgerInit /\ [][LedgerNext]_syncVars /\ WF_syncVars(ServiceStep)

-----------------------------------------------------------------------------
\* Properties.

Applied == FlattenSeq(blocks) \o direct

\* What one transaction, and a sequence of them, add to the balance of a.
Change(a, tx) ==
    (IF tx.To = a THEN tx.ValueWei ELSE 0) - (IF tx.From = a THEN tx.ValueWei ELSE 0)
Net(a, txs) ==
    LET net[i \in 0..Len(txs)] == IF i = 0 THEN 0 ELSE net[i - 1] + Change(a, txs[i])
    IN  net[Len(txs)]

LedgerTypeOK ==
    /\ balances \in Balances
    /\ call \in {"idle", "fetch", "wait", "process"}
    /\ attempt \in 0..MaxAttempts

\* The balances are those the accepted blocks and transactions account for, and
\* nothing else, modulo 2^Width (an addition that overflows wraps in the code, and
\* is no violation here): a block that failed half-way has left no trace,
\* no transaction counts twice, be it in one block, in two or by itself, and
\* SyncLatestBlock returned nil exactly if it appended a block.
LedgerIsItsBlocks ==
    /\ \A a \in Address :
          Balance(balances, a) = Uint(Balance(genesis, a) + Net(a, Applied))
    /\ processed = {Applied[i].Hash : i \in DOMAIN Applied}
    /\ Len(Applied) = Cardinality(processed)
    /\ call = "idle" => Len(blocks) = outcome.height + (IF outcome.err THEN 0 ELSE 1)

\* Every call returns: the retry loop of fetchLatestBlockWithRetry is bounded,
\* whatever errors the client returns.
SyncEnds == (call # "idle") ~> (call = "idle")
=============================================================================
