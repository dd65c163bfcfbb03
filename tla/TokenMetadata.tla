--------------------------- MODULE TokenMetadata ---------------------------
(***************************************************************************)
(* TokenMetadataService.GetTokenMetadata (internal/metadata): an in-memory  *)
(* cache over the token_metadata table over three eth_calls, for concurrent *)
(* HTTP handlers.  Tokens do not interact (cache and table are keyed by the *)
(* lower-case address), so one token is modelled.                           *)
(***************************************************************************)
EXTENDS Naturals, FiniteSets

CONSTANTS
    Caller,    \* HTTP handlers that ask for the token
    Version,   \* what the token contract can answer, over time
    None       \* no answer, no row, no cache entry

\* Each field is named by the version of the contract that answered.
Metadata == [name : Version, symbol : Version, decimals : Version]

ASSUME NoneAssumption == None \notin Metadata

VARIABLES
    deployed,   \* what the contract answers now (external)
    row,        \* the token_metadata row
    cache,      \* the entry of TokenMetadataService.cache
    pc,         \* where each call is
    metadata,   \* the local variable: one field per eth_call
    returned,   \* what each call returned last; None stands for an error
    moved,      \* observer: the contract changed its answer
    saved       \* observer: every row there ever was

tableVars == <<row, saved>>
vars == <<deployed, tableVars, cache, pc, metadata, returned, moved>>

Unread == [name |-> None, symbol |-> None, decimals |-> None]

Reading == {"name", "symbol", "decimals"}

TypeOK ==
    /\ deployed \in Version
    /\ row \in Metadata \cup {None}
    /\ cache \in Metadata \cup {None}
    /\ pc \in [Caller -> {"idle", "load", "save", "cache"} \cup Reading]
    /\ \A c \in Caller :
          /\ pc[c] \in {"save", "cache"} => metadata[c] \in Metadata
          /\ pc[c] \in {"idle", "load"} => metadata[c] = Unread
    /\ returned \in [Caller -> Metadata \cup {None}]
    /\ moved \in BOOLEAN
    /\ saved \subseteq Metadata

Init ==
    /\ deployed \in Version
    /\ row = None
    /\ cache = None
    /\ pc = [c \in Caller |-> "idle"]
    /\ metadata = [c \in Caller |-> Unread]
    /\ returned = [c \in Caller |-> None]
    /\ moved = FALSE
    /\ saved = {}

-----------------------------------------------------------------------------
Return(c, result) ==
    /\ pc' = [pc EXCEPT ![c] = "idle"]
    /\ metadata' = [metadata EXCEPT ![c] = Unread]
    /\ returned' = [returned EXCEPT ![c] = result]

\* The read-locked look into the cache.
CacheHit(c) ==
    /\ pc[c] = "idle"
    /\ cache # None
    /\ Return(c, cache)
    /\ UNCHANGED <<deployed, tableVars, cache, moved>>

CacheMiss(c) ==
    /\ pc[c] = "idle"
    /\ cache = None
    /\ pc' = [pc EXCEPT ![c] = "load"]
    /\ UNCHANGED <<deployed, tableVars, cache, metadata, returned, moved>>

\* LoadTokenMetadata: a row goes to the cache, none leads to the contract.
LoadTokenMetadata(c) ==
    /\ pc[c] = "load"
    /\ pc' = [pc EXCEPT ![c] = IF row # None THEN "cache" ELSE "name"]
    /\ metadata' = [metadata EXCEPT ![c] = IF row # None THEN row ELSE @]
    /\ UNCHANGED <<deployed, tableVars, cache, returned, moved>>

\* FetchTokenMetadata: three eth_calls, each at the latest block.
FetchName(c) ==
    /\ pc[c] = "name"
    /\ metadata' = [metadata EXCEPT ![c].name = deployed]
    /\ pc' = [pc EXCEPT ![c] = "symbol"]
    /\ UNCHANGED <<deployed, tableVars, cache, returned, moved>>

FetchSymbol(c) ==
    /\ pc[c] = "symbol"
    /\ metadata' = [metadata EXCEPT ![c].symbol = deployed]
    /\ pc' = [pc EXCEPT ![c] = "decimals"]
    /\ UNCHANGED <<deployed, tableVars, cache, returned, moved>>

\* Mutant of FetchDecimals: a failed call is given a default value.
FetchDecimalsOrDefault(c) ==
    /\ pc[c] = "decimals"
    /\ \E v \in Version : metadata' = [metadata EXCEPT ![c].decimals = v]
    /\ pc' = [pc EXCEPT ![c] = "save"]
    /\ UNCHANGED <<deployed, tableVars, cache, returned, moved>>

FetchDecimals(c) ==
    /\ pc[c] = "decimals"
    /\ metadata' = [metadata EXCEPT ![c].decimals = deployed]
    /\ pc' = [pc EXCEPT ![c] = "save"]
    /\ UNCHANGED <<deployed, tableVars, cache, returned, moved>>

\* INSERT ... ON CONFLICT (token_address) DO UPDATE: the last writer wins.
Upsert(m) ==
    /\ row' = m
    /\ saved' = saved \cup {m}

\* Mutant of SaveTokenMetadata: an error of the store is ignored.
SaveMayBeLost(c) ==
    /\ pc[c] = "save"
    /\ Upsert(metadata[c]) \/ UNCHANGED tableVars
    /\ pc' = [pc EXCEPT ![c] = "cache"]
    /\ UNCHANGED <<deployed, cache, metadata, returned, moved>>

SaveTokenMetadata(c) ==
    /\ pc[c] = "save"
    /\ Upsert(metadata[c])
    /\ pc' = [pc EXCEPT ![c] = "cache"]
    /\ UNCHANGED <<deployed, cache, metadata, returned, moved>>

\* The write-locked cacheMetadata, and the return.
CacheMetadata(c) ==
    /\ pc[c] = "cache"
    /\ cache' = metadata[c]
    /\ Return(c, metadata[c])
    /\ UNCHANGED <<deployed, tableVars, moved>>

\* The statement or the eth_call fails, or the request's context ends.
Fail(c) ==
    /\ pc[c] \in {"load", "save"} \cup Reading
    /\ Return(c, None)
    /\ UNCHANGED <<deployed, tableVars, cache, moved>>

\* The upsert took place but its answer was lost.
SaveAnswerLost(c) ==
    /\ pc[c] = "save"
    /\ Upsert(metadata[c])
    /\ Return(c, None)
    /\ UNCHANGED <<deployed, cache, moved>>

\* The contract changes what it answers.
Upgrade ==
    /\ \E v \in Version \ {deployed} : deployed' = v
    /\ moved' = TRUE
    /\ UNCHANGED <<tableVars, cache, pc, metadata, returned>>

\* The process ends and is started again: the table stays.
Restart ==
    /\ cache' = None
    /\ pc' = [c \in Caller |-> "idle"]
    /\ metadata' = [c \in Caller |-> Unread]
    /\ UNCHANGED <<deployed, tableVars, returned, moved>>

GetTokenMetadata(c) ==
    \/ CacheHit(c)
    \/ CacheMiss(c)
    \/ LoadTokenMetadata(c)
    \/ FetchName(c)
    \/ FetchSymbol(c)
    \/ FetchDecimals(c)
    \/ SaveTokenMetadata(c)
    \/ CacheMetadata(c)
    \/ Fail(c)
    \/ SaveAnswerLost(c)

Next ==
    \/ \E c \in Caller : GetTokenMetadata(c)
    \/ Upgrade
    \/ Restart

Spec == Init /\ [][Next]_vars

-----------------------------------------------------------------------------
\* Properties.

\* What is cached or was returned without an error was in the table first, so
\* that a restart does not forget an answer that was given.
AnswersWereSaved ==
    /\ cache # None => cache \in saved
    /\ \A c \in Caller : returned[c] # None => returned[c] \in saved
    /\ cache # None => row # None

\* As long as the contract does not change its answers, cache, table and
\* everything returned agree, however the calls interleave and fail.
AgreeWhileStable ==
    ~moved =>
        /\ cache \in {None, row}
        /\ \A c \in Caller : returned[c] \in {None, row}
=============================================================================
