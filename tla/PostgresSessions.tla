-------------------------- MODULE PostgresSessions --------------------------
(***************************************************************************)
(* The calls of BlockStore statement by statement, as PostgreSQL sees them: *)
(* SaveIndexedBlock and RollbackTo are transactions of several statements   *)
(* (internal/store/postgres_block_persistence.go), at the default isolation  *)
(* level READ COMMITTED.  A process makes one call at a time.  When it dies,  *)
(* or gives a call up, the server still has its session: a COMMIT that was    *)
(* sent is carried out at some later moment, anything else is rolled back     *)
(* when the broken connection is noticed.  Until then the session keeps its   *)
(* row locks, and the restarted process works next to it.                     *)
(***************************************************************************)
EXTENDS BlockStore

CONSTANTS
    Session,           \* server sessions
    NoSession,
    RollbackOverlaps   \* may RollbackTo run next to another open transaction?

ASSUME SessionAssumption == NoSession \notin Session /\ RollbackOverlaps \in BOOLEAN

VARIABLES
    tx,     \* the open transaction of each session
    live,   \* the session with the call of the running process, or NoSession
    mode,   \* of the process: "down", "reconcile" or "index"
    cp      \* the checkpoint the process knows

vars == <<storeVars, tx, live, mode, cp>>

\* A transaction is its position, what it is about, and its uncommitted rows.
\* A version without columns stands for a deleted row.
Gone == NoRows
Idle == [at |-> "idle", to |-> NoCheckpoint, todo |-> {}, transfers |-> NoRows,
         blocks |-> NoRows, checkpoint |-> NoCheckpoint]

Open(s) == tx[s] # Idle
Rollbacks == {"delete transfers", "delete blocks", "move checkpoint", "commit rollback"}

Put(f, S, v) == [x \in DOMAIN f \cup S |-> IF x \in S THEN v ELSE f[x]]

\* Row locks: a row written by an open transaction belongs to it until its end.
TransferLocked(s, t) == \E o \in Session \ {s} : t \in DOMAIN tx[o].transfers
BlockLocked(s, n) == \E o \in Session \ {s} : n \in DOMAIN tx[o].blocks
CheckpointLocked(s) == \E o \in Session \ {s} : tx[o].checkpoint # NoCheckpoint

Advance(s, t) == tx' = [tx EXCEPT ![s] = t]
Unchanged == UNCHANGED <<storeVars, live, mode, cp>>

-----------------------------------------------------------------------------
\* SaveIndexedBlock

BeginSave(s, b) ==
    /\ mode = "index" /\ live = NoSession /\ ~Open(s)
    /\ Number[b] = cp.Number + 1 /\ ParentHash[b] = cp.Hash
    /\ live' = s
    /\ Advance(s, [Idle EXCEPT !.at = "insert", !.todo = Transfers[b],
                               !.to = [Number |-> Number[b], Hash |-> b]])
    /\ UNCHANGED <<storeVars, mode, cp>>

\* INSERT ... ON CONFLICT DO NOTHING: waits for another writer of the key, then
\* leaves a committed row alone.
InsertTransfer(s, t) ==
    /\ live = s /\ tx[s].at = "insert" /\ t \in tx[s].todo
    /\ ~TransferLocked(s, t)
    /\ Advance(s, [tx[s] EXCEPT !.todo = @ \ {t},
          !.transfers = IF t \in DOMAIN erc20_transfers
                        THEN @ ELSE Put(@, {t}, [block_number |-> tx[s].to.Number,
                                                 block_hash |-> tx[s].to.Hash])])
    /\ Unchanged

\* Mutant of RecordBlock: ON CONFLICT DO UPDATE without the comparison of hashes.
RecordOverwrites(s) ==
    /\ live = s /\ tx[s].at = "insert" /\ tx[s].todo = {}
    /\ LET n == tx[s].to.Number
           h == tx[s].to.Hash
       IN  /\ ~BlockLocked(s, n)
           /\ Advance(s, [tx[s] EXCEPT !.at = "checkpoint",
                 !.blocks = Put(@, {n}, [block_hash |-> h, parent_hash |-> ParentHash[h]])])
    /\ Unchanged

\* recordIndexedBlock: waits for another writer of the height; a committed row
\* with the same hash is updated.
RecordBlock(s) ==
    /\ live = s /\ tx[s].at = "insert" /\ tx[s].todo = {}
    /\ LET n == tx[s].to.Number
           h == tx[s].to.Hash
       IN  /\ ~BlockLocked(s, n) /\ ~HashConflict(n, h)
           /\ Advance(s, [tx[s] EXCEPT !.at = "checkpoint",
                 !.blocks = Put(@, {n}, [block_hash |-> h,
                                         parent_hash |-> RecordedParent(n, ParentHash[h])])])
    /\ Unchanged

\* Mutant of RecordConflict: the conflict is taken for a reason to try again.
ConflictRetries(s) ==
    /\ live = s /\ tx[s].at = "insert" /\ tx[s].todo = {}
    /\ ~BlockLocked(s, tx[s].to.Number)
    /\ HashConflict(tx[s].to.Number, tx[s].to.Hash)
    /\ Advance(s, [Idle EXCEPT !.at = "insert", !.to = tx[s].to])
    /\ Unchanged

\* ErrChainReorg: the call rolls back and the process exits.
RecordConflict(s) ==
    /\ live = s /\ tx[s].at = "insert" /\ tx[s].todo = {}
    /\ ~BlockLocked(s, tx[s].to.Number)
    /\ HashConflict(tx[s].to.Number, tx[s].to.Hash)
    /\ Advance(s, Idle)
    /\ live' = NoSession /\ mode' = "down"
    /\ UNCHANGED <<storeVars, cp>>

-----------------------------------------------------------------------------
\* RollbackTo, which Reconcile calls before any block is saved, with a recorded
\* block below the checkpoint.

BeginRollback(s, n) ==
    /\ mode = "reconcile" /\ live = NoSession /\ ~Open(s)
    /\ n \in DOMAIN indexed_blocks /\ n < cp.Number
    /\ RollbackOverlaps \/ \A o \in Session : ~Open(o)
    /\ live' = s
    /\ Advance(s, [Idle EXCEPT !.at = "delete transfers",
                               !.to = [Number |-> n, Hash |-> indexed_blocks[n].block_hash]])
    /\ UNCHANGED <<storeVars, mode, cp>>

\* DELETE ... WHERE block_number > n finds the rows that are committed when it
\* begins, not those of open transactions; it waits for other writers of the rows
\* it finds.
DeleteTransfers(s) ==
    /\ live = s /\ tx[s].at = "delete transfers"
    /\ LET rows == {t \in DOMAIN erc20_transfers :
                       erc20_transfers[t].block_number > tx[s].to.Number}
       IN  /\ \A t \in rows : ~TransferLocked(s, t)
           /\ Advance(s, [tx[s] EXCEPT !.at = "delete blocks",
                                       !.transfers = Put(@, rows, Gone)])
    /\ Unchanged

\* Mutant of DeleteBlocks: the target's own row goes too.
DeleteBlocksFromTarget(s) ==
    /\ live = s /\ tx[s].at = "delete blocks"
    /\ LET rows == {n \in DOMAIN indexed_blocks : n >= tx[s].to.Number}
       IN  /\ \A n \in rows : ~BlockLocked(s, n)
           /\ Advance(s, [tx[s] EXCEPT !.at = "move checkpoint", !.blocks = Put(@, rows, Gone)])
    /\ Unchanged

DeleteBlocks(s) ==
    /\ live = s /\ tx[s].at = "delete blocks"
    /\ LET rows == {n \in DOMAIN indexed_blocks : n > tx[s].to.Number}
       IN  /\ \A n \in rows : ~BlockLocked(s, n)
           /\ Advance(s, [tx[s] EXCEPT !.at = "move checkpoint", !.blocks = Put(@, rows, Gone)])
    /\ Unchanged

-----------------------------------------------------------------------------
\* Both

UpsertCheckpoint(s) ==
    /\ live = s /\ tx[s].at \in {"checkpoint", "move checkpoint"}
    /\ ~CheckpointLocked(s)
    /\ Advance(s, [tx[s] EXCEPT !.checkpoint = tx[s].to,
          !.at = IF @ = "checkpoint" THEN "commit" ELSE "commit rollback"])
    /\ Unchanged

Apply(table, versions) ==
    LET gone == {k \in DOMAIN versions : versions[k] = Gone}
    IN  [k \in (DOMAIN table \cup DOMAIN versions) \ gone |->
            IF k \in DOMAIN versions THEN versions[k] ELSE table[k]]

\* The server carries out COMMIT.  If the process still waits for the answer, it
\* goes on with the new checkpoint.
Commit(s) ==
    /\ tx[s].at \in {"commit", "commit rollback"}
    /\ erc20_transfers' = Apply(erc20_transfers, tx[s].transfers)
    /\ indexed_blocks' = Apply(indexed_blocks, tx[s].blocks)
    /\ checkpoint' = tx[s].checkpoint
    /\ Advance(s, Idle)
    /\ IF live = s
       THEN live' = NoSession /\ cp' = tx[s].to /\ mode' = "index"
       ELSE UNCHANGED <<live, mode, cp>>

\* EnsureIndexedBlock: one statement, committed by itself.
EnsureBlock ==
    /\ mode = "reconcile" /\ live = NoSession
    /\ \A s \in Session : cp.Number \notin DOMAIN tx[s].blocks
    /\ EnsureIndexedBlock(cp)
    /\ mode' = "index"
    /\ UNCHANGED <<tx, live, cp>>

-----------------------------------------------------------------------------
\* Faults

\* A statement fails, or a lock cycle is broken: the deferred Rollback runs and
\* the process exits.
StatementFails(s) ==
    /\ live = s
    /\ Advance(s, Idle)
    /\ live' = NoSession /\ mode' = "down"
    /\ UNCHANGED <<storeVars, cp>>

\* The process is killed, or its context ends and pgx closes the connection; the
\* server has the session, perhaps with an unanswered COMMIT, and its locks.
ProcessDies ==
    /\ mode # "down"
    /\ live' = NoSession /\ mode' = "down"
    /\ UNCHANGED <<storeVars, tx, cp>>

\* The server notices that nobody is there any more.
OrphanAborts(s) ==
    /\ Open(s) /\ live # s
    /\ Advance(s, Idle)
    /\ Unchanged

Restart ==
    /\ mode = "down"
    /\ RollbackOverlaps \/ \A s \in Session : tx[s].at \notin Rollbacks
    /\ cp' = checkpoint
    /\ mode' = "reconcile"
    /\ UNCHANGED <<storeVars, tx, live>>

-----------------------------------------------------------------------------
\* The first block is stored.  (Before that a restarted process chooses its
\* start block anew, and two first blocks could be committed one after the other.)
Init ==
    /\ \E b \in Hash : HoldsBranch([n \in {Number[b]} |-> b], Number[b], Number[b])
    /\ tx = [s \in Session |-> Idle]
    /\ live = NoSession
    /\ mode = "down"
    /\ cp = NoCheckpoint

Statement(s) ==
    \/ \E t \in TransferId : InsertTransfer(s, t)
    \/ RecordBlock(s)
    \/ RecordConflict(s)
    \/ DeleteTransfers(s)
    \/ DeleteBlocks(s)
    \/ UpsertCheckpoint(s)

Next ==
    \/ \E s \in Session :
          \/ \E b \in Hash : BeginSave(s, b)
          \/ \E n \in 0..MaxHeight : BeginRollback(s, n)
          \/ Statement(s)
          \/ Commit(s)
          \/ StatementFails(s)
          \/ OrphanAborts(s)
    \/ EnsureBlock
    \/ ProcessDies
    \/ Restart

\* The server works on: statements that need not wait are carried out, and a
\* session without a client comes to its end.
Spec ==
    /\ Init /\ [][Next]_vars
    /\ \A s \in Session : /\ WF_vars(Statement(s))
                          /\ WF_vars(Commit(s))
                          /\ WF_vars(OrphanAborts(s))

-----------------------------------------------------------------------------
\* Properties.

TypeOK ==
    /\ StoreTypeOK
    /\ live \in Session \cup {NoSession}
    /\ live # NoSession => Open(live) /\ mode # "down"
    /\ cp \in Checkpoints \cup {NoCheckpoint}

\* To everybody else each call happens at one instant: what a COMMIT makes
\* visible is what the whole call does to the rows committed at that moment; for
\* a save whatever a dead predecessor's transaction committed between its
\* statements, for a rollback only while no such transaction is open
\* (RollbackOverlaps, RollbackLeavesNothing).
AtomicCalls ==
    [][\/ \E b \in Hash : SaveIndexedBlock(b)
       \/ \E n \in 0..MaxHeight, h \in Hash :
             \/ RollbackTo([Number |-> n, Hash |-> h])
             \/ EnsureIndexedBlock([Number |-> n, Hash |-> h])]_storeVars

\* The committed rows are an unbroken piece of one branch with exactly its
\* transfers, although COMMITs of dead processes arrive late.
HoldsOneBranch ==
    LET branch == [n \in DOMAIN indexed_blocks |-> indexed_blocks[n].block_hash]
    IN  \E lo \in DOMAIN branch :
           /\ IsBranch(branch, lo, checkpoint.Number)
           /\ HoldsBranch(branch, lo, checkpoint.Number)

\* A call ends although it may have to wait for rows of dead predecessors.
CallEnds == \A s \in Session : live = s ~> live # s

\* docs/PRODUCTION_REVIEW.md, key invariant 7: a detected reorg rolls transfers,
\* block history and checkpoint back atomically.  So when a rollback has moved
\* the checkpoint down, nothing is left above it.
RollbackLeavesNothing ==
    [][checkpoint'.Number < checkpoint.Number =>
          /\ \A n \in DOMAIN indexed_blocks' : n <= checkpoint'.Number
          /\ \A t \in DOMAIN erc20_transfers' :
                erc20_transfers'[t].block_number <= checkpoint'.Number]_storeVars
=============================================================================
