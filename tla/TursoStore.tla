------------------------------- MODULE TursoStore -------------------------------
(***************************************************************************)
(* The database behind the session store, one SQL statement at a time.  A   *)
(* process serializes its operations on one connection; every operation is  *)
(* a transaction, that is the statements of one operation over the tables    *)
(* it sees, until its commit.  Statements fail, a commit may fail with the  *)
(* transaction durable or not, a caller may give up while its transaction   *)
(* is open, and the process may end between any two statements.             *)
(***************************************************************************)
EXTENDS Naturals, Sequences, FiniteSets, SequencesExt, FiniteSetsExt

CONSTANTS
    Ids,        \* session ids
    Hashes,     \* content hashes; an artifact's id is its hash
    Previews,   \* previews a result of one content may have
    MaxJournal  \* bound on the entries of all journals

VARIABLES
    disk,       \* the tables as committed
    tx,         \* the open transaction: the operation, its statements left, its tables
    receipts    \* what the store has acknowledged, ever

storeVars == <<disk, tx, receipts>>

Closed == [open |-> FALSE]
EntriesIn(d) == MapThenSumSet(LAMBDA s : Len(d.journal[s]), Ids)
NextSeq(d, s) == Len(d.journal[s]) + 1

\* Every operation with the statements it runs (turso.rs and its children).
Statements(op) ==
    CASE op.name = "append" -> <<"message", "touch">>
      [] op.name = "artifact" -> <<"compare", "artifact", "fact", "verify">>
      [] op.name = "checkpoint" -> <<"validate", "checkpoint", "ref", "touch">>
      [] op.name = "compaction" -> <<"compare", "event", "validate", "checkpoint", "ref", "touch">>

-----------------------------------------------------------------------------
(* Calls.  A checkpoint says which seq it covers, and with a summary which  *)
(* range it was made from; a compaction names the head it was built on.     *)

Ranges == {<<0, 0>>, <<1, 1>>, <<1, 2>>, <<2, 1>>}
Appends == {[name |-> "append", session |-> s] : s \in Ids}
Artifacts ==
    [name : {"artifact"}, session : Ids, expected : 0..MaxJournal, hash : Hashes, preview : Previews]
Checkpoints ==
    [name : {"checkpoint"}, session : Ids, covers : 0..MaxJournal, source : Ranges, summary : BOOLEAN]
Compactions ==
    [name : {"compaction"}, session : Ids, expected : 0..MaxJournal, covers : 0..MaxJournal,
     source : Ranges, summary : BOOLEAN, hashed : BOOLEAN]

\* validate_commit: the checkpoint covers exactly the head the candidate was
\* built on, its hash is that of the messages it holds, and the range is of
\* that journal.
ValidCommit(op) ==
    /\ op.hashed /\ op.covers = op.expected
    /\ 1 <= op.source[1] /\ op.source[1] <= op.source[2] /\ op.source[2] <= op.expected
Acceptable(op) == op.name = "compaction" => ValidCommit(op)

\* validate_checkpoint: a summary needs its range, anything else has none.
ValidCheckpoint(op, seq) ==
    /\ op.covers < seq
    /\ IF op.summary
       THEN 1 <= op.source[1] /\ op.source[1] <= op.source[2] /\ op.source[2] <= op.covers
       ELSE op.name = "checkpoint" => op.source = <<0, 0>>

-----------------------------------------------------------------------------
(* Statements, each over the tables d the transaction sees.                *)

Insert(d, s, entry) == [d EXCEPT !.journal[s] = Append(@, entry)]
ArtifactKeys(d) == {<<r.session, r.hash>> : r \in d.artifacts}
FactsOf(d, s, h) == {i \in 1..Len(d.journal[s]) : d.journal[s][i].kind = "artifact" /\ d.journal[s][i].hash = h}

\* INSERT OR IGNORE; the fact is written only when the row was new.
IsNewRow(op) == <<op.session, op.hash>> \notin ArtifactKeys(disk)
WriteFactAlways(op, d) ==
    Insert(d, op.session, [kind |-> "artifact", hash |-> op.hash, preview |-> op.preview])
WriteFact(op, d) == IF IsNewRow(op) THEN WriteFactAlways(op, d) ELSE d

Effect(step, op, d) ==
    CASE step = "message" -> Insert(d, op.session, [kind |-> "message"])
      [] step = "artifact" ->
            IF IsNewRow(op)
            THEN [d EXCEPT !.artifacts = @ \cup {[session |-> op.session, hash |-> op.hash, preview |-> op.preview]}]
            ELSE d
      [] step = "fact" -> WriteFact(op, d)
      [] step = "event" -> Insert(d, op.session, [kind |-> "compaction", head |-> op.expected])
      [] step = "checkpoint" ->
            [d EXCEPT !.checkpoints = @ \cup {[session |-> op.session, seq |-> NextSeq(d, op.session), covers |-> op.covers]}]
      [] step = "ref" -> Insert(d, op.session, [kind |-> "checkpoint", covers |-> op.covers])
      [] OTHER -> d

\* The row stored under the id must be the one asked for, with one fact that
\* says the same.
Verified(op, d) ==
    /\ [session |-> op.session, hash |-> op.hash, preview |-> op.preview] \in d.artifacts
    /\ \E i \in FactsOf(d, op.session, op.hash) :
          FactsOf(d, op.session, op.hash) = {i} /\ d.journal[op.session][i].preview = op.preview

CompareNothing(op, d) == TRUE
CompareAndLock(op, d) == Len(d.journal[op.session]) = op.expected

Holds(step, op, d) ==
    CASE step = "compare" -> CompareAndLock(op, d)
      [] step = "validate" -> ValidCheckpoint(op, NextSeq(d, op.session))
      [] step = "verify" -> Verified(op, d)
      [] OTHER -> TRUE

-----------------------------------------------------------------------------
(* The connection.                                                         *)

StoreInit ==
    /\ disk = [journal |-> [s \in Ids |-> <<>>], artifacts |-> {}, checkpoints |-> {}]
    /\ tx = Closed /\ receipts = {}

BeginTransaction ==
    /\ ~tx.open
    /\ \E op \in Appends \cup Artifacts \cup Checkpoints \cup Compactions :
          /\ Acceptable(op) /\ EntriesIn(disk) + 2 <= MaxJournal
          /\ tx' = [open |-> TRUE, op |-> op, todo |-> Statements(op), seen |-> disk]
    /\ UNCHANGED <<disk, receipts>>

\* append leaves the rollback to the dropped transaction, the others do it.
CommitsOnDrop == tx' = Closed /\ disk' = tx.seen /\ UNCHANGED receipts
Rollback == tx' = Closed /\ UNCHANGED <<disk, receipts>>

RunStatement ==
    /\ tx.open /\ tx.todo # <<>> /\ Holds(Head(tx.todo), tx.op, tx.seen)
    /\ tx' = [tx EXCEPT !.todo = Tail(@), !.seen = Effect(Head(tx.todo), tx.op, @)]
    /\ UNCHANGED <<disk, receipts>>
StatementFails == tx.open /\ tx.todo # <<>> /\ Rollback

\* The entry a call is for.
Proof(op) ==
    CASE op.name = "append" -> [kind |-> "message"]
      [] op.name = "artifact" -> [kind |-> "artifact", hash |-> op.hash, preview |-> op.preview]
      [] OTHER -> [kind |-> "checkpoint", covers |-> op.covers]

\* What the store answers: the seq of the entry, for a put the one of its fact.
SeqOfFact(op, d) == CHOOSE i \in FactsOf(d, op.session, op.hash) : TRUE
HeadAsSeq(op, d) == Len(d.journal[op.session])
ReceiptSeq(op, d) == IF op.name = "artifact" THEN SeqOfFact(op, d) ELSE HeadAsSeq(op, d)
Receipt(op, d) == [session |-> op.session, seq |-> ReceiptSeq(op, d), proves |-> Proof(op)]

CommitTransaction ==
    /\ tx.open /\ tx.todo = <<>>
    /\ disk' = tx.seen /\ tx' = Closed /\ receipts' = receipts \cup {Receipt(tx.op, tx.seen)}
\* The caller is told that the outcome is unknown.
CommitOutcomeUnknown ==
    /\ tx.open /\ tx.todo = <<>>
    /\ disk' \in {disk, tx.seen} /\ tx' = Closed /\ UNCHANGED receipts
\* The caller's future is dropped, or the process ends: nothing was committed.
Abandoned == tx.open /\ Rollback

StoreNext ==
    BeginTransaction \/ RunStatement \/ StatementFails \/ CommitTransaction \/ CommitOutcomeUnknown \/ Abandoned
StoreSpec == StoreInit /\ [][StoreNext]_storeVars

-----------------------------------------------------------------------------
\* A checkpoint row and its journal entry exist together and cover only what was
\* there before it, an artifact and its one fact say the same, and a compaction
\* is directly followed by the checkpoint of the head it was built on.
RowsAgree ==
    /\ \A s \in Ids : \A i \in 1..Len(disk.journal[s]) :
          LET e == disk.journal[s][i]
          IN /\ e.kind = "checkpoint" =>
                   [session |-> s, seq |-> i, covers |-> e.covers] \in disk.checkpoints /\ e.covers < i
             /\ e.kind = "artifact" =>
                   /\ [session |-> s, hash |-> e.hash, preview |-> e.preview] \in disk.artifacts
                   /\ FactsOf(disk, s, e.hash) = {i}
             /\ e.kind = "compaction" =>
                   e.head = i - 1 /\ i < Len(disk.journal[s]) /\ disk.journal[s][i + 1] = [kind |-> "checkpoint", covers |-> e.head]
    /\ \A c \in disk.checkpoints : disk.journal[c.session][c.seq] = [kind |-> "checkpoint", covers |-> c.covers]
    /\ \A r \in disk.artifacts : FactsOf(disk, r.session, r.hash) # {}

\* What the store acknowledged stays: every receipt names an entry of the kind
\* it is for, a put the one fact of its content, also when the put repeats an
\* earlier one whose outcome was unknown (CommittedArtifact, CommittedCompaction).
ReceiptsStand ==
    \A r \in receipts : r.seq \in 1..Len(disk.journal[r.session]) /\ disk.journal[r.session][r.seq] = r.proves

\* The tables agree with each other and with every receipt, whatever fails and
\* whenever the process ends (session_store/turso).
TablesAgree == RowsAgree /\ ReceiptsStand

\* The journal only grows, one session and one operation at a time: an entry is
\* never changed, and what one transaction adds is a message, a fact, a
\* checkpoint, or a compaction with its checkpoint.
Whole == {<<"message">>, <<"artifact">>, <<"checkpoint">>, <<"compaction", "checkpoint">>}
AddsWholeOperation ==
    \/ disk'.journal = disk.journal
    \/ \E s \in Ids :
          LET old == disk.journal[s]
              new == disk'.journal[s]
              added == SubSeq(new, Len(old) + 1, Len(new))
          IN /\ IsPrefix(old, new) /\ [i \in 1..Len(added) |-> added[i].kind] \in Whole
             /\ \A t \in Ids \ {s} : disk'.journal[t] = disk.journal[t]
WholeOperationsOnly == [][AddsWholeOperation]_storeVars

=============================================================================
