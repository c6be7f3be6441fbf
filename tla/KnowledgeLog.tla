---------------------------- MODULE KnowledgeLog ----------------------------
(***************************************************************************)
(* The typed records of one project on the append-only Scroll              *)
(* (core/knowledge_records.py): what every family of records builds on.    *)
(*                                                                         *)
(* A call prepares the payload of its record without a lock, from what it  *)
(* read of the log and of the wall clock at some earlier instant; inserts  *)
(* the record under the writer lock of SQLite, validates the history with  *)
(* the record in it, and commits.  A validation that raises rolls back,    *)
(* and so does a crash: nothing of such a call is seen.  A call is hence   *)
(* one step, whose payload may speak of any earlier state.                 *)
(*                                                                         *)
(* History is read in the order (created_at, rowid).  created_at is the    *)
(* wall clock in whole seconds, and nothing keeps a wall clock from being  *)
(* set back, not even while a transaction is under way.                    *)
(***************************************************************************)
EXTENDS Integers, Sequences, FiniteSets, TLC

CONSTANTS
    MaxRecords,     \* max_records of read_records
    MaxTime,        \* bound: the last instant of the wall clock
    TicksPerSecond  \* instants per value of created_at

VARIABLES
    log,       \* the records, by rowid
    clock      \* the wall clock

Instants == 0..MaxTime

Second(t) == t \div TicksPerSecond

\* ORDER BY created_at, rowid
InReadOrder(r, s) == r.at < s.at \/ (r.at = s.at /\ r.id < s.id)

\* read_records: every record counts against the bound, of whatever kind.
Readable(l) == Len(l) <= MaxRecords
Read(l, kinds) == SelectSeq(SortSeq(l, InReadOrder), LAMBDA r : r.kind \in kinds)

\* _ordered
Ordered(records) == \A i \in 1..(Len(records) - 1) : records[i].id < records[i + 1].id

\* The rows a payload may become: id is the next one, at any second.
Rows(payload) == {payload @@ [id |-> Len(log) + 1, at |-> Second(t)] : t \in Instants}

\* append_record commits the row, once its caller's validate callback has accepted
\* the history with it.
AppendRecord(row) == log' = Append(log, row) /\ UNCHANGED clock

\* What read_records requires of every family's append.
Fits(row) == Readable(Append(log, row))

SetClock == clock' \in Instants \ {clock} /\ UNCHANGED log
=============================================================================
