---------------------------- MODULE PalaceImport ----------------------------
(***************************************************************************)
(* import_mempalace of core/mempalace_import.py and the job that places the *)
(* imported cards (review_mempalace_import of core/workers.py).  An import  *)
(* copies a foreign palace, writes the files of each item, collects their   *)
(* rows in one transaction, and reports in a state file, a manifest, two    *)
(* receipts and an operation.  A lock file keeps imports apart until it is  *)
(* old; from then on only the database does.                                *)
(***************************************************************************)
EXTENDS Integers, FiniteSets, Sequences, SequencesExt

CONSTANTS
    MaxImports,   \* calls of import_mempalace, each with an id of its own
    MaxItems,     \* embeddings of the palace
    Stride,       \* items between two notes of progress (10 in the code)
    ReviewLimit,  \* cards that one run of the review places
    MaxFaults     \* exceptions, deaths, interruptions and reservations

Imports == 1 .. MaxImports
Items == 1 .. MaxItems
Nobody == 0

VARIABLES
    blocked,   \* items, and MaxItems + 1 for the graph, that the scan refuses
    lock,      \* the lock file: whose it is, and whether it is old
    call,      \* per import: where the call is
    op,        \* per import: the status of its operation
    out,       \* per import: what it left in the root
    catalog,   \* the committed rows
    tx, draft, \* the connection that has the write transaction, and what it sees
    fenced,    \* a holder of the sidecar lock has reserved immutable artifacts
    faults

vars == <<blocked, lock, call, op, out, catalog, tx, draft, fenced, faults>>

Graph == MaxItems + 1
Free == [of |-> Nobody, old |-> FALSE]
\* at: the item at hand; listed: items imported so far; refused: items left out.
NewCall == [pc |-> "new", at |-> 1, listed |-> {}, refused |-> {}]
NoOutput == [items |-> {}, raw |-> FALSE, manifest |-> {}, receipts |-> {}, note |-> "none"]
EmptyCatalog ==
    [book |-> [i \in Items |-> <<>>],  \* imports in its source history; the first one names the files
     chunks |-> {},                    \* books with their text
     card |-> [i \in Items |-> [of |-> Nobody, linked |-> FALSE, placed |-> FALSE]],
     review |-> {}]                    \* imports with a live review job

Init ==
    /\ blocked \in {{}, {1, Graph}}
    /\ lock = Free /\ call = [p \in Imports |-> NewCall]
    /\ op = [p \in Imports |-> "none"] /\ out = [p \in Imports |-> NoOutput]
    /\ catalog = EmptyCatalog /\ tx = Nobody /\ draft = EmptyCatalog
    /\ fenced = FALSE /\ faults = 0

In(p, pc) == call[p].pc = pc
Goto(p, pc) == call' = [call EXCEPT ![p].pc = pc]
Leave(p, new) == out' = [out EXCEPT ![p] = new]
Fault == faults < MaxFaults /\ faults' = faults + 1
Database == <<catalog, tx, draft, fenced>>
Active(p) == op[p] = "running"
CanWrite(p) == tx \in {Nobody, p}
Rollback == tx' = Nobody /\ draft' = catalog
\* record_operation_progress and update_operation_cursor raise for an operation that is over.
GoOn(p, pc) == Goto(p, IF Active(p) THEN pc ELSE "undo")

----------------------------------------------------------------------------
(* mempalace_import_lock *)

Acquire(p) ==
    /\ In(p, "new") /\ lock = Free
    /\ lock' = [of |-> p, old |-> FALSE] /\ Goto(p, "begin")
    /\ UNCHANGED <<blocked, op, out, Database, faults>>

\* No import touches its lock file again: a long import looks like a dead one.
Age ==
    /\ lock # Free /\ ~lock.old /\ lock' = [lock EXCEPT !.old = TRUE]
    /\ UNCHANGED <<blocked, call, op, out, Database, faults>>

SeeOld(p) ==
    /\ In(p, "new") /\ lock.old /\ Goto(p, "unlink")
    /\ UNCHANGED <<blocked, lock, op, out, Database, faults>>

\* A caller waits for one minute, a lock looks dead after five: who stands behind a
\* holder that has just died raises before it may take the lock.
GiveUp(p) ==
    /\ In(p, "new") /\ lock # Free /\ ~lock.old /\ Goto(p, "done")
    /\ UNCHANGED <<blocked, lock, op, out, Database, faults>>

\* The file is removed by its path, whoever has made it by now.
Unlink(p) ==
    /\ In(p, "unlink") /\ lock' = Free /\ Goto(p, "new")
    /\ UNCHANGED <<blocked, op, out, Database, faults>>

Release(p) ==
    /\ In(p, "release") /\ lock' = Free /\ Goto(p, "done")
    /\ UNCHANGED <<blocked, op, out, Database, faults>>

----------------------------------------------------------------------------
(* _import_mempalace_locked *)

Begin(p) ==
    /\ In(p, "begin") /\ op' = [op EXCEPT ![p] = "running"]
    /\ Leave(p, [out[p] EXCEPT !.note = "started"]) /\ Goto(p, "copy")
    /\ UNCHANGED <<blocked, lock, Database, faults>>

\* The preflight snapshot may fail, the copy of the palace is made outside the root.
Copy(p) ==
    /\ In(p, "copy") /\ GoOn(p, "item")
    /\ Leave(p, IF Active(p) THEN [out[p] EXCEPT !.note = "snapshot"] ELSE out[p])
    /\ UNCHANGED <<blocked, lock, op, Database, faults>>

Item(p) == call[p].at
After(p) == IF Item(p) = MaxItems THEN "graph" ELSE "item"
Refuse(p, pc) ==
    call' = [call EXCEPT ![p].pc = pc, ![p].at = @ + 1, ![p].refused = @ \cup {Item(p)}]
Accept(p, pc) ==
    call' = [call EXCEPT ![p].pc = pc, ![p].at = @ + 1, ![p].listed = @ \cup {Item(p)}]
NotesProgress(i) == i = MaxItems \/ i % Stride = 0
Tried(p) == IF NotesProgress(Item(p)) THEN "progress" ELSE After(p)

BlockItem(p) ==
    /\ In(p, "item") /\ Item(p) \in blocked /\ Refuse(p, After(p))
    /\ UNCHANGED <<blocked, lock, op, out, Database, faults>>

\* FAULT: a book that is imported again forgets where it came from.
WithBookAnew(d, i, p) == [d EXCEPT !.book[i] = <<p>>, !.chunks = @ \ {i}]
WithBook(d, i, p) == [d EXCEPT !.book[i] = Append(@, p), !.chunks = @ \ {i}]
WithChunks(d, i) == [d EXCEPT !.chunks = @ \cup {i}]
\* create_card leaves the status of a card that is there.
WithCard(d, i, p) == [d EXCEPT !.card[i].of = p]
WithEdges(d, i) == [d EXCEPT !.card[i].linked = TRUE]

\* write_import_text: the files come first, in a directory of this import.
WriteItem(p) ==
    /\ In(p, "item") /\ Item(p) \notin blocked
    /\ Leave(p, [out[p] EXCEPT !.items = @ \cup {Item(p)}])

ImportRows(p) ==
    /\ WriteItem(p) /\ CanWrite(p) /\ ~fenced
    /\ tx' = p /\ Accept(p, Tried(p))
    /\ draft' = LET i == Item(p) IN WithEdges(WithCard(WithChunks(WithBook(draft, i, p), i), i, p), i)
    /\ UNCHANGED <<blocked, lock, op, catalog, fenced, faults>>

\* An item that raises is passed over; what it has written so far stays in the transaction.
ImportPart(p) ==
    /\ WriteItem(p) /\ CanWrite(p) /\ ~fenced /\ Fault
    /\ tx' = p /\ Refuse(p, Tried(p))
    /\ LET i == Item(p)
           book == WithBook(draft, i, p)
       IN  draft' \in {draft, book, WithCard(WithChunks(book, i), i, p)}
    /\ UNCHANGED <<blocked, lock, op, catalog, fenced>>

\* Another import has the write transaction: the item raises after busy_timeout.
ItemIsBusy(p) ==
    /\ WriteItem(p) /\ ~CanWrite(p) /\ Refuse(p, Tried(p))
    /\ UNCHANGED <<blocked, lock, op, Database, faults>>

\* record_artifact rolls back the transaction of its caller and raises.
ItemIsFenced(p) ==
    /\ WriteItem(p) /\ CanWrite(p) /\ fenced
    /\ Rollback /\ Refuse(p, Tried(p))
    /\ UNCHANGED <<blocked, lock, op, catalog, fenced, faults>>

Progress(p) ==
    /\ In(p, "progress") /\ GoOn(p, IF Item(p) > MaxItems THEN "graph" ELSE "item")
    /\ Leave(p, IF Active(p) THEN [out[p] EXCEPT !.note = "import"] ELSE out[p])
    /\ UNCHANGED <<blocked, lock, op, Database, faults>>

\* The raw copy is kept in the root unless the scan refused something of it.
Retained(p, refused) ==
    LET found == refused \cap blocked # {} IN
    [out[p] EXCEPT !.raw = ~found, !.note = IF found THEN "snapshot_blocked" ELSE "snapshot_retained"]

\* import_kg: a busy database ends the import.
ImportGraph(p) ==
    /\ In(p, "graph")
    /\ IF ~Active(p) \/ (Graph \notin blocked /\ ~CanWrite(p))
       THEN Goto(p, "undo") /\ UNCHANGED <<tx, out>>
       ELSE LET refused == call[p].refused \cup ({Graph} \cap blocked) IN
            /\ call' = [call EXCEPT ![p].pc = "commit", ![p].refused = refused]
            /\ tx' = IF Graph \in blocked THEN tx ELSE p
            /\ Leave(p, Retained(p, refused))
    /\ UNCHANGED <<blocked, lock, op, catalog, draft, fenced, faults>>

\* FAULT: the review of the cards is not asked for with them.
WithReviewLater(d, p) == d
WithReview(d, p) == [d EXCEPT !.review = @ \cup {p}]

Commit(p) ==
    /\ In(p, "commit")
    /\ IF CanWrite(p)
       THEN /\ catalog' = WithReview(draft, p) /\ draft' = catalog' /\ tx' = Nobody
            /\ Goto(p, "finish")
       ELSE Goto(p, "undo") /\ UNCHANGED <<catalog, draft, tx>>
    /\ UNCHANGED <<blocked, lock, op, out, fenced, faults>>

\* Cards' files, manifest, cursors, then finish_operation.
Finish(p) ==
    /\ In(p, "finish")
    /\ Leave(p, [out[p] EXCEPT !.manifest = call[p].listed]) /\ GoOn(p, "report")
    /\ op' = IF Active(p) THEN [op EXCEPT ![p] = "succeeded"] ELSE op
    /\ UNCHANGED <<blocked, lock, Database, faults>>

Report(p) ==
    /\ In(p, "report") /\ Goto(p, "record")
    /\ Leave(p, [out[p] EXCEPT !.receipts = @ \cup {"final"}, !.note = "done"])
    /\ UNCHANGED <<blocked, lock, op, Database, faults>>

\* Receipts enter the ledger and the proof pack is made, or the import raises after all.
Record(p) ==
    /\ In(p, "record") /\ Goto(p, IF CanWrite(p) /\ ~fenced THEN "release" ELSE "undo")
    /\ UNCHANGED <<blocked, lock, op, out, Database, faults>>

----------------------------------------------------------------------------
(* The exception handler. *)

Raise(p) ==
    /\ call[p].pc \in {"copy", "item", "graph", "commit", "finish", "report", "record"}
    /\ Fault /\ Goto(p, "undo")
    /\ UNCHANGED <<blocked, lock, op, out, Database>>

Undo(p) ==
    /\ In(p, "undo") /\ Goto(p, "confess")
    /\ IF tx = p THEN Rollback ELSE UNCHANGED <<tx, draft>>
    /\ Leave(p, [out[p] EXCEPT !.note = "failed"])
    /\ UNCHANGED <<blocked, lock, op, catalog, fenced, faults>>

\* FAULT: the failure is written down without the operation's consent.
ConfessAnyway(p) ==
    /\ In(p, "confess") /\ Goto(p, "release")
    /\ Leave(p, [out[p] EXCEPT !.receipts = @ \cup {"failed"}])
    /\ UNCHANGED <<blocked, lock, op, Database, faults>>
\* finish_operation raises for an operation that is over, and nothing more is written.
Confess(p) ==
    /\ In(p, "confess") /\ Goto(p, "release")
    /\ IF Active(p)
       THEN /\ op' = [op EXCEPT ![p] = "failed"]
            /\ Leave(p, [out[p] EXCEPT !.receipts = @ \cup {"failed"}])
       ELSE UNCHANGED <<op, out>>
    /\ UNCHANGED <<blocked, lock, Database, faults>>

Die(p) ==
    /\ call[p].pc \notin {"new", "done", "dead"} /\ Fault /\ Goto(p, "dead")
    /\ IF tx = p THEN Rollback ELSE UNCHANGED <<tx, draft>>
    /\ UNCHANGED <<blocked, lock, op, out, catalog, fenced>>

----------------------------------------------------------------------------
(* Others. *)

\* recover_stale_operations finds a slow or a dead import.
Interrupt(p) ==
    /\ Active(p) /\ Fault /\ op' = [op EXCEPT ![p] = "interrupted"]
    /\ UNCHANGED <<blocked, lock, call, out, Database>>

\* The reservation is a row: it changes only while no import has the write transaction.
Fence ==
    /\ tx = Nobody /\ fenced' = ~fenced
    /\ fenced \/ faults < MaxFaults
    /\ faults' = IF fenced THEN faults ELSE faults + 1
    /\ UNCHANGED <<blocked, lock, call, op, out, catalog, tx, draft>>

\* FAULT: a review that reached its limit does not ask for another.
StillOwedNothing(p, placed) == {}
Candidates(p) == {i \in Items : LET c == catalog.card[i] IN c.of = p /\ c.linked /\ ~c.placed}
StillOwed(p, placed) == IF Candidates(p) \subseteq placed THEN {} ELSE {p}

\* review_mempalace_import: one bounded batch, and a continuation for the rest.
Review(p) ==
    /\ p \in catalog.review /\ tx = Nobody
    /\ \E placed \in SUBSET Candidates(p) :
           /\ Cardinality(placed) <= ReviewLimit
           /\ Cardinality(placed) = ReviewLimit \/ placed = Candidates(p)
           /\ catalog' = [catalog EXCEPT
                  !.card = [i \in Items |-> [catalog.card[i] EXCEPT !.placed = @ \/ i \in placed]],
                  !.review = (@ \ {p}) \cup StillOwed(p, placed)]
    /\ draft' = catalog'
    /\ UNCHANGED <<blocked, lock, call, op, out, tx, fenced, faults>>

LockStep(p) == Acquire(p) \/ SeeOld(p) \/ GiveUp(p) \/ Unlink(p) \/ Release(p)
ItemStep(p) ==
    BlockItem(p) \/ ImportRows(p) \/ ItemIsBusy(p) \/ ItemIsFenced(p) \/ Progress(p)
CallStep(p) ==
    Begin(p) \/ Copy(p) \/ ImportGraph(p) \/ Commit(p) \/ Finish(p) \/ Report(p)
        \/ Record(p) \/ Undo(p) \/ Confess(p)
Step == Age \/ \E p \in Imports : LockStep(p) \/ ItemStep(p) \/ CallStep(p)
Failure == \E p \in Imports : ImportPart(p) \/ Raise(p) \/ Die(p)
Others == Fence \/ \E p \in Imports : Interrupt(p) \/ Review(p)
Next == Step \/ Failure \/ Others

Spec == Init /\ [][Next]_vars

----------------------------------------------------------------------------
\* What an import reports is so (_import_mempalace_locked): each item of its manifest is
\* in the catalog with this import in its history and has its files, a receipt says what
\* the operation says, and there are never receipts of both outcomes.
ReportedIsTrue ==
    \A p \in Imports :
        /\ \A i \in out[p].manifest : p \in Range(catalog.book[i]) /\ i \in out[p].items
        /\ "final" \in out[p].receipts => op[p] = "succeeded"
        /\ "failed" \in out[p].receipts => op[p] = "failed"

\* A card that is linked into the graph and not placed has a review job of its import
\* (enqueue_job in the import's own transaction, the continuation of a review).
ReviewIsOwed ==
    \A i \in Items : LET c == catalog.card[i] IN c.linked /\ ~c.placed => c.of \in catalog.review

\* Imports of the same palace at the same time, after the lock was taken for dead, never
\* lose where a book came from (import_embedding reads and writes the history in one
\* transaction).
SourcesKept == [][\A i \in Items : IsPrefix(catalog.book[i], catalog'.book[i])]_vars
=============================================================================
