----------------------------- MODULE MCJobQueue -----------------------------
(* Finite instances of JobQueue for TLC.                                    *)
EXTENDS JobQueue, TLC

CONSTANTS k1, r1, r2, s1, j1, j2, w1, w2

Note(key, priority, preemptible) ==
    [key |-> key, role |-> r1, type |-> "scroll_event_ingested", session |-> s1,
     priority |-> priority, preemptible |-> preemptible]
Plain(role, priority) ==
    [key |-> NoKey, role |-> role, type |-> "verify_book_integrity", session |-> NoSession,
     priority |-> priority, preemptible |-> TRUE]

\* A patient keyed notification among urgent jobs, where only the unfiltered worker
\* serves its role, and one without a key (a legacy row) that may not be run twice.
FairSpecs == {[Note(k1, 1, TRUE) EXCEPT !.role = r2], Plain(r1, 0), Note(NoKey, 0, FALSE)}

OneFiltered == [w \in Workers |-> IF w = w1 THEN {} ELSE {r1}]

\* The rows are alike, so what holds of one holds of each.

\* claim_next: provided leases stop expiring, a pending row is eventually claimed or
\* superseded, whatever more urgent work producers enqueue.
EventuallyClaimed == ClaimedInTheEnd(j1)

\* recover_expired_leases: the row of a dead process leaves its hands.
DeadLeaseReclaimed == ReclaimedInTheEnd(j1)
=============================================================================
