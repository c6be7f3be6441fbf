---------------------------- MODULE MCWorkerPass ----------------------------
(* A finite instance of WorkerPass for TLC: one card to place, one book to  *)
(* verify.                                                                  *)
EXTENDS WorkerPass, TLC

CONSTANTS k1, k2, r1, j1, j2, w1, w2

Job(key, type, preemptible) ==
    [key |-> key, role |-> r1, type |-> type, session |-> NoSession, priority |-> 0,
     preemptible |-> preemptible]

PassSpecs == {Job(k1, "review_card_placement", TRUE), Job(k2, "verify_book_integrity", TRUE),
              Job(k2, "verify_book_integrity", FALSE)}

Unfiltered == [w \in Workers |-> {}]
Symmetry == Permutations(Jobs) \cup Permutations(Workers)
=============================================================================
