----------------------------- MODULE WorkerPass -----------------------------
(***************************************************************************)
(* What a worker pass does between claiming a row and settling it: the     *)
(* processors of core/workers.py, their receipts in audit_events, and the  *)
(* settlement that follows from what the processor returned or raised.     *)
(*                                                                         *)
(* The queue itself is module JobQueue; every action here is one of its    *)
(* actions, or a step of a processor that leaves the queue alone.  A       *)
(* processor holds no lock between its transactions: its lease may run out *)
(* and the row be claimed, finished or requeued by another worker while it *)
(* still computes.                                                         *)
(*                                                                         *)
(* Two families of processors are modelled.  Phased ones                   *)
(* (review_card_placement, review_mempalace_import, sync_card_sidecar)     *)
(* commit a core phase with its receipt, work on files outside any         *)
(* transaction, and commit a terminal effect.  The verifiers               *)
(* (verify_book_integrity, verify_segment_integrity) compute outside any   *)
(* transaction and then commit result and terminal effect together.        *)
(* scroll_event_ingested has a module of its own.                          *)
(***************************************************************************)
EXTENDS JobQueue

CONSTANT PhasedTypes   \* the job types whose processor is phased

VARIABLES
    step,      \* step[w]: where the processor of w is, or what it hands to settlement
    receipt,   \* receipt[j]: the newest receipt of row j in audit_events
    applied    \* applied[j]: how often the core effect of row j was committed (history)

wpVars == <<db, pass, step, receipt, applied>>

Outcomes == {"ok", "bad", "retry", "busy", "error"}
Steps == {"none", "begin", "compute", "post"} \cup Outcomes
Receipts == {"none", "core", "done ok", "done bad"}

Phased(j) == db.spec[j].type \in PhasedTypes

Held(w) == Owned(db, w, pass[w].job)   \* _JobLease.assert_owned passes

Processing(w, at) == pass[w].at = "working" /\ step[w] = at

MoveTo(w, at) == step' = [step EXCEPT ![w] = at]

Queue == <<db, pass>>
Ledger == <<receipt, applied>>

\* _prior_worker_effect: a terminal effect is replayed, not done again.
Replayed(j) == CASE receipt[j] = "done ok" -> "ok" [] receipt[j] = "done bad" -> "bad"

Terminated(j) == receipt[j] \in {"done ok", "done bad"}

\* One transaction: the receipt and, when it is about the core effect, that effect.
Commit(j, new, effects) ==
    /\ receipt' = [receipt EXCEPT ![j] = new]
    /\ applied' = [applied EXCEPT ![j] = @ + effects]

WPInit ==
    /\ Init
    /\ step = [w \in Workers |-> "none"]
    /\ receipt = [j \in Jobs |-> "none"]
    /\ applied = [j \in Jobs |-> 0]

-----------------------------------------------------------------------------
\* The processors.

\* FAULT: the core receipt is not looked for before the core phase.
CorePhaseForgetful(w) ==
    LET j == pass[w].job IN
    /\ Processing(w, "begin") /\ Phased(j) /\ Held(w)
    /\ UNCHANGED Queue
    /\ IF Terminated(j) THEN MoveTo(w, Replayed(j)) /\ UNCHANGED Ledger
       ELSE MoveTo(w, "post") /\ Commit(j, "core", 1)

\* FAULT: a terminal effect is taken for a core receipt.
CorePhaseIgnoringTerminal(w) ==
    LET j == pass[w].job IN
    /\ Processing(w, "begin") /\ Phased(j) /\ Held(w)
    /\ UNCHANGED Queue
    /\ MoveTo(w, "post")
    /\ IF receipt[j] = "none" THEN Commit(j, "core", 1) ELSE UNCHANGED Ledger

(* The first transaction of a phased processor: replay a terminal effect,   *)
(* resume after a committed core phase, or do the core phase and record it  *)
(* in the same transaction.  The card, import or outbox row it is about may *)
(* be gone.                                                                 *)
CorePhase(w) ==
    LET j == pass[w].job IN
    /\ Processing(w, "begin") /\ Phased(j) /\ Held(w)
    /\ UNCHANGED Queue
    /\ \/ Terminated(j) /\ MoveTo(w, Replayed(j)) /\ UNCHANGED Ledger
       \/ receipt[j] = "core" /\ MoveTo(w, "post") /\ UNCHANGED Ledger
       \/ receipt[j] = "none" /\ MoveTo(w, "bad") /\ UNCHANGED Ledger
       \/ receipt[j] = "none" /\ MoveTo(w, "post") /\ Commit(j, "core", 1)

(* The work on sidecar files and conflicts that follows, and its end:       *)
(* incomplete work asks for a retry, complete work commits the terminal     *)
(* effect.                                                                  *)
PostPhase(w) ==
    LET j == pass[w].job IN
    /\ Processing(w, "post")
    /\ UNCHANGED Queue
    /\ \/ MoveTo(w, "retry") /\ UNCHANGED Ledger
       \/ Held(w) /\ MoveTo(w, "ok") /\ Commit(j, "done ok", 0)

\* A verifier checks its lease and its receipt and goes off to hash files.
StartVerify(w) ==
    LET j == pass[w].job IN
    /\ Processing(w, "begin") /\ ~Phased(j) /\ Held(w)
    /\ UNCHANGED <<Queue, Ledger>>
    /\ MoveTo(w, IF Terminated(j) THEN Replayed(j) ELSE "compute")

\* FAULT: the lease is not looked at again after hashing.
CommitVerifyUnfenced(w) ==
    LET j == pass[w].job IN
    /\ Processing(w, "compute")
    /\ UNCHANGED Queue
    /\ IF Terminated(j) THEN MoveTo(w, Replayed(j)) /\ UNCHANGED Ledger
       ELSE MoveTo(w, "ok") /\ Commit(j, "done ok", 1)

(* The fenced transaction of a verifier: its lease and its receipt are      *)
(* looked at again; a book that changed meanwhile is verified anew.         *)
CommitVerify(w) ==
    LET j == pass[w].job IN
    /\ Processing(w, "compute") /\ Held(w)
    /\ UNCHANGED Queue
    /\ \/ Terminated(j) /\ MoveTo(w, Replayed(j)) /\ UNCHANGED Ledger
       \/ ~Terminated(j) /\ MoveTo(w, "retry") /\ UNCHANGED Ledger
       \/ ~Terminated(j) /\ MoveTo(w, "ok") /\ Commit(j, "done ok", 1)
       \/ ~Terminated(j) /\ MoveTo(w, "bad") /\ Commit(j, "done bad", 1)

(* A processor raises: any of its statements may find the database busy or  *)
(* fail, and its fences do when the lease is lost.  The transaction that    *)
(* settles what a processor returned is inside the same try block.          *)
Raise(w) ==
    /\ \E at \in {"begin", "compute", "post", "ok", "bad", "retry"} : Processing(w, at)
    /\ \E how \in {"busy", "error"} : MoveTo(w, how)
    /\ UNCHANGED <<Queue, Ledger>>

-----------------------------------------------------------------------------
\* Settlement.

\* FAULT: an exception always fails the row.
NoAuthorities(j) == {FALSE}

(* _running_job_post_commit_authority: what was committed must not be       *)
(* reported as failed, so an exception after it is a retry.  A core phase   *)
(* whose card has been superseded meanwhile has no authority left.          *)
Authorities(j) == CASE receipt[j] = "none" -> {FALSE}
                    [] receipt[j] = "core" -> BOOLEAN
                    [] OTHER -> {TRUE}

FailOwned(w) ==
    /\ Finish(w, "failed")
    /\ db'.recoverable \subseteq db.recoverable \cup {j \in {pass[w].job} : receipt[j] # "none"}

SettleBy(w) ==
    \/ step[w] = "ok" /\ Finish(w, "finished")
    \/ step[w] = "bad" /\ FailOwned(w)
    \/ step[w] = "retry" /\ Retry(w, FALSE)
    \/ step[w] = "busy" /\ (Retry(w, TRUE) \/ LeaseLost(w, TRUE))
    \/ step[w] = "error" /\ \E authority \in Authorities(pass[w].job) :
                               IF authority THEN Retry(w, FALSE) ELSE FailOwned(w)
    \/ step[w] \in Outcomes \ {"busy"} /\ LeaseLost(w, FALSE)

WPSettle(w) ==
    /\ pass[w].at = "working" /\ step[w] \in Outcomes
    /\ SettleBy(w)
    /\ MoveTo(w, "none")
    /\ UNCHANGED Ledger

\* A claim that returns a row starts its processor.
WPClaim(w) ==
    /\ StartPass(w) \/ ClaimNext(w)
    /\ MoveTo(w, IF pass'[w].at = "working" THEN "begin" ELSE "none")
    /\ UNCHANGED Ledger

WPCrash(w) == Crash(w) /\ MoveTo(w, "none") /\ UNCHANGED Ledger

\* The steps of producers, maintenance and the clock.
WPEnvironment ==
    /\ \/ \E s \in JobSpecs, replace \in BOOLEAN : Enqueue(s, replace)
       \/ \E j \in Jobs : RecoverFailed(j) \/ LeaseExpires(j)
       \/ ReconcileBacklog
    /\ UNCHANGED <<step, receipt, applied>>

WPForget(j) ==
    /\ Forget(j)
    /\ receipt' = [receipt EXCEPT ![j] = "none"]
    /\ applied' = [applied EXCEPT ![j] = 0]
    /\ UNCHANGED step

Process(w) == CorePhase(w) \/ PostPhase(w) \/ StartVerify(w) \/ CommitVerify(w) \/ Raise(w)

WPNext ==
    \/ \E w \in Workers : WPClaim(w) \/ Process(w) \/ WPSettle(w) \/ WPCrash(w)
    \/ \E j \in Jobs : WPForget(j)
    \/ WPEnvironment

WPSpec == WPInit /\ [][WPNext]_wpVars

WPLiveSpec ==
    /\ WPSpec
    /\ \A w \in Workers : WF_wpVars(WPClaim(w) \/ Process(w) \/ WPSettle(w))
    /\ \A j \in Jobs : WF_wpVars(db.owner[j] = Gone /\ LeaseExpires(j) /\ UNCHANGED <<step, receipt, applied>>)

-----------------------------------------------------------------------------
\* Correctness.

\* The processors' own state has its declared shape, and a processor is at
\* work exactly while its pass has a row in hand.
WPTypeOK ==
    /\ step \in [Workers -> Steps]
    /\ receipt \in [Jobs -> Receipts]
    /\ applied \in [Jobs -> Nat]
    /\ \A w \in Workers : step[w] = "none" <=> pass[w].at # "working"

(* The core effect of a row is committed at most once, however often the    *)
(* row is reclaimed, retried, recovered or replayed and however late a      *)
(* worker that lost its lease comes back from hashing.                      *)
AppliedAtMostOnce == \A j \in Jobs : applied[j] <= 1

(* Nothing is committed in the name of a row its worker no longer leases:   *)
(* a receipt changes only under a live lease of the committing worker.      *)
CommittedUnderLease ==
    [][\A j \in Jobs :
         receipt'[j] # receipt[j] /\ db'.status[j] # "free" =>
            \E w \in Workers : pass[w].job = j /\ Owned(db, w, j) /\ step'[w] # step[w]]_wpVars

(* A row is reported finished only when its terminal effect says ok, and a  *)
(* row whose terminal effect says ok is never reported failed, unless the   *)
(* row was not preemptible and lost its lease after that commit.            *)
VerdictMatchesEffect ==
    \A j \in Jobs :
        /\ db.status[j] = "finished" => receipt[j] = "done ok"
        /\ db.status[j] = "failed" /\ receipt[j] = "done ok" => ~db.spec[j].preemptible

(* However a row changes hands, its effect is exact: committed at most once *)
(* and reported for what it is.                                             *)
EffectsAreExact == AppliedAtMostOnce /\ VerdictMatchesEffect

(* A committed terminal effect is reported: once leases stop expiring and   *)
(* processors stop raising, a row with a terminal effect does not stay live *)
(* (its replay is enough; no retry cycle keeps it in the queue).            *)
CommittedIsReported ==
    (<>[][(\A j \in Jobs : ~LeaseExpires(j)) /\ (\A w \in Workers : ~Raise(w))]_wpVars) =>
        \A j \in Jobs : Terminated(j) /\ db.status[j] \in Live
                          ~> ~(Terminated(j) /\ db.status[j] \in Live)
=============================================================================
