--------------------------- MODULE FailedRecovery ---------------------------
(***************************************************************************)
(* The maintenance step that brings failed rows back                        *)
(* (src/continuum/core/workers.py, _recover_failed_post_phase_sidecar_jobs).*)
(* A row that failed after its effect was committed is requeued, once for   *)
(* each failure, if what its receipts say is still so.  The receipts of a   *)
(* scribe row are many: they are validated a window at a time, each window  *)
(* in a transaction of its own, while other calls supersede cards, enqueue  *)
(* rows and run the same maintenance.                                       *)
(*                                                                         *)
(* Abstractions.  Rows of a kind share their dedupe key; a row is known by  *)
(* its rowid.  A step of a row is what a committed receipt names (a segment *)
(* with its card and child rows, a card of an import, a card), how that is  *)
(* now, and whether a completed receipt follows.  The kind "card" stands    *)
(* for review_card_placement and sync_card_sidecar.  How a worker claims    *)
(* and settles is module JobQueue.                                          *)
(***************************************************************************)
EXTENDS Integers, Sequences, SequencesExt, FiniteSetsExt

CONSTANTS Rows,      \* rowids of queue_jobs
          Passes,    \* maintenance passes
          Steadfast, \* the one that is not killed
          MaxSteps,  \* bound: receipts of a row
          MaxStale,  \* bound: steps that are disturbed
          MaxTurns,  \* bound: updates of rows before the last claim
          Window,    \* WORKER_FAILED_SCRIBE_STEP_VALIDATION_LIMIT
          Limit      \* WORKER_FAILED_SIDECAR_RECOVERY_LIMIT

VARIABLES
    row,          \* queue_jobs: status, and a number for its updates
    steps,        \* committed receipts of a row, and whether they are still so
    effects,      \* terminal effects of a row: the failure of its sidecars, or another one
    dispositions, \* what maintenance decided, each for an effect
    progress,     \* the newest validating disposition of a row
    pass          \* snapshots a pass has still to look at

vars == <<row, steps, effects, dispositions, progress, pass>>

Kinds == {"scribe", "import", "card"}
Live == {"pending", "running"}
Unvalidated == [turn |-> 0, key |-> 0, count |-> 0, completed |-> 0]
Committed == [is |-> "current", completed |-> FALSE]

Init ==
    /\ row = [j \in Rows |-> [status |-> "absent", kind |-> "none", turn |-> 0]]
    /\ steps = [j \in Rows |-> <<>>] /\ effects = [j \in Rows |-> <<>>]
    /\ dispositions = [j \in Rows |-> <<>>]
    /\ progress = [j \in Rows |-> Unvalidated]
    /\ pass = [p \in Passes |-> <<>>]

Update(j, status) == row' = [row EXCEPT ![j].status = status, ![j].turn = @ + 1]
Alike(j, statuses) == {i \in Rows \ {j} : row[i].kind = row[j].kind /\ row[i].status \in statuses}
Maintenance == <<dispositions, progress, pass>>

----------------------------------------------------------------------------
\* Workers and others.

Enqueue(j, kind) ==
    /\ \A i \in Rows : IF i < j THEN row[i].status # "absent" ELSE row[i].status = "absent"
    /\ \A i \in Rows : row[i].kind = kind => row[i].status # "pending"
    /\ row' = [row EXCEPT ![j] = [status |-> "pending", kind |-> kind, turn |-> 1]]
    /\ UNCHANGED <<steps, effects, Maintenance>>

Claim(j) ==
    /\ row[j].status = "pending" /\ Alike(j, {"running"}) = {}
    /\ MapThenSumSet(LAMBDA i : row[i].turn, Rows) < MaxTurns
    /\ Update(j, "running")
    /\ UNCHANGED <<steps, effects, Maintenance>>

\* A segment and its receipt.
CommitSegment(j) ==
    /\ row[j].status = "running" /\ row[j].kind = "scribe" /\ Len(steps[j]) < MaxSteps
    /\ steps' = [steps EXCEPT ![j] = Append(@, Committed)]
    /\ UNCHANGED <<row, effects, Maintenance>>

\* _record_scribe_step_completed: the sidecar of a step is written.
CompleteStep(j, k) ==
    /\ row[j].status = "running" /\ row[j].kind = "scribe"
    /\ k \in DOMAIN steps[j] /\ ~steps[j][k].completed
    /\ steps' = [steps EXCEPT ![j][k].completed = TRUE]
    /\ UNCHANGED <<row, effects, Maintenance>>

\* A core phase and its receipt: an import names all the cards it changed.
CommitCore(j) ==
    /\ row[j].status = "running" /\ row[j].kind # "scribe" /\ steps[j] = <<>>
    /\ \E n \in 1 .. (IF row[j].kind = "import" THEN MaxSteps ELSE 1) :
          steps' = [steps EXCEPT ![j] = [k \in 1 .. n |-> Committed]]
    /\ UNCHANGED <<row, effects, Maintenance>>

\* _running_job_post_commit_authority: an effect, or the newest receipt and what it names.
Authority(j) ==
    \/ effects[j] # <<>>
    \/ /\ steps[j] # <<>>
       /\ \A k \in DOMAIN steps[j] : row[j].kind = "import" \/ k = Len(steps[j]) => steps[j][k].is = "current"

\* record_job_failure: an exception after a commit is a retry, beside a successor not
\* even that.
Raise(j) ==
    /\ row[j].status = "running"
    /\ Update(j, IF ~Authority(j) THEN "failed"
                 ELSE IF Alike(j, {"pending"}) # {} THEN "superseded" ELSE "pending")
    /\ UNCHANGED <<steps, effects, Maintenance>>

Finish(j) ==
    /\ row[j].status = "running" /\ Update(j, "done")
    /\ UNCHANGED <<steps, effects, Maintenance>>

\* An earlier release settles a row as failed, after an exception or with its result as
\* the terminal effect.
FailAsBefore(j, result) ==
    /\ row[j].status = "running" /\ Update(j, "failed")
    /\ effects' = [effects EXCEPT ![j] = @ \o result]
    /\ UNCHANGED <<steps, Maintenance>>

\* A card is superseded, archived or pruned; the row of a child gets another payload.
Stale == {s \in Rows \X (1 .. MaxSteps) : s[2] \in DOMAIN steps[s[1]] /\ steps[s[1]][s[2]].is # "current"}
Disturb(j, k) ==
    /\ Cardinality(Stale) < MaxStale
    /\ k \in DOMAIN steps[j] /\ steps[j][k].is = "current"
    /\ \E is \in {"superseded"} \cup (IF row[j].kind = "scribe" THEN {"replaced"} ELSE {}) :
          steps' = [steps EXCEPT ![j][k].is = is]
    /\ UNCHANGED <<row, effects, Maintenance>>

----------------------------------------------------------------------------
\* Candidates.

Key(j) == Len(effects[j])    \* the newest effect, 0 for a row without one

Decided(j) == \E i \in DOMAIN dispositions[j] : dispositions[j][i].key = Key(j)

\* _failed_sidecar_recovery_candidates, _failed_effectless_recovery_candidates
Candidates == {j \in Rows : row[j].status = "failed" /\ ~Decided(j)}

Snapshot(j) == [job |-> j, turn |-> row[j].turn, key |-> Key(j)]

\* _all_failed_sidecar_recovery_candidates, in the order of rowids.
Select(p) ==
    /\ pass[p] = <<>> /\ Candidates # {}
    /\ LET oldest == SetToSortSeq(Candidates, <)
       IN pass' = [pass EXCEPT ![p] = [i \in 1 .. Min({Limit, Len(oldest)}) |-> Snapshot(oldest[i])]]
    /\ UNCHANGED <<row, steps, effects, dispositions, progress>>

----------------------------------------------------------------------------
\* One candidate, in a transaction of its own.

\* _scribe_validation_progress_state: progress is for this snapshot of the row.
Validated(c) ==
    IF progress[c.job].turn = c.turn /\ progress[c.job].key = c.key THEN progress[c.job].count ELSE 0

\* FAULT: every pass validates from the first receipt.
WindowEndStuck(c) == Min({Window, Len(steps[c.job])})

WindowEnd(c) ==
    IF row[c.job].kind = "scribe" THEN Min({Validated(c) + Window, Len(steps[c.job])})
    ELSE Len(steps[c.job])

\* _validate_failed_queue_effect, _validate_failed_effectless_queue: the failure is one
\* of sidecars only, or one without a result.
Envelope(c) == IF c.key = 0 THEN TRUE ELSE effects[c.job][c.key]

\* _validate_live_scribe_core
StepCurrent(c, k) == steps[c.job][k].is = "current"

\* _validate_failed_scribe_authority: the next window of receipts.
WindowCurrent(c) == \A k \in Validated(c) + 1 .. WindowEnd(c) : StepCurrent(c, k)

\* _validate_failed_mempalace_authority: every card the receipt names.
ImportCurrent(c) == steps[c.job] # <<>> /\ \A k \in DOMAIN steps[c.job] : StepCurrent(c, k)

\* _validate_failed_placement_authority, _validate_failed_sync_sidecar_authority
CardCurrent(c) == steps[c.job] # <<>> /\ StepCurrent(c, 1)

\* _validate_failed_sidecar_recovery_candidate
Holds(c) == CASE row[c.job].kind = "scribe" -> WindowCurrent(c)
              [] row[c.job].kind = "import" -> ImportCurrent(c)
              [] OTHER -> CardCurrent(c)

CompletedIn(c, window) == Cardinality({k \in window : steps[c.job][k].completed})

\* What a window adds to the progress.
Advanced(c) ==
    [turn |-> c.turn, key |-> c.key, count |-> WindowEnd(c),
     completed |-> (IF Validated(c) = 0 THEN 0 ELSE progress[c.job].completed)
                     + CompletedIn(c, Validated(c) + 1 .. WindowEnd(c))]

\* _scribe_receipt_count_state: no receipt came to a window already seen.
ReceiptsCounted(c) ==
    /\ steps[c.job] # <<>>
    /\ CompletedIn(c, DOMAIN steps[c.job]) = Advanced(c).completed

\* FAULT: what an earlier window saw is not looked at again.
CardsUnseen(c) == steps[c.job] # <<>>

\* _scribe_final_authority_drift_reason: in the end all receipts are looked at again,
\* with their cards
CardsCurrent(c) == \A k \in DOMAIN steps[c.job] : steps[c.job][k].is # "superseded"

\* and with their children.
ChildrenCurrent(c) == \A k \in DOMAIN steps[c.job] : steps[c.job][k].is # "replaced"

NoDrift(c) == ReceiptsCounted(c) /\ CardsCurrent(c) /\ ChildrenCurrent(c)

Collides(j) == Alike(j, Live) # {}

\* _record_failed_sidecar_recovery_disposition
Dispose(c, decision) ==
    dispositions' = [dispositions EXCEPT ![c.job] = Append(@, [key |-> c.key, decision |-> decision])]

\* FAULT: the candidate is taken as it was selected.
CurrentAsSelected(c) == row[c.job].status = "failed"

\* The window is selected again under the write lock.
Current(c) == c.job \in Candidates /\ c = Snapshot(c.job)

Done(p) == pass' = [pass EXCEPT ![p] = Tail(@)]

Changed(p, c) == ~Current(c) /\ Done(p) /\ UNCHANGED <<row, dispositions, progress>>

Validate(p, c) ==
    /\ Current(c) /\ Envelope(c) /\ Holds(c) /\ WindowEnd(c) < Len(steps[c.job])
    /\ progress' = [progress EXCEPT ![c.job] = Advanced(c)]
    /\ Done(p) /\ UNCHANGED <<row, dispositions>>

Eligible(c) ==
    /\ Envelope(c) /\ Holds(c) /\ WindowEnd(c) = Len(steps[c.job])
    /\ row[c.job].kind = "scribe" => NoDrift(c)
    /\ ~Collides(c.job)

Requeue(p, c) ==
    /\ Current(c) /\ Eligible(c)
    /\ Update(c.job, "pending") /\ Dispose(c, "requeued")
    /\ Done(p) /\ UNCHANGED progress

Reject(p, c) ==
    /\ Current(c) /\ ~Eligible(c)
    /\ Envelope(c) /\ Holds(c) => WindowEnd(c) = Len(steps[c.job])
    /\ Dispose(c, "rejected")
    /\ Done(p) /\ UNCHANGED <<row, progress>>

Recover(p) ==
    /\ pass[p] # <<>>
    /\ LET c == Head(pass[p]) IN Changed(p, c) \/ Validate(p, c) \/ Requeue(p, c) \/ Reject(p, c)
    /\ UNCHANGED <<steps, effects>>

\* A pass of a process that is killed; the one of the service comes back.
Die(p) ==
    /\ p # Steadfast /\ pass[p] # <<>> /\ pass' = [pass EXCEPT ![p] = <<>>]
    /\ UNCHANGED <<row, steps, effects, dispositions, progress>>

----------------------------------------------------------------------------
Next ==
    \/ \E j \in Rows :
        \/ \E kind \in Kinds : Enqueue(j, kind)
        \/ Claim(j) \/ CommitSegment(j) \/ CommitCore(j) \/ Raise(j) \/ Finish(j)
        \/ \E result \in {<<>>, <<TRUE>>, <<FALSE>>} : FailAsBefore(j, result)
        \/ \E k \in 1 .. MaxSteps : CompleteStep(j, k) \/ Disturb(j, k)
    \/ \E p \in Passes : Select(p) \/ Recover(p) \/ Die(p)

\* Steadfast belongs to the worker service, which runs maintenance for ever.
Maintain == Select(Steadfast) \/ Recover(Steadfast)
Spec == Init /\ [][Next]_vars /\ WF_vars(Maintain)

----------------------------------------------------------------------------
(* _record_failed_sidecar_recovery_disposition: two passes over the same    *)
(* rows decide once about a failure, so a row that keeps failing comes back *)
(* once for each effect it leaves.                                          *)
DecidedOnce ==
    \A j \in Rows :
        /\ Cardinality({dispositions[j][i].key : i \in DOMAIN dispositions[j]}) = Len(dispositions[j])
        /\ \A i \in DOMAIN dispositions[j] : dispositions[j][i].key <= Key(j)

(* _scribe_final_authority_drift_reason: when a row is requeued, all of its *)
(* receipts are still so, though they were validated at different times,    *)
(* and no other row has its key.                                            *)
RequeuedIsCurrent ==
    [][\A j \in Rows : row[j].status = "failed" /\ row'[j].status # "failed" =>
          /\ steps[j] # <<>> /\ \A k \in DOMAIN steps[j] : steps[j][k].is = "current"
          /\ Alike(j, Live) = {}]_vars

(* _recover_failed_post_phase_sidecar_jobs: windows of receipts and of rows  *)
(* do not starve a row: there is a time when nothing waits for a decision.  *)
AllDecided == []<>(Candidates = {})
=============================================================================
