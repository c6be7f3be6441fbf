--------------------------- MODULE ReviewPrepare ---------------------------
(***************************************************************************)
(* The publication of prepared review jobs                                  *)
(* (src/continuum/core/review_bridge.py, create_review_job).  A job is      *)
(* built in a staging tree; a marker file with the plan of its artifacts    *)
(* is written and its row committed; the tree is renamed to its place; one  *)
(* transaction writes the rows of the artifacts and deletes that of the     *)
(* marker; the marker file goes last.  A failure is cleaned up by the call  *)
(* itself, a death by the next call, which reconciles what it finds before  *)
(* it prepares anything.  One lock serializes the calls of a root.          *)
(***************************************************************************)
EXTENDS Naturals, FiniteSets, FiniteSetsExt

CONSTANTS
    MaxJobs,   \* bound on jobs
    MaxFaults  \* bound on exceptions and deaths

VARIABLES
    job,    \* job[j]: its staging tree, published tree, marker, marker's row, rows
    made,   \* number of job ids in use
    call,   \* the call that holds the lock
    faults

vars == <<job, made, call, faults>>

Jobs == 1 .. MaxJobs
Trees == {"none", "part", "full"}
NoTree == [staged |-> "none", tree |-> "none", mark |-> FALSE, row |-> FALSE, rows |-> FALSE]

\* keep: the catalog is known to be committed, or may be; known: the marker of
\* the call is written; left: the cleanup could not remove a tree; seen: jobs whose marker stayed behind.
Idle == [pc |-> "idle", job |-> 0, own |-> FALSE, moved |-> FALSE, keep |-> FALSE,
         known |-> FALSE, left |-> FALSE, seen |-> {}]

Init ==
    /\ job = [j \in Jobs |-> NoTree]
    /\ made = 0 /\ call = Idle /\ faults = 0

In(pc) == call.pc = pc
This == job[call.job]
Goto(pc) == call' = [call EXCEPT !.pc = pc]
Take(j, pc) == call' = [call EXCEPT !.pc = pc, !.job = j]
Return == call' = Idle
Set(j, new) == job' = [job EXCEPT ![j] = new]
With(new) == Set(call.job, new)
Fault == faults < MaxFaults /\ faults' = faults + 1

----------------------------------------------------------------------------
(* _reconcile_review_prepare_publications                                    *)

Begin ==
    /\ In("idle") /\ Goto("reconcile")
    /\ UNCHANGED <<job, made, faults>>

Marked == {j \in Jobs \ call.seen : job[j].mark}
Staged == {j \in Jobs : ~job[j].mark /\ job[j].staged # "none"}
Rowed == {j \in Jobs : ~job[j].mark /\ job[j].row}

\* FAULT: a published tree without its rows counts as a contradiction too.
ContradictsPublished(j) == job[j].row /\ (job[j].rows \/ job[j].tree # "none")

\* Evidence that contradicts itself is refused, and with it every preparation.
Contradicts(j) ==
    LET d == job[j] IN
    \/ d.mark /\ d.staged # "none" /\ d.tree # "none"
    \/ d.mark /\ d.rows /\ (d.row \/ d.tree = "none")
    \/ d.mark /\ ~d.row /\ d.staged = "none" /\ d.tree # "none" /\ ~(d.rows /\ d.tree = "full")
    \/ ~d.mark /\ d.staged # "none" /\ (d.rows \/ d.tree # "none")
    \/ ~d.mark /\ d.row /\ (d.staged # "none" \/ d.tree # "none")

\* Marked jobs come first, then staging trees, then rows of markers.
Leftover == IF Marked # {} THEN Marked ELSE IF Staged # {} THEN Staged ELSE Rowed
Next1 == Min(Leftover)

Recover ==
    /\ In("reconcile") /\ Marked # {} /\ ~Contradicts(Next1)
    /\ LET d == job[Next1] IN
       CASE d.row /\ d.staged # "none" -> Take(Next1, "rename") /\ UNCHANGED job
         [] d.row /\ d.staged = "none" /\ d.tree # "none" ->
                Take(Next1, "finalize") /\ UNCHANGED job
         [] d.row /\ d.staged = "none" /\ d.tree = "none" ->
                Take(Next1, "unlink") /\ Set(Next1, [d EXCEPT !.row = FALSE])
         [] ~d.row /\ d.staged # "none" -> Take(Next1, "remove") /\ UNCHANGED job
         [] OTHER -> Take(Next1, "unlink") /\ UNCHANGED job
    /\ UNCHANGED <<made, faults>>

RollBack ==
    /\ In("reconcile") /\ Marked = {} /\ Staged # {} /\ ~Contradicts(Next1)
    /\ Take(Next1, "remove")
    /\ UNCHANGED <<job, made, faults>>

RetireRow ==
    /\ In("reconcile") /\ Marked = {} /\ Staged = {} /\ Rowed # {} /\ ~Contradicts(Next1)
    /\ Set(Next1, [job[Next1] EXCEPT !.row = FALSE])
    /\ UNCHANGED <<made, call, faults>>

Refuse ==
    /\ In("reconcile") /\ Leftover # {} /\ Contradicts(Next1)
    /\ Return /\ UNCHANGED <<job, made, faults>>

\* The staging tree that is rolled back goes file by file, then its marker.
Remove ==
    /\ In("remove") /\ This.staged # "none"
    /\ With([This EXCEPT !.staged = IF @ = "full" THEN "part" ELSE "none"])
    /\ UNCHANGED <<made, call, faults>>

Removed ==
    /\ In("remove") /\ This.staged = "none"
    /\ Goto(IF This.mark THEN "unlink" ELSE "reconcile")
    /\ UNCHANGED <<job, made, faults>>

----------------------------------------------------------------------------
(* create_review_job                                                         *)

Stage ==
    /\ In("reconcile") /\ Leftover = {} /\ made < MaxJobs
    /\ made' = made + 1
    /\ call' = [Idle EXCEPT !.pc = "build", !.job = made', !.own = TRUE]
    /\ Set(made', [NoTree EXCEPT !.staged = "part"])
    /\ UNCHANGED faults

\* No job id is left: what the call would prepare is beyond the bound.
Enough ==
    /\ In("reconcile") /\ Leftover = {} /\ made = MaxJobs /\ Return
    /\ UNCHANGED <<job, made, faults>>

\* The subject is copied and sampled, and scanned for secrets; one that is found
\* ends the preparation.
Capture ==
    /\ In("build") /\ Goto("write")
    /\ UNCHANGED <<job, made, faults>>

Blocked ==
    /\ In("build") /\ Goto("cleanup")
    /\ UNCHANGED <<job, made, faults>>

Build ==
    /\ In("write") /\ With([This EXCEPT !.staged = "full"]) /\ Goto("mark")
    /\ UNCHANGED <<made, faults>>

Mark ==
    /\ In("mark") /\ With([This EXCEPT !.mark = TRUE])
    /\ call' = [call EXCEPT !.pc = "bind", !.known = TRUE]
    /\ UNCHANGED <<made, faults>>

Bind ==
    /\ In("bind") /\ With([This EXCEPT !.row = TRUE]) /\ Goto("rename")
    /\ UNCHANGED <<made, faults>>

----------------------------------------------------------------------------
(* Publication, by the call that prepared the job or by a later one.         *)

Rename ==
    /\ In("rename") /\ This.tree = "none"
    /\ With([This EXCEPT !.tree = This.staged, !.staged = "none"])
    /\ call' = [call EXCEPT !.pc = "finalize", !.moved = TRUE]
    /\ UNCHANGED <<made, faults>>

Bound == This.mark /\ This.row /\ ~This.rows
Published == [This EXCEPT !.rows = TRUE, !.row = FALSE]

\* The transaction checks every file of the plan.
Finalize ==
    /\ In("finalize") /\ Bound /\ This.tree = "full"
    /\ With(Published)
    /\ call' = [call EXCEPT !.pc = "unlink", !.keep = TRUE]
    /\ UNCHANGED <<made, faults>>

\* FAULT: rows count as committed only while their marker's row is there.
MarkerDecides(d) == IF d.row /\ d.rows THEN "committed" ELSE "uncommitted"

\* What the catalog says of the job, when it can be asked.
CatalogState(d) ==
    IF d.row THEN IF d.rows \/ ~d.mark THEN "unknown" ELSE "uncommitted"
    ELSE IF ~d.rows THEN "uncommitted"
    ELSE IF d.tree = "full" THEN "committed" ELSE "unknown"

Raised == IF call.own THEN "cleanup" ELSE IF call.moved THEN "reverse" ELSE "idle"

\* The commit raises, though it may be durable; the caller asks the catalog
\* then, which may not answer.
CommitFails ==
    /\ In("finalize") /\ Bound /\ This.tree = "full" /\ Fault
    /\ \E d \in {This, Published}, answers \in BOOLEAN :
           /\ With(d)
           /\ call' = IF Raised = "idle" THEN Idle
                      ELSE [call EXCEPT !.pc = Raised,
                               !.keep = ~answers \/ CatalogState(d) # "uncommitted"]
    /\ UNCHANGED made

Drifted ==
    /\ In("finalize") /\ ~(Bound /\ This.tree = "full")
    /\ IF Raised = "idle" THEN Return ELSE Goto(Raised)
    /\ UNCHANGED <<job, made, faults>>

Unlink ==
    /\ In("unlink") /\ With([This EXCEPT !.mark = FALSE])
    /\ IF call.own THEN Return ELSE call' = [Idle EXCEPT !.pc = "reconcile", !.seen = call.seen]
    /\ UNCHANGED <<made, faults>>

\* A marker that stays behind after the commit is the next call's to remove.
UnlinkFails ==
    /\ In("unlink") /\ Fault
    /\ IF call.keep /\ ~call.own
       THEN call' = [Idle EXCEPT !.pc = "reconcile", !.seen = call.seen \cup {call.job}]
       ELSE Return
    /\ UNCHANGED <<job, made>>

\* A recovered publication that fails is put back where it was staged.
Reverse ==
    /\ In("reverse")
    /\ IF Bound /\ This.tree # "none" /\ This.staged = "none"
       THEN With([This EXCEPT !.staged = This.tree, !.tree = "none"]) ELSE UNCHANGED job
    /\ Return
    /\ UNCHANGED <<made, faults>>

----------------------------------------------------------------------------
(* _cleanup_failed_review_preparation: the call that failed looks back.      *)

Raise ==
    /\ call.own /\ call.pc \in {"build", "write", "mark", "bind", "rename", "finalize"} /\ Fault
    /\ Goto("cleanup")
    /\ UNCHANGED <<job, made>>

Preserve ==
    /\ In("cleanup")
    /\ call.keep \/ (call.known /\ CatalogState(This) # "uncommitted")
    /\ Return
    /\ UNCHANGED <<job, made, faults>>

\* The inspection fails: nothing proves that the job may be removed.
Unanswered ==
    /\ In("cleanup") /\ call.known /\ Fault
    /\ Return
    /\ UNCHANGED <<job, made>>

CleanUp ==
    /\ In("cleanup") /\ ~call.keep /\ (call.known => CatalogState(This) = "uncommitted")
    /\ Goto("untree")
    /\ UNCHANGED <<job, made, faults>>

Shrink(t) == IF t = "full" THEN "part" ELSE "none"
RemoveTree ==
    /\ In("untree") /\ This.tree # "none"
    /\ With([This EXCEPT !.tree = Shrink(@)])
    /\ UNCHANGED <<made, call, faults>>

TreeRemoved ==
    /\ In("untree") /\ This.tree = "none" /\ Goto("unstage")
    /\ UNCHANGED <<job, made, faults>>

RemoveStaged ==
    /\ In("unstage") /\ This.staged # "none"
    /\ With([This EXCEPT !.staged = Shrink(@)])
    /\ UNCHANGED <<made, call, faults>>

\* FAULT: the marker goes although a tree could not be removed.
StagedRemovedOrLeft ==
    /\ In("unstage") /\ This.staged = "none"
    /\ IF call.known /\ CatalogState(This) = "uncommitted" THEN Goto("discard") ELSE Return
    /\ UNCHANGED <<job, made, faults>>

StagedRemoved ==
    /\ In("unstage") /\ This.staged = "none"
    /\ IF call.known /\ ~call.left /\ CatalogState(This) = "uncommitted"
       THEN Goto("discard") ELSE Return
    /\ UNCHANGED <<job, made, faults>>

\* A tree that cannot be removed does not stop the removal of the other one.
RemoveFails ==
    /\ call.pc \in {"untree", "unstage"} /\ Fault
    /\ IF In("untree") THEN call' = [call EXCEPT !.pc = "unstage", !.left = TRUE] ELSE Return
    /\ UNCHANGED <<job, made>>

\* The row of the marker is deleted, then its file.
Discard ==
    /\ In("discard")
    /\ With([This EXCEPT !.row = FALSE])
    /\ Goto("unlink")
    /\ UNCHANGED <<made, faults>>

----------------------------------------------------------------------------
Die ==
    /\ ~In("idle") /\ Fault /\ Return
    /\ UNCHANGED <<job, made>>

\* The directory of staging trees and marker files is cleared away by hand.
LoseTmp ==
    /\ In("idle") /\ Fault
    /\ job' = [j \in Jobs |-> [job[j] EXCEPT !.staged = "none", !.mark = FALSE]]
    /\ UNCHANGED <<made, call>>

Reconcile == Recover \/ RollBack \/ RetireRow \/ Refuse \/ Remove \/ Removed
Publish == Rename \/ Finalize \/ Drifted \/ Unlink \/ Reverse
Cleanup == Preserve \/ CleanUp \/ RemoveTree \/ TreeRemoved \/ RemoveStaged \/ StagedRemoved
              \/ Discard
Step == Reconcile \/ Stage \/ Enough \/ Capture \/ Blocked \/ Build \/ Mark \/ Bind \/ Publish \/ Cleanup
Failure == CommitFails \/ UnlinkFails \/ Raise \/ Unanswered \/ RemoveFails \/ Die \/ LoseTmp

\* Preparations go on, whatever failed before.
Next == Begin \/ Step \/ Failure
Spec == Init /\ [][Next]_vars /\ WF_vars(Begin) /\ WF_vars(Step)

----------------------------------------------------------------------------
\* A job that a reader may open (no marker file, no row of one) is committed, with
\* the whole tree behind its rows: no failure shows a job that is not there.
OpenIsWhole ==
    \A j \in Jobs : LET d == job[j] IN
        /\ d.rows => d.tree = "full" /\ d.staged = "none" /\ ~d.row
        /\ d.tree # "none" /\ ~d.mark /\ ~d.row => d.rows

\* A committed job is never taken back, however the commit was answered.
CommittedStays ==
    [][\A j \in Jobs : job[j].rows => job'[j].rows /\ job'[j].tree = job[j].tree]_vars

\* A tree whose marker has authority was removed in part, or lost its marker file.
Damaged(j) == job[j].row /\ (\/ job[j].staged = "part" \/ job[j].tree = "part"
                             \/ job[j].tree # "none" /\ ~job[j].mark)

\* What an interrupted call leaves behind is published or gone in the end, for
\* every job of the root, unless a cleanup was itself cut short in a tree with
\* authority, or the marker file was taken away: this every later call refuses.
Unsettled(j) == job[j].mark \/ job[j].row \/ job[j].staged # "none"
Settled(j) == \/ \E k \in Jobs : Damaged(k)
              \/ ~Unsettled(j) /\ (job[j].tree # "none" => job[j].rows)
SettledInTheEnd == \A j \in Jobs : Unsettled(j) ~> Settled(j)

=============================================================================
