--------------------------- MODULE ScribeSegments ---------------------------
(***************************************************************************)
(* The Scribe: how the Scroll of one session is cut into segments          *)
(* (append_scroll_event and roll_scroll_segment in core/store.py,          *)
(* roll_due_scroll_segments and its helpers in core/workers.py).           *)
(*                                                                         *)
(* Producers append events and leave a notification in the queue.  A       *)
(* worker that claims it reads how far the segments reach, plans the next  *)
(* batch without a lock, and rolls the planned ranges one transaction at a *)
(* time, while other workers (whose leases it may have lost), unleased     *)
(* callers (maybe_maintain_after_capture, forced rolls) and hand-made      *)
(* rolls (CLI, MCP, Hermes) do the same.                                   *)
(*                                                                         *)
(* All notifications of a session have one dedupe key, so the queue holds  *)
(* at most one pending and one running row for it (OnePendingPerKey and    *)
(* OneRunningPerKey of JobQueue); note is these two rows.                  *)
(***************************************************************************)
EXTENDS Integers, FiniteSets, Sequences

CONSTANTS
    Workers,      \* worker processes: they roll under the lease of a notification
    Callers,      \* processes that run roll_due_scroll_segments without a lease
    Boundaries,   \* the (visibility_scope, project_id) pairs of events
    Threshold,    \* capture.roll_segments_every_events
    MaxBatches,   \* MAX_SCRIBE_SEGMENT_BATCHES_PER_RUN
    MaxEvents,    \* bound: how many events are appended
    NoRow, NoOne, Gone

ASSUME ScribeAssumption ==
    /\ Threshold \in Nat \ {0} /\ MaxBatches \in Nat \ {0} /\ MaxEvents \in Nat
    /\ Workers \cap Callers = {} /\ (Workers \cup Callers) \cap {NoOne, Gone} = {}
    /\ NoOne # Gone

Processes == Workers \cup Callers

VARIABLES
    scroll,     \* scroll_events: the boundary of each event, by seq
    segments,   \* scroll_segments: ranges of seq
    note,       \* the pending and the running notification
    proc        \* what each process is doing

vars == <<scroll, segments, note, proc>>

Ranges == [lo : Nat, hi : Nat]

\* stepped: a step receipt of the row is committed; reported: its terminal effect is.
Rows == [retry : BOOLEAN, stepped : BOOLEAN, reported : BOOLEAN]
FreshRow == [retry |-> FALSE, stepped |-> FALSE, reported |-> FALSE]

\* The absence of a row is told from every row.
ASSUME NoRowAssumption == NoRow \notin Rows

-----------------------------------------------------------------------------
\* The Scroll and its segments.

\* _last_segment_end
Frontier == CHOOSE n \in {0} \cup {s.hi : s \in segments} : \A s \in segments : s.hi <= n

\* _scroll_segment_backlog, up to the limit max.
Backlog(max) == max - Frontier

Due == Backlog(Len(scroll)) >= Threshold

Uniform(lo, hi) == \A n \in lo..hi : scroll[n] = scroll[lo]

\* FAULT: a batch is not split where the boundary changes.
RunsUnsplit(lo, hi) == {[lo |-> lo, hi |-> hi]}

\* _scroll_security_runs: the longest ranges of one boundary in lo..hi.
Runs(lo, hi) ==
    {r \in [lo : lo..hi, hi : lo..hi] :
        /\ r.lo <= r.hi /\ Uniform(r.lo, r.hi)
        /\ r.lo = lo \/ scroll[r.lo - 1] # scroll[r.lo]
        /\ r.hi = hi \/ scroll[r.hi + 1] # scroll[r.hi]}

\* FAULT: a range may start anywhere that is not covered yet.
RollableAnywhere(r) ==
    /\ 1 <= r.lo /\ r.lo <= r.hi /\ r.hi <= Len(scroll)
    /\ \A s \in segments : s.hi < r.lo \/ s.lo > r.hi
    /\ Uniform(r.lo, r.hi)

\* FAULT: a range of mixed boundaries makes one segment.
RollableMixed(r) ==
    /\ 1 <= r.lo /\ r.lo <= r.hi /\ r.hi <= Len(scroll)
    /\ r.lo = Frontier + 1

\* The checks of roll_scroll_segment, inside its transaction.
Rollable(r) ==
    /\ 1 <= r.lo /\ r.lo <= r.hi /\ r.hi <= Len(scroll)
    /\ r.lo = Frontier + 1
    /\ \A s \in segments : s.hi < r.lo \/ s.lo > r.hi
    /\ Uniform(r.lo, r.hi)

-----------------------------------------------------------------------------
\* The notification.

(* enqueue_job with the key of the session: a pending row is reused.  One   *)
(* that has reported will only be replayed: history remembers the merger.   *)
Notified ==
    IF note.pending = NoRow
    THEN [note EXCEPT !.pending = FreshRow, !.failed = FALSE, !.merged = FALSE]
    ELSE [note EXCEPT !.failed = FALSE, !.merged = note.pending.reported]

NoteHeldBy(p) == note.running # NoRow /\ note.owner = p /\ note.lease = "live"

Unclaimed == [note EXCEPT !.running = NoRow, !.owner = NoOne, !.lease = "none"]

\* The running row goes back to pending, or its pending successor carries on.
Returned(retrying) ==
    [Unclaimed EXCEPT !.pending =
        IF note.pending = NoRow THEN [note.running EXCEPT !.retry = retrying]
        ELSE [note.pending EXCEPT !.retry = note.pending.retry \/ retrying]]

-----------------------------------------------------------------------------
\* Producers, hand-made rolls, the clock and the queue.

Idle == [at |-> "idle", plan |-> {}, batches |-> 0, forced |-> FALSE, target |-> 0]

Init ==
    /\ scroll = <<>>
    /\ segments = {}
    /\ note = [pending |-> NoRow, running |-> NoRow, owner |-> NoOne, lease |-> "none",
               failed |-> FALSE, merged |-> FALSE]
    /\ proc = [p \in Processes |-> Idle]

(* append_scroll_event: event and notification in one transaction.  (A     *)
(* deduplicated event changes neither.)                                     *)
AppendEvent(b) ==
    /\ Len(scroll) < MaxEvents
    /\ scroll' = Append(scroll, b)
    /\ note' = Notified
    /\ UNCHANGED <<segments, proc>>

\* roll_scroll_segment called with a range of the caller's own.
RollByHand(r) ==
    /\ Rollable(r)
    /\ segments' = segments \cup {r}
    /\ UNCHANGED <<scroll, note, proc>>

LeaseExpires ==
    /\ note.lease = "live"
    /\ note' = [note EXCEPT !.lease = "expired"]
    /\ UNCHANGED <<scroll, segments, proc>>

\* _reclaim_expired_leases (Released in JobQueue): a reclaimed row is a
\* retry only if it was one.
Reclaim ==
    /\ note.lease = "expired"
    /\ note' = Returned(note.running.retry)
    /\ UNCHANGED <<scroll, segments, proc>>

\* A process dies; a worker's row keeps the name of a worker that is no more.
Crash(p) ==
    /\ proc[p].at # "idle"
    /\ proc' = [proc EXCEPT ![p] = Idle]
    /\ note' = IF note.owner = p THEN [note EXCEPT !.owner = Gone] ELSE note
    /\ UNCHANGED <<scroll, segments>>

-----------------------------------------------------------------------------
\* roll_due_scroll_segments.

GoTo(p, at) == proc' = [proc EXCEPT ![p].at = at]

(* A worker claims the notification; a terminal effect of an earlier        *)
(* attempt is replayed.                                                     *)
Claim(p) ==
    /\ p \in Workers /\ proc[p].at = "idle"
    /\ note.pending # NoRow /\ note.running = NoRow
    /\ note' = [note EXCEPT !.pending = NoRow, !.running = note.pending, !.owner = p, !.lease = "live"]
    /\ proc' = [proc EXCEPT ![p] = [Idle EXCEPT !.at = IF note.pending.reported THEN "finish" ELSE "loop"]]
    /\ UNCHANGED <<scroll, segments>>

\* An unleased call; a forced one fixes its target now.
Call(p, forced) ==
    /\ p \in Callers /\ proc[p].at = "idle"
    /\ proc' = [proc EXCEPT ![p] = [Idle EXCEPT !.at = "loop", !.forced = forced,
                                                !.target = IF forced THEN Len(scroll) ELSE 0]]
    /\ UNCHANGED <<scroll, segments, note>>

\* The lease of a worker is renewed; without it the worker raises.
Fenced(p) == p \in Workers => NoteHeldBy(p)

(* The head of the batch loop: the backlog is read and a batch is planned,  *)
(* or the loop is left.                                                     *)
PlanBatch(p) ==
    LET run == proc[p]
        max == IF run.forced /\ run.target < Len(scroll) THEN run.target ELSE Len(scroll)
        last == IF run.forced \/ max < Frontier + Threshold THEN max ELSE Frontier + Threshold
        leaving == \/ ~run.forced /\ (run.batches = MaxBatches \/ Backlog(max) < Threshold)
                   \/ Backlog(max) <= 0
    IN  /\ run.at = "loop" /\ (run.batches < MaxBatches => Fenced(p))
        /\ proc' = [proc EXCEPT ![p] =
                      IF ~leaving
                      THEN [run EXCEPT !.at = "roll", !.plan = Runs(Frontier + 1, last),
                                       !.batches = IF run.forced THEN 0 ELSE run.batches + 1]
                      ELSE IF run.forced THEN Idle ELSE [run EXCEPT !.at = "tail"]]
        /\ UNCHANGED <<scroll, segments, note>>

NextRun(p) == CHOOSE r \in proc[p].plan : \A q \in proc[p].plan : r.lo <= q.lo

AfterRun(p, r) ==
    proc' = [proc EXCEPT ![p].plan = proc[p].plan \ {r},
                         ![p].at = IF proc[p].plan = {r} THEN "loop" ELSE "roll"]

(* One planned range: the lease, the checks, the segment with its Card and  *)
(* jobs, and the step receipt of the row are one transaction.  (The sidecar *)
(* is written after it; its success shows in Report.)                       *)
RollRun(p) ==
    LET r == NextRun(p) IN
    /\ proc[p].at = "roll" /\ Fenced(p) /\ Rollable(r)
    /\ segments' = segments \cup {r}
    /\ note' = IF p \in Workers THEN [note EXCEPT !.running.stepped = TRUE] ELSE note
    /\ AfterRun(p, r)
    /\ UNCHANGED scroll

\* The range was rejected because others got there first: plan afresh.
Overtaken(p) ==
    LET r == NextRun(p) IN
    /\ proc[p].at = "roll" /\ Fenced(p) /\ ~Rollable(r) /\ Frontier >= r.lo
    /\ proc' = [proc EXCEPT ![p].at = "loop", ![p].plan = {}]
    /\ UNCHANGED <<scroll, segments, note>>

\* FAULT: the backlog that the batch limit left behind is not announced.
ContinueNever(p) ==
    /\ proc[p].at = "tail"
    /\ UNCHANGED <<scroll, segments, note>>
    /\ IF p \in Workers THEN GoTo(p, "report") ELSE proc' = [proc EXCEPT ![p] = Idle]

(* _ensure_scribe_continuation: the backlog is looked at again and a        *)
(* notification left for it, in one transaction.                            *)
Continue(p) ==
    /\ proc[p].at = "tail"
    /\ note' = IF Due THEN Notified ELSE note
    /\ IF p \in Workers THEN GoTo(p, "report") ELSE proc' = [proc EXCEPT ![p] = Idle]
    /\ UNCHANGED <<scroll, segments>>

\* A worker whose steps all have their sidecars commits the terminal effect.
Report(p) ==
    /\ proc[p].at = "report" /\ NoteHeldBy(p)
    /\ note' = [note EXCEPT !.running.reported = TRUE]
    /\ GoTo(p, "finish")
    /\ UNCHANGED <<scroll, segments>>

(* The pass settles the row (WorkerPass): a reported row is finished, one   *)
(* with missing sidecars is retried.  A lost row is left alone.             *)
Settle(p) ==
    /\ proc' = [proc EXCEPT ![p] = Idle]
    /\ UNCHANGED <<scroll, segments>>
    /\ \/ proc[p].at = "finish" /\ note' = IF NoteHeldBy(p) THEN Unclaimed ELSE note
       \/ /\ proc[p].at = "report" /\ (NoteHeldBy(p) => note.running.stepped)
          /\ note' = IF NoteHeldBy(p) THEN Returned(TRUE) ELSE note

(* A statement of a worker or a caller fails, a lost lease is noticed, or a *)
(* range is rejected, and the exception is settled: the row is retried if   *)
(* it has committed steps (or the database was busy), and otherwise fails,  *)
(* which only the next event makes up for.                                  *)
Raise(p) ==
    /\ proc[p].at # "idle"
    /\ proc' = [proc EXCEPT ![p] = Idle]
    /\ UNCHANGED <<scroll, segments>>
    /\ IF ~NoteHeldBy(p) THEN UNCHANGED note
       ELSE \/ note' = Returned(TRUE)
            \/ /\ ~note.running.stepped /\ ~note.running.reported
               /\ note' = [Unclaimed EXCEPT !.failed = TRUE]

Advance(p) == \/ PlanBatch(p) \/ RollRun(p) \/ Overtaken(p)
              \/ Continue(p) \/ Report(p) \/ Settle(p)

Next ==
    \/ \E b \in Boundaries : AppendEvent(b)
    \/ \E r \in [lo : 1..Len(scroll), hi : 1..Len(scroll)] : RollByHand(r)
    \/ LeaseExpires \/ Reclaim
    \/ \E p \in Processes : Claim(p) \/ Advance(p) \/ Raise(p) \/ Crash(p)
    \/ \E p \in Callers, forced \in BOOLEAN : Call(p, forced)

Spec == Init /\ [][Next]_vars

-----------------------------------------------------------------------------
\* Correctness.

\* Shapes; a leased worker is at work, and a worker at its settlement or a
\* dead one has nothing planned.
TypeOK ==
    /\ scroll \in Seq(Boundaries)
    /\ segments \subseteq Ranges
    /\ note \in [pending : Rows \cup {NoRow}, running : Rows \cup {NoRow},
                 owner : Workers \cup {NoOne, Gone}, lease : {"none", "live", "expired"},
                 failed : BOOLEAN, merged : BOOLEAN]
    /\ proc \in [Processes -> [at : {"idle", "loop", "roll", "tail", "report", "finish"},
                               plan : SUBSET Ranges, batches : 0..MaxBatches,
                               forced : BOOLEAN, target : Nat]]
    /\ note.running = NoRow <=> note.lease = "none"
    /\ \A p \in Processes : NoteHeldBy(p) => proc[p].at # "idle"

(* Every event up to the frontier is in exactly one segment, whoever rolled *)
(* it and however many rolled at once: no gap, no overlap, nothing beyond   *)
(* the Scroll.                                                              *)
SegmentsTile ==
    /\ Frontier <= Len(scroll)
    /\ \A n \in 1..Frontier : \E s \in segments : n \in s.lo..s.hi
    /\ \A s, t \in segments : s # t => s.lo..s.hi \cap t.lo..t.hi = {}

\* No segment, and so no Card, mixes events of two security boundaries.
BoundariesKept == \A s \in segments : Uniform(s.lo, s.hi)

(* Between the unlocked read and the transaction a plan can only be         *)
(* overtaken: its next range is acceptable, or others have rolled its first *)
(* event.  The ValueError of roll_scroll_segment never ends a run.          *)
PlansOnlyOvertaken ==
    \A p \in Processes :
        proc[p].at = "roll" => Rollable(NextRun(p)) \/ Frontier >= NextRun(p).lo

(* Whoever rolls, the segments are the right ones and no run fails on them. *)
SegmentsAreExact == SegmentsTile /\ BoundariesKept /\ PlansOnlyOvertaken

(* A due backlog is announced: a notification is pending, or running and    *)
(* not yet past the look at the backlog that ends its run, unless the last  *)
(* notice failed for a reason of its own or was merged into a row that has  *)
(* reported.  The last look and the finishing of the row are separate       *)
(* transactions; events arrive in between.                                  *)
BacklogIsAnnounced ==
    Due => \/ note.pending # NoRow
           \/ note.running # NoRow /\ ~note.running.reported
           \/ note.failed \/ note.merged
=============================================================================
