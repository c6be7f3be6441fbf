------------------------------ MODULE JobQueue ------------------------------
(***************************************************************************)
(* The durable worker queue of epic-continuum: the tables queue_jobs and   *)
(* queue_job_fairness, and the transactions that worker passes, producers  *)
(* and the maintenance sweeps run on them (core/workers.py, enqueue_job in *)
(* core/store.py, the queue triggers and indexes of core/schema.sql).      *)
(*                                                                         *)
(* The two tables are one value, db.  A transaction that SQLite runs under *)
(* BEGIN IMMEDIATE is an operator from a value of db to a value of db, so  *)
(* that a handler that makes several updates in one transaction (reclaim   *)
(* the expired leases, then claim) is one step.  pass[w] is the memory of  *)
(* worker process w: it survives no crash, and it may be out of date with  *)
(* respect to db (the process whose lease ran out does not know it).       *)
(*                                                                         *)
(* Abstractions.  Wall-clock leases are "live" or "expired": the ownership *)
(* test (expires_at > now) and the reclaim test (expires_at <= now) are    *)
(* complementary.  created_at/rowid is the relation older, retry_order is  *)
(* the relation ahead: only the order of these counters is ever read.      *)
(* Payloads are left out.  A row that went to 'skipped' because another    *)
(* row took over its work (error_json says so) has the status              *)
(* "superseded"; a processor's own 'skipped' is, like 'succeeded', a       *)
(* "finished" row.                                                         *)
(***************************************************************************)
EXTENDS Integers, FiniteSets

CONSTANTS
    Jobs,              \* row identities of queue_jobs
    Workers,           \* worker processes, each running passes one after another
    JobSpecs,          \* the kinds of job producers enqueue
    NoKey,             \* dedupe_key IS NULL
    NoSession,         \* not a scroll_event_ingested notification
    NoOne,             \* lease_owner IS NULL
    Gone,              \* the worker id of a pass whose process has died
    NoJob,             \* no row in the hands of a process
    RolesOf,           \* the --roles filter of each worker, {} when unfiltered
    MaxPriorityBypass, \* MAX_CONSECUTIVE_PRIORITY_BYPASSES
    MaxRetryBypass,    \* MAX_CONSECUTIVE_RETRY_BYPASSES
    ReclaimLimit,      \* WORKER_EXPIRED_LEASE_RECLAIM_LIMIT
    PassLimit          \* the limit argument of run_worker_pass

Lanes == {"priority", "retry"}
Live == {"pending", "running"}
Verdicts == {"finished", "failed"}
Terminal == Verdicts \cup {"superseded"}
Statuses == {"free"} \cup Live \cup Terminal

\* A stored dedupe key is the digest of [role, job_type, raw key] (store.py):
\* two rows with one key have one role and one type.
ASSUME JobSpecAssumption ==
    /\ JobSpecs # {}
    /\ \A s \in JobSpecs : /\ DOMAIN s = {"key", "role", "type", "session", "priority", "preemptible"}
                           /\ s.priority \in Int
                           /\ s.preemptible \in BOOLEAN
    /\ \A s, t \in JobSpecs : s.key = t.key /\ s.key # NoKey => s.role = t.role /\ s.type = t.type

ASSUME QueueAssumption ==
    /\ Workers \cap {NoOne, Gone} = {} /\ NoOne # Gone
    /\ NoJob \notin Jobs
    /\ MaxPriorityBypass \in Nat /\ MaxRetryBypass \in Nat
    /\ ReclaimLimit \in Nat /\ PassLimit \in Nat \ {0}

\* A table has finitely many rows.
ASSUME RowsAssumption == IsFiniteSet(Jobs)

VARIABLES
    db,    \* the tables queue_jobs and queue_job_fairness
    pass   \* the memory of each worker process

vars == <<db, pass>>

-----------------------------------------------------------------------------
\* Reading the tables.

Key(q, j) == q.spec[j].key
Role(q, j) == q.spec[j].role

SameKey(q, i, j) == Key(q, i) = Key(q, j) /\ Key(q, i) # NoKey

\* i is the pending row that carries the same dedupe key as j.
Successor(q, j, i) == i # j /\ q.status[i] = "pending" /\ SameKey(q, i, j)

HasSuccessor(q, j) == \E i \in Jobs : Successor(q, j, i)

\* The row is running under w and its lease has not run out.
Owned(q, w, j) == q.status[j] = "running" /\ q.owner[j] = w /\ q.lease[j] = "live"

InRoles(q, w, j) == RolesOf[w] = {} \/ Role(q, j) \in RolesOf[w]

Expired(q, w) == {j \in Jobs : q.status[j] = "running" /\ q.lease[j] = "expired" /\ InRoles(q, w, j)}

\* FAULT: claims a row while another row of its key is running.
EligibleIgnoringKeys(q, w, deferred) ==
    {j \in Jobs \ deferred : q.status[j] = "pending" /\ InRoles(q, w, j)}

\* Pending rows w may claim: not deferred by this pass, and no running row with
\* the same key.
Eligible(q, w, deferred) ==
    {j \in Jobs \ deferred : /\ q.status[j] = "pending"
                             /\ InRoles(q, w, j)
                             /\ \A i \in Jobs : q.status[i] = "running" => ~SameKey(q, i, j)}

\* The heads of the three orders; each is a set of at most one row.
Best(q, F) ==
    {j \in F : \A i \in F \ {j} :
        \/ q.spec[j].priority < q.spec[i].priority
        \/ q.spec[j].priority = q.spec[i].priority /\ j \in q.older[i]}

Oldest(q, F) == {j \in F : \A i \in F \ {j} : j \in q.older[i]}

RetryHead(q, R) == {j \in R : \A i \in R \ {j} : j \in q.ahead[i]}

\* FAULT: the count of the oldest row is never consulted.
FreshPickIgnoringBypass(q, F) == Best(q, F)

\* The fresh row a claim takes: the best one, unless the oldest has been passed
\* over too often.
FreshPick(q, F) ==
    IF \E o \in Oldest(q, F) \ Best(q, F) : q.bypass["priority"][o] >= MaxPriorityBypass
    THEN Oldest(q, F)
    ELSE Best(q, F)

Pick(q, F, R) ==
    IF F = {} \/ \E r \in RetryHead(q, R) : q.bypass["retry"][r] >= MaxRetryBypass
    THEN RetryHead(q, R)
    ELSE FreshPick(q, F)

-----------------------------------------------------------------------------
\* Writing the tables.

InLane(lane, j, status, retry) == status[j] = "pending" /\ (lane = "retry" <=> j \in retry)

(* An UPDATE of the rows in DOMAIN st: each takes its new status and loses  *)
(* its lease columns.  Rows in leaves give up retry_pending, rows in joins  *)
(* get new retry orders, after all others and among themselves as in rank.  *)
(* The trigger purge_queue_job_fairness_after_job_update clears the counts  *)
(* of updated rows that left the lane they were counted in.                 *)
Updated(q, st, joins, leaves, rank) ==
    LET status == [j \in Jobs |-> IF j \in DOMAIN st THEN st[j] ELSE q.status[j]]
        kept == q.retry \ (leaves \cup joins)
        retry == kept \cup joins
    IN  [q EXCEPT
          !.status = status,
          !.owner = [j \in Jobs |-> IF j \in DOMAIN st THEN NoOne ELSE q.owner[j]],
          !.lease = [j \in Jobs |-> IF j \in DOMAIN st THEN "none" ELSE q.lease[j]],
          !.retry = retry,
          !.ahead = [j \in Jobs |-> IF j \in joins
                                    THEN kept \cup {i \in joins : rank[i] < rank[j]}
                                    ELSE IF j \in kept THEN q.ahead[j] \cap kept ELSE {}],
          !.bypass = [l \in Lanes |-> [j \in Jobs |->
                        IF j \in DOMAIN st \cup joins \cup leaves /\ ~InLane(l, j, status, retry)
                        THEN 0 ELSE q.bypass[l][j]]]]

\* The orders in which the rows of a batch may receive their new retry orders.
Ranks(batch) ==
    {r \in [batch -> 1..Cardinality(batch)] : \A i, j \in batch : r[i] = r[j] => i = j}

\* The rows that hold the retry authority of the rows in retrying once these
\* have been released: their successors where there are some.
Heirs(q, retrying) ==
    {i \in Jobs : \E j \in retrying : Successor(q, j, i) \/ (i = j /\ ~HasSuccessor(q, j))}

\* FAULT: a row goes back to pending beside its successor.
ReleasedBesideSuccessor(q, batch, doomed, retrying, rank) ==
    Updated(q, [j \in batch |-> IF j \in doomed THEN "failed" ELSE "pending"],
            Heirs(q, retrying), batch, rank)

(* The rows of batch give up their leases.  One whose key has a pending     *)
(* successor is superseded by it, and the successor inherits its retry      *)
(* authority if it carries any (it is in retrying); the others go back to   *)
(* pending.  The rows in doomed fail instead.                               *)
Released(q, batch, doomed, retrying, rank) ==
    Updated(q,
            [j \in batch |-> IF j \in doomed THEN "failed"
                             ELSE IF HasSuccessor(q, j) THEN "superseded" ELSE "pending"],
            Heirs(q, retrying), batch, rank)

\* _reclaim_expired_leases: rows that are not preemptible cannot be run again.
Preemptible(q, batch) == {j \in batch : q.spec[j].preemptible}

Reclaimed(q, batch, rank) ==
    Released(q, batch, batch \ Preemptible(q, batch), Preemptible(q, batch \cap q.retry), rank)

\* _retry_owned_job
RetriedBy(q, j, rank) == Released(q, {j}, {}, {j}, rank)

\* _finish_job
Finished(q, j, verdict) == Updated(q, [i \in {j} |-> verdict], {}, {j}, [i \in Jobs |-> 1])

AtMost(n, m) == IF n < m THEN n ELSE m

(* _claim_job, once row j of the fresh rows F and the retry rows R has been *)
(* picked: a fresh row that overtakes the oldest fresh row, or the head of  *)
(* the retry rows, leaves a mark on the row it overtook.                    *)
Claimed(q, w, j, F, R) ==
    LET passedOver == [priority |-> IF j \in F THEN Oldest(q, F) \ {j} ELSE {},
                       retry |-> IF j \in F THEN RetryHead(q, R) ELSE {}]
        limit == [priority |-> MaxPriorityBypass, retry |-> MaxRetryBypass]
    IN  [q EXCEPT
          !.status[j] = "running",
          !.owner[j] = w,
          !.lease[j] = "live",
          !.bypass = [l \in Lanes |-> [i \in Jobs |->
                        IF i = j THEN 0
                        ELSE IF i \in passedOver[l] THEN AtMost(q.bypass[l][i] + 1, limit[l])
                        ELSE q.bypass[l][i]]]]

-----------------------------------------------------------------------------
\* Producers and maintenance.

Idle == [at |-> "idle", job |-> NoJob, deferred |-> {}, left |-> 0]

BlankSpec == CHOOSE s \in JobSpecs : TRUE   \* what a free row holds; never read

Init ==
    /\ db = [status |-> [j \in Jobs |-> "free"],
             spec |-> [j \in Jobs |-> BlankSpec],
             owner |-> [j \in Jobs |-> NoOne],
             lease |-> [j \in Jobs |-> "none"],
             older |-> [j \in Jobs |-> {}],
             retry |-> {},
             ahead |-> [j \in Jobs |-> {}],
             bypass |-> [l \in Lanes |-> [j \in Jobs |-> 0]],
             recoverable |-> {}]
    /\ pass = [w \in Workers |-> Idle]

(* enqueue_job: a pending row with the same key is reused (and, when the    *)
(* caller says replace_pending, takes the new priority, preemptibility and  *)
(* payload but keeps its retry authority); otherwise a row is inserted.     *)
Enqueue(s, replace) ==
    /\ IF \E i \in Jobs : db.status[i] = "pending" /\ s.key # NoKey /\ Key(db, i) = s.key
       THEN \E i \in Jobs :
              /\ db.status[i] = "pending" /\ Key(db, i) = s.key
              /\ db' = IF replace THEN [db EXCEPT !.spec[i] = s] ELSE db
       ELSE \E j \in Jobs :
              /\ db.status[j] = "free"
              /\ db' = [db EXCEPT !.status[j] = "pending",
                                  !.spec[j] = s,
                                  !.older[j] = {i \in Jobs : db.status[i] # "free"}]
    /\ UNCHANGED pass

(* Not in the code, which keeps terminal rows for ever: a terminal row that *)
(* no operation can touch again makes room for a new one, so that a finite  *)
(* set Jobs carries an unending stream of work.                             *)
Forget(j) ==
    /\ db.status[j] \in Terminal
    /\ \A w \in Workers : pass[w].job # j /\ j \notin pass[w].deferred
    /\ db' = [db EXCEPT !.status[j] = "free",
                        !.spec[j] = BlankSpec,
                        !.older = [i \in Jobs |-> IF i = j THEN {} ELSE db.older[i] \ {j}],
                        !.recoverable = db.recoverable \ {j}]
    /\ UNCHANGED pass

\* FAULT: the newest notification is not spared.
RedundantAll ==
    {j \in Jobs : db.status[j] = "pending" /\ j \notin db.retry /\ db.spec[j].session # NoSession}

\* Pending scroll notifications, other than retries, of a session that has a newer one.
Redundant ==
    LET notes == {j \in Jobs : /\ db.status[j] = "pending" /\ j \notin db.retry
                               /\ db.spec[j].session # NoSession}
    IN  {j \in notes : \E i \in notes : /\ db.spec[i].session = db.spec[j].session
                                        /\ j \in db.older[i]}

\* reconcile_worker_backlog: skip a bounded batch of redundant notifications.
ReconcileBacklog ==
    \E batch \in SUBSET Redundant \ {{}} :
        /\ db' = Updated(db, [j \in batch |-> "superseded"], {}, batch, [i \in Jobs |-> 1])
        /\ UNCHANGED pass

\* FAULT: only pending rows count as live.
RecoverFailedIgnoringRunning(j) ==
    /\ j \in db.recoverable
    /\ LET collides == \E i \in Jobs \ {j} : db.status[i] = "pending" /\ SameKey(db, i, j)
           spent == [db EXCEPT !.recoverable = db.recoverable \ {j}]
       IN  db' = IF collides THEN spent
                 ELSE Updated(spent, [i \in {j} |-> "pending"], {j}, {}, [i \in Jobs |-> 1])
    /\ UNCHANGED pass

(* _recover_failed_post_phase_sidecar_jobs, for one candidate: a failed row *)
(* with an exact post-commit authority is requeued as a retry, unless a     *)
(* live row has its key; either way the authority is spent.                 *)
RecoverFailed(j) ==
    /\ j \in db.recoverable
    /\ LET collides == \E i \in Jobs \ {j} : db.status[i] \in Live /\ SameKey(db, i, j)
           spent == [db EXCEPT !.recoverable = db.recoverable \ {j}]
       IN  db' = IF collides THEN spent
                 ELSE Updated(spent, [i \in {j} |-> "pending"], {j}, {}, [i \in Jobs |-> 1])
    /\ UNCHANGED pass

\* The wall clock passes lease_expires_at before the renewer thread runs again.
LeaseExpires(j) ==
    /\ db.status[j] = "running" /\ db.lease[j] = "live"
    /\ db' = [db EXCEPT !.lease[j] = "expired"]
    /\ UNCHANGED pass

-----------------------------------------------------------------------------
\* Worker passes (_run_worker_pass_with_sidecar_intent_budget).

(* _claim_job on the table value q: the end of the transaction, and of the  *)
(* pass when nothing is eligible.                                           *)
ClaimIn(w, q, deferred, left) ==
    LET eligible == Eligible(q, w, deferred)
        F == eligible \ q.retry
        R == eligible \cap q.retry
    IN  \/ /\ eligible = {}
           /\ db' = q
           /\ pass' = [pass EXCEPT ![w] = Idle]
        \/ \E j \in Pick(q, F, R) :
           /\ db' = Claimed(q, w, j, F, R)
           /\ pass' = [pass EXCEPT ![w] = [at |-> "working", job |-> j,
                                           deferred |-> deferred, left |-> left - 1]]

\* FAULT: expired leases are reclaimed only when nothing else can be claimed.
StartPassLazily(w) ==
    /\ pass[w].at = "idle"
    /\ LET batch == IF Eligible(db, w, {}) = {} THEN Expired(db, w) ELSE {}
       IN  \E rank \in Ranks(Heirs(db, Preemptible(db, batch \cap db.retry))) :
             ClaimIn(w, Reclaimed(db, batch, rank), {}, PassLimit)

(* The first claim of a pass reclaims expired leases in the same            *)
(* transaction: a batch of at most ReclaimLimit of them.                    *)
StartPass(w) ==
    /\ pass[w].at = "idle"
    /\ \E batch \in SUBSET Expired(db, w) :
        /\ Cardinality(batch) = AtMost(ReclaimLimit, Cardinality(Expired(db, w)))
        /\ \E rank \in Ranks(Heirs(db, Preemptible(db, batch \cap db.retry))) :
             ClaimIn(w, Reclaimed(db, batch, rank), {}, PassLimit)

ClaimNext(w) ==
    /\ pass[w].at = "between"
    /\ ClaimIn(w, db, pass[w].deferred, pass[w].left)

\* FAULT: the pass never stops.
GoesOnForever(w, defer) ==
    pass' = [pass EXCEPT ![w] = [at |-> "between", job |-> NoJob,
                                 deferred |-> pass[w].deferred \cup defer, left |-> pass[w].left]]

\* The pass is done with its row; it stops when its limit is used up.
GoesOn(w, defer) ==
    pass' = [pass EXCEPT ![w] =
               IF pass[w].left = 0 THEN Idle
               ELSE [at |-> "between", job |-> NoJob,
                     deferred |-> pass[w].deferred \cup defer, left |-> pass[w].left]]

\* FAULT: the row is settled by its id alone.
FinishUnfenced(w, verdict) ==
    /\ pass[w].at = "working"
    /\ db' = Finished(db, pass[w].job, verdict)
    /\ GoesOn(w, {})

\* _finish_owned_job.  A failure may leave an exact post-commit authority behind.
Finish(w, verdict) ==
    LET j == pass[w].job IN
    /\ pass[w].at = "working" /\ Owned(db, w, j)
    /\ \E spare \in SUBSET (IF verdict = "failed" THEN {j} ELSE {}) :
          db' = [Finished(db, j, verdict) EXCEPT !.recoverable = db.recoverable \cup spare]
    /\ GoesOn(w, {})

(* _retry_owned_job: the row, or the pending row that inherits its work,    *)
(* becomes a retry and is left alone for the rest of the pass.  After a     *)
(* busy database the pass is given up.                                      *)
Retry(w, busy) ==
    LET j == pass[w].job
        heirs == Heirs(db, {j})
    IN  /\ pass[w].at = "working" /\ Owned(db, w, j)
        /\ \E rank \in Ranks(heirs) : db' = RetriedBy(db, j, rank)
        /\ IF busy THEN pass' = [pass EXCEPT ![w] = Idle] ELSE GoesOn(w, heirs)

(* The pass settles a row whose lease ran out meanwhile: every owned update *)
(* misses, and the row is left to whoever has it now.                       *)
LeaseLost(w, busy) ==
    LET j == pass[w].job IN
    /\ pass[w].at = "working" /\ ~Owned(db, w, j)
    /\ UNCHANGED db
    /\ IF busy THEN pass' = [pass EXCEPT ![w] = Idle]
       ELSE GoesOn(w, {i \in {j} : db.status[i] = "pending"})

\* The process dies.  Its rows keep a worker id that no pass will ever use again.
Crash(w) ==
    /\ pass[w].at # "idle"
    /\ pass' = [pass EXCEPT ![w] = Idle]
    /\ db' = [db EXCEPT !.owner = [j \in Jobs |-> IF db.owner[j] = w THEN Gone ELSE db.owner[j]]]

Settle(w) ==
    \/ \E verdict \in Verdicts : Finish(w, verdict)
    \/ \E busy \in BOOLEAN : Retry(w, busy) \/ LeaseLost(w, busy)

Work(w) == StartPass(w) \/ ClaimNext(w) \/ Settle(w)

Next ==
    \/ \E s \in JobSpecs, replace \in BOOLEAN : Enqueue(s, replace)
    \/ \E j \in Jobs : Forget(j) \/ RecoverFailed(j) \/ LeaseExpires(j)
    \/ ReconcileBacklog
    \/ \E w \in Workers : Work(w) \/ Crash(w)

Spec == Init /\ [][Next]_vars

(* Liveness is asked of worker services that keep running passes            *)
(* (serve_workers under a supervisor) whose processors return, and of a     *)
(* clock that advances: the lease of a dead process runs out.               *)
LiveSpec ==
    /\ Spec
    /\ \A w \in Workers : WF_vars(Work(w))
    /\ \A j \in Jobs : WF_vars(db.owner[j] = Gone /\ LeaseExpires(j))

-----------------------------------------------------------------------------
\* Correctness.

Tables == [status : [Jobs -> Statuses], spec : [Jobs -> JobSpecs],
           owner : [Jobs -> Workers \cup {NoOne, Gone}],
           lease : [Jobs -> {"none", "live", "expired"}],
           older : [Jobs -> SUBSET Jobs], retry : SUBSET Jobs,
           ahead : [Jobs -> SUBSET Jobs], bypass : [Lanes -> [Jobs -> Nat]],
           recoverable : SUBSET Jobs]

Memory == [at : {"idle", "between", "working"}, job : Jobs \cup {NoJob},
           deferred : SUBSET Jobs, left : 0..PassLimit]

\* The tables and the workers' memories have their declared shapes; a pass has
\* a row in hand exactly while it works, and goes on only below its limit.
TypeOK ==
    /\ db \in Tables
    /\ pass \in [Workers -> Memory]
    /\ \A w \in Workers : /\ pass[w].at = "working" <=> pass[w].job # NoJob
                          /\ pass[w].at = "between" => pass[w].left > 0

(* Two workers never run jobs of one dedupe key at once, whatever mixture   *)
(* of claims, reclaims, retries and recoveries led here: enqueue_job only   *)
(* guards pending rows, so the rest is up to the claim and to the           *)
(* transactions that put a running or failed row back.                      *)
OneRunningPerKey ==
    \A i, j \in Jobs :
        i # j /\ db.status[i] = "running" /\ db.status[j] = "running" => ~SameKey(db, i, j)

(* The unique index idx_queue_pending_dedupe_key is never hit by an UPDATE: *)
(* no transaction that puts a row back to pending meets another pending row *)
(* with its key (it would abort the worker's settlement).                   *)
OnePendingPerKey ==
    \A i, j \in Jobs :
        i # j /\ db.status[i] = "pending" /\ db.status[j] = "pending" => ~SameKey(db, i, j)

(* A pending row that holds retry authority is never blocked by a running   *)
(* row of its key: of a key's two live rows only the running one may be a   *)
(* retry, so a transfer never meets a successor with retry authority of its *)
(* own, whose place in the retry order it would take away.                  *)
PendingRetryUnblocked ==
    \A i, j \in Jobs :
        db.status[i] = "pending" /\ i \in db.retry /\ db.status[j] = "running" => ~SameKey(db, i, j)

(* Dedupe keys exclude one another's work and settlements never clash.      *)
KeysExclusive == OneRunningPerKey /\ OnePendingPerKey /\ PendingRetryUnblocked

(* A row is superseded only while another live row carries its work (its *)
(* key or its session), and retry authority moves with it: reclaiming a     *)
(* lease, settling a retry or reconciling the backlog loses no work.        *)
WorkIsCarriedOn ==
    [][\A j \in Jobs :
         db.status[j] # "superseded" /\ db'.status[j] = "superseded" =>
            \E i \in Jobs :
               /\ i # j /\ db'.status[i] \in Live
               /\ \/ SameKey(db', i, j)
                  \/ db'.spec[j].session # NoSession /\ db'.spec[i].session = db'.spec[j].session
               /\ j \in db.retry => i \in db'.retry]_vars

(* A verdict is only given by the holder of a live lease; the one exception *)
(* is the failure of an expired row that may not be run again.              *)
VerdictByHolder ==
    [][\A j \in Jobs :
         db.status[j] # db'.status[j] /\ db'.status[j] \in Verdicts =>
            \/ \E w \in Workers : pass[w].job = j /\ Owned(db, w, j)
            \/ /\ db'.status[j] = "failed"
               /\ db.lease[j] = "expired" /\ ~db.spec[j].preemptible]_vars

(* No starvation: while producers may enqueue more urgent work for ever,    *)
(* and provided leases stop expiring, a pending row, fresh or retry, is     *)
(* eventually claimed or superseded.                                        *)
ClaimedInTheEnd(j) ==
    (<>[][\A i \in Jobs : ~LeaseExpires(i)]_vars)
        => (db.status[j] = "pending" ~> db.status[j] # "pending")

(* The work of a dead process does not stay leased: its row leaves the dead *)
(* process's hands.                                                         *)
ReclaimedInTheEnd(j) == db.owner[j] = Gone ~> db.owner[j] # Gone
=============================================================================
