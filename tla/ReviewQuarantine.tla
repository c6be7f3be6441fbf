-------------------------- MODULE ReviewQuarantine --------------------------
(***************************************************************************)
(* Review jobs that cannot be upgraded are frozen behind a replacement      *)
(* (quarantine_legacy_review_job in src/continuum/core/review_bridge.py).   *)
(* The integrity report of a job is a function of its tree and its catalog  *)
(* rows; a committed receipt suppresses exactly the findings it accepted,   *)
(* as long as tree and rows are what it froze.  Other callers, who looked   *)
(* before the freeze, reviewers, and deaths go on around it.                *)
(*                                                                         *)
(* Abstractions.  A digest is the value it digests.  The jobs have one      *)
(* subject; automated runs, ingests and superseding starts are module       *)
(* ReviewAttempts'.  All unexpected entries of a tree count alike, and the  *)
(* only temporary files that matter are those a death leaves behind.        *)
(***************************************************************************)
EXTENDS Naturals, Sequences, FiniteSets, FiniteSetsExt

CONSTANTS Jobs,         \* review jobs: numbers, locks are taken in their order
          Shapes,       \* Shapes[j]: what job j may have been left as
          Callers,
          Others,       \* bound: callers that do not preview, but run the other operations
          Unlocked,     \* holder of a free lock
          MaxStarts,    \* bound: attempts that are started
          MaxDeaths     \* bound: callers that die

VARIABLES tree,     \* the directory of a job, without the quarantine receipt
          rows,     \* its artifacts rows, without that of the quarantine
          receipt,  \* the quarantine receipt in the catalog
          filed,    \* jobs whose receipts/legacy-quarantine.json is there
          lock,     \* operation_lock(job)
          call,     \* what each caller is doing
          deaths

vars == <<tree, rows, receipt, filed, lock, call, deaths>>

\* review_failed is the only failure that a browser attempt ends with.
Tree(st, attempts, cur, hash, stray) ==
    [st |-> st, count |-> Len(attempts), cur |-> cur, hash |-> hash, attempts |-> attempts,
     receipts |-> {}, handoffs |-> {}, phases |-> {}, answers |-> {}, stray |-> stray]

\* Attempts of an earlier release carry neither schema nor job id.
Old(st) == [bound |-> FALSE, st |-> st]
Reserved == [bound |-> TRUE, st |-> "reserved"]
Final == {"superseded", "failed"}

Left(shape) ==
    CASE shape = "clean"    -> Tree("prepared", <<>>, 0, "none", {})
      [] shape = "littered" -> Tree("prepared", <<>>, 0, "none", {"file"})
      [] shape = "active"   -> Tree("pending", <<Old("reserved")>>, 1, "right", {})
      [] shape = "single"   -> Tree("failed", <<Old("failed")>>, 0, "none", {})
      [] shape = "failed"   -> Tree("failed", <<Old("superseded"), Old("failed")>>, 0, "none", {})

NoEvidence == [tree |-> Left("clean"), rows |-> {}, found |-> {}]
NoReceipt == [exact |-> FALSE, behind |-> 0, saw |-> NoEvidence]
Idle == [at |-> "idle", kind |-> "none", job |-> 0, behind |-> 0, exact |-> FALSE,
         expect |-> NoEvidence, saw |-> NoEvidence]

Init ==
    /\ tree \in {t \in [Jobs -> {Left(s) : s \in UNION {Shapes[j] : j \in Jobs}}] :
                     \A j \in Jobs : \E s \in Shapes[j] : t[j] = Left(s)}
    /\ rows = [j \in Jobs |-> {}]
    /\ receipt = [j \in Jobs |-> NoReceipt] /\ filed = {}
    /\ lock = [j \in Jobs |-> Unlocked]
    /\ call = [c \in Callers |-> Idle] /\ deaths = 0

----------------------------------------------------------------------------
(* review_bridge_integrity_report of one job: what it finds in a tree and    *)
(* its rows, as <<check, reason, about>>.                                   *)

Malformed(reason, what) == <<"malformed", reason, <<what, 0>>>>
BadAttempt(reason, n) == <<"attempt", reason, <<"attempt", n>>>>
Mismatch(reason, what, n) == <<"hash", reason, <<what, n>>>>
When(condition, finding) == IF condition THEN {finding} ELSE {}

Numbers(t) == DOMAIN t.attempts

\* _review_status_lifecycle_error
CountFitsState(t) == (t.st = "failed" => t.count > 0) /\ (t.st = "prepared" => t.count = 0)
Lifecycle(t) ==
    /\ t.count > 0 <=> t.hash # "none"
    /\ t.st = "pending" => t.cur # 0
    /\ t.cur # 0 => t.st = "pending" /\ t.cur = t.count
    /\ CountFitsState(t)
LifecycleFindings(t) == When(~Lifecycle(t), Malformed("invalid_status_lifecycle", "status"))

AttemptFindings(t) ==
    {BadAttempt("attempt_job_binding_mismatch", n) : n \in {m \in Numbers(t) : ~t.attempts[m].bound}}
    \cup When(Len(t.attempts) # t.count, BadAttempt("attempt_count_mismatch", 0))
    \cup When(Numbers(t) # 1 .. t.count, BadAttempt("attempt_sequence_not_contiguous", 0))

CurrentFindings(t) ==
    IF t.cur = 0 THEN {}
    ELSE When(~(/\ t.cur \in Numbers(t) /\ t.cur = t.count
                /\ t.attempts[t.cur] = Reserved),
              BadAttempt("current_attempt_identity_invalid", 0))
         \cup When(t.hash # "right", Mismatch("browser_attempt_uri", "attempt", 0))

LastFindings(t) ==
    IF t.hash = "none" THEN {}
    ELSE When(~(t.count \in Numbers(t) /\ t.attempts[t.count].bound),
              BadAttempt("last_attempt_identity_invalid", 0))
         \cup When(t.hash # "right", Mismatch("last_attempt_uri", "attempt", 0))

ReceiptFindings(t, r) ==
    {BadAttempt("attempt_receipt_identity_or_lifecycle_invalid", n) :
         n \in {m \in t.receipts : m \notin Numbers(t) \/ t.attempts[m].st \notin Final}}
    \cup {Mismatch("attempt_receipt_missing_immutable_artifact_binding", "receipt", n) :
              n \in {m \in t.receipts : <<"receipt", m, "none">> \notin r}}
    \cup When(t.receipts # Numbers(t) \ {t.cur}, BadAttempt("attempt_receipt_sequence_mismatch", 0))

PhaseRows(r) == {p \in r : p[1] \in {"start", "terminal"}}
PhaseFindings(t, r) ==
    {Mismatch("phase_envelope_invalid", p[1], p[2]) : p \in PhaseRows(r) \ t.phases}
    \cup {Mismatch("phase_file_has_no_exact_catalog_authority", p[1], p[2]) :
              p \in t.phases \ PhaseRows(r)}

\* The latest handoff is the one that the latest reservation wrote.
HandoffFindings(t, r) ==
    LET starts == {p[2] : p \in {q \in PhaseRows(r) \cap t.phases : q[1] = "start"}} IN
    When(starts # {} /\ Max({0} \cup t.handoffs) # Max({0} \cup starts),
              Mismatch("latest_browser_handoff_phase_binding_invalid", "handoff", 0))

\* _review_job_catalog_and_tree_issues: entries of the tree, evidence that nothing
\* binds, and rows that are one too many or too few.
TreeIssues(t) == {Malformed("unexpected_job_tree_file", s) : s \in t.stray}
UnboundEvidence(t) ==
    {<<"malformed", "unbound_dynamic_job_evidence", <<"response", n>>>> : n \in t.answers \ Numbers(t)}

ExpectedRows(t) == {<<"handoff", n, "none">> : n \in t.handoffs}
UnregisteredFiles(t, r) ==
    {<<"malformed", "required_job_artifact_binding_count_mismatch", <<p[1], p[2]>>>> :
         p \in ExpectedRows(t) \ r}
RowIssues(t, r) ==
    {<<"malformed", "job_artifact_target_missing", <<p[1], p[2]>>>> :
         p \in {q \in r : \/ q[1] = "handoff" /\ q[2] \notin t.handoffs
                          \/ q[1] = "receipt" /\ q[2] \notin t.receipts}}

Found(t, r) ==
    LifecycleFindings(t) \cup AttemptFindings(t) \cup CurrentFindings(t) \cup LastFindings(t)
    \cup ReceiptFindings(t, r) \cup PhaseFindings(t, r) \cup HandoffFindings(t, r)
    \cup TreeIssues(t) \cup UnboundEvidence(t) \cup UnregisteredFiles(t, r) \cup RowIssues(t, r)

Finding(j) == Found(tree[j], rows[j])
Evidence(j) == [tree |-> tree[j], rows |-> rows[j], found |-> Finding(j)]
Frozen(j) == receipt[j] # NoReceipt

\* _validated_legacy_quarantine_receipt
Undrifted(j) == tree[j] = receipt[j].saw.tree /\ rows[j] = receipt[j].saw.rows

\* The report of a job is clean; what a valid receipt accepted is suppressed.
Ok(j) == IF Frozen(j) THEN Undrifted(j) /\ j \in filed /\ Finding(j) = receipt[j].saw.found
         ELSE j \notin filed /\ Finding(j) = {}

\* _assert_review_job_not_quarantined
Open(j) == ~Frozen(j) /\ j \notin filed

----------------------------------------------------------------------------
(* What may be frozen.                                                       *)

NoHistory(j) == tree[j].receipts = {} /\ tree[j].phases = {}
                /\ \A p \in rows[j] : p[1] \notin {"start", "terminal", "receipt"}

\* _legacy_quarantine_exact_active_findings
ActiveFindings == {BadAttempt("attempt_job_binding_mismatch", 1),
                   BadAttempt("current_attempt_identity_invalid", 0),
                   BadAttempt("last_attempt_identity_invalid", 0)}
ActiveLegacy(j) ==
    LET t == tree[j] IN
    /\ t.st = "pending" /\ t.count = 1 /\ t.cur = 1 /\ t.hash = "right"
    /\ t.attempts = <<Old("reserved")>> /\ Lifecycle(t) /\ NoHistory(j)
    /\ Finding(j) = ActiveFindings

\* FAULT: a single attempt is as good as two.
FailedOnce(j) ==
    LET t == tree[j] IN
    /\ t.st = "failed" /\ t.count >= 1 /\ t.cur = 0 /\ t.hash = "none" /\ NoHistory(j)
    /\ \A n \in Numbers(t) : ~t.attempts[n].bound
    /\ Malformed("invalid_status_lifecycle", "status") \in Finding(j)

\* _legacy_quarantine_exact_findings
FailedFindings(t) == {BadAttempt("attempt_job_binding_mismatch", n) : n \in Numbers(t)}
                       \cup {BadAttempt("attempt_receipt_sequence_mismatch", 0),
                             Malformed("invalid_status_lifecycle", "status")}
FailedLegacy(j) ==
    LET t == tree[j] IN
    /\ t.st = "failed" /\ t.count >= 2 /\ t.cur = 0 /\ t.hash = "none"
    /\ Len(t.attempts) = t.count
    /\ \A n \in Numbers(t) : t.attempts[n] = Old(IF n = t.count THEN "failed" ELSE "superseded")
    /\ Lifecycle([t EXCEPT !.hash = "right"]) /\ NoHistory(j)
    /\ Finding(j) = FailedFindings(t)

\* _operator_authorized_exact_quarantine_findings
ExactReasons == {"invalid_status_lifecycle", "unexpected_job_tree_file",
                 "attempt_job_binding_mismatch", "attempt_receipt_sequence_mismatch"}
Authorizable(j) == Finding(j) # {} /\ \A f \in Finding(j) : f[2] \in ExactReasons

Acceptable(j, exact) ==
    Finding(j) # {} /\ (IF exact THEN Authorizable(j) ELSE ActiveLegacy(j) \/ FailedLegacy(j))

\* upgrade_review_job_integrity: the one attempt that it binds.
Upgradable(t) ==
    /\ ~(Lifecycle(t) /\ t.receipts = Numbers(t) \ {t.cur})
    /\ t.count = 1 /\ t.cur = 0 /\ Numbers(t) = {1} /\ t.receipts = {}
    /\ t.attempts[1].st = "failed" /\ t.st = "failed"

----------------------------------------------------------------------------
(* Callers.  Each looks before it takes its locks.                           *)

Goto(c, at) == call' = [call EXCEPT ![c].at = at]
Held(c) == {j \in Jobs : lock[j] = c}
Release(c) == lock' = [j \in Jobs |-> IF lock[j] = c THEN Unlocked ELSE lock[j]]
Return(c) == call' = [call EXCEPT ![c] = Idle] /\ Release(c)
Mutators == {"handoff", "start", "upgrade"}
Needs(c) == IF call[c].kind = "quarantine" THEN {call[c].job, call[c].behind} ELSE {call[c].job}

\* The dry run shows the operator what an exact apply would freeze.
Preview(c, j, r) ==
    /\ c \notin Others /\ call[c] = Idle /\ j # r /\ Open(r) /\ Ok(r) /\ ~Frozen(j)
    /\ Acceptable(j, TRUE)
    /\ call' = [call EXCEPT ![c].at = "previewed", ![c].job = j, ![c].behind = r,
                            ![c].exact = TRUE, ![c].expect = Evidence(j)]
    /\ UNCHANGED <<tree, rows, receipt, filed, lock, deaths>>

\* The operator applies what the preview showed, or asks for a legacy shape.
BeginApply(c) ==
    /\ call[c].at = "previewed" /\ Open(call[c].behind) /\ Ok(call[c].behind)
    /\ call' = [call EXCEPT ![c].at = "lock", ![c].kind = "quarantine"]
    /\ UNCHANGED <<tree, rows, receipt, filed, lock, deaths>>

BeginLegacy(c, j, r) ==
    /\ call[c] = Idle /\ j # r /\ Open(r) /\ Ok(r)
    /\ call' = [call EXCEPT ![c].at = "lock", ![c].kind = "quarantine", ![c].job = j,
                            ![c].behind = r, ![c].exact = receipt[j].exact]
    /\ UNCHANGED <<tree, rows, receipt, filed, lock, deaths>>

\* review_browser_attempt_start, run_review_job, upgrade_review_job_integrity: the
\* job is not quarantined.  They do not ask again under the lock.
BeginChange(c, kind, j) ==
    /\ c \in Others /\ call[c] = Idle /\ Open(j)
    /\ call' = [call EXCEPT ![c].at = "lock", ![c].kind = kind, ![c].job = j]
    /\ UNCHANGED <<tree, rows, receipt, filed, lock, deaths>>

TakeLock(c) ==
    /\ call[c].at = "lock"
    /\ LET j == Min(Needs(c) \ Held(c)) IN
       /\ lock[j] = Unlocked /\ lock' = [lock EXCEPT ![j] = c]
       /\ IF Needs(c) \subseteq Held(c) \cup {j} THEN Goto(c, "locked") ELSE UNCHANGED call
    /\ UNCHANGED <<tree, rows, receipt, filed, deaths>>

----------------------------------------------------------------------------
(* quarantine_legacy_review_job under the locks.                             *)

\* FAULT: whatever digests the operator names.
Unbound(c, evidence) == TRUE

Expected(c, evidence) == call[c].expect \in {NoEvidence, evidence}

\* A first freeze: the evidence that the receipt will bind.
Freeze(c) ==
    LET j == call[c].job IN
    /\ call[c].kind = "quarantine" /\ call[c].at = "locked"
    /\ Open(call[c].behind) /\ Ok(call[c].behind)
    /\ ~Frozen(j) /\ j \notin filed
    /\ Acceptable(j, call[c].exact) /\ Expected(c, Evidence(j))
    /\ call' = [call EXCEPT ![c].saw = Evidence(j), ![c].at = "commit"]
    /\ UNCHANGED <<tree, rows, receipt, filed, lock, deaths>>

\* FAULT: the transaction does not look again.
CommitUnchecked(c) ==
    LET j == call[c].job IN
    /\ call[c].at = "commit"
    /\ receipt' = [receipt EXCEPT ![j] = [exact |-> call[c].exact, behind |-> call[c].behind,
                                          saw |-> call[c].saw]]
    /\ Goto(c, "write")
    /\ UNCHANGED <<tree, rows, filed, lock, deaths>>

Commit(c) ==
    LET j == call[c].job IN
    /\ call[c].at = "commit"
    /\ Evidence(j) = call[c].saw /\ Acceptable(j, call[c].exact) /\ Ok(call[c].behind)
    /\ receipt' = [receipt EXCEPT ![j] = [exact |-> call[c].exact, behind |-> call[c].behind,
                                          saw |-> call[c].saw]]
    /\ Goto(c, "write")
    /\ UNCHANGED <<tree, rows, filed, lock, deaths>>

\* FAULT: a retry that only reports.
AgainReported(c) ==
    LET j == call[c].job IN
    /\ call[c].kind = "quarantine" /\ call[c].at = "locked" /\ Frozen(j) /\ Undrifted(j)
    /\ Return(c)
    /\ UNCHANGED <<tree, rows, receipt, filed, deaths>>

\* A freeze that was committed before: its file is made up for, if it is missing.
Again(c) ==
    LET j == call[c].job IN
    /\ call[c].kind = "quarantine" /\ call[c].at = "locked"
    /\ Open(call[c].behind) /\ Ok(call[c].behind)
    /\ Frozen(j) /\ (receipt[j].exact => call[c].exact) /\ Expected(c, receipt[j].saw)
    /\ Undrifted(j) /\ receipt[j].behind = call[c].behind
    /\ IF j \in filed THEN Return(c) ELSE Goto(c, "write") /\ UNCHANGED lock
    /\ UNCHANGED <<tree, rows, receipt, filed, deaths>>

\* _confined_write_text: a temporary file in the tree, then its link.
WriteTemp(c) ==
    /\ call[c].at = "write"
    /\ tree' = [tree EXCEPT ![call[c].job].stray = @ \cup {"temp"}]
    /\ Goto(c, "link")
    /\ UNCHANGED <<rows, receipt, filed, lock, deaths>>

Link(c) ==
    /\ call[c].at = "link"
    /\ tree' = [tree EXCEPT ![call[c].job].stray = @ \ {"temp"}]
    /\ filed' = filed \cup {call[c].job}
    /\ Return(c)
    /\ UNCHANGED <<rows, receipt, deaths>>

----------------------------------------------------------------------------
(* What else is done to a job.                                               *)

Busy(c, kind, at) == call[c].kind = kind /\ call[c].at = at
Starts == UNION {{<<j, p>> : p \in {q \in rows[j] : q[1] = "start"}} : j \in Jobs}
Due(j, kind) == {p \in rows[j] : p[1] = kind} \ tree[j].phases

\* run_review_job by hand
Handoff(c) ==
    LET j == call[c].job IN
    /\ Busy(c, "handoff", "locked")
    /\ Due(j, "terminal") = {} /\ Lifecycle(tree[j]) /\ tree[j].cur = 0
    /\ tree' = [tree EXCEPT ![j].st = "handoff_ready"]
    /\ Return(c)
    /\ UNCHANGED <<rows, receipt, filed, deaths>>

\* A start commits its phase first; one that is due is completed instead.
StartPhase(c) ==
    LET j == call[c].job
        t == tree[j]
        n == t.count + 1 IN
    /\ Busy(c, "start", "locked") /\ Due(j, "terminal") = {}
    /\ Lifecycle(t)
    /\ IF Due(j, "start") # {} THEN UNCHANGED rows
       ELSE /\ t.cur = 0 /\ Len(t.attempts) = t.count /\ Cardinality(Starts) < MaxStarts
            /\ rows' = [rows EXCEPT ![j] = @ \cup {<<"start", n, t.st>>}]
    /\ Goto(c, "out")
    /\ UNCHANGED <<tree, receipt, filed, lock, deaths>>

StartOutputs(c) ==
    LET j == call[c].job
        t == tree[j] IN
    /\ Busy(c, "start", "out")
    /\ \E p \in Due(j, "start") :
           /\ t.count = p[2] - 1 /\ t.cur = 0 /\ t.st = p[3]
           /\ tree' = [tree EXCEPT ![j] = [t EXCEPT
                  !.st = "pending", !.count = p[2], !.cur = p[2], !.hash = "right",
                  !.attempts = Append(@, Reserved), !.handoffs = @ \cup {p[2]},
                  !.phases = @ \cup {p}]]
    /\ Goto(c, "rows")
    /\ UNCHANGED <<rows, receipt, filed, lock, deaths>>

StartRows(c) ==
    LET j == call[c].job IN
    /\ Busy(c, "start", "rows")
    /\ rows' = [rows EXCEPT ![j] = @ \cup {<<"handoff", n, "none">> : n \in tree[j].handoffs}]
    /\ Return(c)
    /\ UNCHANGED <<tree, receipt, filed, deaths>>

\* An upgrade binds the one attempt that there is, under the report's condition.
UpgradePhase(c) ==
    LET j == call[c].job IN
    /\ Busy(c, "upgrade", "locked")
    /\ Due(j, "terminal") # {} \/ Upgradable(tree[j])
    /\ rows' = [rows EXCEPT ![j] = @ \cup {<<"terminal", 1, "failed">>}]
    /\ Goto(c, "out")
    /\ UNCHANGED <<tree, receipt, filed, lock, deaths>>

UpgradeOutputs(c) ==
    LET j == call[c].job
        bound == [tree[j] EXCEPT !.hash = "right", !.attempts[1].bound = TRUE,
                                 !.receipts = {1}, !.phases = @ \cup {<<"terminal", 1, "failed">>}]
        due == rows[j] \cup {<<"receipt", 1, "none">>} IN
    /\ Busy(c, "upgrade", "out")
    /\ IF Found(bound, due) = {}
       THEN tree' = [tree EXCEPT ![j] = bound] /\ rows' = [rows EXCEPT ![j] = due]
       ELSE tree' = [tree EXCEPT ![j].phases = bound.phases] /\ UNCHANGED rows
    /\ Return(c)
    /\ UNCHANGED <<receipt, filed, deaths>>

\* The reviewer saves an answer where the attempt reserved it.
Answer(j) ==
    /\ tree[j].st = "pending" /\ tree[j].cur \notin tree[j].answers
    /\ tree' = [tree EXCEPT ![j].answers = @ \cup {tree[j].cur}]
    /\ UNCHANGED <<rows, receipt, filed, lock, call, deaths>>

Work(c) == Freeze(c) \/ Commit(c) \/ Again(c) \/ WriteTemp(c) \/ Link(c) \/ Handoff(c)
              \/ StartPhase(c) \/ StartOutputs(c) \/ StartRows(c) \/ UpgradePhase(c)
              \/ UpgradeOutputs(c)

\* A call that finds something else raises.
Raise(c) == /\ call[c].at \notin {"idle", "lock"} /\ ~ENABLED Work(c)
            /\ Return(c) /\ UNCHANGED <<tree, rows, receipt, filed, deaths>>

\* A death releases the locks, and may leave the temporary file of a write.
Die(c) ==
    /\ Held(c) # {} /\ deaths < MaxDeaths /\ deaths' = deaths + 1
    /\ Return(c)
    /\ \/ UNCHANGED tree
       \/ /\ call[c].at = "out" \/ Busy(c, "handoff", "locked")
          /\ tree' = [tree EXCEPT ![call[c].job].stray = @ \cup {"temp"}]
    /\ UNCHANGED <<rows, receipt, filed>>

Begin(c) ==
    \/ BeginApply(c)
    \/ \E j \in Jobs :
           \/ \E kind \in Mutators : BeginChange(c, kind, j)
           \/ \E r \in Jobs : Preview(c, j, r) \/ BeginLegacy(c, j, r)

Next ==
    \/ \E c \in Callers : Begin(c) \/ TakeLock(c) \/ Work(c) \/ Raise(c) \/ Die(c)
    \/ \E j \in Jobs : Answer(j)

Spec == Init /\ [][Next]_vars

\* Calls go on; an operator repeats a quarantine until its receipt is there.
Proceed(c) == TakeLock(c) \/ Work(c) \/ Raise(c)
Retried(j) == Frozen(j) /\ j \notin filed /\ \E c \in Callers : BeginLegacy(c, j, receipt[j].behind)
LiveSpec == Spec /\ (\A c \in Callers : WF_vars(Proceed(c))) /\ \A j \in Jobs : SF_vars(Retried(j))

----------------------------------------------------------------------------
TypeOK ==
    /\ filed \subseteq {j \in Jobs : Frozen(j)} /\ lock \in [Jobs -> Callers \cup {Unlocked}]
    /\ \A j \in Jobs : receipt[j].behind \in {0} \cup Jobs /\ tree[j].count \in 0 .. MaxStarts + 2

\* Frozen jobs never stand behind one another: among any of them one is behind a job
\* that is still open.  (quarantine_legacy_review_job refuses a quarantined replacement.)
ReplacementsEnd ==
    \A S \in SUBSET {j \in Jobs : Frozen(j)} : S # {} => \E j \in S : receipt[j].behind \notin S

\* Nothing is frozen as legacy that could have been upgraded.
LegacyIsUnupgradable ==
    \A j \in Jobs : Frozen(j) /\ ~receipt[j].exact => ~Upgradable(receipt[j].saw.tree)

\* A receipt is true when it is committed, and what it was authorised for: tree and
\* rows are what it freezes and what the operator saw, the replacement is clean and open.
BornTrue ==
    [][\A j \in Jobs : receipt'[j] # receipt[j] =>
          /\ ~Frozen(j) /\ Undrifted(j)'
          /\ Open(receipt'[j].behind) /\ Finding(receipt'[j].behind) = {}
          /\ receipt'[j].exact => \E c \in Callers : call[c].expect = receipt'[j].saw]_vars

\* "If the process stops after the catalog commit, the same receipt file is
\* reconstructed on retry" (docs/review-relay.md), as long as nothing else was added.
FileIsDue(j) ==
    /\ Frozen(j) /\ j \notin filed
    /\ Undrifted(j) \/ \E c \in Callers : call[c].at = "link" /\ call[c].job = j
Reconstructed(j) == FileIsDue(j) ~> ~FileIsDue(j)
=============================================================================
