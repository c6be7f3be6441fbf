# A verification project for epic-continuum

epic-continuum is a local memory and continuity service for agents: a Python
package (`src/src/continuum`, paths below are relative to it) over one SQLite
database in WAL mode and a directory of files, the *root*. Several processes work
on a root at once: a CLI, MCP servers, adapters of agents, worker services, and
whoever recovers what a dead process left behind. Nothing but the database's writer
lock, a few file locks and atomic renames keeps them apart, and a process may die
between any two of its transactions.

This directory holds TLA+ modules translated from that code, configurations for
TLC, and proofs for TLAPS. `PROJECT.json` lists the runs, the definition-to-source
map, the hazards, the theorems, and, for every checked property, a seeded fault
("FAULT:" operators in the modules) that makes TLC find it violated.

    tlc -workers 2 -config JobQueue_races.cfg MCJobQueue.tla
    tlapm JobQueue_proofs.tla

Contents: 1 inventory, 2 the modules and the code, 3 what the runs show, 4 what is
proved, 5 abstractions and bounds, 6 where code and documentation disagree, and other
limits of the code, 7 what is not modelled, 8 plan.

## 1. Inventory of the system

For each part: the state it keeps, its operations, how it meets the others, what is
hard about it, and what makes it correct.

**Durable worker queue** (`core/workers.py`, `enqueue_job` in `core/store.py`,
triggers and indexes in `core/schema.sql`). State: `queue_jobs` (status, priority,
role, dedupe key, lease owner and expiry, retry order) and `queue_job_fairness`
(how often a row was passed over). Operations: enqueue (merging into a pending row
of the same key), reclaim of expired leases with a first claim, further claims,
finish, retry, skip of redundant Scribe notices, requeue of failed rows. Producers
are almost all other parts. Hard: workers claim at once, leases expire under a
worker that does not notice, rows go back to pending while a newer row of their key
waits, two priority schemes compete. Correct when one row per key runs, one per key
waits, only the holder of a live lease settles a row, no skipped row's work is lost,
nothing starves.

**Worker pass and its processors** (`core/workers.py`). State: the pass's memory
(row in hand, rows deferred, limit), receipts of committed effects in
`audit_events`. Operations: process a row in several transactions, with file work in
between; settle it from what the processor returned or raised. Hard: a crash, a lost
lease or a busy database between effect and settlement. Correct when each effect is
committed at most once and under a live lease, and what the queue reports agrees with
what was committed.

**Scribe** (`append_scroll_event`, `roll_scroll_segment` in `core/store.py`,
`roll_due_scroll_segments` in `core/workers.py`). State: the Scroll (append-only
events of a session), its segments, one notification per session in the queue. Hard:
a batch is planned without a lock; the CLI, MCP server and adapters roll by hand at
the same time; a run stops at a batch limit and must announce what it leaves. Correct
when segments tile the Scroll, none mixes security boundaries, and a due backlog is
always announced and in the end worked off.

**Typed knowledge records** (`core/knowledge_records.py`). State: records of a project
on the Scroll, read in the order of wall-clock seconds, then row id. Operation: append
with a validation of the whole history inside the transaction. Every family below
is built on it. Hard: callers prepare from what they read earlier; the clock may be
set back; all families share one bound on what can be read. Correct when the history
that was accepted is accepted again by every later reader.

* **Handoffs** (`core/coordination.py`): create, claim, renew, release, complete, by
  replaying transitions; a lease on the wall clock. Correct when at most one actor
  holds a handoff at any commit, and none is wedged.
* **Collections** (`core/coordination.py`), **temporal facts** (`core/temporal_facts.py`),
  **experience and procedures** (`core/experience.py`): chains of records that replace
  one another. Correct when no record is replaced twice and each reader gets one
  current form, also of what was known at a past instant.
* **Project index** (`core/project_knowledge.py`) and **investigations**
  (`core/investigation.py`): versions of files and assets, and records that link to
  them. Correct when the version committed last is current and exactly what depends on
  replaced versions is flagged.
* **Selected workspaces** (`core/workspaces.py`): import of capsules of shared evidence,
  variants of one origin, decisions between them. Correct when concurrent, interrupted
  and repeated imports put nothing in twice, never fork unasked, and only report success
  when the capsule is there.

**Operations** (`core/operations.py`). State, all separate files: a receipt and its
export mirror, an event log with a hash chain and its mirror, a recovery packet, a
proof pack; a row of the artifact ledger with a seal; a lock file. Operations: an
owner's guarded run (start, notes, finish, prove) and `recover_stale_operations`
(called by CLI, MCP server and other operations), which marks an operation whose
owner looks dead and publishes a sealed recovery. Hard: a crash or failing write
between any two files; a scan that reads without the lock; an owner that wakes up
late. Correct when there is one verdict, packs are bound to the present state, seals
are whole, live work is not interrupted, and repeated recovery converges.

**Writer claim** (`core/writer_claim.py`). State: a marker file naming the one runtime
(Windows, WSL, container, ...) that may write a root. Operations: the implicit claim
of a new root by its first write, the explicit command, forced transfer. Every write
connection asks first. Hard: creation races, a marker that is visible before it is
filled, a process that dies before filling it. Correct when two runtimes never write
and nobody gets a root with state that was not chosen.

**Card sidecars** (`core/store.py` 3240-9211 and 12616-13360, `core/workers.py`
7905-8350). State: a YAML file per Card (its default name, a live one once an artifact
binds the default, or a generation named after its state hash), an outbox row in the
catalog, intent files with their receipts and archive, two reservations in the catalog's
meta table that triggers turn into fences, quarantined files, one operation lock.
Operations: publication after a commit, by maintenance and by a job; reconciliation of
intents; compensation. Card writers and registrars of immutable artifacts do not take the
lock. Hard: catalog and files change in different steps, versions of a Card overtake one
another, a holder dies anywhere. Correct when a stale file is always owed, no file is
without authority, nothing authoritative is moved or overwritten, and file and catalog
agree in the end.

**Failed sidecar recovery** (`core/workers.py` 8376-10969). State: receipts of the
committed steps of a failed row, the dispositions that maintenance recorded for it.
Operation: a maintenance pass that validates the receipts of failed rows, a window at a
time, and requeues a row whose effect still stands. Hard: the windows are transactions of
their own, and cards are superseded, rows of the same key enqueued and other passes run
between them. Correct when each failure is decided once, on receipts that all hold then.

**Conflicts** (`core/workers.py` 4204-6200) and **project state**
(`core/project_state.py`, `core/store.py` 17831-24472). State: cards of checkpoints, a line
per agent, conflict groups, proofs of what superseded what. Operations: record, scan for
conflicts, dismiss or resolve a group, resolve a whole boundary, a bounded repair of
damaged cards. Hard: a scan selects without a lock, a repair plans and applies in
different transactions. Correct when an agent's authority passes only to an intact
checkpoint that names it, disputes stay until somebody decides them, and a damaged card
does not block its agents for ever.

**Storage tiering** (`core/workers.py` 6203-7306) with `ingest_file` (`core/store.py`).
State: the files of a book in four tiers (the vault shares the cold tier's reader editions),
the row that names them, its location, and what is still to be retired; retirement objects.
Hard: passes hold a lock, ingestion and proofs take no part in it, and a pass dies between a
rename and its mark. Correct when what the row names is there and whole, nothing that a
proof names is retired, and copies left behind are retired in the end.

**Pruning** (`core/workers.py` 7328-7902): archives or forgets Cards and takes its
commit back by compare-and-swap when the files do not follow (part of `CardSidecar`).
**Graph** (`core/store.py` 13366-13730, `core/workers.py` 4089-4190): edge aggregates and
decay. **Resume** (`core/store.py` 24700-25979): what an agent is told when it comes back.
**Context, recall, search** (`core/store.py` 14616-17761, `core/recall.py`,
`core/retrieval.py`, `core/working_context.py`): rank and render one database state.

**Snapshots** (`core/store.py` 26617-28044). State: the parts of each snapshot in a staging
directory, in place or moved aside, an intent file, a row. Operations: publication by
renames, reconciliation of interrupted ones, retention. Hard: a failure at any rename, a
commit that raises although it may be durable, proofs that cite a snapshot while it is
being retired. Correct when the newest are whole copies of one state and cited ones stay.

**Proof archive and restore drills** (`core/proof_archive.py`, `core/operations.py`).
State: an external content-addressed store, a chained ledger, quarantines of sources.
Operations: archive what proofs bind, resolve it, restore it. Hard: deaths between copy,
record and removal; files replaced under the same names. Correct when bytes that a proof
binds can always be read from somewhere and the ledger replays.

**Bundles** (`core/bundle.py`): export and import of roots.

**Review relay** (`core/review_bridge.py`): jobs that ask an external reviewer, in a
browser, by an automated transport or by hand. State: a directory per job (status,
attempts, responses, receipts) and the catalog's phase envelopes and artifacts rows.
Operations: prepare a job, reserve an attempt, hand over, run, ingest an answer, finish;
upgrade and freeze legacy jobs. Hard: a phase is committed first and its files are written
afterwards, one by one; the next call, maybe another kind of call, finds what a dead one
left; answers come late. Correct when an accepted answer is the answer of its attempt,
sealed history never changes, and claimed answers are accepted in the end.

**Memory palace import** (`core/mempalace_import.py`). State: a lock file that times out, the
rows of an import, its manifest, state file, receipts and operation. Hard: a second import
starts when the lock looks dead, an item fails midway, a process dies between report and
commit. Correct when reports are true, books keep their sources, and cards wait for a
review or are placed.

**Others**: local model gate (`core/local_model.py`, circuit breaker), permissions and
secrets (`core/permissions.py`, `core/safety.py`), embeddings, temporal authority,
configuration, inspection, atomic writes (`core/atomic.py`), schema migrations, CLI,
MCP server (`mcp_server.py`) and adapters (`integrations/`), which dispatch to the
operations above.

How the parts meet: all use the queue to defer work; workers call the processors,
which call the store; every append goes to the Scroll and leaves a notification;
knowledge records are Scroll events; operations wrap long calls of all parts;
every write connection passes the writer claim. The interactions modelled here are
queue with processors (`WorkerPass` extends `JobQueue`), queue with Scribe (the two
rows of a session, under the guarantees `JobQueue` checks), the families of
records on their common log (`ProjectRecords`), pruning with publishers and reconcilers
of sidecars (`CardSidecar`), failed rows with the passes that bring them back
(`FailedRecovery`), tiering with ingestion and proofs (`BookFiles`), snapshots with the
writers of the root and proofs (`Snapshots`), an import with its operation's recovery and
the review of its cards (`PalaceImport`).

## 2. The modules and the code

| Module | Models | State |
| --- | --- | --- |
| `JobQueue` | queue tables and every transaction on them | `db` (the tables), `pass` (what each process remembers) |
| `WorkerPass` | processors and settlement; EXTENDS `JobQueue` | `step`, `receipt`, `applied` (history) |
| `ScribeSegments` | events, segments, notification, the rolling processes | `scroll`, `segments`, `note`, `proc` |
| `KnowledgeLog` | the log of typed records and the wall clock | `log`, `clock` |
| `HandoffLease` | abstract: one holder at a time, for a lease | `owner`, `until`, `done` |
| `Handoffs` | handoffs on the log; implements `HandoffLease` | `states`: the replay of the log |
| `VersionedFiles` | file and asset versions, links, review flags | the log |
| `SuccessorChains` | collections, facts, experience, reviews | the log |
| `ProjectRecords` | both of these on one log | the log |
| `WorkspaceImport` | imports and decisions on the log | `import`: what each importer is doing |
| `OperationRecovery` | one operation, its owner, its recoverers | the files, the ledger row, the lock, the writes still to make |
| `WriterClaim` | the marker and the processes that open a root | `marker`, `state`, `pc`, `explicit` |
| `CardSidecar` | one Card, its files, intents, fences, the lock, a pruning | `card`, `outbox`, `immutable`, `fence`, `reserved` (catalog); `file`, `intents`, `receipts` (disk); `holder`, `prune` (processes) |
| `FailedRecovery` | rows that failed because of sidecars, the passes that requeue them | `row`, `steps`, `effects`, `dispositions`, `progress`, `pass` |
| `Checkpoints` | checkpoint cards, conflict groups, repair | `card`, `proofs`, `scan`, `plan` |
| `BookFiles` | the files of a book, a tiering pass, an ingestion, proofs | `file`, `parked`, `row`, `pinned`, `cite`, `pass`, `ing` |
| `Snapshots` | snapshots, their publication and retention | `snap`, `live`, `call`, `pinned` |
| `ProofArchive` | archived proof artifacts | `file`, `aside`, `object`, `ledger`, `refs`, `call` |
| `PalaceImport` | imports of a foreign palace, the review of their cards | `lock`, `call`, `op`, `out`, `catalog`, `tx`, `draft` |
| `ReviewPrepare` | publication of prepared review jobs | `job`, `call` |
| `ReviewAttempts` | the attempts of one review job | `status`, `attempt`, `receipt`, `response`, `evidence` (files), `phases`, `rows` (catalog), `call` |
| `ReviewQuarantine` | legacy jobs frozen behind a replacement | `tree`, `rows`, `receipt`, `filed`, `lock`, `call` |
| `MC*` | constants, symmetry and composition for TLC | |
| `*_proofs` | TLAPS proofs | |

`JobQueue`. A transaction is an operator from a value of the tables to a value of
the tables, so that a handler that makes several updates under one `BEGIN IMMEDIATE`
is one action: `StartPass` reclaims a batch of expired leases and claims a row,
as `_claim_job` does. `Updated` is the UPDATE statement with the trigger
`purge_queue_job_fairness_after_job_update`; `Released` is the common part of
reclaim and retry, where a row whose key has a pending successor is skipped and its
retry authority handed on. `pass[w]` is what a process remembers; it can be out of
date, and `LeaseLost` is what its owned updates then do. Actions: `Enqueue`,
`ReconcileBacklog`, `RecoverFailed`, `LeaseExpires`, `StartPass`, `ClaimNext`,
`Finish`, `Retry`, `LeaseLost`, `Crash`; and `Forget`, which is not in the code (5).

`WorkerPass`. The processor of a claimed row is at a `step`; its transactions are
`CorePhase`, `PostPhase`, `StartVerify`, `CommitVerify`, and `Raise` may happen at any
of its statements and in the settlement. Settling is one of `JobQueue`'s actions,
chosen by the outcome as in `_run_worker_pass_with_sidecar_intent_budget`;
`Authorities` is `_running_job_post_commit_authority`. `WorkerPass` takes
its steps on the queue from `JobQueue`, with more conjuncts, and so inherits what is proved of
them.

`ScribeSegments`. A process goes through `roll_due_scroll_segments`: `Claim` or
`Call`, `PlanBatch` (frontier and split, read without a lock), `RollRun` once per
range (a transaction with the checks of `roll_scroll_segment`) or `Overtaken`,
`Continue` (`_ensure_scribe_continuation`), `Report`, `Settle`; `Raise` at any point.

`KnowledgeLog`. A call reads, prepares, and in one transaction inserts, validates
and commits; a refused or interrupted call leaves nothing. One call is therefore one
action whose payload may speak of any earlier state (`HeadsOf`, `Seen`), accepted only
when the validation of the code accepts the history with the new row in it. `at` is
the wall clock of the insertion, any second at all, since nothing orders it with the
commit.

`OperationRecovery`. A call is the list of the writes it makes, in the code's order
(`Rewrite`, `ProofWrites`, `FailureWrites`, `PublicationWrites`, ...); the holder of the
lock makes one at a time, and `Fault`, `LoseRow` or `Crash` may come instead of any.
`PublishWrites` is decided from what is on disk then. An event is its type, and the
run log numbers events by position: an export log is a valid chain exactly when it
holds a prefix.

`CardSidecar`. The holder of the operation lock is one process at a time, so `holder` is
its program counter and what it remembers; a death frees the lock and keeps catalog and
disk (`Stop`). A publisher goes `Observe`, `Reserve` (which chooses the path), `WriteIntent`
if the file is new, `WriteFile`, `Acknowledge`, by way of `PrepareTransition` when it
is about to leave a generation that no receipt binds. A reconciler lists the
intents, and for each one decides (`Judge` is `_resolve_card_sidecar_write_intent`), moves,
publishes the receipt, retires and archives. `RecoverFence` and `Resume` take over
what a dead holder reserved. `Update` and `Register` never take the lock; the guards
`Unfenced` and `~fence` are the triggers. Reading a snapshot and validating it
against the authority epochs in the final transaction is one step (`Reserve`, `Decide`).
`prune` is a run of `prune_memory` between its commit and its end.

`FailedRecovery`. `Enqueue`, `Claim`, `CommitCore`, `CommitSegment`, `CompleteStep`,
`Raise`, `Finish` are what leaves a failed row with receipts; `Select` and `Recover` are the
two transactions of a maintenance pass (choose a window and validate it; decide), and
`Disturb` supersedes what a receipt names.

`Checkpoints`. `Record`, `Dismiss` and `Supersede` are transactions; a resolution covers the
whole boundary (`Peers`, `WholeGroups`). A scan is `Look` (it selects up to a limit: the closure
of an anchor under titles and groups, cut or filled up) and `Scan` (it clears and regroups under
the lock, and may act on only some groups and components, for its limits of mutations
and time), or `Expire`. A repair is `Plan` and `Apply`, or `Replan` when somebody wrote in between;
its death while it plans is like a plan that never commits. `Component` is the least set
closed under disagreement. `Damage` and `Stir` are the outside.

`BookFiles`. A pass is `Begin`, `Preflight` (which refuses when an artifact is not its file), then
the retirements that earlier passes left, `Stage` for each field, `Commit`, and the
retirements of its own: each is `Restore` (the copy from the source, when it is gone), `Fence`,
`Detach`, `Remove`; `Mark` takes what was retired out of the row's history. `IngestBegins` to
`IngestCommits` are `ingest_file`, which may name any tier; a proof is two steps, `Describe` (it
hashes a file) and `Pin` (the path with that hash is an artifact, whatever became of the file).

`Snapshots`. `Take` is the staged publication part by part, the intent, the row;
`Trim` is retention with its staged removal; `CommitFails` leaves it open whether the row
is durable; reconciliation is the first stage of every call.

`ProofArchive`. `Manifest`, `Name` and `Locator` bind an archive; an artifact goes `Plan`,
`Take`, `CopyObject` (or `Fill` where there are no hard links), `Record`, `Verify`, `Park`,
`Unlink`; a restoration `Resolve`, `CopyBack`, `RecordRestored`. `Write` puts other files
under the same names.

`PalaceImport`. `LockStep` is the lock file with its age and the caller that gives up waiting, `ItemStep` the files and rows of an
item in the open transaction, `CallStep` the reports and the exception handler; `ImportPart` is
an item that raises midway, `Interrupt` the recovery of the operation by someone else,
`Review` a run of the job that places the cards.

`ReviewPrepare` is `create_review_job`: reconcile, stage, build, write the marker, bind
its row, publish by rename, commit the rows, remove the marker; or clean up. `ReviewAttempts` has one action per
durable write. A call `Enter`s, reconciles unfinished phases (`Terminal`,
`ReconcileReservation`) and goes on with what it was called for: `Start` reserves an
attempt, `Run` hands over or runs the automated transport, `Ingest` reads, judges, claims
and accepts an answer. `Finalize` commits a terminal phase, `Terminal` writes
record, receipt and status, `BindReceipt` commits the row of the receipt and `Confirm` reads it
back. `Undo`, in `Raise` and `Fail`, is the compensation up to that point: it takes the files
back and leaves the phase and the row. `Answer` is the reviewer, who writes whenever he likes into the response
that status.json names. `ReviewQuarantine` has the integrity report of a job as a function of
its tree and rows (`Finding`), previews, exact authorisation, commit, and the receipt's
file, with the calls that looked before the freeze.

Composites. TLC checks several modules in one run where they are about the same question:
`MCFiles`, `MCRecovery`, `MCProjects`, `MCSidecar` and `MCReview` have a variable `which`
that says which part a behaviour follows. The parts share no state and a step of one leaves
the others as they began, so their states add up instead of multiplying, and a property
of a part holds of the composite exactly when it holds of the part.

## 3. What the runs show

Properties marked P are also proved for every value of the constants (4).

* **JobQueue_races** (2 workers, one of which serves a single role; a patient keyed
  preemptible notification, an unending stream of urgent rows of another role, a keyless
  row that may not be run twice; passes of two rows; both bypass limits 1).
  `KeysExclusive` (P): one row per key runs and one waits, through claims, reclaims,
  retries, requeues and merges, and a retry never waits behind a running row of its key, so
  authority is never handed to a row that has its own. `WorkIsCarriedOn` (P): a skipped row
  leaves a live row that does its work, with its retry authority. `VerdictByHolder` (P):
  verdicts come from holders of live leases. Liveness: `EventuallyClaimed`,
  `DeadLeaseReclaimed`.
* **WorkerPass_effects** (2 rows, 2 workers, both families of processors).
  `EffectsAreExact` (P): an effect is committed at most once and the verdict says what was
  committed. `CommittedUnderLease` (P).
* **Scribe_tiles** (2 workers, an unleased caller, 2 boundaries, 3 events, threshold 2).
  `SegmentsAreExact` (P): segments tile the Scroll, none mixes boundaries, and a plan made
  without a lock can only turn out to be overtaken. `BacklogIsAnnounced` (P): a due backlog
  keeps a notification while events arrive at any point of a run that may crash or lose its
  lease.
* **Handoffs_leases** (2 actors, up to 2 handoffs, 4 records, a clock of 4 instants that
  may be set back, 2 instants per second). `HistoryReplays`, `KeepsLease` (refinement
  of `HandoffLease`), `ClaimableAgain`.
* **Projects_races** (2 importers, 2 origins, 2 contents, one decision, 3 records; or one
  path with two contents, 2 assets, one subject, 4 records of all families together).
  `ImportsReplay`, `ImportsAreWanted` (forks only where asked for, success only when the
  capsule is there), `IndexFollowsCommits`, `DependentsFlagged`, `NoForks`.
* **Recovery_races** (an operation: owner, 2 recoverers, one note, one failing write, two
  crashes; or 3 agents, 3 checkpoints, one damage; or an archive of 2 names and 2 contents on
  four kinds of platform). `EvidenceAgrees` (P): one verdict, proofs bound to what the files say,
  seals whole; the archive's ledger replays. `VerdictsAreDue` (P): verdicts are final and
  live work is not interrupted. `GroupsWhole` (P), `DisputesStay` (P): conflict groups have two
  heads or more and are parted only by a dismissal. `AuthorityPassesOn` (P): a head gives way only to an
  intact checkpoint that names it, and bytes that a proof binds only to their archived copy.
  Liveness: `InterruptedRecovers`.
* **Sidecar_races** (a Card with or without a history, three more states, one failure, one
  pruning; or 2 rows, 2 passes, windows of one receipt). `SidecarOrDebt` (P): the file the
  catalog points at shows the Card or is owed. `DebtsAccounted` (P): no file is without
  authority, each failure is decided once. `AuthorityStands` (P): authoritative bytes stay,
  and what is requeued is current. Liveness: `DebtsEnd`.
* **Review_races** (2 operations, 2 attempts, one death; or 2 jobs, 2 callers).
  `AcceptedAnswersItsAttempt` (P), `OneClaim` (P), `HistoryInOrder` (P).
  `SealedForGoodAndTrue` (P): a sealed attempt stays as it is, except that the finalization that
  binds its receipt may still fail and be undone until it has read the row back.
  `TakenBackCanBeFinished` (P): such an undo leaves a row without its file, and then the job
  stands on the one terminal phase from which a later call writes it again.
  Liveness: `InterruptedCompletes`.
* **Files_races** (3 processes of 2 runtimes, only one of which claims by itself; or 2 review
  jobs, 4 faults; or 2 snapshots of which one is kept, 2 faults, a concurrent write; or 2
  ingestions, one death, one proof; or 2 imports of 2 items, one fault; or 2 rows of a
  worker). `OneRuntimeWrites` (P), `ClaimIsChosen` (P), `CommittedIsWhole` (P),
  `NothingOwedIsLost` (P). Liveness: `InterruptedSettles`, and `CommittedIsReported`: no cycle of
  retries keeps a row whose terminal effect is committed.

Disagreements with the documentation: **Sidecar_generations** (`GenerationsImmutable`),
**Review_retry** (`FailureCanBeRetried`) and **Checkpoints_clean** (`RepairedIsClean`),
see 6.

**Fairness.** Weak fairness of whatever is in progress: a process goes on or dies, and
dying is never required. Beyond that:

* `JobQueue`, `WorkerPass`: `Work(w)`, because `serve_workers` runs pass after pass; it stops on
  a pass that is not ok, and its supervisor starts it again. Processors return. The
  lease of a dead process runs out because clocks advance; reclaiming is part of the next
  pass. `EventuallyClaimed` and `CommittedIsReported` have as premise that leases stop
  expiring under live workers (the renewer thread keeps up) and, for the latter, that
  processors stop raising: the code has no limit on attempts, so an error that never goes
  away is retried for ever.
* `OperationRecovery`: somebody calls `recover_stale_operations` again and again, which is what
  the CLI, the MCP server and the operations that call it first do.
* `CardSidecar`: maintenance gets the lock in the end although others want it (strong): it
  waits for the lock, and the worker service and `init` run it again and again, the
  synchronisation when the Card is pending, the reconciliation always. `FailedRecovery`: one
  pass of the two is never killed.
* `Checkpoints`: someone repairs a damaged card. `ReviewPrepare`, `Snapshots`, `BookFiles`:
  calls are made again and again (`Begin`); they reconcile first. Nothing is
  claimed to happen in the end of `PalaceImport` (6).
* `ReviewAttempts`: whoever claimed an answer tries again with the same operation (strong,
  `Retry`; docs/review-relay.md tells operators to). `ReviewQuarantine`: an operator
  repeats a quarantine until its receipt is there (`Retried`).

## 4. What is proved

For every value of the constants, under the named assumptions of the modules. They say that
special values are distinct (`NoneIsNothing`, `ContentsAreReal`: no content is the mark
for no file; `UnlockedIsNobody`) and numbers are numbers (`BoundsAreNumbers`, `RowsAreNumbered`:
a row is known by its rowid; `LegacyJobsNumbered`). Only three say more: rows of one key have one
role and type (`JobSpecAssumption`), because the stored key is a digest of them; the table of
the queue is finite (`RowsAssumption`); and an import has an item at least. The proofs have the
same plan: an inductive invariant, first checked by TLC as an invariant of a
run, then `Init => IInv`, a lemma per action for `IInv /\ Next => IInv'`, and the properties
from it.

**JobQueue** (`Invariance`, `TypeCorrect`, `KeysStayExclusive`, `VerdictsAreOfHolders`,
`WorkGoesOn`). `IInv == TablesInv(db) /\ PassInv`. None of the key invariants is inductive
alone. A retry of a running row would break the one-pending invariant if two rows of the key
could run; a requeue of a failed row relies on it having failed (`FlagsFit`), since only
then does the test for live rows of the key see all others; a reclaim hands retry authority
to the successor, and the claim that comes next must not find it blocked. So
`KeysApart` states the three for all pairs at once and `FlagsFit` ties the flags to the
statuses. `UpdatedFields` says what any UPDATE does to the columns the invariant reads, one
lemma (`SettlingKeeps`, `ReleasingKeeps`, ...) says that each kind of update keeps
`TablesInv`, and there is one lemma per action. `ReleasingKeeps` holds for batches of
reclaimed rows of any size, which TLC sees only up to 2. The two action properties
follow from what each action does to a row (`FinishRows`, `ReleasedRows`, ...) and from
`OrderInv`: age is a strict order of the rows in the table. That a superseded row's work
has a live row needs a newest one among the rows that can stand for it; `NewestIsKept`
finds it in any finite table, by the well-foundedness of strict inclusion on finite sets.

**WorkerPass** (`WPInvariance`, `EffectsStayExact`, `CommitsUnderLease`). `WPInv` joins the queue's `IInv` with
`LedgerInv` (at most one commit, none without a receipt) and `AtWork` (what a processor
knows of the row in its hands at each of its steps). Its crucial clause: a processor that
will report failure, and whose lease is still live, has a row without a terminal receipt;
when the lease was lost the row may be anybody's, and then the settlement changes nothing.

**ScribeSegments** (`ScribeInvariance`, `ScribeTypeCorrect`, `SegmentsStayExact`,
`BacklogStaysAnnounced`). `SInv` has `TileInv` (segments tile the Scroll up to the
frontier), `PlanInv` (a plan lies in the Scroll, its ranges are uniform, disjoint, and each
but the first follows another; it starts no later than the next segment may) and
`AnnounceInv`. `PlanInv` is what "overtaken, never rejected" needs: when the first range of
a plan starts at the frontier the transaction accepts it, and if it starts before,
somebody rolled it. `AnnounceInv` says for every place of a process what it still will
announce: a worker that is about to report over a due backlog has a successor row, and one that
is about to finish has reported. Facts about runs (`RunsArePlanned`, `FirstRun`, `RunBefore`) rest on
`LeastNatural`, that a set of naturals has a least element, instead of induction.

**CardSidecar** (`SidecarInvariance`, `SidecarTypeCorrect`, `SidecarNeverSilentlyStale`,
`AuthoritativeBytesAreKept`). `SidecarOrDebt` needs: `Viewed`, a holder that saw another
Card than there is now leaves a row in the outbox (whoever changed the Card wrote it);
`Targeted`, which path and state each step of a publisher has in its hands, in particular
that a path about to be written is the Card's or an unreferenced generation;
`GenerationsNamed`, a generation holds the state it is named for or nothing, which is why
writing one again changes no byte; `Fenced`, while a move is reserved neither the Card nor an
artifact refers to the path; and `Locked`, a holder that publishes keeps the reservations of quarantines away, and a
quarantine is carried out by a holder that took it from its reservation. `QuarantinedIsUnreferenced` is the fact about the code's decision table.

*Orphans and rows* (`EveryFileIsAccounted`, `DebtsAreAccounted`, `AuthorityOfDebtsStands` in
`MCSidecar_proofs`). That every file has an authority needs `OrphanInv`: `IntentInv`
(an intent that a receipt answers never is the only account of a file; `Answering`), `FileInv`
(`Publishing`: only the holder of the lock moves the Card, and before it leaves a file that file
has a receipt or an artifact, and before it creates one that one has an intent; `Restoring`:
what a pruning gave intents to is gone or has them still) and `PruneInv`, which follows a
pruning nobody has overtaken: where its synchronisation can have put the Card (`Dest`), and that
a place it says it created (`Created`) is that one and no other, so that taking it back
leaves no file behind. `RowInv` has the types of receipts and decisions, `Named` (only a segment
has children that can be replaced) and `Once` (decisions about a row have different keys, none
beyond its last failure). `RequeuedIsCurrent` holds although receipts are validated in windows,
because the last look reads all of them.

**Recovery** (`RecInvariance`, `EvidenceStaysSound`, `VerdictsStayDue`, `GroupsStayWhole`,
`ScansKeepDisputes`, `AuthorityIsPassedOn` in `MCRecovery_proofs`). Its three parts:

* *The operation* (`OpInv`). The call at work is a list of writes, and any of them may be the last
  that is made. So the invariant says of every such list what makes stopping anywhere harmless
  (`Pending`): whatever outdates the proof pack is preceded by its removal (`Unlinking`, `Follows`);
  a verdict is in the receipt before it is told (`TellingSound`, `Late`); the seal is the last
  write and follows a verification (`Sealing`); the failures that are told never exceed those that
  the receipt counts, with what is pending added (`Counting`); a pack of a recovery is
  written when all are told (`Proving`). Which lists there are is decided by `RecovererSound`
  and `OwnerCall`: a recoverer interrupts only the receipt it has chosen and found again under
  the lock.
* *Checkpoints* (`Lines`, `GoodAll`). A fresh plan says what is still true of the cards (`Fresh`), which
  the data_version check is for; what is quarantined is out of lines and groups
  (`Shelved`). Each phase of a scan keeps a group `Good`: whole, or with a member whose status a
  hand changed. Clearing a group from a partial read is sound because only groups read
  completely are touched, and regrouping because a component is closed (`Closed`).
* *The archive* (`Archive`). `LedgerSound` chains the ledger and gives each restoration its archival,
  and one content to each name; `CallSound` says what is already durable at each place of a call.

**Files** (`MCFiles_proofs`). *The claim* (`ClaimInvariance`, `OneRuntime`, `ClaimsAreChosen`):
`ClaimInv` adds `ImplicitIsNew`, that a process which is about to claim without having been told
to, while there is no marker, has a root without state. It is what makes the early look for state
sound, although state may appear later: then there is a marker. The rest is put together in
`FilesInvariance`, `WhatIsCommittedIsWhole` and `WhatIsOwedStays`, from an invariant for each part:

* `PrepInv`, prepared jobs: a job with rows has its whole tree in place (`PrepComplete`), a job not
  begun has nothing, and what a call that is at work assumes of its job is so (`PrepFits`).
* `SnInv`, snapshots. `SnKept` counts. A snapshot that is broken, or is being retired, has at least
  `Keep` newer ones that stay: those in the catalog, less what this call has retired or is removing.
  It needs the lemma that the newest `Keep` of a finite set are newer than any older
  one (`SnNewest`), by `GreatestNatural`. `SnCited` says that what retention has chosen is not cited,
  unless the proof came after it looked.
* `BkInv`, books. What a pass has still to retire is not where the row points (`BkRetires`); a pass
  that has not committed knows where the original is while nobody wrote the row (`BkRead`);
  what it has staged stays; and the reader edition is where an ingestion that met no pass has put
  it (`BkIngest`).
* `PalInv`, imports: `PalFits` says for every place of a call what its files, its open transaction
  and its operation hold, in particular that a manifest names only what is committed;
  `PalData` that a committed card is owed a review or placed. A book's list of sources only
  gets longer (`PalLonger`), also from the draft to the commit.

The parts share no state, so a step of one keeps the others by their stutter lemmas.

**ReviewAttempts** (`ReviewInvariance`, `ReviewTypeCorrect`, `OneClaimEver`). The type
invariant is not trivial here: `Legal(status)` is the code's own validation of status.json, and
every status that anybody writes, also the one that a failed finalisation puts back, has to
pass it. That needs the types of all phases and of the call (`Typed`, with `Placed`: which
phase each place of a call works on). `OneClaim` needs `Guarded`: from the moment that a call is
about to judge an answer until its claim is committed there is no claim in the catalog, although the
test for one lies several steps back; `NewPhases` says which actions add a phase and of which kind.

**ReviewAnswers** (`AnswersInvariance`, `AnswersFit`, `HistorySealedInOrder`,
`SealedStaysSealed`, `TakenBackFinishable`). A status, a phase and a call are three memories of one job that deaths
and undos set against each other, and `AcceptedAnswersItsAttempt` holds because of what all
three say together; hence `AInv`, the largest invariant of the project:

* `Shapes`: what each kind of phase says of the status that it follows and the one it leads
  to. A claim without reservation names a `Fresh` response.
* `Fresh` and `Dead`: a response is fresh when each reservation that names it is dead, that is,
  it has no rows and will never get its status or its rows. Either the count of attempts
  is still below its number, or a terminal phase is not sealed yet, which keeps all calls
  from going on and will not be sealed before the rows are there (`UnsealedStays`,
  `DeadStays`). This is why a start that died before its first write does no harm when an
  inline answer later takes the number of its response.
* `InTurn` and `Marked`: reservations are numbered one after another, only the last can lack its
  rows, and its response is there before its record, which is there before its status.
* `Statused`: a status names as its reviewer's a text that exists, as its current attempt
  and as its planned one what a phase reserved, as its claim one that the catalog has. It
  also holds of the status that an undo puts back and of the target of an open end.
* `Sealing`: ends of attempts that are sealed lie behind the job; while one is open the status is
  its prior or its target, and every call is either idle or carries it out.
* `Accepted`, `Kinds` and `Working`: the accepted status and its record, what an ingest has to
  read, and what a call knows of the status at each of its places.

`FinishingStep` is the lemma that the rest leans on: whatever ends an attempt adds a new phase
whose target is sound, because every earlier end is sealed. `Leads`, `Arrives` and `StatusMoves` say
once where a step leads the call and what can write the status; each part of `AInv` is
then carried through a step by what it depends on and not action by action. `Past(n)` says that the
count of the job has reached n and n is not current any more, `Bound(n)` that n is sealed and
past. They differ from a bound receipt while its finalization may be undone, and after the undo.
`Committed` says of those: a receipt that has a row has its terminal phase, and while it is not
`Bound` all reservations have their rows, so that the phase can be carried out again;
`TakenBackFinishable` follows from it and `Sealing`. `History` (before a receipt with a row every
attempt is `Bound`, a bound one has its record) follows on top, with `Certified`, the integrity
report that a binding is conditional on.

*Quarantine* (`HistoryStaysInOrder`, `SealedForGoodAndBornTrue`). `QInv`: a call that quarantines
holds the locks of both jobs from its decision to its receipt's file; a call that is exact and
names no evidence is about a job already frozen; and the replacement is open when the
receipt is committed, so that frozen jobs do not stand behind one another (`ReplacementsEnd`).

Only model-checked. *Liveness* (`EventuallyClaimed`, `DeadLeaseReclaimed`, `DebtsEnd`,
`InterruptedRecovers`, `InterruptedCompletes`, `InterruptedSettles`, `CommittedIsReported`) and
ENABLED are out of the prover's reach. So is *induction over
data*: the library's induction theorems take an operator as parameter. `Handoffs`,
`WorkspaceImport` and `ProjectRecords` compute states by folding a sorted log (`SortSeq`,
recursive operators), so what they return for all logs cannot be proved, and
`HistoryReplays`, `KeepsLease`, `ClaimableAgain`, `ImportsReplay`, `ImportsAreWanted`,
`IndexFollowsCommits`, `DependentsFlagged` and `NoForks` stay with TLC. Where a least or greatest
element is enough (`LeastNatural`, `GreatestNatural`, `NewestIsKept`) the well-foundedness of the
naturals, or of finite sets, replaces induction. Every other safety property of a passing run is
a theorem.
## 5. Abstractions and bounds

* **Leases** of the queue are live or expired: `expires_at > now` and
  `expires_at <= now` are complementary, and no other test reads the time. In `Handoffs`
  the instants themselves matter and are kept.
* **Orders** (`created_at, rowid` and `retry_order`) are relations: only the order is
  read. Where `_redundant_scribe_notifications` breaks ties of equal `created_at` by id,
  the model takes the order of insertion.
* **finished** stands for `succeeded` and a processor's own `skipped`; `superseded` for a
  `skipped` row another row replaced.
* **Forget** makes room for new rows in a finite table: it removes a terminal row that no
  process remembers. The code keeps rows for ever; no transaction reads terminal rows
  except `RecoverFailed`, and forgetting ends that row's candidacy.
* **Payloads, evidence and citations** of records are left out; hashes are model values;
  a citation is a link to an earlier record.
* **Calls on the log are one step** (see 2). `import_workspace` is not: each of its
  records is.
* **Ghost state**: `applied` counts commits of core effects; `note.merged` and `note.failed`
  remember why a notice may be missing; `states` in `Handoffs` is the replay of the log,
  which the code computes on every read; `met`, `cut`, `late`, `torn`, `owed` and `harm` are
  history that the exceptions in properties speak of, each a limit listed in 6.
* **`CardSidecar`** is about one Card: the bytes of a file are the number of the Card's
  state they show. Row generations are only compared, so a number that nobody holds is a
  fresh one. What a publisher records after it has let the lock go is either recorded
  before (`Fails`, `EndPass`) or at any time later (`RecordsLate`). An intent's attempt id
  tells like intents apart. `unwitnessed` is history: locations taken back by a pruning
  that did not create their file (6).
* **`FailedRecovery`**: the fields of a receipt are one Boolean, whether it is still so. The
  receipts of rows are those that this and earlier releases leave. The last decision
  is made once for each effect.
* **`BookFiles`**: one book, one pass, one ingestion at a time. `Cited` lists the paths that proofs may
  name: one of the warm tier in the run, which is a source and a copy in turn.
* **`Checkpoints`**: an agent's stance is fixed (`Deniers`), so two checkpoints disagree when
  exactly one is a denier's; the authority of a card is whether it is damaged. Other
  card types, scope authorization, source events without cards, placement and replays of a
  record are left out.
* **Review**: a response is empty, good or bad; an operation id is a number; times in
  status.json matter only where a handoff leaves a new one (`at`).
* **Files** are written whole (`core/atomic.py` renames) or not; torn appends, fsync and
  directory entries lost by a power failure are not modelled. A failing write may or may
  not have reached the disk. In `BookFiles` and `ProofArchive`, where the code copies in place,
  a file can be there in part.
* **Bounds**: table sizes and the constants called `Max...`, `LastState`, `Keep`, `Window`,
  and limits. Key races need a running row and its successor, and `Forget` makes room for
  what arrives after them: 2 rows, of which the key invariants are proved for any number.
  Two workers are enough for a stale holder and its successor; a third only repeats one of the
  roles. A transition race on the log needs a record, two competitors and a later reader: 4
  records. Two crashes and one fault put a recovery into the middle of a recovery of a
  failed recovery. In `CardSidecar` the Card starts in its second state, so `LastState` 4
  gives two generations beside the default and the live file, one left behind and one
  current; `MaxFaults` and `MaxPrunes` are 1, since what a dead holder leaves is taken
  over by one that lives, and `MaxAttempts` is 2, an abandoned intent and its repetition.
  A conflict needs two heads, and a third checkpoint that supersedes one of them; a
  retention needs one snapshot more than it keeps; a review two attempts, one sealed and
  one open, and one death, which every call after it has to cope with. `MaxStale` bounds
  the receipts that are disturbed. Limits that are 8, 20, 50 or 64 in the code are 1 or 2:
  the interesting states are those at the limit. Every seeded fault is found within these
  bounds, and every action fires.
* **Symmetry** is used in runs without liveness. In Files_races `CommittedIsReported`
  speaks of one row of two that are alike: what holds of one holds of all.
* CHECK_DEADLOCK is off where the system comes to rest: an operation that is over, a
  bound of calls that is used up.
* Some FAULT operators are not used by `PROJECT.json`, which has one fault for each property;
  they are kept because each breaks a part of a composed property (`KeptAsPlanned`,
  `MarkerDecides`, `ReleasedBesideSuccessor`, `StaysAside`, `ConfessAnyway` and others), and
  show that part to depend on the code.

## 6. Where code and documentation disagree

* `Sidecar_generations`: docs/worker-operations.md:147 says that generations are
  "immutable by content-addressed name even before artifact registration". A
  synchronisation by a worker leaves the intent of its write to maintenance
  (core/workers.py:8045). If the Card changes first, its next publication binds the
  generation with a transition receipt and leaves it; the old intent is then judged
  without that receipt (core/store.py:7170), and the file is moved to quarantine. No
  failure is needed.
* `Review_retry`: docs/review-relay.md:460 says to start the attempt again after a malformed
  answer. A manual handoff in between replaces `review_failed` by `handoff_ready`, which
  `_reconcile_terminal_phases_locked` (core/review_bridge.py:20414) takes for drift: every
  later call of the job raises.
* `Checkpoints_clean`: docs/recovery-and-continuity.md:292-299 says that after a repair
  semantic verification and snapshots can proceed. Repairing a damaged card that had itself
  been superseded gives its predecessor back beside the newer head; retiring a proven peer
  of a damaged winner leaves an asymmetric link, and snapshots are refused from then on
  (core/store.py:23006). Two damages can wedge recording, repair and resolution together.

### Limits met while modelling, not the subject of a run

Queue and Scribe: a notification that is merged into a pending retry whose run has reported
is only replayed (core/workers.py:3448), while the docstring at 3340 speaks of a durable
notification for the remaining backlog. The next event makes up for it;
`BacklogIsAnnounced` excepts it by `note.merged`.

Records: an asset re-registered after the clock was set back can be shown as the replaced
one: the investigation takes the last record read (core/investigation.py:326), the
project index the highest version. `NewerAssetMakesStale` has the premise that the
records are read in commit order. The freshness of a procedure raises on two records of one
file version (core/experience.py:226), a history the other readers accept.

Sidecars: a pruning that is taken back registers cleanup for the files that its own
synchronisation created or adopted. When another process created and adopted the file of
the pruned state, the restore leaves it without authority, although the comment at
core/workers.py:7434 gives intents the cleanup after that commit; `OrphansAccounted` excepts
it by `unwitnessed`. A transition intent left by a death, whose generation the Card leaves
afterwards, stays unresolved for ever and keeps every later reconciliation from being clean.

Operations: CHANGELOG.md:340 promises crash-convergent publication, and
tests/test_operations.py:5832 that a recovery repairs an export append that raised. If another
event is appended before any recovery, the export log keeps a gap,
`_reconcile_operation_event_mirrors` raises on every later recovery and the operation is never
sealed (core/operations.py:520). With crashes alone it converges; that is why
`InterruptedRecovers` speaks of behaviours without a failing write. A proof pack that fails
after its ledger row was inserted leaves the row behind (core/operations.py:765), until a
recovery replaces it.

Books: ingestion of the same file while a pass runs can leave reader and location of the row
dangling (docs/ORIGINAL_DESIGN_COVERAGE_2026-06-17.md:19 says "Originals/readers stay durable").
A death with the source parked, followed by another ingestion, makes every later pass raise,
for all books; so does a proof that names the copy after the source is gone and before the
mark. A dead ingestion leaves a partial original that the next ingestion accepts.

Snapshots: a commit that raises although it is durable leaves, after cleanup, a row without
its catalog file and with its intent, and later snapshots refuse. A proof recorded after
retention has looked loses its snapshot, and the missing artifact blocks later snapshots.
Retention that dies after the removal of the catalog leaks the other trees, and a staging
directory without intent is never reclaimed.

Archive: a death between the creation of the manifest's temporary file and its rename leaves a
non-empty unbound archive that every later call refuses. Without hard links, a death between
reserving and filling leaves an empty object or restored file that later calls refuse.
Sources are removed on Windows only, and retained quarantines are never resolved.

Palace import: the lock is taken from any import older than max(3 x timeout, 300 s), while a caller
waits for it no longer than `timeout_seconds`, which is 60 (core/mempalace_import.py:69, 84): whoever
is queued behind a holder that has just died never gets it, and a call has to come later. Release removes whoever's lock it is, so imports may run at once; the database keeps them
apart. The items of the second find it busy and are passed over, while the import reports
success with an error count. An item that raises midway leaves its partial rows in
the transaction: a book without chunks or card, and a re-imported book can lose its chunks. A
reservation or busy database after `finish_operation` makes a succeeded import raise, write
"failed" into its state file and leave no proof. A state file registered as immutable can be
rewritten by a failing proof pack.

Review, attempts: the docstring of `_finalize_attempt_with_receipt_binding`
(core/review_bridge.py:16164) says "as one unit". An error in the re-reads after the receipt's
row was committed (16139-16150) takes attempt, receipt and status back (16281-16296) while the
immutable row stays, so the catalog names a file that is missing until the same operation is
called again; `TakenBackCanBeFinished` says that it then can be written. The undo is one step of
the model: a death, or a second error, between its three writes is left out.

Review, preparation: a cleanup cut short in a tree whose marker has authority blocks all later
preparations of the root. Review, attempts: some interrupted sequences wedge a job or leave a
claim that is never accepted (an interrupted automated run followed by a start; an automated
run, or an inline ingest, over a pending browser attempt; a start that dies before its rows or
its status and whose reviewer answers; an ingest that dies after its phase's commit, and a start
that supersedes it). `InterruptedCompletes` states what remains: a claim is accepted if every
reservation has its rows. The stray response of a dead inline ingest, or the file of a
superseded reservation with the same number, is taken for the automated reviewer's. Review,
quarantine: callers look for a quarantine before they take the lock only
(core/review_bridge.py:15308, 19619, 20370, 21193), so a late start, handoff or upgrade can
change a frozen tree, which docs/review-relay.md:533-536 calls immutable; so does a late answer,
and a death while the receipt's temporary file is written, after which the receipt is never
reconstructed (docs/review-relay.md:532 says it is). `FileIsDue` has the premise that the tree is
undrifted.

## 7. What is not modelled

Each component with status `not_modelled` in `PROJECT.json` has its reason there. Ranking,
rendering, pattern matching, embeddings and validation of archives are computations over one
state with nothing to interleave. Bundles publish `pack_root` without a lock: of two packers
with `--force` the checksum can name the other's archive; that is the one race there.
Of the modelled parts these are left out: temporary files of publishers, case aliases of
file names, bounded inventories and batches of Cards in `CardSidecar`, the selection of Cards
to prune; the Card of a segment; the processors' bodies; `record_procedure` and procedures'
freshness, capsule export, experiment records; restore drills and cleanup; conflict groups of
other card types; demotion of Cards; catalog verification in a snapshot (one file here);
closets and the graph's rows of an import; packet contents, git capture and confinement of paths of a review.

## 8. Plan

Built, most important first: the queue with its passes and proofs, Scribe, the knowledge log and
its families, imports, operations, writer claim, Card sidecars, the recovery of failed rows,
checkpoints, books, snapshots, proof archive, palace imports, and the review relay.

Every safety property of the passing runs is proved, but for those of the families of records
(4). To prove those, the readers would have to be stated without recursion, as relations between
a log and what is read from it. Next modules, if any: the local model's circuit breaker, the graph
aggregates as a pure algorithm against a reference definition, and bundles.
