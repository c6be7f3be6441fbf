----------------------------- MODULE MCRecovery -----------------------------
(***************************************************************************)
(* One run over what is brought back after a failure: an operation whose    *)
(* owner died, the checkpoints of a project when a card of theirs is        *)
(* damaged, and archived proof artifacts.  They share no state; `which`     *)
(* says which of them a behaviour follows, so that their states add up      *)
(* instead of multiplying.                                                  *)
(***************************************************************************)
EXTENDS OperationRecovery

CONSTANTS
    Agents, Deniers, MaxCards, MaxDamages, MaxStirs, CandidateLimit, RepairLimit,
    Uris, Contents, MaxFiles

\* What a file may hold is never taken for no file, or for one that only reserves a name.
ASSUME ContentsAreReal == "none" \notin Contents /\ "empty" \notin Contents

VARIABLES which, card, proofs, scan, plan, harm, stirs
VARIABLES windows, linked, file, aside, object, bound, ledger, refs, owed, made, call

K == INSTANCE Checkpoints
A == INSTANCE ProofArchive

cardVars == <<card, proofs, scan, plan, harm, stirs>>
proofVars == <<windows, linked, file, aside, object, bound, ledger, refs, owed, made, call>>
allVars == <<which, vars, cardVars, proofVars>>

Parts == {"operation", "checkpoints", "archive"}

\* The archive starts on either platform; elsewhere that does not matter.
RecoveryInit ==
    /\ which \in Parts
    /\ Init /\ K!Init /\ A!Init
    /\ which # "archive" => windows /\ linked

\* A step of one of them, which leaves the others alone.
OfOperation(S) == which = "operation" /\ S /\ UNCHANGED <<which, cardVars, proofVars>>
OfCheckpoints(S) == which = "checkpoints" /\ S /\ UNCHANGED <<which, vars, proofVars>>
OfArchive(S) == which = "archive" /\ S /\ UNCHANGED <<which, vars, cardVars>>

RecoveryNext == OfOperation(Next) \/ OfCheckpoints(K!Next) \/ OfArchive(A!Next)

\* The fairness that OperationRecovery and Checkpoints state.
RecoverySpec ==
    /\ RecoveryInit /\ [][RecoveryNext]_allVars
    /\ WF_allVars(OfOperation(HolderSteps(Owner)) \/ OfCheckpoints(K!Repair))
    /\ \A r \in Recoverers : WF_allVars(OfOperation(HolderSteps(r))) /\ WF_allVars(OfOperation(RecoverCalls(r)))

----------------------------------------------------------------------------
\* finish_operation, recover_stale_operations: no log tells two verdicts, a proof is
\* bound to what the files say now, and a sealed recovery is whole.
\* apply_legacy_catalog_archive, restore_relocated_proof: the ledger of the archive can
\* be replayed, and what it records can be read.
EvidenceAgrees ==
    /\ OneVerdict /\ ProofIsCurrent /\ SealedIsWhole
    /\ A!LedgerReplays /\ A!RecordedIsWhole

\* finish_operation, recover_stale_operations: a verdict is final, and an operation that
\* shows progress is not interrupted.
VerdictsAreDue == VerdictStands /\ NoFreshWorkInterrupted

\* detect_conflicts, repair: a conflict group has two members or more, all of them heads.
GroupsWhole == K!GroupsWhole

\* record, resolve, repair: an intact head gives way only to an intact checkpoint that
\* names it, and what is quarantined stays out.
\* _archive_one: bytes that a proof binds give way only to their archived copy.
AuthorityPassesOn == K!AuthorityPassesOn /\ K!QuarantineHolds /\ []A!BytesStay

\* detect_conflicts: a scan parts two heads of a group only if the group was dismissed.
DisputesStay == K!DisputesStay

\* recover_stale_operations: an operation that lost its owner is sealed, whatever
\* crashes interrupt its recovery, as long as no write raises.
\* repair_invalid_project_state_checkpoints: when a damaged card keeps agents from
\* recording, all can record again.
Interrupted ==
    \/ which = "operation" /\ Orphaned /\ faults = 0
    \/ which = "checkpoints" /\ \E a \in Agents : K!Blocked(a)
Recovered ==
    \/ which = "operation" /\ (Sealed \/ faults > 0)
    \/ which = "checkpoints" /\ \A a \in Agents : ~K!Blocked(a)
InterruptedRecovers == Interrupted ~> Recovered
=============================================================================
