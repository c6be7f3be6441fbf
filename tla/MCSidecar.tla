----------------------------- MODULE MCSidecar ------------------------------
(***************************************************************************)
(* One run over what sidecars leave behind: the files of a Card             *)
(* (CardSidecar), and the queue rows that failed because of sidecars        *)
(* (FailedRecovery).  `which` says which of the two a behaviour follows, so *)
(* that their states add up instead of multiplying.                         *)
(***************************************************************************)
EXTENDS CardSidecar

CONSTANTS FailedRows, Passes, Steadfast, MaxSteps, MaxStale, MaxTurns, Window, Limit

ASSUME LimitsArePositive == Window \in Nat \ {0} /\ Limit \in Nat \ {0}

\* A row of queue_jobs is known by its rowid.
ASSUME RowsAreNumbered == FailedRows \subseteq Nat

VARIABLES which, row, steps, effects, dispositions, progress, pass

F == INSTANCE FailedRecovery WITH Rows <- FailedRows

rowVars == <<row, steps, effects, dispositions, progress, pass>>
allVars == <<which, vars, rowVars>>

SidecarInit ==
    /\ which \in {"card", "rows"} /\ Init /\ F!Init
    /\ which = "rows" => card.location = NoPath

\* A step of one of them, which leaves the other alone.
OfCard(S) == which = "card" /\ S /\ UNCHANGED <<which, rowVars>>
OfRows(S) == which = "rows" /\ S /\ UNCHANGED <<which, vars>>

SidecarNext == OfCard(Next) \/ OfRows(F!Next)

\* The fairness that CardSidecar and FailedRecovery state.
SidecarSpec ==
    /\ SidecarInit /\ [][SidecarNext]_allVars
    /\ WF_allVars(OfCard(Publisher \/ Fails \/ Reconciler \/ RegisterCleanup \/ RestoreRows)
                    \/ OfRows(F!Maintain))
    /\ SF_allVars(OfCard(Pending /\ TakeToSync /\ holder'.task = "sync"))
    /\ SF_allVars(OfCard(TakeToReconcile /\ holder'.task = "reconcile"))

----------------------------------------------------------------------------
\* reconcile_card_sidecar_write_intents: every file has an authority.
\* _recover_failed_post_phase_sidecar_jobs: one decision for each failure of a row.
DebtsAccounted == OrphansAccounted /\ F!DecidedOnce

\* No step takes authoritative bytes away, and no row is requeued on the authority of
\* receipts that are no longer so.
AuthorityStands == AuthoritativeBytesStay /\ F!RequeuedIsCurrent

\* File and catalog agree again; failed rows do not wait for ever.
DebtsEnd == []<>(IF which = "card" THEN Agree ELSE F!Candidates = {})
=============================================================================
