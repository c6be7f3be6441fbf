------------------------------ MODULE MCReview ------------------------------
(***************************************************************************)
(* One run over the review relay: the attempts of one job (ReviewAttempts), *)
(* and jobs that are frozen behind a replacement (ReviewQuarantine).        *)
(* `which` says which of the two a behaviour follows, so that their states  *)
(* add up instead of multiplying.                                           *)
(***************************************************************************)
EXTENDS ReviewAttempts

CONSTANTS Callers, Others, Unlocked,
          LegacyJobs  \* the first was left by an earlier release, the others may replace it

\* Nobody is the holder of a free lock; a job that is behind none is behind job 0.
ASSUME UnlockedIsNobody == Unlocked \notin Callers
ASSUME LegacyJobsNumbered == 1 \in LegacyJobs /\ LegacyJobs \subseteq Nat \ {0}

VARIABLES which, tree, bindings, quarantine, filed, lock, caller, lost

Q == INSTANCE ReviewQuarantine WITH
         Jobs <- LegacyJobs,
         Shapes <- [j \in LegacyJobs |->
                       IF j = 1 THEN {"active", "failed", "single", "littered"} ELSE {"clean"}],
         rows <- bindings, receipt <- quarantine, call <- caller, deaths <- lost,
         MaxStarts <- 1

frozenVars == <<tree, bindings, quarantine, filed, lock, caller, lost>>
allVars == <<which, vars, frozenVars>>

ReviewInit ==
    /\ which \in {"attempts", "quarantine"} /\ Init /\ Q!Init
    /\ IF which = "attempts" THEN tree[1].st = "pending" ELSE manual

\* A step of one of them, which leaves the other alone.
OfAttempts(S) == which = "attempts" /\ S /\ UNCHANGED <<which, frozenVars>>
OfQuarantine(S) == which = "quarantine" /\ S /\ UNCHANGED <<which, vars>>

ReviewNext == OfAttempts(Next) \/ OfQuarantine(Q!Next)

\* The fairness that ReviewAttempts and ReviewQuarantine state.
ReviewSpec ==
    /\ ReviewInit /\ [][ReviewNext]_allVars
    /\ WF_allVars(OfAttempts(Step \/ Raise) \/ OfQuarantine(\E c \in Callers \ Others : Q!Proceed(c)))
    /\ \A c \in Others : WF_allVars(OfQuarantine(Q!Proceed(c)))
    /\ SF_allVars(OfAttempts(Retry) \/ OfQuarantine(Q!Retried(1)))

----------------------------------------------------------------------------
\* _materialize_terminal_phase: history is sealed in order.
\* quarantine_legacy_review_job: frozen jobs do not stand behind one another, and
\* nothing is frozen as legacy that could have been upgraded.
HistoryInOrder == SealedInOrder /\ Q!ReplacementsEnd /\ Q!LegacyIsUnupgradable

\* What a receipt seals stays so, and a quarantine receipt is true when it is committed.
SealedForGoodAndTrue == SealedForGood /\ Q!BornTrue

\* A claimed response is accepted in the end, if every reservation has its rows; a
\* committed quarantine has its file in the end, if nothing was added to the tree.
InterruptedCompletes ==
    (IF which = "attempts" THEN ClaimIsDue ELSE Q!FileIsDue(1))
        ~> (IF which = "attempts" THEN status.st = "ingested" ELSE ~Q!FileIsDue(1))
=============================================================================
