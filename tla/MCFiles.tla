------------------------------- MODULE MCFiles -------------------------------
(***************************************************************************)
(* One run over the modules whose subject is what a call leaves in a root  *)
(* when it dies: the claim on it (WriterClaim), prepared review jobs,      *)
(* snapshots, the files of books, the imports of a foreign palace, and the *)
(* row of a worker whose effect is committed.  They share no state; `which` *)
(* says which of them a behaviour follows, so that their states add up     *)
(* instead of multiplying.                                                 *)
(***************************************************************************)
EXTENDS MCWriterClaim, Integers, FiniteSets, Sequences, FiniteSetsExt

CONSTANTS
    MaxJobs, MaxPrepareFaults,
    MaxSnapshots, Keep, MaxSnapshotFaults, MaxWrites,
    MaxIngests, MaxDeaths, MaxPins,
    MaxThings,  \* the larger of MaxJobs and MaxSnapshots
    MaxImports, MaxItems, Stride, ReviewLimit, MaxImportFaults,
    w1, j1, k1, k2, role, Rows, NoKey, NoSession, NoOne, Gone, NoJob, PhasedTypes,
    MaxPriorityBypass, MaxRetryBypass, ReclaimLimit, PassLimit

ASSUME BoundsAreNumbers ==
    {MaxJobs, MaxSnapshots, Keep, MaxImports} \subseteq Nat /\ MaxItems \in Nat \ {0}

\* The rows of the queue: one card to place, one book to verify.
RowOf(key, type) == [key |-> key, role |-> role, type |-> type, session |-> NoSession, priority |-> 0,
                     preemptible |-> TRUE]
RowSpecs == {RowOf(k1, "review_card_placement"), RowOf(k2, "verify_book_integrity")}

VARIABLES
    which,
    pJob, pMade, pCall, pFaults,
    sSnap, sLive, sCall, sPinned, sLate, sTorn, sFaults,
    bFile, bParked, bRow, bPinned, bCite, bPass, bIng, bIngests, bDeaths, bMet, bCut,
    iBlocked, iLock, iCall, iOp, iOut, iCatalog, iTx, iDraft, iFenced, iFaults,
    wDb, wPass, wStep, wReceipt, wApplied

P == INSTANCE ReviewPrepare WITH
    job <- pJob, made <- pMade, call <- pCall, faults <- pFaults, MaxFaults <- MaxPrepareFaults
S == INSTANCE Snapshots WITH
    snap <- sSnap, live <- sLive, call <- sCall, pinned <- sPinned, late <- sLate,
    torn <- sTorn, faults <- sFaults, MaxFaults <- MaxSnapshotFaults
B == INSTANCE BookFiles WITH
    file <- bFile, parked <- bParked, row <- bRow, pinned <- bPinned, cite <- bCite, pass <- bPass,
    ing <- bIng, ingests <- bIngests, deaths <- bDeaths, met <- bMet, cut <- bCut,
    Cited <- {<<"original", 2>>}
I == INSTANCE PalaceImport WITH
    blocked <- iBlocked, lock <- iLock, call <- iCall, op <- iOp, out <- iOut, catalog <- iCatalog,
    tx <- iTx, draft <- iDraft, fenced <- iFenced, faults <- iFaults, MaxFaults <- MaxImportFaults
W == INSTANCE WorkerPass WITH
    Jobs <- Rows, Workers <- {w1}, JobSpecs <- RowSpecs, RolesOf <- [w \in {w1} |-> {}],
    db <- wDb, pass <- wPass, step <- wStep, receipt <- wReceipt, applied <- wApplied

pVars == <<pJob, pMade, pCall, pFaults>>
sVars == <<sSnap, sLive, sCall, sPinned, sLate, sTorn, sFaults>>
bVars == <<bFile, bParked, bRow, bPinned, bCite, bPass, bIng, bIngests, bDeaths, bMet, bCut>>
iVars == <<iBlocked, iLock, iCall, iOp, iOut, iCatalog, iTx, iDraft, iFenced, iFaults>>
wVars == <<wDb, wPass, wStep, wReceipt, wApplied>>
filesVars == <<which, vars, pVars, sVars, bVars, iVars, wVars>>

FilesInit ==
    /\ which \in {"claim", "prepare", "snapshot", "book", "palace", "row"}
    /\ Init /\ (which # "claim" => state)
    /\ P!Init /\ S!Init /\ B!Init /\ I!Init /\ (which # "palace" => iBlocked = {}) /\ W!WPInit

FilesNext ==
    \/ which = "claim" /\ Next /\ UNCHANGED <<which, pVars, sVars, bVars, iVars, wVars>>
    \/ which = "prepare" /\ P!Next /\ UNCHANGED <<which, vars, sVars, bVars, iVars, wVars>>
    \/ which = "snapshot" /\ S!Next /\ UNCHANGED <<which, vars, pVars, bVars, iVars, wVars>>
    \/ which = "book" /\ B!Next /\ UNCHANGED <<which, vars, pVars, sVars, iVars, wVars>>
    \/ which = "palace" /\ I!Next /\ UNCHANGED <<which, vars, pVars, sVars, bVars, wVars>>
    \/ which = "row" /\ W!WPNext /\ UNCHANGED <<which, vars, pVars, sVars, bVars, iVars>>

\* Calls are made again and again, and each goes on to its end unless it dies; the
\* lease of a dead worker runs out.
CallsBegin ==
    \/ which = "prepare" /\ P!Begin /\ UNCHANGED <<which, vars, sVars, bVars, iVars, wVars>>
    \/ which = "snapshot" /\ S!Begin /\ UNCHANGED <<which, vars, pVars, bVars, iVars, wVars>>
    \/ which = "book" /\ B!Begin /\ UNCHANGED <<which, vars, pVars, sVars, iVars, wVars>>
CallsGoOn ==
    \/ which = "prepare" /\ P!Step /\ UNCHANGED <<which, vars, sVars, bVars, iVars, wVars>>
    \/ which = "snapshot" /\ S!Step /\ UNCHANGED <<which, vars, pVars, bVars, iVars, wVars>>
    \/ which = "book" /\ B!Step /\ UNCHANGED <<which, vars, pVars, sVars, iVars, wVars>>
    \/ /\ which = "row" /\ (W!WPClaim(w1) \/ W!Process(w1) \/ W!WPSettle(w1))
       /\ UNCHANGED <<which, vars, pVars, sVars, bVars, iVars>>
LeaseOfDead(j) ==
    /\ which = "row" /\ wDb.owner[j] = Gone
    /\ UNCHANGED <<which, vars, pVars, sVars, bVars, iVars, wStep, wReceipt, wApplied>>
    /\ W!LeaseExpires(j)

FilesSpec ==
    /\ FilesInit /\ [][FilesNext]_filesVars
    /\ WF_filesVars(CallsBegin) /\ WF_filesVars(CallsGoOn)
    /\ \A j \in Rows : WF_filesVars(LeaseOfDead(j))

----------------------------------------------------------------------------
\* What a reader may open is whole: a job without marker file or a row of one
\* (create_review_job), the newest snapshots of the catalog, each a copy of one state
\* (snapshot), and the files that the row of a book names, at every step of a pass
\* (apply_storage_tiering).  What an import reports is in the catalog, and its cards wait
\* for a review or are placed (import_mempalace, review_mempalace_import).
CommittedIsWhole ==
    P!OpenIsWhole /\ S!KeptIsWhole /\ B!BookStays /\ I!ReportedIsTrue /\ I!ReviewIsOwed

\* Nothing that is owed to somebody is taken away: a committed job is never taken back
\* (create_review_job), a snapshot that a proof cites stays (enforce_snapshot_retention),
\* and so do a file that an immutable artifact names (apply_storage_tiering) and the
\* sources of a book that is imported again (import_embedding).
NothingOwedIsLost == P!CommittedStays /\ S!PinnedStays /\ B!PinnedStays /\ I!SourcesKept

\* create_review_job, snapshot, apply_storage_tiering: what an interrupted call left
\* behind of a job, a snapshot or a book is finished, put back or accounted for in the end.
Unsettled(i) ==
    \/ which = "prepare" /\ i \in P!Jobs /\ P!Unsettled(i)
    \/ which = "snapshot" /\ i \in S!Ids /\ S!Unsettled(i)
    \/ which = "book" /\ i = 1 /\ B!Unsettled
Settled(i) ==
    Unsettled(i) => CASE which = "prepare" -> P!Settled(i)
                      [] which = "snapshot" -> S!Settled(i)
                      [] OTHER -> B!Settled
InterruptedSettles == \A i \in 1 .. MaxThings : Unsettled(i) ~> Settled(i)

\* WorkerPass!CommittedIsReported: once leases hold and processors no longer raise, a
\* row whose effect is committed does not stay in the queue.  The rows are alike: what
\* holds of one holds of all.
Calm == <>[][(\A j \in Rows : ~W!LeaseExpires(j)) /\ ~W!Raise(w1)]_wVars
Committed == which = "row" /\ W!Terminated(j1) /\ wDb.status[j1] \in W!Live
CommittedIsReported == Calm => (Committed ~> ~Committed)
=============================================================================
