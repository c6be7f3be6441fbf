------------------------------ MODULE Snapshots ------------------------------
(***************************************************************************)
(* Snapshots of a root and their retention (src/continuum/core/store.py).   *)
(* A snapshot copies the catalog and what lies beside it into a staging     *)
(* directory, checks the copy, writes an intent file, moves the parts to    *)
(* their places one by one and the manifest last, and commits a row.  What  *)
(* an interrupted call left behind is moved aside by the next call.  Old    *)
(* snapshots are retired by a later snapshot, unless a proof cites them.    *)
(* One lock serializes snapshots; writers of the root and proofs go on.     *)
(***************************************************************************)
EXTENDS Integers, FiniteSets, Sequences, FiniteSetsExt

CONSTANTS
    MaxSnapshots, \* bound on snapshots
    Keep,         \* how many snapshots retention keeps (20 in the code)
    MaxFaults,    \* bound on exceptions and deaths
    MaxWrites     \* bound on commits to the catalog while a snapshot may run

VARIABLES
    snap,    \* snap[k]: files in place, files moved aside, intent, row, what it copied
    live,    \* version of the catalog, and of the card files beside it
    call,    \* the snapshot call that holds the lock
    pinned,  \* snapshots that are immutable artifacts
    late,    \* history: pinned when retention had already chosen to retire them
    torn,    \* history: rows whose commit raised
    faults

vars == <<snap, live, call, pinned, late, torn, faults>>
outside == <<live, pinned, late>>

Ids == 1 .. MaxSnapshots
PublishOrder == <<"catalog", "cards", "receipts", "jobs", "key", "manifest">>
CleanupOrder == <<"receipts", "jobs", "cards", "manifest", "key", "catalog">>
RetireOrder == <<"catalog", "manifest", "key", "cards", "jobs", "receipts">>
QuarantineOrder == Append(PublishOrder, "staging")
Parts == {PublishOrder[i] : i \in 1 .. 6}

NoSnapshot == [used |-> FALSE, out |-> {}, aside |-> {}, intent |-> FALSE, row |-> FALSE,
           catalog |-> 0, cards |-> 0]
\* id: the snapshot this call takes; step: next part of the order at hand;
\* todo, retired: snapshots retention still has to delete, and has deleted.
Idle == [pc |-> "idle", id |-> 0, step |-> 1, todo |-> {}, retired |-> {}]

Init ==
    /\ snap = [k \in Ids |-> NoSnapshot]
    /\ live = [catalog |-> 0, cards |-> 0]
    /\ call = Idle /\ pinned = {} /\ late = {} /\ torn = {} /\ faults = 0

In(pc) == call.pc = pc
Goto(pc) == call' = [call EXCEPT !.pc = pc, !.step = 1]
Advance == call' = [call EXCEPT !.step = @ + 1]
Set(k, new) == snap' = [snap EXCEPT ![k] = new]
This == snap[call.id]
Fault == faults < MaxFaults /\ faults' = faults + 1
NoFault == UNCHANGED <<torn, faults>>
Made == {k \in Ids : snap[k].used}
\* A call that took no snapshot has nothing to clean up.
Leave == IF call.id = 0 THEN call' = Idle ELSE Goto("unstage")

----------------------------------------------------------------------------
(* _reconcile_interrupted_snapshot_publications                              *)

Intents == {k \in Ids : snap[k].intent}
Interrupted == Min(Intents)
HasCatalog(k) == "catalog" \in snap[k].out

Begin ==
    /\ In("idle") /\ Goto("reconcile")
    /\ UNCHANGED <<snap, outside>> /\ NoFault

\* FAULT: an intent that is still there is taken to prove that nothing was committed.
UncommittedByIntent(k) == snap[k].intent

Uncommitted(k) == ~snap[k].row

RetireIntent ==
    /\ In("reconcile") /\ Intents # {}
    /\ ~Uncommitted(Interrupted) /\ HasCatalog(Interrupted)
    /\ Set(Interrupted, [snap[Interrupted] EXCEPT !.intent = FALSE])
    /\ UNCHANGED <<call, outside>> /\ NoFault

\* A row whose catalog file is missing stops every call.
Unavailable ==
    /\ In("reconcile") /\ Intents # {}
    /\ ~Uncommitted(Interrupted) /\ ~HasCatalog(Interrupted)
    /\ Leave /\ UNCHANGED <<snap, outside>> /\ NoFault

\* What is left of an interrupted publication is moved aside, in order, its intent last.
Quarantine ==
    /\ In("reconcile") /\ Intents # {} /\ Uncommitted(Interrupted)
    /\ LET d == snap[Interrupted]
           left == {i \in 1 .. 7 : QuarantineOrder[i] \in d.out}
       IN  Set(Interrupted,
               IF left = {}
               THEN [d EXCEPT !.intent = FALSE, !.aside = @ \cup {"intent"}]
               ELSE LET p == QuarantineOrder[Min(left)] IN
                    [d EXCEPT !.out = @ \ {p}, !.aside = @ \cup {p}])
    /\ UNCHANGED <<call, outside>> /\ NoFault

Reconciled ==
    /\ In("reconcile") /\ Intents = {}
    /\ Goto(IF call.id = 0 THEN "sync" ELSE "look")
    /\ UNCHANGED <<snap, outside>> /\ NoFault

----------------------------------------------------------------------------
(* snapshot                                                                  *)

\* sync_pending_card_sidecars brings the card files up to the catalog.
Sync ==
    /\ In("sync") /\ live' = [live EXCEPT !.cards = live.catalog] /\ Goto("check")
    /\ UNCHANGED <<snap, pinned, late>> /\ NoFault

\* The immutable artifacts are all there, and cards agree with the catalog.
Clean == (\A k \in pinned : HasCatalog(k)) /\ live.cards = live.catalog

Check ==
    /\ In("check")
    /\ IF Clean /\ Made # Ids
       THEN LET k == Cardinality(Made) + 1 IN
            /\ call' = [call EXCEPT !.pc = "copy", !.id = k]
            /\ Set(k, [NoSnapshot EXCEPT !.used = TRUE, !.out = {"staging"},
                                     !.catalog = live.catalog])
       ELSE Leave /\ UNCHANGED snap
    /\ UNCHANGED outside /\ NoFault

\* The card files are copied after the catalog, while writers go on.
Copy ==
    /\ In("copy") /\ Set(call.id, [This EXCEPT !.cards = live.cards]) /\ Goto("verify")
    /\ UNCHANGED outside /\ NoFault

Agrees(d) == d.catalog = d.cards

Verify ==
    /\ In("verify") /\ Goto(IF Agrees(This) THEN "intend" ELSE "cleanup")
    /\ UNCHANGED <<snap, outside>> /\ NoFault

Intend ==
    /\ In("intend") /\ Set(call.id, [This EXCEPT !.intent = TRUE]) /\ Goto("publish")
    /\ UNCHANGED outside /\ NoFault

Publish ==
    /\ In("publish") /\ Set(call.id, [This EXCEPT !.out = @ \cup {PublishOrder[call.step]}])
    /\ IF call.step = 6 THEN Goto("commit") ELSE Advance
    /\ UNCHANGED outside /\ NoFault

Commit ==
    /\ In("commit") /\ Set(call.id, [This EXCEPT !.row = TRUE]) /\ Goto("unintend")
    /\ UNCHANGED outside /\ NoFault

\* A commit that raises is taken as none, although it may be durable.
CommitFails ==
    /\ In("commit") /\ Fault
    /\ \E durable \in BOOLEAN :
           /\ Set(call.id, [This EXCEPT !.row = durable])
           /\ torn' = IF durable THEN torn \cup {call.id} ELSE torn
    /\ Goto("cleanup")
    /\ UNCHANGED outside

Fail ==
    /\ call.pc \in {"copy", "verify", "intend", "publish"} /\ Fault
    /\ Goto("cleanup")
    /\ UNCHANGED <<snap, outside, torn>>

Unintend ==
    /\ In("unintend") /\ Set(call.id, [This EXCEPT !.intent = FALSE]) /\ Goto("reconcile")
    /\ UNCHANGED outside /\ NoFault

UnintendFails ==
    /\ In("unintend") /\ Fault /\ Goto("unstage")
    /\ UNCHANGED <<snap, outside, torn>>

Without(k, p) == Set(k, [snap[k] EXCEPT !.out = @ \ {p}])

\* _cleanup_uncommitted_snapshot_outputs: what cannot be removed stays, and the intent stays.
CleanUp ==
    /\ In("cleanup")
    /\ \/ Without(call.id, CleanupOrder[call.step]) /\ NoFault
       \/ Fault /\ UNCHANGED <<snap, torn>>
    /\ IF call.step = 6 THEN Goto("unstage") ELSE Advance
    /\ UNCHANGED outside

Unstage ==
    /\ In("unstage") /\ Without(call.id, "staging") /\ call' = Idle
    /\ UNCHANGED outside /\ NoFault

----------------------------------------------------------------------------
(* enforce_snapshot_retention                                                *)

\* FAULT: snapshots that a proof cites are retired like the others.
UnprotectedDoomed ==
    LET bound == {k \in Ids : snap[k].row /\ HasCatalog(k)}
    IN  {k \in bound : Cardinality({j \in bound : j > k}) >= Keep}

\* What the catalog knows and is not among the newest; proofs protect theirs.
Doomed ==
    LET bound == {k \in Ids : snap[k].row /\ HasCatalog(k)}
    IN  {k \in bound : Cardinality({j \in bound : j > k}) >= Keep} \ pinned

Look ==
    /\ In("look")
    /\ \E doomed \in {{}, Doomed} :  \* keep_all, or the newest ones only
           call' = [call EXCEPT !.pc = "retire", !.step = 1, !.todo = doomed, !.retired = doomed]
    /\ UNCHANGED <<snap, outside>> /\ NoFault

\* The catalog goes first; a part that cannot be removed stays.
Retire ==
    /\ In("retire") /\ call.todo # {}
    /\ LET k == Max(call.todo) IN
       /\ \/ Without(k, RetireOrder[call.step]) /\ NoFault
          \/ Fault /\ UNCHANGED <<snap, torn>>
       /\ IF call.step = 6
          THEN call' = [call EXCEPT !.step = 1, !.todo = @ \ {k}] ELSE Advance
    /\ UNCHANGED outside

\* _retire_missing_snapshot_catalog_rows
RetireMissing ==
    /\ In("retire") /\ call.todo = {}
    /\ snap' = [k \in Ids |-> [snap[k] EXCEPT !.row = @ /\ HasCatalog(k)]]
    /\ Goto("forget")
    /\ UNCHANGED outside /\ NoFault

Forget ==
    /\ In("forget")
    /\ snap' = [k \in Ids |-> [snap[k] EXCEPT !.row = @ /\ k \notin call.retired]]
    /\ Goto("unstage")
    /\ UNCHANGED outside /\ NoFault

----------------------------------------------------------------------------
Die ==
    /\ ~In("idle") /\ Fault /\ call' = Idle
    /\ UNCHANGED <<snap, outside, torn>>

\* A writer of the root commits a card, and later writes its file.
Write ==
    /\ live.catalog < MaxWrites /\ live' = [live EXCEPT !.catalog = @ + 1]
    /\ UNCHANGED <<snap, call, pinned, late>> /\ NoFault

WriteCard ==
    /\ live.cards < live.catalog /\ live' = [live EXCEPT !.cards = live.catalog]
    /\ UNCHANGED <<snap, call, pinned, late>> /\ NoFault

\* _record_proof_artifacts: a proof hashes a snapshot and later records it as
\* immutable; retention may have deleted it in between.
Pin ==
    /\ \E k \in Ids \ pinned :
           /\ snap[k].row /\ (HasCatalog(k) \/ k \in call.retired)
           /\ pinned' = pinned \cup {k}
           /\ late' = IF k \in call.retired THEN late \cup {k} ELSE late
    /\ UNCHANGED <<snap, live, call>> /\ NoFault

Take == RetireIntent \/ Unavailable \/ Quarantine \/ Reconciled \/ Sync \/ Check \/ Copy
           \/ Verify \/ Intend \/ Publish \/ Commit \/ Unintend \/ CleanUp \/ Unstage
Trim == Look \/ Retire \/ RetireMissing \/ Forget
Step == Take \/ Trim
Failure == CommitFails \/ Fail \/ UnintendFails \/ Die
Others == Write \/ WriteCard \/ Pin

Next == Begin \/ Step \/ Failure \/ Others

\* Snapshots are taken again and again, whatever failed before.
Spec == Init /\ [][Next]_vars /\ WF_vars(Begin) /\ WF_vars(Step)

----------------------------------------------------------------------------
\* The newest snapshots of the catalog are whole and copies of one state of the root,
\* after any failures of snapshots and of retention (a commit that raised apart).
KeptIsWhole ==
    LET bound == {k \in Ids : snap[k].row /\ HasCatalog(k)}
    IN  \A k \in {i \in Ids : snap[i].row} \ torn :
            Cardinality({j \in bound : j > k}) < Keep =>
                Parts \subseteq snap[k].out /\ snap[k].catalog = snap[k].cards

\* A snapshot that a proof cites stays, unless the proof was recorded too late for
\* the retention that retires it, or the snapshot's own commit raised.
PinnedStays ==
    [][\A k \in pinned \ (late \cup torn) : HasCatalog(k) => "catalog" \in snap'[k].out]_vars

\* What an interrupted publication left behind is accounted for in the end.
Unsettled(k) == snap[k].intent
Settled(k) == ~snap[k].intent \/ torn # {}
InterruptedIsSettled == \A k \in Ids : Unsettled(k) ~> Settled(k)
=============================================================================
