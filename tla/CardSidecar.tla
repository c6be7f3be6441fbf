---------------------------- MODULE CardSidecar ----------------------------
(***************************************************************************)
(* One Card of the catalog and the YAML files that mirror it                *)
(* (src/continuum/core/store.py, "sidecars").  The catalog row and the      *)
(* files cannot change in one transaction, so the code keeps three kinds of *)
(* authority between them: an outbox row (the file must be written again),  *)
(* a durable intent file (a file is about to be created or cleaned up), and *)
(* two global reservations in the catalog (a file is about to be written,   *)
(* or moved away) which triggers turn into fences.                          *)
(*                                                                          *)
(* Publishers and reconcilers are serialised by one operation lock; Card    *)
(* writers and registrars of immutable artifacts are not, and are stopped   *)
(* by the fences alone.  A process may die, or have an input/output error,  *)
(* between any two steps.                                                   *)
(***************************************************************************)
EXTENDS Naturals, FiniteSets, Functions

CONSTANTS
    LastState,     \* Card states are 1 .. LastState; a new state hash each
    MaxFaults,     \* bound on deaths and input/output errors
    MaxPrunes,     \* bound on runs of prune_memory
    MaxAttempts    \* bound on like intents that exist at one time

States == 1 .. LastState
Missing == 0

NoPath == <<"none", 0>>
Default == <<"default", 0>>
Live == <<"live", 0>>
Generation(s) == <<"generation", s>>
Generations == {Generation(s) : s \in States}
Paths == {Default, Live} \cup Generations

\* An intent is named by all it says; the attempt id tells like ones apart.
Modes == {"write", "compensation_cleanup", "history_transition"}
Intents == [mode : Modes, path : Paths, state : States, attempt : 1 .. MaxAttempts]
NoIntent == [mode |-> "none", path |-> NoPath, state |-> Missing, attempt |-> 0]
Stages == {"open", "moved", "receipted", "queued"}

\* Generations of the outbox row are unique ids that are only compared, so a
\* number nobody holds serves as a fresh one.
NoRow == 0
Rows == NoRow .. 4

VARIABLES
    card,        \* the cards row: state (its state hash) and location_uri
    outbox,      \* generation of its card_sidecar_outbox row, or NoRow
    latest,      \* the newest state the Card has had
    immutable,   \* paths that immutable artifacts rows bind
    fence,       \* the artifact-write reservation is in the meta table
    reserved,    \* intent of the quarantine reservation, or NoIntent
    file,        \* file[p]: the Card state the bytes at p show, or Missing
    intents,     \* stage of each intent that is not archived
    receipts,    \* <<path, state>> that adopted or prepared receipts bind
    unwitnessed, \* locations taken back by a pruning that did not create them (history)
    holder,      \* the process that holds the operation lock
    prune,       \* the run of prune_memory that waits for its postcondition
    faults, prunes

vars == <<card, outbox, latest, immutable, fence, reserved, file, intents, receipts,
          unwitnessed, holder, prune, faults, prunes>>
catalog == <<card, outbox, latest, immutable>>
disk == <<file, intents, receipts>>
counts == <<faults, prunes>>

Idle == [pc |-> "idle", task |-> "none", seen |-> [state |-> Missing, location |-> NoPath],
         row |-> NoRow, target |-> NoPath, create |-> FALSE, wrote |-> FALSE,
         intent |-> NoIntent, listed |-> FALSE, todo |-> {}]
NoPrune == [step |-> "none", before |-> [state |-> Missing, location |-> NoPath],
            after |-> [state |-> Missing, location |-> NoPath], row |-> NoRow, created |-> {},
            registered |-> {}]

FreshRow == CHOOSE g \in Rows \ {NoRow} : g \notin {outbox, holder.row, prune.row}
Unfenced == reserved = NoIntent
At(pc) == holder.pc = pc
Goto(pc) == holder' = [holder EXCEPT !.pc = pc]
Free == holder' = Idle

----------------------------------------------------------------------------
(* Card writers and artifact registrars, which never take the lock.          *)

\* The Card was just created, with or without the promise of a location, or it
\* has a history: an older state's file and its own are bound by artifacts.
Born == 2
Settled == [p \in {Default, Live} |-> IF p = Live THEN Born ELSE Born - 1]

ASSUME SidecarBounds ==
    LastState \in Nat /\ Born \in States /\ {MaxFaults, MaxPrunes, MaxAttempts} \subseteq Nat

Init ==
    /\ \E place \in {NoPath, Default, Live} :
           LET settled == place = Live IN
           /\ card = [state |-> Born, location |-> place]
           /\ outbox = IF place = Default THEN 1 ELSE NoRow
           /\ immutable = IF settled THEN DOMAIN Settled ELSE {}
           /\ file = [p \in Paths |->
                         IF settled /\ p \in DOMAIN Settled THEN Settled[p] ELSE Missing]
    /\ latest = Born /\ fence = FALSE /\ reserved = NoIntent
    /\ intents = << >> /\ receipts = {} /\ unwitnessed = {}
    /\ holder = Idle /\ prune = NoPrune /\ faults = 0 /\ prunes = 0

\* A commit that changes the Card: the outbox row is renewed in the same
\* transaction.  create_card of an existing Card also promises a location.
Update ==
    /\ Unfenced /\ latest < LastState
    /\ \E place \in {card.location, IF card.location = NoPath THEN Default ELSE card.location} :
           card' = [state |-> latest + 1, location |-> place]
    /\ latest' = latest + 1
    /\ outbox' = FreshRow
    /\ UNCHANGED <<immutable, fence, reserved, disk, unwitnessed, holder, prune, counts>>

\* record_artifact binds the file that the Card points at (a proof pack that
\* lists its input files); both fences refuse it.
Unwritten == ~fence
Register ==
    /\ Unfenced /\ Unwritten
    /\ card.location # NoPath /\ file[card.location] # Missing
    /\ card.location \notin immutable
    /\ immutable' = immutable \cup {card.location}
    /\ UNCHANGED <<card, outbox, latest, fence, reserved, disk, unwitnessed, holder, prune,
                   counts>>

----------------------------------------------------------------------------
(* Synchronisation: sync_card_sidecars_after_commit of this Card.            *)

Take(task) == holder' = [Idle EXCEPT !.pc = "recover", !.task = task]

TakeToSync ==
    /\ At("idle")
    /\ \/ Take("sync")
       \/ prune.step = "committed" /\ Take("prune")
    /\ UNCHANGED <<catalog, fence, reserved, disk, unwitnessed, prune, counts>>

\* The reservation a dead publisher left is turned into an outbox row.
RecoverFence ==
    /\ At("recover") /\ Unfenced /\ fence
    /\ outbox' = FreshRow
    /\ fence' = FALSE
    /\ UNCHANGED <<card, latest, immutable, reserved, disk, unwitnessed, holder, prune, counts>>

\* The read transaction on the Card and its outbox row.
Observe ==
    /\ At("recover") /\ Unfenced /\ ~fence /\ holder.task \in {"sync", "prune"}
    /\ holder' = [holder EXCEPT !.pc = "select", !.seen = card, !.row = outbox]
    /\ UNCHANGED <<catalog, fence, reserved, disk, unwitnessed, prune, counts>>

Shows(p, s) == file[p] = s
Current == IF holder.seen.location = NoPath THEN Default ELSE holder.seen.location

\* The file to write, given the paths known to be immutable, and whether it
\* is to be created; a generation never leaves its own name.
Versioned(s) == <<Generation(s), file[Generation(s)] = Missing>>
Target(bound) ==
    LET s == holder.seen.state IN
    CASE Shows(Current, s) -> <<Current, FALSE>>
      [] ~Shows(Current, s) /\ Current \in Generations -> Versioned(s)
      [] ~Shows(Current, s) /\ Current \notin Generations \cup bound ->
             <<Current, file[Current] = Missing>>
      [] ~Shows(Current, s) /\ Current \in bound \ Generations ->
             CASE Shows(Live, s) -> <<Live, FALSE>>
               [] ~Shows(Live, s) /\ (Current = Live \/ Live \in bound) -> Versioned(s)
               [] OTHER -> <<Live, file[Live] = Missing>>

\* A generation about to be left needs a receipt that binds it.
Unbound == /\ Current \in Generations /\ ~Shows(Current, holder.seen.state)
           /\ <<Current, file[Current]>> \notin receipts

Fresh(mode, p, s) ==
    {i \in Intents : i.mode = mode /\ i.path = p /\ i.state = s /\ i \notin DOMAIN intents}
Open(i) == intents' = [k \in DOMAIN intents \cup {i} |->
                           IF k = i THEN "open" ELSE intents[k]]

PrepareTransition ==
    /\ At("select") /\ Unbound /\ file[Current] # Missing
    /\ \E i \in Fresh("history_transition", Current, file[Current]) :
           /\ Open(i)
           /\ holder' = [holder EXCEPT !.pc = "prepared", !.intent = i]
    /\ UNCHANGED <<catalog, fence, reserved, file, receipts, unwitnessed, prune, counts>>

\* A file that shows the Card needs no work, one to create needs an intent first.
WorkOn(choice) ==
    holder' = [holder EXCEPT
        !.target = choice[1], !.create = choice[2],
        !.pc = IF Shows(choice[1], holder.seen.state) THEN "final"
               ELSE IF choice[2] THEN "intent" ELSE "write"]

\* FAULT: a reservation that does not compare the epoch of the artifact index.
ReserveOnOldIndex ==
    /\ At("select") /\ ~Unbound
    /\ \E bound \in SUBSET immutable : WorkOn(Target(bound))
    /\ fence' = TRUE
    /\ UNCHANGED <<catalog, reserved, disk, unwitnessed, prune, counts>>

\* The index of immutable paths is built outside a transaction; the short one
\* that inserts the reservation checks that nothing was registered since.
Reserve ==
    /\ At("select") /\ ~Unbound
    /\ WorkOn(Target(immutable))
    /\ fence' = TRUE
    /\ UNCHANGED <<catalog, reserved, disk, unwitnessed, prune, counts>>

WriteIntent ==
    /\ At("intent")
    /\ \E i \in Fresh("write", holder.target, holder.seen.state) : Open(i)
    /\ Goto("write")
    /\ UNCHANGED <<catalog, fence, reserved, file, receipts, unwitnessed, prune, counts>>

\* An atomic replacement, or an exclusive creation; the flush that follows
\* may still fail.
WriteFile ==
    /\ At("write")
    /\ file' = [file EXCEPT ![holder.target] = holder.seen.state]
    /\ holder' = [holder EXCEPT !.pc = "final", !.wrote = TRUE]
    /\ UNCHANGED <<catalog, fence, reserved, intents, receipts, unwitnessed, prune, counts>>

\* FAULT: an acknowledgement that compares the outbox row's presence only.
SeenSomeRow == card.location = holder.seen.location /\ (outbox = NoRow <=> holder.row = NoRow)

\* The transaction that ends a synchronisation: the outbox row is acknowledged
\* only if the Card is still the one that was read.
StillSeen == card = holder.seen /\ outbox = holder.row
Witness(p, row) ==   \* what prune_memory learns of its own synchronisation
    prune' = IF holder.task = "prune"
             THEN [prune EXCEPT !.step = "synced", !.after.location = p, !.row = row,
                       !.created = IF holder.wrote /\ holder.create
                                   THEN {<<holder.target, holder.seen.state>>} ELSE {}]
             ELSE prune

Acknowledge ==
    /\ At("final")
    /\ card' = [card EXCEPT !.location = IF StillSeen THEN holder.target ELSE @]
    /\ outbox' = IF StillSeen THEN NoRow ELSE IF outbox = NoRow THEN FreshRow ELSE outbox
    /\ fence' = FALSE
    /\ Witness(card'.location, outbox')
    /\ Free
    /\ UNCHANGED <<latest, immutable, reserved, disk, unwitnessed, counts>>

\* An exception on the way; without evidence prune_memory cannot restore.
Fails ==
    /\ holder.seen.state # Missing
    /\ \/ faults < MaxFaults /\ faults' = faults + 1
       \/ At("select") /\ Unbound /\ file[Current] = Missing /\ UNCHANGED faults
    /\ outbox' = IF StillSeen /\ outbox = NoRow THEN FreshRow ELSE outbox
    /\ fence' = FALSE
    /\ IF StillSeen THEN Witness(card.location, outbox')
       ELSE prune' = IF holder.task = "prune" THEN NoPrune ELSE prune
    /\ Free
    /\ UNCHANGED <<card, latest, immutable, reserved, disk, unwitnessed, prunes>>

\* A failure, or a pass that was not clean, may be recorded only when the next
\* holder of the lock is already at work.
RecordsLate ==
    /\ Unfenced /\ faults < MaxFaults
    /\ faults' = faults + 1
    /\ outbox' = FreshRow
    /\ UNCHANGED <<card, latest, immutable, fence, reserved, disk, unwitnessed, holder, prune,
                   prunes>>

----------------------------------------------------------------------------
(* Reconciliation: reconcile_card_sidecar_write_intents.                     *)

TakeToReconcile ==
    /\ At("idle")
    /\ \/ Take("reconcile")
       \/ prune.step = "synced" /\ Take("check")
    /\ UNCHANGED <<catalog, fence, reserved, disk, unwitnessed, prune, counts>>

\* A pass works on the intents that are there when it begins, active or queued.
Listed == DOMAIN intents

Inventory ==
    /\ At("recover") /\ Unfenced /\ ~fence /\ holder.task \in {"reconcile", "check"}
    /\ holder' = [holder EXCEPT !.pc = "pass", !.listed = TRUE, !.todo = Listed]
    /\ UNCHANGED <<catalog, fence, reserved, disk, unwitnessed, prune, counts>>

\* What becomes of an open intent, given a snapshot of the Card: it may name a
\* file that was never created, the file the Card shows, or one nobody refers to.
Promised(i, c) == c.state = file[i.path]

JudgeUncreated(i) == IF i.mode = "history_transition" THEN "unresolved" ELSE "no_file_created"

Unstable(c) == c.location # NoPath /\ file[c.location] = Missing

JudgeReferenced(i, c) ==
    CASE i.mode = "history_transition" ->
             IF file[i.path] = i.state THEN "transition_prepared" ELSE "unresolved"
      [] i.mode = "write" /\ Promised(i, c) ->
             IF file[i.path] = i.state THEN "adopted" ELSE "superseded_by_newer_state"
      [] i.mode = "compensation_cleanup" /\ Promised(i, c) -> "rollback_not_committed"
      [] OTHER -> "unresolved"

JudgeUnreferenced(i, s) ==
    CASE file[i.path] # i.state \/ i.mode = "history_transition" -> "unresolved"
      [] file[i.path] = i.state /\ i.mode # "history_transition" ->
             IF i.path \in s.bound THEN "preserved_immutable"
             ELSE IF i.mode = "write" /\ s.row # NoRow /\ Promised(i, s.card) THEN "unresolved"
             ELSE "quarantined"

Judge(i, s) ==
    CASE file[i.path] = Missing -> JudgeUncreated(i)
      [] file[i.path] # Missing /\ Unstable(s.card) -> "unresolved"
      [] file[i.path] # Missing /\ ~Unstable(s.card) ->
             IF s.card.location = i.path THEN JudgeReferenced(i, s.card)
             ELSE JudgeUnreferenced(i, s)

\* One read transaction gives the Card, its outbox row and the bound paths.
Snapshot == [card |-> card, row |-> outbox, bound |-> immutable]

\* An intent that a receipt already answers is not judged again.
Answered(i) == intents[i] # "open"
Verdict(i) == IF Answered(i) THEN "committed" ELSE Judge(i, Snapshot)

\* What is decided of an intent is handed on to the steps that carry it out.
HandOn(i, verdict) ==
    holder' = [holder EXCEPT !.todo = @ \ {i}, !.intent = i,
                   !.pc = IF verdict = "unresolved" THEN "pass" ELSE verdict]

\* A queued or receipted intent is only retired.
FinishAnswered ==
    /\ At("pass")
    /\ \E i \in holder.todo : Answered(i) /\ HandOn(i, "committed")
    /\ UNCHANGED <<catalog, fence, reserved, disk, unwitnessed, prune, counts>>

\* To quarantine, the transaction that finds the catalog still the one of the
\* snapshot also reserves, which fences the Card and the registrars off.
ReserveQuarantine(i) == reserved' = i

\* A verdict counts only if the catalog is still the one of the snapshot; other
\* verdicts than a quarantine leave no fence.
Decide ==
    /\ At("pass")
    /\ \E i \in holder.todo :
           /\ ~Answered(i) /\ HandOn(i, Verdict(i))
           /\ IF Verdict(i) = "quarantined" THEN ReserveQuarantine(i) ELSE UNCHANGED reserved
    /\ UNCHANGED <<catalog, fence, disk, unwitnessed, prune, counts>>

\* A pass is clean when it leaves no intent behind, its own or a new one.
Unclean == DOMAIN intents # {}

EndPass ==
    /\ At("pass") /\ holder.todo = {}
    /\ \/ UNCHANGED outbox
       \/ Unclean /\ outbox' = FreshRow   \* after a synchronisation
    /\ prune' = IF holder.task = "check"
                THEN [prune EXCEPT !.step = "checked",
                          !.after.location = IF outbox' = outbox THEN @ ELSE card.location,
                          !.row = IF outbox' = outbox THEN @ ELSE outbox']
                ELSE prune
    /\ Free
    /\ UNCHANGED <<card, latest, immutable, fence, reserved, disk, unwitnessed, counts>>

\* FAULT: a recovery that looks for the reserved intent among the active ones only.
ResumeActive ==
    /\ At("recover") /\ ~Unfenced /\ reserved \in DOMAIN intents
    /\ holder' = [holder EXCEPT !.intent = reserved,
           !.pc = IF intents[reserved] \in {"open", "moved"} THEN "quarantined" ELSE "committed"]
    /\ UNCHANGED <<catalog, fence, reserved, disk, unwitnessed, prune, counts>>

\* A quarantine resumes from what the disk shows, for its own process or for
\* the next holder of the lock.
WhereToResume ==
    CASE reserved \notin DOMAIN intents -> "archived"
      [] reserved \in DOMAIN intents ->
             IF intents[reserved] \in {"open", "moved"} THEN "quarantined" ELSE "committed"

Resume ==
    /\ At("recover") /\ ~Unfenced
    /\ holder' = [holder EXCEPT !.intent = reserved, !.pc = WhereToResume]
    /\ UNCHANGED <<catalog, fence, reserved, disk, unwitnessed, prune, counts>>

Move ==
    /\ At("quarantined") /\ intents[holder.intent] = "open"
    /\ file' = [file EXCEPT ![holder.intent.path] = Missing]
    /\ intents' = [intents EXCEPT ![holder.intent] = "moved"]
    /\ UNCHANGED <<catalog, fence, reserved, receipts, unwitnessed, holder, prune, counts>>

Terminal == {"no_file_created", "transition_prepared", "adopted", "superseded_by_newer_state",
             "rollback_not_committed", "preserved_immutable"}

\* The receipt is the durable commit of a verdict; one that adopts a generation,
\* or prepares to leave it, makes that generation history.
Binding == {"adopted", "transition_prepared", "prepared"}
Receipt ==
    /\ intents' = [intents EXCEPT ![holder.intent] = "receipted"]
    /\ receipts' = IF holder.pc \in Binding
                   THEN receipts \cup ({<<holder.intent.path, holder.intent.state>>}
                                          \cap (Generations \X States))
                   ELSE receipts
    /\ Goto("committed")

PublishVerdict ==
    /\ holder.pc \in Terminal \cup {"prepared"}
    /\ Receipt
    /\ prune' = IF holder.task = "check" /\ At("adopted")
                THEN [prune EXCEPT !.created = @ \cup
                          {<<holder.intent.path, holder.intent.state>>}]
                ELSE prune
    /\ UNCHANGED <<catalog, fence, reserved, file, unwitnessed, counts>>

PublishQuarantine ==
    /\ At("quarantined") /\ intents[holder.intent] = "moved"
    /\ Receipt
    /\ UNCHANGED <<catalog, fence, reserved, file, unwitnessed, prune, counts>>

\* Retirement moves the intent to a queue and from there to the archive.
Retire ==
    /\ At("committed")
    /\ IF intents[holder.intent] = "receipted"
       THEN /\ intents' = [intents EXCEPT ![holder.intent] = "queued"]
            /\ UNCHANGED holder
       ELSE /\ intents' = Restrict(intents, DOMAIN intents \ {holder.intent})
            /\ Goto("archived")
    /\ UNCHANGED <<catalog, fence, reserved, file, receipts, unwitnessed, prune, counts>>

Return ==
    /\ At("archived")
    /\ reserved' = NoIntent
    /\ holder' = [holder EXCEPT !.intent = NoIntent,
           !.pc = CASE holder.seen.state # Missing -> "select"
                    [] holder.seen.state = Missing /\ holder.listed -> "pass"
                    [] OTHER -> "recover"]
    /\ UNCHANGED <<catalog, fence, disk, unwitnessed, prune, counts>>

----------------------------------------------------------------------------
(* prune_memory: a commit that its own postcondition may take back.          *)

\* The commit needs a clean catalog: no recovery in progress, no file without an
\* authority, and a sidecar that shows the Card.
NothingToRecover == intents = << >> /\ ~fence
Orphans == {p \in Paths : /\ file[p] # Missing
                          /\ p # card.location /\ p \notin immutable
                          /\ <<p, file[p]>> \notin receipts}
Mirrored == card.location # NoPath /\ Shows(card.location, card.state)
Clean == NothingToRecover /\ Orphans = {} /\ Mirrored

Prune ==
    /\ Unfenced /\ Clean
    /\ prune.step = "none" /\ prunes < MaxPrunes /\ latest < LastState
    /\ card' = [card EXCEPT !.state = latest + 1]
    /\ latest' = latest + 1
    /\ outbox' = FreshRow
    /\ prune' = [NoPrune EXCEPT !.step = "committed", !.before = card, !.after = card',
                    !.row = outbox']
    /\ prunes' = prunes + 1
    /\ UNCHANGED <<immutable, fence, reserved, disk, unwitnessed, holder, faults>>

\* The postcondition failed: the lock is taken, without recovering what a dead
\* holder reserved, and each file the pruning created gets an intent.
TakeToRestore ==
    /\ At("idle") /\ prune.step = "checked"
    /\ Take("restore")
    /\ UNCHANGED <<catalog, fence, reserved, disk, unwitnessed, prune, counts>>

\* FAULT: a restore that leaves the files of the pruning to the next audit.
RegisterNothing ==
    /\ At("recover") /\ holder.task = "restore"
    /\ prune.registered # prune.created
    /\ prune' = [prune EXCEPT !.registered = prune.created]
    /\ UNCHANGED <<catalog, fence, reserved, disk, unwitnessed, holder, counts>>

RegisterCleanup ==
    /\ At("recover") /\ holder.task = "restore"
    /\ \E c \in prune.created \ prune.registered :
           /\ \E i \in Fresh("compensation_cleanup", c[1], c[2]) : Open(i)
           /\ prune' = [prune EXCEPT !.registered = @ \cup {c}]
    /\ UNCHANGED <<catalog, fence, reserved, file, receipts, unwitnessed, holder, counts>>

\* The Card goes back only if nobody touched it; a quarantine fences it off.
RestoreRows ==
    /\ At("recover") /\ holder.task = "restore" /\ prune.registered = prune.created
    /\ IF card = prune.after /\ outbox = prune.row /\ Unfenced
       THEN /\ card' = prune.before /\ outbox' = FreshRow
            /\ unwitnessed' = unwitnessed \cup {p \in {card.location} : prune.created = {}}
       ELSE UNCHANGED <<card, outbox, unwitnessed>>
    /\ prune' = NoPrune
    /\ Free
    /\ UNCHANGED <<latest, immutable, fence, reserved, disk, counts>>

Accept ==
    /\ prune.step = "checked" /\ holder.task # "restore"
    /\ prune' = NoPrune
    /\ UNCHANGED <<catalog, fence, reserved, disk, unwitnessed, holder, counts>>

----------------------------------------------------------------------------
(* Deaths.                                                                   *)

\* The holder dies, or a reconciler gives up on an error; all it knew is lost.
Stop ==
    /\ ~At("idle") /\ faults < MaxFaults
    /\ faults' = faults + 1
    /\ Free
    /\ prune' = IF holder.task \in {"prune", "check", "restore"} THEN NoPrune ELSE prune
    /\ UNCHANGED <<catalog, fence, reserved, disk, unwitnessed, prunes>>

Publisher == RecoverFence \/ Observe \/ PrepareTransition \/ Reserve \/ WriteIntent
                \/ WriteFile \/ Acknowledge
Reconciler == Inventory \/ FinishAnswered \/ Decide \/ EndPass \/ Resume \/ Move
                 \/ PublishVerdict \/ PublishQuarantine \/ Retire \/ Return
Pruner == Prune \/ TakeToRestore \/ RegisterCleanup \/ RestoreRows \/ Accept

Next == Update \/ Register \/ TakeToSync \/ TakeToReconcile \/ Publisher \/ Fails
           \/ RecordsLate \/ Reconciler \/ Pruner \/ Stop

Spec == Init /\ [][Next]_vars

\* A live holder goes on.  Maintenance takes the lock again and again, to
\* synchronise a Card that is pending and to reconcile in any case.
Pending == outbox # NoRow \/ card.location = NoPath
Synchronises == Pending /\ TakeToSync /\ holder'.task = "sync"
Reconciles == TakeToReconcile /\ holder'.task = "reconcile"
LiveSpec ==
    /\ Spec
    /\ WF_vars(Publisher \/ Fails \/ Reconciler \/ RegisterCleanup \/ RestoreRows)
    /\ SF_vars(Synchronises)
    /\ SF_vars(Reconciles)

----------------------------------------------------------------------------
Cards == [state : States, location : Paths \cup {NoPath}]
Seen == [state : States \cup {Missing}, location : Paths \cup {NoPath}]

\* The state keeps its shape.
TypeOK ==
    /\ card \in Cards /\ outbox \in Rows /\ latest \in States
    /\ immutable \subseteq Paths /\ fence \in BOOLEAN /\ reserved \in Intents \cup {NoIntent}
    /\ file \in [Paths -> States \cup {Missing}]
    /\ DOMAIN intents \subseteq Intents /\ \A i \in DOMAIN intents : intents[i] \in Stages
    /\ receipts \subseteq Generations \X States
    /\ holder.seen \in Seen /\ holder.row \in Rows /\ holder.todo \subseteq Intents
    /\ prune.before \in Seen /\ prune.after \in Seen /\ prune.row \in Rows
    /\ faults \in 0 .. MaxFaults /\ prunes \in 0 .. MaxPrunes

\* The file that the catalog points at shows the Card, or an outbox row says it
\* has to be written again: whatever dies between the two stores, no reader is
\* left with a stale file that nobody knows of.
SidecarOrDebt ==
    card.location # NoPath /\ ~Shows(card.location, card.state) => outbox # NoRow

\* Every file has an authority: the Card, an immutable artifact, an intent that a
\* reconciler still has to judge, or a receipt that makes it history.  (A pruning
\* taken back leaves a bare file if another process had created it.)
OrphansAccounted ==
    \A p \in Paths : file[p] # Missing =>
        \/ p = card.location \/ p \in immutable \/ p \in unwitnessed
        \/ \E i \in DOMAIN intents : i.path = p
        \/ <<p, file[p]>> \in receipts

\* No step changes bytes that an immutable artifact binds, and none takes away the
\* file that the catalog points at: the fences hold off Card writers and registrars
\* between a verdict and its move, and between a choice of path and its write.
AuthoritativeBytesStay ==
    [][\A p \in Paths : file[p] # Missing =>
           /\ p \in immutable => file'[p] = file[p]
           /\ p = card.location => file'[p] # Missing]_vars

\* "Hash-suffixed generations are immutable by content-addressed name even before
\* artifact registration" (docs/worker-operations.md): what a receipt binds as
\* history stays in place.
GenerationsImmutable ==
    [][\A r \in receipts : file[r[1]] = r[2] => file'[r[1]] = r[2]]_vars

\* Whatever dies, and however often the Card changes, synchronisation comes back to
\* a located file that shows the Card, with no fence left in the catalog.
Agree == card.location # NoPath /\ Shows(card.location, card.state) /\ ~fence /\ Unfenced
Converges == []<>Agree

=============================================================================
