-------------------------- MODULE MCSidecar_proofs --------------------------
(***************************************************************************)
(* Proofs about modules CardSidecar and FailedRecovery, as MCSidecar puts   *)
(* them together: for any number of states of the Card, of deaths and       *)
(* errors, of prunings, of like intents, of rows, receipts and passes.      *)
(*   - The catalog never points at a stale file without saying so, and no   *)
(*     step takes away bytes that it or an artifact binds (IInv).           *)
(*   - Every file has an authority, or an intent to be judged (OrphanInv).  *)
(*   - A failure of a row is decided once, and a row comes back only on     *)
(*     receipts that are still so (RowInv).                                 *)
(***************************************************************************)
EXTENDS MCSidecar, Sequences, FiniteSetTheorems, TLAPS

-----------------------------------------------------------------------------
(* Types.                                                                   *)

Verdicts == Terminal \cup {"quarantined", "committed", "unresolved"}

Pcs == Verdicts \cup {"idle", "recover", "select", "prepared", "intent", "write", "final",
                       "pass", "archived"}
Tasks == {"none", "sync", "prune", "reconcile", "check", "restore"}

Holders ==
    [pc : Pcs, task : Tasks, seen : Seen, row : Rows, target : Paths \cup {NoPath},
     create : BOOLEAN, wrote : BOOLEAN, intent : Intents \cup {NoIntent},
     listed : BOOLEAN, todo : SUBSET Intents]

Files == (Paths \cup {NoPath}) \X (States \cup {Missing})
Prunings ==
    [step : {"none", "committed", "synced", "checked"}, before : Seen, after : Seen,
     row : Rows, created : SUBSET Files, registered : SUBSET Files]

\* Each task of a pruning belongs to one step of it, which has a Card to go back to.
Pruned ==
    /\ prune.step # "none" => prune.before \in Cards /\ prune.after \in Cards
    /\ holder.task = "prune" => prune.step = "committed"
    /\ holder.task = "check" => prune.step = "synced"
    /\ holder.task = "restore" => prune.step = "checked"

Typed == TypeOK /\ holder \in Holders /\ prune \in Prunings /\ Pruned

\* There is always a generation of the outbox row that nobody holds.
LEMMA FreshRowExists ==
    ASSUME Typed
    PROVE  FreshRow \in Rows \ {NoRow}
<1>1. outbox \in Rows /\ holder.row \in Rows /\ prune.row \in Rows
  BY DEF Typed, TypeOK
<1>2. \E g \in Rows \ {NoRow} : g \notin {outbox, holder.row, prune.row}
  <2>1. 1 \in Rows \ {NoRow} /\ 2 \in Rows \ {NoRow} /\ 3 \in Rows \ {NoRow}
        /\ 4 \in Rows \ {NoRow}
    BY DEF Rows, NoRow
  <2> QED
    BY <1>1, <2>1 DEF Rows, NoRow
<1> QED
  BY <1>2 DEF FreshRow

LEMMA PathsDiffer ==
    /\ NoPath \notin Paths /\ Default \in Paths /\ Live \in Paths
    /\ Default # Live /\ Default \notin Generations /\ Live \notin Generations
    /\ \A s \in States : Generation(s) \in Paths /\ Generation(s) \in Generations
    /\ \A s, t \in States : Generation(s) = Generation(t) => s = t
    /\ NoIntent \notin Intents /\ Missing \notin States
  BY DEF NoPath, Paths, Default, Live, Generations, Generation, NoIntent, Intents, Modes,
         Missing, States

\* A verdict is one of those that the rest of the pass knows how to carry out.
LEMMA VerdictIsKnown ==
    ASSUME NEW i \in Intents
    PROVE  Verdict(i) \in Verdicts
<1> DEFINE s == Snapshot
<1>1. JudgeUncreated(i) \in Verdicts
  BY DEF JudgeUncreated, Verdicts, Terminal
<1>2. JudgeReferenced(i, s.card) \in Verdicts
  BY DEF JudgeReferenced, Verdicts, Terminal
<1>3. JudgeUnreferenced(i, s) \in Verdicts
  BY DEF JudgeUnreferenced, Verdicts, Terminal
<1>4. "unresolved" \in Verdicts /\ "committed" \in Verdicts
  BY DEF Verdicts
<1>5. Judge(i, s) \in Verdicts
  BY <1>1, <1>2, <1>3, <1>4 DEF Judge
<1> QED
  BY <1>4, <1>5 DEF Verdict

\* Only a file that nobody refers to is quarantined.
LEMMA QuarantinedIsUnreferenced ==
    ASSUME NEW i \in Intents, Verdict(i) = "quarantined"
    PROVE  i.path # card.location /\ i.path \notin immutable
<1> DEFINE s == Snapshot
<1>1. Judge(i, s) = "quarantined"
  BY DEF Verdict
<1>2. JudgeUncreated(i) # "quarantined" /\ JudgeReferenced(i, s.card) # "quarantined"
  BY DEF JudgeUncreated, JudgeReferenced
<1>3. s.card.location # i.path /\ JudgeUnreferenced(i, s) = "quarantined"
  BY <1>1, <1>2 DEF Judge
<1>4. i.path \notin s.bound
  BY <1>3 DEF JudgeUnreferenced
<1> QED
  BY <1>3, <1>4 DEF Snapshot

LEMMA NothingTyped ==
    Idle \in Holders /\ NoPrune \in Prunings
<1>1. [state |-> Missing, location |-> NoPath] \in Seen
  BY DEF Seen
<1>2. NoRow \in Rows
  BY DEF Rows, NoRow
<1>3. Idle \in Holders
  BY <1>1, <1>2 DEF Idle, Holders, Pcs, Tasks
<1>4. NoPrune \in Prunings
  BY <1>1, <1>2 DEF NoPrune, Prunings
<1> QED
  BY <1>3, <1>4

LEMMA TypedInit ==
    ASSUME Init
    PROVE  Typed
<1> USE SidecarBounds DEF Init
<1>1. PICK place \in {NoPath, Default, Live} :
          /\ card = [state |-> Born, location |-> place]
          /\ outbox = IF place = Default THEN 1 ELSE NoRow
          /\ immutable = IF place = Live THEN DOMAIN Settled ELSE {}
          /\ file = [p \in Paths |->
                        IF place = Live /\ p \in DOMAIN Settled THEN Settled[p] ELSE Missing]
  OBVIOUS
<1>2. card \in Cards /\ outbox \in Rows
  BY <1>1 DEF Cards, Paths, Rows, NoRow
<1>3. DOMAIN Settled = {Default, Live} /\ \A p \in DOMAIN Settled : Settled[p] \in States
  BY PathsDiffer DEF Settled, Born, States
<1>4. immutable \subseteq Paths /\ file \in [Paths -> States \cup {Missing}]
  BY <1>1, <1>3, PathsDiffer
<1>5. Idle \in Holders
  BY NothingTyped
<1>6. NoPrune \in Prunings
  BY NothingTyped
<1>7. holder.seen \in Seen /\ holder.row \in Rows /\ holder.todo \subseteq Intents
  BY <1>5 DEF Holders
<1>8. prune.before \in Seen /\ prune.after \in Seen /\ prune.row \in Rows
  BY DEF NoPrune, Seen, Rows, NoRow
<1>9. {} \subseteq Generations \X States /\ 0 \in 0 .. MaxFaults /\ 0 \in 0 .. MaxPrunes
  BY SidecarBounds
<1>11. latest \in States /\ fence \in BOOLEAN /\ reserved \in Intents \cup {NoIntent}
      /\ faults \in 0 .. MaxFaults /\ prunes \in 0 .. MaxPrunes /\ receipts \subseteq Generations \X States
  BY <1>9
<1>10. DOMAIN intents = {}
  OBVIOUS
<1> QED
  BY <1>2, <1>4, <1>5, <1>6, <1>7, <1>8, <1>10, <1>11 DEF Typed, TypeOK, Pruned, NoPrune, Idle

\* The intents after one is opened, or moved on, or archived.
LEMMA IntentsTyped ==
    ASSUME Typed, NEW i \in Intents
    PROVE  /\ Open(i) => DOMAIN intents' \subseteq Intents
                         /\ \A k \in DOMAIN intents' : intents'[k] \in Stages
           /\ \A stage \in Stages : intents' = [intents EXCEPT ![i] = stage] =>
                  DOMAIN intents' \subseteq Intents
                  /\ \A k \in DOMAIN intents' : intents'[k] \in Stages
           /\ intents' = Restrict(intents, DOMAIN intents \ {i}) =>
                  DOMAIN intents' \subseteq Intents
                  /\ \A k \in DOMAIN intents' : intents'[k] \in Stages
  BY DEF Typed, TypeOK, Open, Stages, Restrict

\* The parts that most steps leave alone.
LEMMA TypedParts ==
    ASSUME Typed, holder' \in Holders, prune' \in Prunings, Pruned',
           card' \in Cards, outbox' \in Rows, latest' \in States, immutable' \subseteq Paths,
           fence' \in BOOLEAN, reserved' \in Intents \cup {NoIntent},
           file' \in [Paths -> States \cup {Missing}],
           DOMAIN intents' \subseteq Intents, \A i \in DOMAIN intents' : intents'[i] \in Stages,
           receipts' \subseteq Generations \X States,
           faults' \in 0 .. MaxFaults, prunes' \in 0 .. MaxPrunes
    PROVE  Typed'
<1>1. holder'.seen \in Seen /\ holder'.row \in Rows /\ holder'.todo \subseteq Intents
  BY DEF Holders
<1>2. prune'.before \in Seen /\ prune'.after \in Seen /\ prune'.row \in Rows
  BY DEF Prunings
<1> QED
  BY <1>1, <1>2 DEF Typed, TypeOK

\* What a step of a Card writer, of a registrar or of a pruning leaves well typed.
LEMMA WritersTyped ==
    ASSUME Typed, Update \/ Register \/ RecordsLate \/ Prune \/ Accept
    PROVE  Typed'
<1> USE FreshRowExists, PathsDiffer, SidecarBounds
<1>1. /\ card \in Cards /\ outbox \in Rows /\ latest \in States /\ immutable \subseteq Paths
      /\ fence \in BOOLEAN /\ reserved \in Intents \cup {NoIntent}
      /\ file \in [Paths -> States \cup {Missing}]
      /\ DOMAIN intents \subseteq Intents /\ \A i \in DOMAIN intents : intents[i] \in Stages
      /\ receipts \subseteq Generations \X States /\ holder \in Holders /\ prune \in Prunings
      /\ Pruned /\ faults \in 0 .. MaxFaults /\ prunes \in 0 .. MaxPrunes
  BY DEF Typed, TypeOK
<1>2. latest < LastState => latest + 1 \in States
  BY <1>1 DEF States
<1>3. CASE Update
  <2>1. card' \in Cards
    BY <1>1, <1>2, <1>3 DEF Update, Cards
  <2> QED
    BY <1>1, <1>2, <1>3, <2>1, TypedParts DEF Update, disk, counts, Pruned
<1>4. CASE Register
  <2>1. immutable' \subseteq Paths
    BY <1>1, <1>4 DEF Register, Cards
  <2> QED
    BY <1>1, <1>4, <2>1, TypedParts DEF Register, disk, counts, Pruned
<1>5. CASE RecordsLate
  <2>1. faults' \in 0 .. MaxFaults
    BY <1>1, <1>5 DEF RecordsLate
  <2> QED
    BY <1>1, <1>5, <2>1, TypedParts DEF RecordsLate, disk, Pruned
<1>6. CASE Prune
  <2>1. card' \in Cards /\ prunes' \in 0 .. MaxPrunes
    BY <1>1, <1>2, <1>6 DEF Prune, Cards
  <2>2. prune' \in Prunings /\ Pruned'
    BY <1>1, <1>6, <2>1, NothingTyped DEF Prune, Prunings, Pruned, Cards, Seen
  <2> QED
    BY <1>1, <1>2, <1>6, <2>1, <2>2, TypedParts DEF Prune, disk
<1>7. CASE Accept
  <2>1. prune' \in Prunings /\ Pruned'
    BY <1>1, <1>7, NothingTyped DEF Accept, Pruned, NoPrune
  <2> QED
    BY <1>1, <1>7, <2>1, TypedParts DEF Accept, catalog, disk, counts
<1> QED
  BY <1>3, <1>4, <1>5, <1>6, <1>7

-----------------------------------------------------------------------------
(* The lock and the fences.                                                 *)

Holding == holder.seen.state # Missing
Reading == {"select", "prepared", "intent", "write", "final"}

\* A holder that has read the Card keeps its publication free of a quarantine; a
\* quarantine is carried out by a holder that took it from its reservation.
Locked ==
    /\ holder.pc \in Reading => Holding
    /\ Holding => Unfenced /\ holder.pc \in Reading \cup {"committed", "archived"}
    /\ At("pass") => Unfenced
    /\ At("quarantined") => ~Unfenced /\ holder.intent = reserved
    /\ holder.pc \in {"intent", "write", "final"} => holder.target \in Paths
    /\ holder.pc \in {"intent", "write", "final"} => fence

\* Which file a synchronisation chooses.
LEMMA TargetChosen ==
    ASSUME Typed, Holding, NEW c, c = Target(immutable)
    PROVE  /\ c[1] \in Paths /\ c[2] \in BOOLEAN
           /\ Shows(c[1], holder.seen.state) \/ c[1] = Generation(holder.seen.state)
                 \/ c[1] \notin immutable \cup Generations
           /\ ~Shows(c[1], holder.seen.state) => (c[2] <=> file[c[1]] = Missing)
           /\ c[1] # Current =>
                 \/ Current \in immutable
                 \/ Current \in Generations /\ ~Shows(Current, holder.seen.state)
<1> DEFINE s == holder.seen.state
<1>1. s \in States /\ Current \in Paths
  BY PathsDiffer DEF Typed, Holders, Holding, Seen, Current
<1>2. Versioned(s)[1] = Generation(s) /\ Versioned(s)[2] = (file[Generation(s)] = Missing)
  BY DEF Versioned
<1>3. CASE Shows(Current, s)
  <2>1. c[1] = Current /\ c[2] = FALSE
    BY <1>3 DEF Target
  <2> QED
    BY <1>1, <1>3, <2>1
<1>4. CASE ~Shows(Current, s) /\ Current \in Generations
  <2>1. c[1] = Versioned(s)[1] /\ c[2] = Versioned(s)[2]
    BY <1>4 DEF Target
  <2> QED
    BY <1>1, <1>2, <1>4, <2>1, PathsDiffer
<1>5. CASE ~Shows(Current, s) /\ Current \notin Generations \cup immutable
  <2>1. c[1] = Current /\ c[2] = (file[Current] = Missing)
    BY <1>5 DEF Target
  <2> QED
    BY <1>1, <1>5, <2>1
<1>6. CASE ~Shows(Current, s) /\ Current \in immutable \ Generations
  <2>1. \/ c[1] = Live /\ c[2] = FALSE /\ Shows(Live, s)
        \/ c[1] = Versioned(s)[1] /\ c[2] = Versioned(s)[2]
        \/ c[1] = Live /\ c[2] = (file[Live] = Missing) /\ Live \notin immutable
    BY <1>6 DEF Target
  <2> QED
    BY <1>1, <1>2, <1>6, <2>1, PathsDiffer
<1> QED
  BY <1>3, <1>4, <1>5, <1>6

-----------------------------------------------------------------------------
\* What a step of the lock's holder leaves well typed.
LEMMA PublisherTyped ==
    ASSUME Typed, Locked, Publisher \/ TakeToSync \/ TakeToReconcile \/ TakeToRestore
    PROVE  Typed'
<1> USE FreshRowExists, PathsDiffer, SidecarBounds, NothingTyped
<1>1. /\ card \in Cards /\ outbox \in Rows /\ latest \in States /\ immutable \subseteq Paths
      /\ fence \in BOOLEAN /\ reserved \in Intents \cup {NoIntent}
      /\ file \in [Paths -> States \cup {Missing}]
      /\ DOMAIN intents \subseteq Intents /\ \A i \in DOMAIN intents : intents[i] \in Stages
      /\ receipts \subseteq Generations \X States /\ holder \in Holders /\ prune \in Prunings
      /\ Pruned /\ faults \in 0 .. MaxFaults /\ prunes \in 0 .. MaxPrunes
  BY DEF Typed, TypeOK
<1>2. \A pc \in Pcs : [holder EXCEPT !.pc = pc] \in Holders
  BY <1>1 DEF Holders
<1>3. \A task \in Tasks : [Idle EXCEPT !.pc = "recover", !.task = task] \in Holders
  BY DEF Holders, Pcs
<1>4. CASE TakeToSync \/ TakeToReconcile \/ TakeToRestore
  <2>1. holder' \in Holders
    BY <1>3, <1>4 DEF TakeToSync, TakeToReconcile, TakeToRestore, Take, Tasks
  <2>2. UNCHANGED <<catalog, fence, reserved, disk, unwitnessed, prune, counts>>
    BY <1>4 DEF TakeToSync, TakeToReconcile, TakeToRestore
  <2>3. Pruned'
    BY <1>1, <1>4 DEF TakeToSync, TakeToReconcile, TakeToRestore, Take, Pruned, Idle
  <2> QED
    BY <1>1, <2>1, <2>2, <2>3, TypedParts DEF catalog, disk, counts
<1>5. CASE RecoverFence
  BY <1>1, <1>5, TypedParts DEF RecoverFence, disk, counts, Pruned
<1>6. CASE Observe
  <2>1. holder' \in Holders
    BY <1>1, <1>6 DEF Observe, Holders, Pcs, Cards, Seen
  <2> QED
    BY <1>1, <1>6, <2>1, TypedParts DEF Observe, catalog, disk, counts, Pruned
<1>7. Current \in Paths
  BY <1>1 DEF Current, Holders, Seen
<1>8. CASE PrepareTransition
  <2>1. PICK i \in Fresh("history_transition", Current, file[Current]) :
            Open(i) /\ holder' = [holder EXCEPT !.pc = "prepared", !.intent = i]
    BY <1>8 DEF PrepareTransition
  <2>2. i \in Intents
    BY <2>1 DEF Fresh
  <2>3. holder' \in Holders
    BY <1>1, <2>1, <2>2 DEF Holders, Pcs
  <2>4. DOMAIN intents' \subseteq Intents /\ \A k \in DOMAIN intents' : intents'[k] \in Stages
    BY <2>1, <2>2, IntentsTyped
  <2> QED
    BY <1>1, <1>8, <2>3, <2>4, TypedParts DEF PrepareTransition, catalog, counts, Pruned
<1>9. CASE Reserve
  <2>1. Holding
    BY <1>9 DEF Reserve, Locked, Reading, At
  <2>2. Target(immutable)[1] \in Paths /\ Target(immutable)[2] \in BOOLEAN
    BY <2>1, TargetChosen
  <2>3. holder' \in Holders
    BY <1>1, <1>9, <2>2 DEF Reserve, WorkOn, Holders, Pcs
  <2>4. Pruned'
    BY <1>1, <1>9 DEF Reserve, WorkOn, Pruned, Holders
  <2> QED
    BY <1>1, <1>9, <2>3, <2>4, TypedParts DEF Reserve, catalog, disk, counts
<1>10. CASE WriteIntent
  <2>1. PICK i \in Fresh("write", holder.target, holder.seen.state) : Open(i)
    BY <1>10 DEF WriteIntent
  <2>2. DOMAIN intents' \subseteq Intents /\ \A k \in DOMAIN intents' : intents'[k] \in Stages
    BY <2>1, IntentsTyped DEF Fresh
  <2>3. holder' \in Holders
    BY <1>2, <1>10 DEF WriteIntent, Goto, Pcs
  <2>4. Pruned'
    BY <1>1, <1>10 DEF WriteIntent, Goto, Pruned, Holders
  <2>5. UNCHANGED <<catalog, fence, reserved, file, receipts, unwitnessed, prune, counts>>
    BY <1>10 DEF WriteIntent
  <2> QED
    BY <1>1, <2>2, <2>3, <2>4, <2>5, TypedParts DEF catalog, counts
<1>11. CASE WriteFile
  <2>1. Holding
    BY <1>11 DEF WriteFile, Locked, Reading, At
  <2>2. file' \in [Paths -> States \cup {Missing}]
    BY <1>1, <1>11, <2>1 DEF WriteFile, Holding, Holders, Seen
  <2>3. holder' \in Holders
    BY <1>1, <1>11 DEF WriteFile, Holders, Pcs
  <2>4. Pruned'
    BY <1>1, <1>11 DEF WriteFile, Pruned, Holders
  <2>5. UNCHANGED <<catalog, fence, reserved, intents, receipts, unwitnessed, prune, counts>>
    BY <1>11 DEF WriteFile
  <2> QED
    BY <1>1, <2>2, <2>3, <2>4, <2>5, TypedParts DEF catalog, counts
<1>12. CASE Acknowledge
  <2>0. Holding /\ holder.target \in Paths
    BY <1>12 DEF Acknowledge, Locked, Reading, At
  <2>1. card' \in Cards /\ outbox' \in Rows /\ holder' \in Holders /\ fence' \in BOOLEAN
    <3>1. card' = [card EXCEPT !.location = holder.target] \/ card' = card
      BY <1>1, <1>12 DEF Acknowledge, Cards
    <3>2. card' \in Cards
      BY <1>1, <2>0, <3>1 DEF Cards
    <3>3. outbox' \in {outbox, NoRow, FreshRow} /\ NoRow \in Rows
      BY <1>12 DEF Acknowledge, Rows, NoRow
    <3> QED
      BY <1>1, <1>12, <3>2, <3>3 DEF Acknowledge, Free
  <2>2. {<<holder.target, holder.seen.state>>} \subseteq Files
    BY <1>1 DEF Holders, Files, Seen
  <2>3. Witness(card'.location, outbox')
    BY <1>12 DEF Acknowledge
  <2>4. card'.location \in Paths \cup {NoPath}
    BY <2>1 DEF Cards
  <2>5. prune' \in Prunings
    BY <1>1, <2>1, <2>2, <2>3, <2>4 DEF Witness, Prunings, Seen
  <2>7. Pruned'
    BY <1>1, <1>12, <2>3, <2>4 DEF Witness, Acknowledge, Free, Idle, Pruned, Prunings, Cards
  <2> QED
    BY <1>1, <1>12, <2>1, <2>5, <2>7, TypedParts DEF Acknowledge, disk, counts
<1> QED
  BY <1>4, <1>5, <1>6, <1>8, <1>9, <1>10, <1>11, <1>12 DEF Publisher

LEMMA ReconcilerTyped ==
    ASSUME Typed, Locked, Reconciler \/ Fails \/ RegisterCleanup \/ RestoreRows \/ Stop
    PROVE  Typed'
<1> USE FreshRowExists, PathsDiffer, SidecarBounds, NothingTyped
<1>1. /\ card \in Cards /\ outbox \in Rows /\ latest \in States /\ immutable \subseteq Paths
      /\ fence \in BOOLEAN /\ reserved \in Intents \cup {NoIntent}
      /\ file \in [Paths -> States \cup {Missing}]
      /\ DOMAIN intents \subseteq Intents /\ \A i \in DOMAIN intents : intents[i] \in Stages
      /\ receipts \subseteq Generations \X States /\ holder \in Holders /\ prune \in Prunings
      /\ Pruned /\ faults \in 0 .. MaxFaults /\ prunes \in 0 .. MaxPrunes
  BY DEF Typed, TypeOK
<1>2. \A pc \in Pcs : /\ [holder EXCEPT !.pc = pc] \in Holders
                      /\ [holder EXCEPT !.pc = pc].task = holder.task
  BY <1>1 DEF Holders
<1>3. CASE Inventory
  <2>1. holder' \in Holders /\ holder'.task = holder.task
    BY <1>1, <1>3 DEF Inventory, Listed, Holders, Pcs
  <2> QED
    BY <1>1, <1>3, <2>1, TypedParts DEF Inventory, catalog, disk, counts, Pruned
<1>4. \A i \in Intents, v \in Verdicts :
          HandOn(i, v) => holder' \in Holders /\ holder'.task = holder.task
  <2> TAKE i \in Intents, v \in Verdicts
  <2> HAVE HandOn(i, v)
  <2> DEFINE pc == IF v = "unresolved" THEN "pass" ELSE v
  <2>1. pc \in Pcs /\ holder.todo \ {i} \in SUBSET Intents
    BY <1>1 DEF Holders, Pcs
  <2>2. holder' = [holder EXCEPT !.todo = holder.todo \ {i}, !.intent = i, !.pc = pc]
    BY <1>1 DEF HandOn, Holders
  <2> HIDE DEF pc
  <2> QED
    BY <1>1, <2>1, <2>2 DEF Holders
<1>5. CASE FinishAnswered
  <2>1. holder' \in Holders /\ holder'.task = holder.task
    BY <1>1, <1>4, <1>5 DEF FinishAnswered, Holders, Verdicts
  <2> QED
    BY <1>1, <1>5, <2>1, TypedParts DEF FinishAnswered, catalog, disk, counts, Pruned
<1>6. CASE Decide
  <2>1. PICK i \in holder.todo :
            /\ HandOn(i, Verdict(i))
            /\ IF Verdict(i) = "quarantined" THEN ReserveQuarantine(i) ELSE UNCHANGED reserved
    BY <1>6 DEF Decide
  <2>2. i \in Intents
    BY <1>1, <2>1 DEF Holders
  <2>3. holder' \in Holders /\ holder'.task = holder.task
    BY <1>4, <2>1, <2>2, VerdictIsKnown
  <2>4. reserved' \in Intents \cup {NoIntent}
    BY <1>1, <2>1, <2>2 DEF ReserveQuarantine
  <2> QED
    BY <1>1, <1>6, <2>3, <2>4, TypedParts DEF Decide, catalog, disk, counts, Pruned
<1>7. CASE EndPass
  <2>1. outbox' \in Rows /\ holder' \in Holders /\ holder'.task = "none"
    BY <1>1, <1>7 DEF EndPass, Free, Idle
  <2>2. prune' \in Prunings
    BY <1>1, <1>7, <2>1 DEF EndPass, Prunings, Seen, Cards
  <2>3. Pruned'
    <3>1. CASE holder.task # "check"
      BY <1>1, <1>7, <2>1, <3>1 DEF EndPass, Pruned
    <3>2. CASE holder.task = "check"
      <4>1. prune.before \in Cards /\ prune.after \in Cards
        BY <1>1, <3>2 DEF Pruned
      <4> QED
        BY <1>1, <1>7, <2>1, <3>2, <4>1 DEF EndPass, Pruned, Prunings, Cards
    <3> QED
      BY <3>1, <3>2
  <2> QED
    BY <1>1, <1>7, <2>1, <2>2, <2>3, TypedParts DEF EndPass, disk, counts
<1>8. CASE Resume
  <2>1. WhereToResume \in Pcs
    BY DEF WhereToResume, Pcs, Verdicts
  <2>2. holder' \in Holders /\ holder'.task = holder.task
    BY <1>1, <1>8, <2>1 DEF Resume, Holders
  <2> QED
    BY <1>1, <1>8, <2>2, TypedParts DEF Resume, catalog, disk, counts, Pruned
<1>9. \A i \in Intents, stage \in Stages : intents' = [intents EXCEPT ![i] = stage] =>
          DOMAIN intents' \subseteq Intents /\ \A k \in DOMAIN intents' : intents'[k] \in Stages
  BY IntentsTyped
<1>10. CASE Move
  <2>1. holder.intent \in Intents
    BY <1>1, <1>10 DEF Move, Locked, Unfenced, At
  <2>2. file' \in [Paths -> States \cup {Missing}]
    BY <1>1, <1>10 DEF Move
  <2>3. DOMAIN intents' \subseteq Intents /\ \A k \in DOMAIN intents' : intents'[k] \in Stages
    BY <1>9, <1>10, <2>1 DEF Move, Stages
  <2> QED
    BY <1>1, <1>10, <2>2, <2>3, TypedParts DEF Move, catalog, counts, Pruned
<1>11. CASE PublishVerdict \/ PublishQuarantine
  <2>1. Receipt /\ UNCHANGED <<catalog, fence, reserved, file, unwitnessed, counts>>
    BY <1>11 DEF PublishVerdict, PublishQuarantine
  <2>2. DOMAIN intents' \subseteq Intents /\ \A k \in DOMAIN intents' : intents'[k] \in Stages
    BY <1>1, <2>1 DEF Receipt, Stages
  <2>3. receipts' \subseteq Generations \X States
    BY <1>1, <2>1 DEF Receipt
  <2>4. holder' \in Holders /\ holder'.task = holder.task
    BY <1>2, <2>1 DEF Receipt, Goto, Pcs, Verdicts
  <2>5. \/ prune' = prune
        \/ /\ prune' = [prune EXCEPT !.created = @ \cup
                             {<<holder.intent.path, holder.intent.state>>}]
           /\ <<holder.intent.path, holder.intent.state>> \in Files
    <3>1. holder.intent.path \in Paths \cup {NoPath} /\ holder.intent.state \in States \cup {Missing}
      BY <1>1 DEF Holders, Intents, NoIntent
    <3> QED
      BY <1>11, <3>1 DEF PublishVerdict, PublishQuarantine, Files
  <2>6. prune' \in Prunings /\ Pruned'
    <3>1. CASE prune' = prune
      BY <1>1, <2>4, <3>1 DEF Pruned
    <3>2. CASE prune' # prune
      BY <1>1, <2>4, <2>5, <3>2 DEF Pruned, Prunings
    <3> QED
      BY <3>1, <3>2
  <2> QED
    BY <1>1, <2>1, <2>2, <2>3, <2>4, <2>6, TypedParts DEF catalog, counts
<1>12. CASE Retire
  <2>1. holder' \in Holders /\ holder'.task = holder.task
    BY <1>1, <1>2, <1>12 DEF Retire, Goto, Pcs
  <2>2. DOMAIN intents' \subseteq Intents /\ \A k \in DOMAIN intents' : intents'[k] \in Stages
    BY <1>1, <1>12 DEF Retire, Restrict, Stages
  <2> QED
    BY <1>1, <1>12, <2>1, <2>2, TypedParts DEF Retire, catalog, counts, Pruned
<1>13. CASE Return
  <2> DEFINE pc == CASE holder.seen.state # Missing -> "select"
                     [] holder.seen.state = Missing /\ holder.listed -> "pass"
                     [] OTHER -> "recover"
  <2>1. pc \in Pcs
    BY DEF Pcs
  <2>2. holder' = [holder EXCEPT !.intent = NoIntent, !.pc = pc]
    BY <1>13 DEF Return
  <2> HIDE DEF pc
  <2>3. holder' \in Holders /\ holder'.task = holder.task
    BY <1>1, <2>1, <2>2 DEF Holders
  <2> QED
    BY <1>1, <1>13, <2>3, TypedParts DEF Return, catalog, disk, counts, Pruned
<1>14. CASE Fails
  <2>1. outbox' \in Rows /\ faults' \in 0 .. MaxFaults
    BY <1>1, <1>14 DEF Fails
  <2>2. holder' = Idle
    BY <1>14 DEF Fails, Free
  <2>3. {<<holder.target, holder.seen.state>>} \subseteq Files
    BY <1>1 DEF Holders, Files, Seen
  <2>4. Witness(card.location, outbox') \/ prune' \in {NoPrune, prune}
    BY <1>14 DEF Fails
  <2>5. card.location \in Paths \cup {NoPath}
    BY <1>1 DEF Cards
  <2>6. CASE prune' \in {NoPrune, prune}
    <3>1. prune' \in Prunings
      BY <1>1, <2>6
    <3>2. holder'.task = "none" /\ NoPrune.step = "none"
      BY <2>2 DEF Idle, NoPrune
    <3>3. Pruned'
      BY <1>1, <2>6, <3>2 DEF Pruned
    <3> QED
      BY <1>1, <1>14, <2>1, <2>2, <3>1, <3>3, TypedParts DEF Fails, disk
  <2>7. CASE Witness(card.location, outbox')
    <3>1. prune' \in Prunings
      BY <1>1, <2>1, <2>3, <2>5, <2>7 DEF Witness, Prunings, Seen
    <3>2. Pruned'
      BY <1>1, <2>2, <2>5, <2>7 DEF Witness, Idle, Pruned, Prunings, Cards
    <3> QED
      BY <1>1, <1>14, <2>1, <2>2, <3>1, <3>2, TypedParts DEF Fails, disk
  <2> QED
    BY <2>4, <2>6, <2>7
<1>15. CASE RegisterCleanup
  <2>1. PICK c \in prune.created \ prune.registered :
            /\ \E i \in Fresh("compensation_cleanup", c[1], c[2]) : Open(i)
            /\ prune' = [prune EXCEPT !.registered = @ \cup {c}]
    BY <1>15 DEF RegisterCleanup
  <2>2. DOMAIN intents' \subseteq Intents /\ \A k \in DOMAIN intents' : intents'[k] \in Stages
    BY <2>1, IntentsTyped DEF Fresh
  <2>3. prune' \in Prunings /\ Pruned'
    BY <1>1, <1>15, <2>1 DEF RegisterCleanup, Prunings, Pruned
  <2> QED
    BY <1>1, <1>15, <2>2, <2>3, TypedParts DEF RegisterCleanup, catalog, counts
<1>16. CASE RestoreRows
  <2>1. holder' = Idle /\ prune' = NoPrune
    BY <1>16 DEF RestoreRows, Free
  <2>2. card' \in Cards /\ outbox' \in Rows
    BY <1>1, <1>16 DEF RestoreRows, Pruned
  <2>3. Pruned'
    BY <2>1 DEF Pruned, Idle, NoPrune
  <2> QED
    BY <1>1, <1>16, <2>1, <2>2, <2>3, TypedParts DEF RestoreRows, disk, counts
<1>17. CASE Stop
  <2>1. holder' = Idle /\ prune' \in {NoPrune, prune}
    BY <1>17 DEF Stop, Free
  <2>2. faults' \in 0 .. MaxFaults
    BY <1>1, <1>17 DEF Stop
  <2>3. Pruned'
    BY <1>1, <2>1 DEF Pruned, Idle, NoPrune
  <2> QED
    BY <1>1, <1>17, <2>1, <2>2, <2>3, TypedParts DEF Stop, catalog, disk
<1> QED
  BY <1>3, <1>5, <1>6, <1>7, <1>8, <1>10, <1>11, <1>12, <1>13, <1>14, <1>15, <1>16, <1>17
     DEF Reconciler

-----------------------------------------------------------------------------
(* The inductive invariant.                                                 *)

\* What a quarantine is about to move away is nobody's.
Fenced == ~Unfenced => reserved.path # card.location /\ reserved.path \notin immutable

\* A Card that changed after the holder read it has a row that says so.
Viewed == Holding /\ card # holder.seen => outbox # NoRow

\* A file that will be written is bound by no artifact, or is not there yet; only
\* the generation of a state is written in its name.
Targeted ==
    /\ holder.pc \in {"intent", "write"} =>
           /\ holder.target \notin immutable \/ file[holder.target] = Missing
           /\ holder.target \in Generations => holder.target = Generation(holder.seen.state)
    /\ At("final") => Shows(holder.target, holder.seen.state)

\* The bytes at a generation's name are that generation's.
GenerationsNamed == \A s \in States : file[Generation(s)] \in {Missing, s}

IInv == Typed /\ Locked /\ Fenced /\ Viewed /\ Targeted /\ GenerationsNamed /\ SidecarOrDebt

LEMMA IInvInit ==
    ASSUME Init
    PROVE  IInv
<1>1. Typed
  BY TypedInit
<1>2. holder.pc = "idle" /\ ~Holding /\ Unfenced
  BY DEF Init, Idle, Holding, Unfenced
<1>3. Locked
  BY <1>2 DEF Locked, At, Reading
<1>4. Fenced /\ Viewed /\ Targeted
  BY <1>2 DEF Fenced, Viewed, Targeted, At
<1>5. PICK place \in {NoPath, Default, Live} :
          /\ card = [state |-> Born, location |-> place]
          /\ outbox = IF place = Default THEN 1 ELSE NoRow
          /\ file = [p \in Paths |->
                        IF place = Live /\ p \in DOMAIN Settled THEN Settled[p] ELSE Missing]
  BY DEF Init
<1>6. GenerationsNamed
  BY <1>5, PathsDiffer DEF GenerationsNamed, Settled
<1>7. SidecarOrDebt
  <2>1. place = Live => file[card.location] = Born
    BY <1>5, PathsDiffer DEF Settled
  <2>2. place = Default => outbox # NoRow
    BY <1>5, PathsDiffer DEF NoRow
  <2> QED
    BY <1>5, <2>1, <2>2 DEF SidecarOrDebt, Shows
<1> QED
  BY <1>1, <1>3, <1>4, <1>6, <1>7 DEF IInv

\* Writers of the Card, registrars and prunings renew the row when they change the
\* Card, and stand back from a quarantine.
LEMMA WritersStep ==
    ASSUME IInv, Update \/ Register \/ RecordsLate \/ Prune \/ Accept
    PROVE  IInv'
<1> USE FreshRowExists DEF IInv
<1>1. Typed'
  BY WritersTyped
<1>2. UNCHANGED <<file, holder, fence, reserved>>
  BY DEF Update, Register, RecordsLate, Prune, Accept, disk
<1>3. Locked' /\ GenerationsNamed'
  BY <1>2 DEF Locked, GenerationsNamed, At, Holding, Unfenced
<1>4. Register => ~fence /\ Unfenced
  BY DEF Register, Unwritten
<1>5. immutable' = immutable \/ Register
  BY DEF Update, RecordsLate, Prune, Accept, catalog
<1>6. Fenced'
  <2>1. CASE Unfenced
    BY <1>2, <2>1 DEF Fenced, Unfenced
  <2>2. CASE ~Unfenced
    BY <1>2, <1>5, <2>2 DEF Fenced, Unfenced, Update, Register, RecordsLate, Prune, Accept,
                            catalog
  <2> QED
    BY <2>1, <2>2
<1>7. Targeted'
  <2>1. holder.pc \in {"intent", "write"} => immutable' = immutable
    BY <1>4, <1>5 DEF Locked
  <2> QED
    BY <1>2, <2>1 DEF Targeted, At, Shows
<1>8. card' # card => outbox' # NoRow
  BY DEF Update, Register, RecordsLate, Prune, Accept, catalog
<1>9. outbox' = outbox \/ outbox' # NoRow
  BY DEF Update, Register, RecordsLate, Prune, Accept, catalog
<1>10. Viewed' /\ SidecarOrDebt'
  BY <1>2, <1>8, <1>9 DEF Viewed, SidecarOrDebt, Holding, Shows
<1> QED
  BY <1>1, <1>3, <1>6, <1>7, <1>10

\* Synchronisation: the file is written before the row is acknowledged, and the row
\* is acknowledged only for the Card that was read.
LEMMA PublisherStep ==
    ASSUME IInv, Publisher \/ TakeToSync \/ TakeToReconcile \/ TakeToRestore
    PROVE  IInv'
<1> USE FreshRowExists DEF IInv
<1>1. Typed'
  BY PublisherTyped
<1>2. holder \in Holders /\ card \in Cards /\ file \in [Paths -> States \cup {Missing}]
  BY DEF Typed, TypeOK
<1>3. CASE TakeToSync \/ TakeToReconcile \/ TakeToRestore
  <2>1. holder'.pc = "recover" /\ ~Holding'
    <3>1. \E task \in Tasks : holder' = [Idle EXCEPT !.pc = "recover", !.task = task]
      BY <1>3 DEF TakeToSync, TakeToReconcile, TakeToRestore, Take, Tasks
    <3>2. Idle.seen.state = Missing
      BY DEF Idle
    <3> QED
      BY <3>1, <3>2, NothingTyped DEF Holders, Holding
  <2>2. UNCHANGED <<card, outbox, immutable, fence, reserved, file>>
    BY <1>3 DEF TakeToSync, TakeToReconcile, TakeToRestore, catalog, disk
  <2>3. Locked' /\ Viewed' /\ Targeted'
    BY <2>1 DEF Locked, Viewed, Targeted, At, Reading
  <2> QED
    BY <1>1, <2>2, <2>3 DEF Fenced, GenerationsNamed, SidecarOrDebt, Unfenced, Shows
<1>4. CASE RecoverFence
  <2>1. UNCHANGED <<card, immutable, reserved, file, holder>> /\ At("recover")
    BY <1>4 DEF RecoverFence, disk
  <2>2. outbox' # NoRow
    BY <1>4 DEF RecoverFence
  <2>3. Locked'
    BY <2>1 DEF Locked, At, Reading, Holding, Unfenced
  <2> QED
    BY <1>1, <2>1, <2>2, <2>3
       DEF Fenced, Viewed, Targeted, GenerationsNamed, SidecarOrDebt, Unfenced, Shows, At
<1>5. CASE Observe
  <2>1. UNCHANGED <<card, outbox, immutable, fence, reserved, file>> /\ Unfenced
    BY <1>5 DEF Observe, catalog, disk
  <2>2. holder'.pc = "select" /\ holder'.seen = card /\ Holding'
    BY <1>2, <1>5, PathsDiffer DEF Observe, Holders, Holding, Cards
  <2>3. Locked' /\ Viewed' /\ Targeted'
    BY <2>1, <2>2 DEF Locked, Viewed, Targeted, At, Reading, Unfenced
  <2> QED
    BY <1>1, <2>1, <2>3 DEF Fenced, GenerationsNamed, SidecarOrDebt, Unfenced, Shows
<1>6. CASE PrepareTransition
  <2>1. UNCHANGED <<card, outbox, immutable, fence, reserved, file>> /\ At("select")
    BY <1>6 DEF PrepareTransition, catalog
  <2>2. holder'.pc = "prepared" /\ holder'.seen = holder.seen
    BY <1>2, <1>6 DEF PrepareTransition, Holders
  <2>3. Locked' /\ Viewed' /\ Targeted'
    BY <2>1, <2>2 DEF Locked, Viewed, Targeted, At, Reading, Unfenced, Holding
  <2> QED
    BY <1>1, <2>1, <2>3 DEF Fenced, GenerationsNamed, SidecarOrDebt, Unfenced, Shows
<1>7. CASE Reserve
  <2> DEFINE c == Target(immutable)
  <2>1. UNCHANGED <<card, outbox, immutable, reserved, file>> /\ At("select") /\ fence' = TRUE
    BY <1>7 DEF Reserve, catalog, disk
  <2>2. Holding /\ Unfenced
    BY <2>1 DEF Locked, Reading, At
  <2>3. /\ c[1] \in Paths
        /\ Shows(c[1], holder.seen.state) \/ c[1] = Generation(holder.seen.state)
              \/ c[1] \notin immutable \cup Generations
        /\ ~Shows(c[1], holder.seen.state) => (c[2] <=> file[c[1]] = Missing)
    BY <2>2, TargetChosen
  <2>4. /\ holder'.target = c[1] /\ holder'.seen = holder.seen
        /\ holder'.pc = IF Shows(c[1], holder.seen.state) THEN "final"
                        ELSE IF c[2] THEN "intent" ELSE "write"
    BY <1>2, <1>7 DEF Reserve, WorkOn, Holders
  <2>5. holder.seen.state \in States
    BY <1>2, <2>2 DEF Holders, Seen, Holding
  <2> HIDE DEF c
  <2>6. c[1] = Generation(holder.seen.state) /\ ~Shows(c[1], holder.seen.state)
            => file[c[1]] = Missing
    BY <2>5 DEF GenerationsNamed, Shows
  <2>7. Locked'
    BY <2>1, <2>2, <2>3, <2>4 DEF Locked, At, Reading, Holding, Unfenced
  <2>8. Targeted'
    BY <2>1, <2>3, <2>4, <2>6 DEF Targeted, At, Shows
  <2> QED
    BY <1>1, <2>1, <2>4, <2>7, <2>8
       DEF Fenced, Viewed, GenerationsNamed, SidecarOrDebt, Unfenced, Shows, Holding
<1>8. CASE WriteIntent
  <2>1. UNCHANGED <<card, outbox, immutable, fence, reserved, file>> /\ At("intent")
    BY <1>8 DEF WriteIntent, catalog
  <2>2. /\ holder'.pc = "write" /\ holder'.seen = holder.seen
        /\ holder'.target = holder.target
    BY <1>2, <1>8 DEF WriteIntent, Goto, Holders
  <2>3. Locked' /\ Viewed' /\ Targeted'
    BY <2>1, <2>2 DEF Locked, Viewed, Targeted, At, Reading, Unfenced, Holding
  <2> QED
    BY <1>1, <2>1, <2>3 DEF Fenced, GenerationsNamed, SidecarOrDebt, Unfenced, Shows
<1>9. CASE WriteFile
  <2>1. /\ UNCHANGED <<card, outbox, immutable, fence, reserved>> /\ At("write")
        /\ file' = [file EXCEPT ![holder.target] = holder.seen.state]
    BY <1>9 DEF WriteFile, catalog
  <2>2. /\ holder'.pc = "final" /\ holder'.seen = holder.seen
        /\ holder'.target = holder.target
    BY <1>2, <1>9 DEF WriteFile, Holders
  <2>3. holder.target \in Paths /\ Holding
    BY <2>1 DEF Locked, At, Reading
  <2>4. Locked' /\ Viewed' /\ Targeted'
    BY <1>2, <2>1, <2>2, <2>3
       DEF Locked, Viewed, Targeted, At, Reading, Unfenced, Holding, Shows
  <2>5. GenerationsNamed'
    <3>1. holder.target \in Generations => holder.target = Generation(holder.seen.state)
      BY <2>1 DEF Targeted, At
    <3>2. holder.seen.state \in States
      BY <1>2, <2>3 DEF Holders, Seen, Holding
    <3> QED
      BY <1>2, <2>1, <2>3, <3>1, <3>2, PathsDiffer DEF GenerationsNamed
  <2>6. SidecarOrDebt'
    <3>1. CASE card = holder.seen
      BY <1>2, <2>1, <2>3, <3>1 DEF SidecarOrDebt, Shows
    <3>2. CASE card # holder.seen
      BY <2>1, <2>3, <3>2 DEF SidecarOrDebt, Viewed
    <3> QED
      BY <3>1, <3>2
  <2> QED
    BY <1>1, <2>1, <2>4, <2>5, <2>6 DEF Fenced, Unfenced
<1>10. CASE Acknowledge
  <2>1. /\ UNCHANGED <<immutable, reserved, file>> /\ At("final") /\ holder' = Idle
    BY <1>10 DEF Acknowledge, disk, Free
  <2>2. Holding /\ Unfenced /\ holder.target \in Paths
    BY <2>1 DEF Locked, At, Reading
  <2>3. holder'.pc = "idle" /\ ~Holding'
    BY <2>1 DEF Idle, Holding
  <2>4. Locked' /\ Viewed' /\ Targeted'
    BY <2>3 DEF Locked, Viewed, Targeted, At, Reading
  <2>5. Fenced'
    BY <2>1, <2>2 DEF Fenced, Unfenced
  <2>6. SidecarOrDebt'
    <3>1. CASE StillSeen
      <4>1. card' = [card EXCEPT !.location = holder.target]
        BY <1>10, <3>1 DEF Acknowledge
      <4>2. card'.location = holder.target /\ card'.state = holder.seen.state
        BY <1>2, <3>1, <4>1 DEF StillSeen, Cards
      <4> QED
        BY <2>1, <4>2 DEF SidecarOrDebt, Targeted, Shows
    <3>2. CASE ~StillSeen
      BY <1>10, <3>2 DEF Acknowledge, SidecarOrDebt, NoRow
    <3> QED
      BY <3>1, <3>2
  <2> QED
    BY <1>1, <2>1, <2>4, <2>5, <2>6 DEF GenerationsNamed
<1> QED
  BY <1>3, <1>4, <1>5, <1>6, <1>7, <1>8, <1>9, <1>10 DEF Publisher

\* Reconciliation: what is quarantined is nobody's when it is decided, and the
\* reservation keeps it so until it is moved.
LEMMA ReconcilerStep ==
    ASSUME IInv, Reconciler \/ Fails \/ RegisterCleanup \/ RestoreRows \/ Stop
    PROVE  IInv'
<1> USE FreshRowExists DEF IInv
<1>1. Typed'
  BY ReconcilerTyped
<1>2. holder \in Holders /\ card \in Cards /\ file \in [Paths -> States \cup {Missing}]
      /\ reserved \in Intents \cup {NoIntent}
  BY DEF Typed, TypeOK
<1>3. CASE Inventory
  <2>1. UNCHANGED <<card, outbox, immutable, fence, reserved, file>> /\ Unfenced /\ At("recover")
    BY <1>3 DEF Inventory, catalog, disk
  <2>2. holder'.pc = "pass" /\ holder'.seen = holder.seen
    BY <1>2, <1>3 DEF Inventory, Holders
  <2>3. Locked' /\ Viewed' /\ Targeted'
    BY <2>1, <2>2 DEF Locked, Viewed, Targeted, At, Reading, Unfenced, Holding
  <2> QED
    BY <1>1, <2>1, <2>3 DEF Fenced, GenerationsNamed, SidecarOrDebt, Unfenced, Shows
<1>4. \A i, v : HandOn(i, v) =>
          /\ holder'.pc = IF v = "unresolved" THEN "pass" ELSE v
          /\ holder'.seen = holder.seen /\ holder'.intent = i
  BY <1>2 DEF HandOn, Holders
<1>5. CASE FinishAnswered
  <2>1. UNCHANGED <<card, outbox, immutable, fence, reserved, file>> /\ At("pass")
    BY <1>5 DEF FinishAnswered, catalog, disk
  <2>2. holder'.pc = "committed" /\ holder'.seen = holder.seen
    BY <1>4, <1>5 DEF FinishAnswered
  <2>3. Locked' /\ Viewed' /\ Targeted'
    BY <2>1, <2>2 DEF Locked, Viewed, Targeted, At, Reading, Unfenced, Holding
  <2> QED
    BY <1>1, <2>1, <2>3 DEF Fenced, GenerationsNamed, SidecarOrDebt, Unfenced, Shows
<1>6. CASE Decide
  <2>1. UNCHANGED <<card, outbox, immutable, fence, file>> /\ At("pass") /\ Unfenced /\ ~Holding
    BY <1>6 DEF Decide, catalog, disk, Locked, At, Reading
  <2>2. PICK i \in holder.todo :
            /\ HandOn(i, Verdict(i))
            /\ IF Verdict(i) = "quarantined" THEN ReserveQuarantine(i) ELSE UNCHANGED reserved
    BY <1>6 DEF Decide
  <2>3. i \in Intents
    BY <1>2, <2>2 DEF Holders
  <2>4. /\ holder'.pc = IF Verdict(i) = "unresolved" THEN "pass" ELSE Verdict(i)
        /\ holder'.seen = holder.seen /\ holder'.intent = i
    BY <1>4, <2>2
  <2>5. Verdict(i) \in Verdicts
    BY <2>3, VerdictIsKnown
  <2>6. holder'.pc \notin Reading /\ ~Holding'
    BY <2>1, <2>4, <2>5 DEF Verdicts, Terminal, Reading, Holding
  <2>7. CASE Verdict(i) = "quarantined"
    <3>1. reserved' = i /\ i # NoIntent
      BY <2>2, <2>3, <2>7, PathsDiffer DEF ReserveQuarantine
    <3>2. Fenced'
      BY <2>1, <2>3, <2>7, <3>1, QuarantinedIsUnreferenced DEF Fenced
    <3>3. Locked'
      BY <2>4, <2>6, <2>7, <3>1 DEF Locked, At, Unfenced, Reading
    <3> QED
      BY <1>1, <2>1, <2>6, <3>2, <3>3
         DEF Viewed, Targeted, GenerationsNamed, SidecarOrDebt, Shows, At, Reading
  <2>8. CASE Verdict(i) # "quarantined"
    <3>1. reserved' = reserved /\ ~At("quarantined")'
      BY <2>2, <2>4, <2>8 DEF At
    <3>2. Fenced'
      BY <2>1, <3>1 DEF Fenced, Unfenced
    <3>3. Locked'
      BY <2>1, <2>6, <3>1 DEF Locked, At, Unfenced, Reading
    <3> QED
      BY <1>1, <2>1, <2>6, <3>2, <3>3
         DEF Viewed, Targeted, GenerationsNamed, SidecarOrDebt, Shows, At, Reading
  <2> QED
    BY <2>7, <2>8
<1>7. CASE EndPass \/ Stop
  <2>1. UNCHANGED <<card, immutable, fence, reserved, file>> /\ holder' = Idle
    BY <1>7 DEF EndPass, Stop, Free, catalog, disk
  <2>2. outbox' = outbox \/ outbox' # NoRow
    BY <1>7 DEF EndPass, Stop, catalog
  <2>3. holder'.pc = "idle" /\ ~Holding'
    BY <2>1 DEF Idle, Holding
  <2>4. Locked' /\ Viewed' /\ Targeted'
    BY <2>3 DEF Locked, Viewed, Targeted, At, Reading
  <2> QED
    BY <1>1, <2>1, <2>2, <2>4 DEF Fenced, GenerationsNamed, SidecarOrDebt, Unfenced, Shows
<1>8. CASE Resume
  <2>1. UNCHANGED <<card, outbox, immutable, fence, reserved, file>> /\ At("recover") /\ ~Unfenced
    BY <1>8 DEF Resume, catalog, disk
  <2>2. /\ holder'.pc \in {"archived", "quarantined", "committed"}
        /\ holder'.seen = holder.seen /\ holder'.intent = reserved
    BY <1>2, <1>8 DEF Resume, WhereToResume, Holders
  <2>3. ~Holding
    BY <2>1 DEF Locked, At, Reading
  <2>4. Locked' /\ Viewed' /\ Targeted'
    BY <2>1, <2>2, <2>3 DEF Locked, Viewed, Targeted, At, Reading, Unfenced, Holding
  <2> QED
    BY <1>1, <2>1, <2>4 DEF Fenced, GenerationsNamed, SidecarOrDebt, Unfenced, Shows
<1>9. CASE Move
  <2>1. /\ UNCHANGED <<card, outbox, immutable, fence, reserved, holder>> /\ At("quarantined")
        /\ file' = [file EXCEPT ![holder.intent.path] = Missing]
    BY <1>9 DEF Move, catalog
  <2>2. holder.intent.path # card.location
    BY <2>1 DEF Locked, Fenced
  <2>3. Locked' /\ Viewed' /\ Targeted' /\ Fenced'
    BY <2>1 DEF Locked, Viewed, Targeted, Fenced, At, Reading, Unfenced, Holding
  <2>4. GenerationsNamed'
    BY <1>2, <2>1, PathsDiffer DEF GenerationsNamed
  <2>5. SidecarOrDebt'
    BY <1>2, <2>1, <2>2 DEF SidecarOrDebt, Shows
  <2> QED
    BY <1>1, <2>3, <2>4, <2>5
<1>10. CASE PublishVerdict \/ PublishQuarantine \/ Retire
  <2>1. UNCHANGED <<card, outbox, immutable, fence, reserved, file>>
    BY <1>10 DEF PublishVerdict, PublishQuarantine, Retire, catalog
  <2>2. /\ holder'.pc \in {holder.pc, "committed", "archived"}
        /\ holder'.seen = holder.seen /\ holder'.intent = holder.intent
        /\ holder.pc \in Terminal \cup {"prepared", "quarantined", "committed"}
    BY <1>2, <1>10 DEF PublishVerdict, PublishQuarantine, Receipt, Retire, Goto, Holders, At
  <2>3. Locked' /\ Viewed' /\ Targeted'
    BY <2>1, <2>2 DEF Locked, Viewed, Targeted, At, Reading, Terminal, Unfenced, Holding
  <2> QED
    BY <1>1, <2>1, <2>3 DEF Fenced, GenerationsNamed, SidecarOrDebt, Unfenced, Shows
<1>11. CASE Return
  <2>1. UNCHANGED <<card, outbox, immutable, fence, file>> /\ At("archived") /\ Unfenced'
    BY <1>11 DEF Return, catalog, disk, Unfenced
  <2>2. /\ Holding => holder'.pc = "select"
        /\ ~Holding => holder'.pc \in {"pass", "recover"}
        /\ holder'.seen = holder.seen
    <3> DEFINE pc == CASE holder.seen.state # Missing -> "select"
                       [] holder.seen.state = Missing /\ holder.listed -> "pass"
                       [] OTHER -> "recover"
    <3>1. holder' = [holder EXCEPT !.intent = NoIntent, !.pc = pc]
      BY <1>11 DEF Return
    <3>2. (Holding => pc = "select") /\ (~Holding => pc \in {"pass", "recover"})
      BY DEF Holding
    <3> HIDE DEF pc
    <3> QED
      BY <1>2, <3>1, <3>2 DEF Holders
  <2>3. Locked' /\ Viewed' /\ Targeted' /\ Fenced'
    BY <2>1, <2>2 DEF Locked, Viewed, Targeted, Fenced, At, Reading, Holding
  <2> QED
    BY <1>1, <2>1, <2>3 DEF GenerationsNamed, SidecarOrDebt, Shows
<1>12. CASE Fails
  <2>1. UNCHANGED <<card, immutable, reserved, file>> /\ holder' = Idle
    BY <1>12 DEF Fails, Free, disk
  <2>2. outbox' = outbox \/ outbox' # NoRow
    BY <1>12 DEF Fails
  <2>3. holder'.pc = "idle" /\ ~Holding'
    BY <2>1 DEF Idle, Holding
  <2>4. Locked' /\ Viewed' /\ Targeted'
    BY <2>3 DEF Locked, Viewed, Targeted, At, Reading
  <2> QED
    BY <1>1, <2>1, <2>2, <2>4 DEF Fenced, GenerationsNamed, SidecarOrDebt, Unfenced, Shows
<1>13. CASE RegisterCleanup
  <2>1. UNCHANGED <<card, outbox, immutable, fence, reserved, file, holder>>
    BY <1>13 DEF RegisterCleanup, catalog
  <2> QED
    BY <1>1, <2>1 DEF Locked, Viewed, Targeted, Fenced, GenerationsNamed, SidecarOrDebt,
                      Unfenced, Shows, At, Reading, Holding
<1>14. CASE RestoreRows
  <2>1. UNCHANGED <<immutable, fence, reserved, file>> /\ holder' = Idle
    BY <1>14 DEF RestoreRows, Free, disk
  <2>2. UNCHANGED <<card, outbox>> \/ (Unfenced /\ outbox' # NoRow)
    BY <1>14 DEF RestoreRows
  <2>3. holder'.pc = "idle" /\ ~Holding'
    BY <2>1 DEF Idle, Holding
  <2>4. Locked' /\ Viewed' /\ Targeted'
    BY <2>3 DEF Locked, Viewed, Targeted, At, Reading
  <2> QED
    BY <1>1, <2>1, <2>2, <2>4 DEF Fenced, GenerationsNamed, SidecarOrDebt, Unfenced, Shows
<1> QED
  BY <1>3, <1>5, <1>6, <1>7, <1>8, <1>9, <1>10, <1>11, <1>12, <1>13, <1>14 DEF Reconciler

LEMMA IInvStep ==
    ASSUME IInv, [Next]_vars
    PROVE  IInv'
<1>1. CASE UNCHANGED vars
  <2>1. UNCHANGED <<card, outbox, latest, immutable, fence, reserved, file, intents, receipts,
                    unwitnessed, holder, prune, faults, prunes>>
    BY <1>1 DEF vars
  <2>2. Typed'
    BY <2>1 DEF IInv, Typed, TypeOK, Pruned
  <2> QED
    BY <2>1, <2>2 DEF IInv, Locked, Viewed, Targeted, Fenced, GenerationsNamed, SidecarOrDebt,
                      Unfenced, Shows, At, Reading, Holding
<1>2. CASE Next
  BY <1>2, WritersStep, PublisherStep, ReconcilerStep DEF Next, Pruner
<1> QED
  BY <1>1, <1>2

-----------------------------------------------------------------------------
(* Every file has an authority.  Only the holder of the lock moves the Card *)
(* and ends an intent, and what it does so for has another authority by     *)
(* then; a pruning that is taken back leaves a place that it created, and   *)
(* that has got an intent, or none that it created.                         *)

\* A file may still be judged; an intent that a receipt answers accounts for none.
Working(p) == \E i \in DOMAIN intents : i.path = p /\ intents[i] \in {"open", "moved"}
Owned(p) ==
    \/ p = card.location \/ p \in immutable \/ p \in unwitnessed
    \/ <<p, file[p]>> \in receipts \/ Working(p)
AllOwned == \A p \in Paths : file[p] # Missing => Owned(p)

\* What an artifact binds is there.
BoundAreThere == \A p \in immutable : file[p] # Missing

Writing == {"intent", "write", "final"}
Verdicted == Terminal \cup {"prepared"}

\* The Card stays where the holder saw it; where it is about to leave, a file has
\* another authority, and so has the file it is about to write.
Publishing ==
    /\ holder.seen.location # NoPath => card.location = holder.seen.location
    /\ holder.pc \in Writing /\ holder.seen.location \notin {NoPath, holder.target} =>
           \/ holder.seen.location \in immutable
           \/ <<holder.seen.location, file[holder.seen.location]>> \in receipts
    /\ At("write") => file[holder.target] # Missing \/ Working(holder.target)

\* What a pass has still to judge, and what the holder carries out, is there.
Carrying ==
    /\ holder.todo \subseteq DOMAIN intents /\ holder.intent \notin holder.todo
    /\ holder.listed \/ holder.todo = {}
    /\ At("recover") => ~holder.listed /\ holder.intent = NoIntent
    /\ holder.pc \in Verdicted \cup {"quarantined"} => holder.intent \in DOMAIN intents
    /\ holder.pc \in Verdicted => Unfenced
    /\ holder.pc \in {"committed", "archived"} => Unfenced \/ holder.intent = reserved
    /\ At("archived") => holder.intent \notin DOMAIN intents

\* An intent is answered when its file is gone or has another authority.
Answering ==
    /\ holder.pc \in Verdicted =>
           LET p == holder.intent.path IN file[p] = Missing \/ p = card.location \/ p \in immutable
    /\ At("adopted") => holder.intent.path = card.location
    /\ At("committed") => holder.intent \in DOMAIN intents
                          /\ intents[holder.intent] \in {"receipted", "queued"}
    /\ \A i \in DOMAIN intents : intents[i] = "moved" => i = reserved /\ file[i.path] = Missing

\* Each task has its steps.
Tasked ==
    /\ At("idle") => holder.task = "none"
    /\ Holding => holder.task \in {"sync", "prune"}
    /\ holder.wrote => At("final")
    /\ holder.task = "restore" =>
           /\ holder.pc \in {"recover", "quarantined", "committed", "archived"}
           /\ ~holder.listed /\ ~Holding

\* What a restore gave an intent is gone, or has it still.
Restoring ==
    IF holder.task = "restore"
    THEN \A c \in prune.registered : c[1] \in Paths /\ file[c[1]] # Missing => Working(c[1])
    ELSE prune.registered = {}

IntentInv == Carrying /\ Tasked /\ Answering
FileInv == AllOwned /\ BoundAreThere /\ Publishing /\ Restoring

\* No state is in use that the Card has not had.
Dated ==
    /\ card.state <= latest /\ holder.seen.state <= latest
    /\ \A p \in Paths : file[p] <= latest
    /\ prune.before.state <= latest /\ prune.after.state <= latest

\* A pruning whose Card nobody changed since.
On == prune.step # "none"
Same == On /\ card.state = prune.after.state
Was == prune.before.location

\* Where a synchronisation puts such a Card when it leaves the location it had.
Dest == IF Was \notin Generations \cup {Live} /\ Live \notin immutable
        THEN Live ELSE Generation(prune.after.state)
Places == {c[1] : c \in prune.created}

\* The Card of a pruning has a location with a file, and so it had before.
Placed ==
    On => /\ card.location # NoPath /\ Was # NoPath /\ file[card.location] # Missing
          /\ holder.seen.state = prune.after.state => holder.seen.location # NoPath
          /\ holder.task = "prune" /\ Holding =>
                holder.seen.state = card.state \/ card.state # prune.after.state

\* Until the Card moves, the pruning knows where it is; once it has moved, its file
\* shows it and is not written again.
Moved ==
    /\ Shows(card.location, card.state)
    /\ Holding => /\ holder.seen.state = card.state /\ ~holder.wrote
                  /\ holder.pc \notin {"intent", "write"}
                  /\ At("final") => holder.target = card.location
Unmoved ==
    /\ prune.after.location = Was
    /\ Was # Live /\ Live \in immutable => file[Live] # card.state
Shown == Same => IF card.location = Was THEN Unmoved ELSE Moved

\* A holder that moves the Card moves it there.
Chosen ==
    Same /\ card.location = Was /\ holder.seen.state = card.state /\ holder.pc \in Writing =>
        /\ holder.target \in {Was, Dest}
        /\ holder.create => holder.target # Was

\* A place that the pruning knows it created is the one the Card moves to.
Created ==
    Same /\ prune.created # {} =>
        /\ prune.step # "committed"
        /\ card.location = Was /\ prune.step = "synced" /\ holder.task # "check" => Dest \in Places
        /\ card.location # Was /\ (prune.step = "checked" => card.location = prune.after.location) =>
              card.location \in Places

PruneInv == Dated /\ Placed /\ Shown /\ Chosen /\ Created

OrphanInv == IntentInv /\ FileInv /\ PruneInv

-----------------------------------------------------------------------------
(* What the steps do to the holder and to the intents, a field at a time.   *)

Stays == /\ holder'.seen = holder.seen /\ holder'.target = holder.target
         /\ holder'.create = holder.create /\ holder'.wrote = holder.wrote
         /\ holder'.task = holder.task
Lists == holder'.todo = holder.todo /\ holder'.listed = holder.listed

\* A holder that has just taken the lock, or left it.
Blank == /\ holder'.seen.state = Missing /\ holder'.seen.location = NoPath
         /\ holder'.wrote = FALSE /\ holder'.listed = FALSE /\ holder'.todo = {}
         /\ holder'.intent = NoIntent /\ holder'.pc \in {"idle", "recover"}

LEMMA IdleIsBlank ==
    ASSUME Free
    PROVE  Blank /\ holder'.task = "none" /\ holder'.pc = "idle"
  BY DEF Free, Idle, Blank

LEMMA TakenIsBlank ==
    ASSUME NEW task \in Tasks, Take(task)
    PROVE  Blank /\ holder'.task = task /\ holder'.pc = "recover"
  BY DEF Take, Idle, Blank

LEMMA HolderGoes ==
    ASSUME Typed, NEW pc \in Pcs, Goto(pc)
    PROVE  Stays /\ Lists /\ holder'.pc = pc /\ holder'.intent = holder.intent
  BY DEF Typed, Holders, Goto, Stays, Lists

\* An intent that is opened is a new one, and the others stay as they were.
LEMMA OpenOne ==
    ASSUME NEW i, i \notin DOMAIN intents, Open(i)
    PROVE  /\ DOMAIN intents' = DOMAIN intents \cup {i} /\ intents'[i] = "open"
           /\ \A k \in DOMAIN intents : intents'[k] = intents[k]
           /\ Working(i.path)'
           /\ \A p : Working(p) => Working(p)'
<1>1. /\ DOMAIN intents' = DOMAIN intents \cup {i} /\ intents'[i] = "open"
      /\ \A k \in DOMAIN intents : intents'[k] = intents[k]
  BY DEF Open
<1>2. Working(i.path)'
  BY <1>1 DEF Working
<1>3. ASSUME NEW p, Working(p)
      PROVE  Working(p)'
  <2>1. PICK k \in DOMAIN intents : k.path = p /\ intents[k] \in {"open", "moved"}
    BY <1>3 DEF Working
  <2> QED
    BY <1>1, <2>1 DEF Working
<1> QED
  BY <1>1, <1>2, <1>3

\* An intent is moved on to another stage; only if it is answered by that, does it
\* account for nothing more.
LEMMA StageOne ==
    ASSUME Typed, NEW i \in Intents, NEW stage \in Stages,
           intents' = [intents EXCEPT ![i] = stage]
    PROVE  /\ DOMAIN intents' = DOMAIN intents
           /\ i \in DOMAIN intents => intents'[i] = stage
           /\ \A k \in DOMAIN intents : k # i => intents'[k] = intents[k]
           /\ \A p : Working(p) /\ (p = i.path => stage = "moved") => Working(p)'
<1>1. /\ DOMAIN intents' = DOMAIN intents
      /\ i \in DOMAIN intents => intents'[i] = stage
      /\ \A k \in DOMAIN intents : k # i => intents'[k] = intents[k]
  OBVIOUS
<1>2. ASSUME NEW p, Working(p), p = i.path => stage = "moved"
      PROVE  Working(p)'
  <2>1. PICK k \in DOMAIN intents : k.path = p /\ intents[k] \in {"open", "moved"}
    BY <1>2 DEF Working
  <2>2. CASE k = i
    BY <1>1, <1>2, <2>1, <2>2 DEF Working
  <2>3. CASE k # i
    BY <1>1, <2>1, <2>3 DEF Working
  <2> QED
    BY <2>2, <2>3
<1> QED
  BY <1>1, <1>2

\* An intent whose answer is known is taken out.
LEMMA RetireOne ==
    ASSUME NEW i, i \in DOMAIN intents => intents[i] \in {"receipted", "queued"},
           intents' = Restrict(intents, DOMAIN intents \ {i})
    PROVE  /\ DOMAIN intents' = DOMAIN intents \ {i}
           /\ \A k \in DOMAIN intents' : intents'[k] = intents[k]
           /\ \A p : Working(p) => Working(p)'
<1>1. /\ DOMAIN intents' = DOMAIN intents \ {i}
      /\ \A k \in DOMAIN intents' : intents'[k] = intents[k]
  BY DEF Restrict
<1>2. ASSUME NEW p, Working(p)
      PROVE  Working(p)'
  <2>1. PICK k \in DOMAIN intents : k.path = p /\ intents[k] \in {"open", "moved"}
    BY <1>2 DEF Working
  <2>2. k # i
    BY <2>1
  <2> QED
    BY <1>1, <2>1, <2>2 DEF Working
<1> QED
  BY <1>1, <1>2

LEMMA WorkingKept ==
    ASSUME intents' = intents
    PROVE  \A p : Working(p)' <=> Working(p)
  BY DEF Working

\* What a publisher does to the holder.
LEMMA PublisherEffects ==
    ASSUME Typed
    PROVE  /\ Observe => /\ holder'.pc = "select" /\ holder'.seen = card /\ Lists
                         /\ holder'.target = holder.target /\ holder'.create = holder.create
                         /\ holder'.wrote = holder.wrote /\ holder'.task = holder.task
                         /\ holder'.intent = holder.intent
           /\ Reserve => /\ holder'.seen = holder.seen /\ holder'.wrote = holder.wrote
                         /\ holder'.task = holder.task /\ holder'.intent = holder.intent /\ Lists
                         /\ holder'.target = Target(immutable)[1]
                         /\ holder'.create = Target(immutable)[2]
                         /\ holder'.pc = IF Shows(Target(immutable)[1], holder.seen.state)
                                         THEN "final"
                                         ELSE IF Target(immutable)[2] THEN "intent" ELSE "write"
           /\ WriteIntent => Stays /\ Lists /\ holder'.pc = "write" /\ holder'.intent = holder.intent
           /\ WriteFile => /\ holder'.seen = holder.seen /\ holder'.target = holder.target
                           /\ holder'.create = holder.create /\ holder'.wrote = TRUE
                           /\ holder'.task = holder.task /\ holder'.intent = holder.intent /\ Lists
                           /\ holder'.pc = "final"
<1>1. holder \in Holders
  BY DEF Typed
<1>2. ASSUME Observe
      PROVE  /\ holder'.pc = "select" /\ holder'.seen = card /\ Lists
             /\ holder'.target = holder.target /\ holder'.create = holder.create
             /\ holder'.wrote = holder.wrote /\ holder'.task = holder.task
             /\ holder'.intent = holder.intent
  BY <1>1, <1>2 DEF Observe, Holders, Lists
<1>3. ASSUME Reserve
      PROVE  /\ holder'.seen = holder.seen /\ holder'.wrote = holder.wrote
             /\ holder'.task = holder.task /\ holder'.intent = holder.intent /\ Lists
             /\ holder'.target = Target(immutable)[1]
             /\ holder'.create = Target(immutable)[2]
             /\ holder'.pc = IF Shows(Target(immutable)[1], holder.seen.state)
                             THEN "final"
                             ELSE IF Target(immutable)[2] THEN "intent" ELSE "write"
  <2>1. WorkOn(Target(immutable))
    BY <1>3 DEF Reserve
  <2> QED
    BY <1>1, <2>1 DEF WorkOn, Holders, Lists
<1>4. ASSUME WriteIntent
      PROVE  Stays /\ Lists /\ holder'.pc = "write" /\ holder'.intent = holder.intent
  BY <1>4, HolderGoes DEF WriteIntent, Pcs
<1>5. ASSUME WriteFile
      PROVE  /\ holder'.seen = holder.seen /\ holder'.target = holder.target
             /\ holder'.create = holder.create /\ holder'.wrote = TRUE
             /\ holder'.task = holder.task /\ holder'.intent = holder.intent /\ Lists
             /\ holder'.pc = "final"
  BY <1>1, <1>5 DEF WriteFile, Holders, Lists
<1> QED
  BY <1>2, <1>3, <1>4, <1>5

\* A publisher that prepares to leave a generation gives it an intent.
LEMMA PreparationEffects ==
    ASSUME Typed, PrepareTransition
    PROVE  \E i \in Intents \ DOMAIN intents :
              /\ i.path = Current /\ Open(i)
              /\ Stays /\ Lists /\ holder'.pc = "prepared" /\ holder'.intent = i
<1>1. PICK i \in Fresh("history_transition", Current, file[Current]) :
          Open(i) /\ holder' = [holder EXCEPT !.pc = "prepared", !.intent = i]
  BY DEF PrepareTransition
<1>2. i \in Intents \ DOMAIN intents /\ i.path = Current
  BY <1>1 DEF Fresh
<1>3. Stays /\ Lists /\ holder'.pc = "prepared" /\ holder'.intent = i
  BY <1>1 DEF Typed, Holders, Stays, Lists
<1> QED
  BY <1>1, <1>2, <1>3

\* What a reconciler does to the holder.
LEMMA ReconcilerEffects ==
    ASSUME Typed
    PROVE  /\ Inventory => /\ Stays /\ holder'.pc = "pass" /\ holder'.listed = TRUE
                           /\ holder'.todo = DOMAIN intents /\ holder'.intent = holder.intent
           /\ \A i, v : HandOn(i, v) =>
                  /\ Stays /\ holder'.listed = holder.listed /\ holder'.todo = holder.todo \ {i}
                  /\ holder'.intent = i /\ holder'.pc = IF v = "unresolved" THEN "pass" ELSE v
           /\ Resume => /\ Stays /\ Lists /\ holder'.intent = reserved
                        /\ holder'.pc = WhereToResume
           /\ Receipt => /\ Stays /\ Lists /\ holder'.pc = "committed"
                         /\ holder'.intent = holder.intent
           /\ Return => /\ Stays /\ Lists /\ holder'.intent = NoIntent
                        /\ Holding => holder'.pc = "select"
                        /\ ~Holding /\ holder.listed => holder'.pc = "pass"
                        /\ ~Holding /\ ~holder.listed => holder'.pc = "recover"
<1>1. holder \in Holders
  BY DEF Typed
<1>2. ASSUME Inventory
      PROVE  /\ Stays /\ holder'.pc = "pass" /\ holder'.listed = TRUE
             /\ holder'.todo = DOMAIN intents /\ holder'.intent = holder.intent
  BY <1>1, <1>2 DEF Inventory, Holders, Stays, Listed
<1>3. ASSUME NEW i, NEW v, HandOn(i, v)
      PROVE  /\ Stays /\ holder'.listed = holder.listed /\ holder'.todo = holder.todo \ {i}
             /\ holder'.intent = i /\ holder'.pc = IF v = "unresolved" THEN "pass" ELSE v
  BY <1>1, <1>3 DEF HandOn, Holders, Stays
<1>4. ASSUME Resume
      PROVE  Stays /\ Lists /\ holder'.intent = reserved /\ holder'.pc = WhereToResume
  BY <1>1, <1>4 DEF Resume, Holders, Stays, Lists
<1>5. ASSUME Receipt
      PROVE  Stays /\ Lists /\ holder'.pc = "committed" /\ holder'.intent = holder.intent
  BY <1>5, HolderGoes DEF Receipt, Pcs, Verdicts
<1>6. ASSUME Return
      PROVE  /\ Stays /\ Lists /\ holder'.intent = NoIntent
             /\ Holding => holder'.pc = "select"
             /\ ~Holding /\ holder.listed => holder'.pc = "pass"
             /\ ~Holding /\ ~holder.listed => holder'.pc = "recover"
  <2> DEFINE pc == CASE holder.seen.state # Missing -> "select"
                     [] holder.seen.state = Missing /\ holder.listed -> "pass"
                     [] OTHER -> "recover"
  <2>1. holder' = [holder EXCEPT !.intent = NoIntent, !.pc = pc]
    BY <1>6 DEF Return
  <2>2. /\ Holding => pc = "select"
        /\ ~Holding /\ holder.listed => pc = "pass"
        /\ ~Holding /\ ~holder.listed => pc = "recover"
    BY <1>1 DEF Holding, Holders
  <2> HIDE DEF pc
  <2> QED
    BY <1>1, <2>1, <2>2 DEF Holders, Stays, Lists
<1> QED
  BY <1>2, <1>3, <1>4, <1>5, <1>6

-----------------------------------------------------------------------------
(* The holder and the intents.                                              *)

LEMMA PcsDiffer ==
    /\ Verdicted \cap {"idle", "recover", "select", "intent", "write", "final", "pass",
                       "quarantined", "committed", "archived", "unresolved"} = {}
    /\ "adopted" \in Verdicted /\ "prepared" \in Verdicted
  BY DEF Verdicted, Terminal

\* A step after which the holder carries nothing out.
LEMMA NothingCarried ==
    ASSUME Answering, holder'.pc \notin Verdicted \cup {"quarantined", "committed", "archived"},
           holder'.todo \subseteq DOMAIN intents', holder'.intent \notin holder'.todo,
           holder'.listed \/ holder'.todo = {},
           At("recover")' => ~holder'.listed /\ holder'.intent = NoIntent,
           \A i \in DOMAIN intents' : intents'[i] = "moved" =>
               i \in DOMAIN intents /\ intents[i] = "moved" /\ i = reserved'
               /\ file'[i.path] = file[i.path]
    PROVE  Carrying' /\ Answering'
<1>1. Carrying'
  BY PcsDiffer DEF Carrying, At
<1>2. Answering'
  BY PcsDiffer DEF Answering, At
<1> QED
  BY <1>1, <1>2

\* A blank holder has nothing in hand.
LEMMA BlankCarries ==
    ASSUME Answering, Blank, UNCHANGED <<intents, file, reserved>>,
           holder'.task = "restore" => At("recover")', At("idle")' => holder'.task = "none"
    PROVE  IntentInv'
<1>1. holder'.pc \notin Verdicted \cup {"quarantined", "committed", "archived"}
  BY PcsDiffer DEF Blank
<1>2. /\ holder'.todo = {} /\ ~holder'.listed /\ ~holder'.wrote
      /\ holder'.seen.state = Missing
  BY DEF Blank
<1>3. Carrying' /\ Answering'
  <2>1. \A i \in DOMAIN intents' : intents'[i] = "moved" =>
            i \in DOMAIN intents /\ intents[i] = "moved" /\ i = reserved'
            /\ file'[i.path] = file[i.path]
    BY DEF Answering
  <2>2. holder'.intent = NoIntent
    BY DEF Blank
  <2> QED
    BY <1>1, <1>2, <2>1, <2>2, NothingCarried
<1>4. Tasked'
  BY <1>2 DEF Tasked, Holding, At
<1> QED
  BY <1>3, <1>4 DEF IntentInv

\* Writers leave holder and intents alone; a location stays.
LEMMA WritersIntents ==
    ASSUME IInv, IntentInv, Update \/ Register \/ RecordsLate \/ Prune \/ Accept
    PROVE  IntentInv'
<1>1. UNCHANGED <<file, holder, intents, reserved>>
  BY DEF Update, Register, RecordsLate, Prune, Accept, disk
<1>2. immutable \subseteq immutable'
  BY DEF Update, Register, RecordsLate, Prune, Accept, catalog
<1>3. card.location # NoPath => card'.location = card.location
  BY DEF Update, Register, RecordsLate, Prune, Accept, catalog, IInv, Typed, TypeOK, Cards
<1>4. Carrying' /\ Tasked'
  BY <1>1 DEF IntentInv, Carrying, Tasked, At, Unfenced, Holding
<1>5. holder.pc \in Verdicted => holder.intent.path # NoPath
  BY PathsDiffer DEF IntentInv, Carrying, IInv, Typed, TypeOK, Intents
<1>6. Answering'
  <2>1. holder.pc \in Verdicted =>
            LET p == holder.intent.path IN file[p] = Missing \/ p = card'.location \/ p \in immutable'
    BY <1>2, <1>3, <1>5 DEF IntentInv, Answering
  <2>2. At("adopted") => holder.intent.path = card'.location
    BY <1>3, <1>5, PcsDiffer DEF IntentInv, Answering, At
  <2> QED
    BY <1>1, <2>1, <2>2 DEF IntentInv, Answering, At
<1> QED
  BY <1>4, <1>6 DEF IntentInv

\* No intent is being moved while there is no fence.
LEMMA NoneMoved ==
    ASSUME Typed, Answering, Unfenced
    PROVE  \A i \in DOMAIN intents : intents[i] # "moved"
<1>1. reserved \notin Intents
  BY PathsDiffer DEF Unfenced
<1> QED
  BY <1>1 DEF Answering, Typed, TypeOK

\* A publisher opens an intent before it leaves or creates a file.
LEMMA PublisherIntents ==
    ASSUME IInv, IntentInv, Publishing, Publisher \/ TakeToSync \/ TakeToReconcile \/ TakeToRestore
    PROVE  IntentInv'
<1> USE DEF IntentInv
<1>1. Typed /\ Locked /\ DOMAIN intents \subseteq Intents /\ holder.todo \subseteq DOMAIN intents
  BY DEF IInv, Typed, TypeOK, Carrying
<1>2. CASE TakeToSync \/ TakeToReconcile \/ TakeToRestore
  <2>1. PICK task \in Tasks : Take(task)
    BY <1>2 DEF TakeToSync, TakeToReconcile, TakeToRestore, Tasks
  <2>2. UNCHANGED <<intents, file, reserved>>
    BY <1>2 DEF TakeToSync, TakeToReconcile, TakeToRestore, disk
  <2>3. Blank /\ holder'.pc = "recover"
    BY <2>1, TakenIsBlank
  <2> QED
    BY <2>2, <2>3, BlankCarries DEF At
<1>3. CASE RecoverFence
  <2>1. UNCHANGED <<card, immutable, intents, file, reserved, holder>>
    BY <1>3 DEF RecoverFence, disk
  <2> QED
    BY <2>1 DEF Carrying, Tasked, Answering, At, Unfenced, Holding
<1>4. CASE Observe
  <2>1. UNCHANGED <<intents, file, reserved>> /\ At("recover") /\ holder.task \in {"sync", "prune"}
    BY <1>4 DEF Observe, disk
  <2>2. /\ holder'.pc = "select" /\ Lists /\ holder'.wrote = holder.wrote
        /\ holder'.task = holder.task /\ holder'.intent = holder.intent
    BY <1>1, <1>4, PublisherEffects
  <2>3. Carrying' /\ Answering'
    <3>1. \A i \in DOMAIN intents' : intents'[i] = "moved" =>
              i \in DOMAIN intents /\ intents[i] = "moved" /\ i = reserved'
              /\ file'[i.path] = file[i.path]
      BY <2>1 DEF Answering
    <3>2. holder'.pc \notin Verdicted \cup {"quarantined", "committed", "archived"}
      BY <2>2, PcsDiffer
    <3> QED
      BY <2>1, <2>2, <3>1, <3>2, NothingCarried DEF Carrying, Lists, At
  <2>4. Tasked'
    BY <2>1, <2>2 DEF Tasked, At
  <2> QED
    BY <2>3, <2>4
<1>5. CASE PrepareTransition
  <2>1. PICK i \in Intents \ DOMAIN intents :
            /\ i.path = Current /\ Open(i)
            /\ Stays /\ Lists /\ holder'.pc = "prepared" /\ holder'.intent = i
    BY <1>1, <1>5, PreparationEffects
  <2>2. /\ UNCHANGED <<card, file, reserved>> /\ At("select") /\ Unbound
        /\ Holding /\ Unfenced
    BY <1>1, <1>5 DEF PrepareTransition, catalog, Locked, At, Reading
  <2>3. i.path = card.location
    BY <2>1, <2>2, PathsDiffer DEF Unbound, Current, Publishing
  <2>4. /\ DOMAIN intents' = DOMAIN intents \cup {i} /\ intents'[i] = "open"
        /\ \A k \in DOMAIN intents : intents'[k] = intents[k]
    BY <2>1, OpenOne
  <2>5. Carrying'
    BY <1>1, <2>1, <2>2, <2>4, PcsDiffer DEF Carrying, Lists, At, Unfenced
  <2>6. Tasked'
    BY <2>1, <2>2, <2>4 DEF Tasked, Stays, Lists, At, Holding
  <2>7. Answering'
    BY <2>1, <2>2, <2>3, <2>4 DEF Answering, At
  <2> QED
    BY <2>5, <2>6, <2>7
<1>6. CASE Reserve
  <2>1. UNCHANGED <<intents, file, reserved>> /\ At("select")
    BY <1>6 DEF Reserve, disk
  <2>2. /\ holder'.seen = holder.seen /\ Lists /\ holder'.wrote = holder.wrote
        /\ holder'.task = holder.task /\ holder'.intent = holder.intent
        /\ holder'.pc \in {"final", "intent", "write"}
    BY <1>1, <1>6, PublisherEffects
  <2>3. Carrying' /\ Answering'
    <3>1. \A i \in DOMAIN intents' : intents'[i] = "moved" =>
              i \in DOMAIN intents /\ intents[i] = "moved" /\ i = reserved'
              /\ file'[i.path] = file[i.path]
      BY <2>1 DEF Answering
    <3>2. holder'.pc \notin Verdicted \cup {"quarantined", "committed", "archived"}
      BY <2>2, PcsDiffer
    <3> QED
      BY <2>1, <2>2, <3>1, <3>2, NothingCarried DEF Carrying, Lists, At
  <2>4. Tasked'
    BY <2>1, <2>2 DEF Tasked, At, Holding
  <2> QED
    BY <2>3, <2>4
<1>7. CASE WriteIntent
  <2>1. UNCHANGED <<file, reserved>> /\ At("intent")
    BY <1>7 DEF WriteIntent
  <2>2. PICK i \in Fresh("write", holder.target, holder.seen.state) : Open(i)
    BY <1>7 DEF WriteIntent
  <2>3. /\ DOMAIN intents' = DOMAIN intents \cup {i} /\ intents'[i] = "open"
        /\ \A k \in DOMAIN intents : intents'[k] = intents[k]
    BY <2>2, OpenOne DEF Fresh
  <2>4. Stays /\ Lists /\ holder'.pc = "write" /\ holder'.intent = holder.intent
    BY <1>1, <1>7, PublisherEffects
  <2>5. Carrying' /\ Answering'
    <3>1. \A k \in DOMAIN intents' : intents'[k] = "moved" =>
              k \in DOMAIN intents /\ intents[k] = "moved" /\ k = reserved'
              /\ file'[k.path] = file[k.path]
      BY <2>1, <2>3 DEF Answering
    <3>2. holder'.pc \notin Verdicted \cup {"quarantined", "committed", "archived"}
      BY <2>4, PcsDiffer
    <3> QED
      BY <2>1, <2>3, <2>4, <3>1, <3>2, NothingCarried DEF Carrying, Lists, At
  <2>6. Tasked'
    BY <2>1, <2>4 DEF Tasked, At, Holding, Stays, Lists
  <2> QED
    BY <2>5, <2>6
<1>8. CASE WriteFile
  <2>1. UNCHANGED <<intents, reserved>> /\ At("write")
    BY <1>8 DEF WriteFile
  <2>2. /\ holder'.seen = holder.seen /\ Lists /\ holder'.task = holder.task
        /\ holder'.intent = holder.intent /\ holder'.pc = "final"
    BY <1>1, <1>8, PublisherEffects
  <2>3. Unfenced
    BY <1>1, <2>1 DEF Locked, At, Reading
  <2>4. Carrying' /\ Answering'
    <3>1. \A i \in DOMAIN intents' : intents'[i] # "moved"
      BY <1>1, <2>1, <2>3, NoneMoved
    <3>2. holder'.pc \notin Verdicted \cup {"quarantined", "committed", "archived"}
      BY <2>2, PcsDiffer
    <3> QED
      BY <2>1, <2>2, <3>1, <3>2, NothingCarried DEF Carrying, Lists, At
  <2>5. Tasked'
    BY <2>1, <2>2 DEF Tasked, At, Holding
  <2> QED
    BY <2>4, <2>5
<1>9. CASE Acknowledge
  <2>1. UNCHANGED <<intents, file, reserved>> /\ Free
    BY <1>9 DEF Acknowledge, disk
  <2>2. Blank /\ holder'.task = "none"
    BY <2>1, IdleIsBlank
  <2> QED
    BY <2>1, <2>2, BlankCarries
<1> QED
  BY <1>2, <1>3, <1>4, <1>5, <1>6, <1>7, <1>8, <1>9 DEF Publisher

\* What is decided of an open intent fits the files and the catalog.
LEMMA VerdictFits ==
    ASSUME NEW i \in Intents, ~Answered(i)
    PROVE  /\ Verdict(i) \in Terminal \cup {"quarantined", "unresolved"}
           /\ Verdict(i) \in Terminal =>
                  file[i.path] = Missing \/ i.path = card.location \/ i.path \in immutable
           /\ Verdict(i) = "adopted" => i.path = card.location
<1> DEFINE s == Snapshot
<1>1. Verdict(i) = Judge(i, s)
  BY DEF Verdict
<1>2. CASE file[i.path] = Missing
  <2>1. Verdict(i) \in {"unresolved", "no_file_created"}
    BY <1>1, <1>2 DEF Judge, JudgeUncreated
  <2> QED
    BY <1>2, <2>1 DEF Terminal
<1>3. CASE file[i.path] # Missing /\ Unstable(s.card)
  <2>1. Verdict(i) = "unresolved"
    BY <1>1, <1>3 DEF Judge
  <2> QED
    BY <2>1 DEF Terminal
<1>4. CASE file[i.path] # Missing /\ ~Unstable(s.card) /\ s.card.location = i.path
  <2>1. Verdict(i) = JudgeReferenced(i, s.card)
    BY <1>1, <1>4 DEF Judge
  <2>2. JudgeReferenced(i, s.card) \in Terminal \cup {"unresolved"}
    BY DEF JudgeReferenced, Terminal
  <2>3. i.path = card.location
    BY <1>4 DEF Snapshot
  <2> QED
    BY <2>1, <2>2, <2>3
<1>5. CASE file[i.path] # Missing /\ ~Unstable(s.card) /\ s.card.location # i.path
  <2>1. Verdict(i) = JudgeUnreferenced(i, s)
    BY <1>1, <1>5 DEF Judge
  <2>2. /\ JudgeUnreferenced(i, s) \in {"unresolved", "quarantined", "preserved_immutable"}
        /\ JudgeUnreferenced(i, s) = "preserved_immutable" => i.path \in s.bound
    BY DEF JudgeUnreferenced
  <2>3. s.bound = immutable
    BY DEF Snapshot
  <2> HIDE DEF s
  <2> QED
    BY <2>1, <2>2, <2>3 DEF Terminal
<1> QED
  BY <1>2, <1>3, <1>4, <1>5

\* A reconciler keeps in hand what is there, and answers what has an answer.
LEMMA ReconcilerIntents ==
    ASSUME IInv, IntentInv, Reconciler \/ Fails \/ RegisterCleanup \/ RestoreRows \/ Stop
    PROVE  IntentInv'
<1> USE DEF IntentInv
<1>1. /\ Typed /\ Locked /\ DOMAIN intents \subseteq Intents /\ holder.todo \subseteq DOMAIN intents
      /\ \A i \in DOMAIN intents : intents[i] \in Stages
      /\ file \in [Paths -> States \cup {Missing}]
  BY DEF IInv, Typed, TypeOK, Carrying
<1>2. CASE Inventory
  <2>1. UNCHANGED <<intents, file, reserved>> /\ At("recover") /\ holder.task \in {"reconcile", "check"}
    BY <1>2 DEF Inventory, disk
  <2>2. /\ Stays /\ holder'.pc = "pass" /\ holder'.listed = TRUE
        /\ holder'.todo = DOMAIN intents /\ holder'.intent = holder.intent
    BY <1>1, <1>2, ReconcilerEffects
  <2>3. holder.intent = NoIntent /\ NoIntent \notin DOMAIN intents
    BY <1>1, <2>1, PathsDiffer DEF Carrying
  <2>4. Carrying' /\ Answering'
    <3>1. \A i \in DOMAIN intents' : intents'[i] = "moved" =>
              i \in DOMAIN intents /\ intents[i] = "moved" /\ i = reserved'
              /\ file'[i.path] = file[i.path]
      BY <2>1 DEF Answering
    <3>2. holder'.pc \notin Verdicted \cup {"quarantined", "committed", "archived"}
      BY <2>2, PcsDiffer
    <3> QED
      BY <2>1, <2>2, <2>3, <3>1, <3>2, NothingCarried DEF At
  <2>5. Tasked'
    BY <2>1, <2>2 DEF Tasked, Stays, At, Holding
  <2> QED
    BY <2>4, <2>5
<1>3. CASE FinishAnswered
  <2>1. UNCHANGED <<card, immutable, intents, file, reserved>> /\ At("pass")
    BY <1>3 DEF FinishAnswered, catalog, disk
  <2>2. PICK i \in holder.todo : Answered(i) /\ HandOn(i, "committed")
    BY <1>3 DEF FinishAnswered
  <2>3. /\ Stays /\ holder'.listed = holder.listed /\ holder'.todo = holder.todo \ {i}
        /\ holder'.intent = i /\ holder'.pc = "committed"
    BY <1>1, <2>2, ReconcilerEffects
  <2>4. Unfenced /\ ~Holding /\ i \in DOMAIN intents
    BY <1>1, <2>1, <2>2 DEF Locked, At, Reading
  <2>5. intents[i] \in {"receipted", "queued"}
    <3>1. intents[i] # "moved" /\ intents[i] # "open"
      BY <1>1, <2>2, <2>4, NoneMoved DEF Answered
    <3> QED
      BY <1>1, <2>4, <3>1 DEF Stages
  <2>6. Carrying'
    BY <2>1, <2>3, <2>4, PcsDiffer DEF Carrying, At, Unfenced
  <2>7. Answering'
    BY <2>1, <2>3, <2>4, <2>5, PcsDiffer DEF Answering, At
  <2>8. Tasked'
    BY <2>1, <2>3, <2>4 DEF Tasked, Stays, At, Holding
  <2> QED
    BY <2>6, <2>7, <2>8
<1>4. CASE Decide
  <2>1. UNCHANGED <<card, immutable, intents, file>> /\ At("pass")
    BY <1>4 DEF Decide, catalog, disk
  <2>2. PICK i \in holder.todo :
            /\ ~Answered(i) /\ HandOn(i, Verdict(i))
            /\ IF Verdict(i) = "quarantined" THEN ReserveQuarantine(i) ELSE UNCHANGED reserved
    BY <1>4 DEF Decide
  <2>3. /\ Stays /\ holder'.listed = holder.listed /\ holder'.todo = holder.todo \ {i}
        /\ holder'.intent = i
        /\ holder'.pc = IF Verdict(i) = "unresolved" THEN "pass" ELSE Verdict(i)
    BY <1>1, <2>2, ReconcilerEffects
  <2>4. Unfenced /\ ~Holding /\ i \in DOMAIN intents
    BY <1>1, <2>1, <2>2 DEF Locked, At, Reading
  <2>5. /\ Verdict(i) \in Terminal \cup {"quarantined", "unresolved"}
        /\ Verdict(i) \in Terminal =>
               file[i.path] = Missing \/ i.path = card.location \/ i.path \in immutable
        /\ Verdict(i) = "adopted" => i.path = card.location
    BY <1>1, <2>2, <2>4, VerdictFits
  <2>6. holder'.pc \in Terminal \cup {"quarantined", "pass"}
    BY <2>3, <2>5 DEF Terminal
  <2>7. holder'.pc # "quarantined" => Unfenced'
    <3>1. holder'.pc # "quarantined" => Verdict(i) # "quarantined"
      BY <2>3
    <3> QED
      BY <2>2, <2>4, <3>1 DEF Unfenced
  <2>8. holder'.pc \notin {"recover", "committed", "archived", "prepared"}
    BY <2>6 DEF Terminal
  <2>9. Carrying'
    BY <2>1, <2>3, <2>4, <2>7, <2>8, PcsDiffer DEF Carrying, At
  <2>10. Answering'
    <3>1. \A k \in DOMAIN intents' : intents'[k] # "moved"
      BY <1>1, <2>1, <2>4, NoneMoved
    <3>2. holder'.pc \in Verdicted => holder'.pc = Verdict(i) /\ Verdict(i) \in Terminal
      BY <2>3, <2>5, <2>8, PcsDiffer DEF Verdicted
    <3>3. holder'.pc \in Verdicted =>
              LET p == holder'.intent.path
              IN file'[p] = Missing \/ p = card'.location \/ p \in immutable'
      BY <2>1, <2>3, <2>5, <3>2
    <3>4. holder'.pc = "adopted" => holder'.intent.path = card'.location
      BY <2>1, <2>3, <2>5, <3>2, PcsDiffer
    <3> QED
      BY <2>8, <3>1, <3>3, <3>4 DEF Answering, At
  <2>11. Tasked'
    <3>1. holder'.wrote = FALSE
      BY <1>1, <2>1, <2>3 DEF Tasked, Stays, At, Typed, Holders
    <3> QED
      BY <2>1, <2>3, <2>4, <2>6, <3>1 DEF Tasked, Stays, At, Holding, Terminal
  <2> QED
    BY <2>9, <2>10, <2>11
<1>5. CASE EndPass \/ Fails \/ RestoreRows \/ Stop
  <2>1. UNCHANGED <<intents, file, reserved>> /\ Free
    BY <1>5 DEF EndPass, Fails, RestoreRows, Stop, disk
  <2>2. Blank /\ holder'.task = "none"
    BY <2>1, IdleIsBlank
  <2> QED
    BY <2>1, <2>2, BlankCarries
<1>6. CASE Resume
  <2>1. UNCHANGED <<card, immutable, intents, file, reserved>> /\ At("recover") /\ ~Unfenced
    BY <1>6 DEF Resume, catalog, disk
  <2>2. /\ Stays /\ Lists /\ holder'.intent = reserved /\ holder'.pc = WhereToResume
    BY <1>1, <1>6, ReconcilerEffects
  <2>3. /\ WhereToResume \in {"archived", "quarantined", "committed"}
        /\ reserved \in DOMAIN intents <=> WhereToResume # "archived"
        /\ WhereToResume = "committed" => intents[reserved] \notin {"open", "moved"}
    BY DEF WhereToResume
  <2>4. holder.todo = {} /\ ~holder.listed /\ ~Holding
    BY <1>1, <2>1 DEF Carrying, Locked, At, Reading
  <2>5. Carrying'
    BY <2>1, <2>2, <2>3, <2>4, PcsDiffer DEF Carrying, Lists, At
  <2>6. Answering'
    <3>1. WhereToResume = "committed" => intents[reserved] \in {"receipted", "queued"}
      BY <1>1, <2>3 DEF Stages
    <3> QED
      BY <2>1, <2>2, <2>3, <3>1, PcsDiffer DEF Answering, At
  <2>7. Tasked'
    BY <2>1, <2>2, <2>3, <2>4 DEF Tasked, Stays, Lists, At, Holding
  <2> QED
    BY <2>5, <2>6, <2>7
<1>7. CASE Move
  <2>1. /\ UNCHANGED <<card, immutable, reserved, holder>> /\ At("quarantined")
        /\ file' = [file EXCEPT ![holder.intent.path] = Missing]
        /\ intents' = [intents EXCEPT ![holder.intent] = "moved"]
    BY <1>7 DEF Move, catalog
  <2>2. holder.intent \in DOMAIN intents /\ holder.intent = reserved
    BY <1>1, <2>1 DEF Carrying, Locked, At
  <2>3. holder.intent.path \in Paths
    BY <1>1, <2>2 DEF Intents
  <2>4. /\ DOMAIN intents' = DOMAIN intents /\ intents'[holder.intent] = "moved"
        /\ \A k \in DOMAIN intents : k # holder.intent => intents'[k] = intents[k]
    BY <2>1, <2>2
  <2>5. Carrying' /\ Tasked'
    BY <2>1, <2>4 DEF Carrying, Tasked, At, Unfenced, Holding
  <2>6. Answering'
    <3>1. file'[holder.intent.path] = Missing
      BY <1>1, <2>1, <2>3
    <3>2. \A k \in DOMAIN intents' : intents'[k] = "moved" => k = reserved'
      BY <2>1, <2>2, <2>4 DEF Answering
    <3> QED
      BY <2>1, <2>2, <3>1, <3>2, PcsDiffer DEF Answering, At
  <2> QED
    BY <2>5, <2>6
<1>8. CASE PublishVerdict \/ PublishQuarantine
  <2>1. UNCHANGED <<card, immutable, file, reserved>> /\ Receipt
    BY <1>8 DEF PublishVerdict, PublishQuarantine, catalog
  <2>2. /\ Stays /\ Lists /\ holder'.pc = "committed" /\ holder'.intent = holder.intent
    BY <1>1, <2>1, ReconcilerEffects
  <2>3. holder.pc \in Verdicted \cup {"quarantined"}
    BY <1>8 DEF PublishVerdict, PublishQuarantine, Verdicted, At
  <2>4. /\ holder.intent \in DOMAIN intents
        /\ Unfenced \/ holder.intent = reserved
    BY <1>1, <2>3 DEF Carrying, Locked, At
  <2>5. /\ DOMAIN intents' = DOMAIN intents /\ intents'[holder.intent] = "receipted"
        /\ \A k \in DOMAIN intents : k # holder.intent => intents'[k] = intents[k]
    BY <2>1, <2>4 DEF Receipt
  <2>6. Carrying'
    BY <2>1, <2>2, <2>4, <2>5, PcsDiffer DEF Carrying, Lists, At, Unfenced
  <2>7. Answering'
    BY <2>1, <2>2, <2>4, <2>5, PcsDiffer DEF Answering, At
  <2>8. Tasked'
    <3>1. ~holder.wrote
      BY <1>1, <2>3, PcsDiffer DEF Tasked, At
    <3> QED
      BY <2>2, <2>3, <3>1 DEF Tasked, Stays, Lists, Holding, At
  <2> QED
    BY <2>6, <2>7, <2>8
<1>9. CASE Retire
  <2>1. UNCHANGED <<card, immutable, file, reserved>> /\ At("committed")
    BY <1>9 DEF Retire, catalog
  <2>2. holder.intent \in DOMAIN intents /\ (Unfenced \/ holder.intent = reserved)
    BY <2>1 DEF Carrying, Answering, At
  <2>3. CASE intents[holder.intent] = "receipted"
    <3>1. holder' = holder /\ intents' = [intents EXCEPT ![holder.intent] = "queued"]
      BY <1>9, <2>3 DEF Retire
    <3>2. /\ DOMAIN intents' = DOMAIN intents
          /\ intents'[holder.intent] = "queued" \/ holder.intent \notin DOMAIN intents
          /\ \A k \in DOMAIN intents : k # holder.intent => intents'[k] = intents[k]
      BY <3>1
    <3>3. Carrying' /\ Tasked'
      BY <2>1, <3>1, <3>2 DEF Carrying, Tasked, At, Unfenced, Holding
    <3>4. Answering'
      BY <2>1, <3>1, <3>2, PcsDiffer DEF Answering, At
    <3> QED
      BY <3>3, <3>4
  <2>4. CASE intents[holder.intent] # "receipted"
    <3>1. Goto("archived") /\ intents' = Restrict(intents, DOMAIN intents \ {holder.intent})
      BY <1>9, <2>4 DEF Retire
    <3>2. Stays /\ Lists /\ holder'.pc = "archived" /\ holder'.intent = holder.intent
      BY <1>1, <3>1, HolderGoes DEF Pcs
    <3>3. /\ DOMAIN intents' = DOMAIN intents \ {holder.intent}
          /\ \A k \in DOMAIN intents' : intents'[k] = intents[k]
      BY <3>1 DEF Restrict
    <3>4. Carrying'
      BY <2>1, <3>2, <3>3, PcsDiffer DEF Carrying, Lists, At, Unfenced
    <3>5. Answering'
      BY <2>1, <3>2, <3>3, PcsDiffer DEF Answering, At
    <3>6. Tasked'
      BY <2>1, <3>2 DEF Tasked, Stays, Lists, Holding, At
    <3> QED
      BY <3>4, <3>5, <3>6
  <2> QED
    BY <2>3, <2>4
<1>10. CASE Return
  <2>1. UNCHANGED <<intents, file>> /\ At("archived")
    BY <1>10 DEF Return, disk
  <2>2. /\ Stays /\ Lists /\ holder'.intent = NoIntent
        /\ Holding => holder'.pc = "select"
        /\ ~Holding /\ holder.listed => holder'.pc = "pass"
        /\ ~Holding /\ ~holder.listed => holder'.pc = "recover"
    BY <1>1, <1>10, ReconcilerEffects
  <2>3. \A i \in DOMAIN intents' : intents'[i] # "moved"
    <3>1. CASE Unfenced
      BY <1>1, <2>1, <3>1, NoneMoved
    <3>2. CASE ~Unfenced
      <4>1. reserved \notin DOMAIN intents
        BY <2>1, <3>2 DEF Carrying, At
      <4> QED
        BY <2>1, <4>1 DEF Answering
    <3> QED
      BY <3>1, <3>2
  <2>4. NoIntent \notin holder.todo
    BY <1>1, PathsDiffer
  <2>5. holder'.pc \in {"select", "pass", "recover"}
    BY <2>2
  <2>6. Carrying' /\ Answering'
    <3>1. holder'.pc \notin Verdicted \cup {"quarantined", "committed", "archived"}
      BY <2>5, PcsDiffer
    <3>2. At("recover")' => ~holder'.listed /\ holder'.intent = NoIntent
      BY <2>2 DEF Lists, At
    <3>3. holder'.listed \/ holder'.todo = {}
      BY <2>2 DEF Lists, Carrying
    <3> QED
      BY <1>1, <2>1, <2>2, <2>3, <2>4, <3>1, <3>2, <3>3, NothingCarried DEF Lists
  <2>7. Tasked'
    <3>1. ~holder.wrote
      BY <2>1 DEF Tasked, At
    <3> QED
      BY <2>1, <2>2, <3>1 DEF Tasked, Stays, Lists, Holding, At
  <2> QED
    BY <2>6, <2>7
<1>11. CASE RegisterCleanup
  <2>1. UNCHANGED <<card, immutable, file, reserved, holder>> /\ At("recover")
    BY <1>11 DEF RegisterCleanup, catalog
  <2>2. PICK i \in Intents \ DOMAIN intents : Open(i)
    BY <1>11 DEF RegisterCleanup, Fresh
  <2>3. /\ DOMAIN intents' = DOMAIN intents \cup {i} /\ intents'[i] = "open"
        /\ \A k \in DOMAIN intents : intents'[k] = intents[k]
    BY <2>2, OpenOne
  <2>4. Carrying' /\ Answering'
    <3>1. \A k \in DOMAIN intents' : intents'[k] = "moved" =>
              k \in DOMAIN intents /\ intents[k] = "moved" /\ k = reserved'
              /\ file'[k.path] = file[k.path]
      BY <2>1, <2>3 DEF Answering
    <3>2. holder'.pc \notin Verdicted \cup {"quarantined", "committed", "archived"}
      BY <2>1, PcsDiffer DEF At
    <3> QED
      BY <2>1, <2>3, <3>1, <3>2, NothingCarried DEF Carrying, At
  <2>5. Tasked'
    BY <2>1 DEF Tasked, Holding, At
  <2> QED
    BY <2>4, <2>5
<1> QED
  BY <1>2, <1>3, <1>4, <1>5, <1>6, <1>7, <1>8, <1>9, <1>10, <1>11 DEF Reconciler

-----------------------------------------------------------------------------
(* The files.                                                               *)

\* What a synchronisation tells the pruning it belongs to.
LEMMA WitnessEffects ==
    ASSUME Typed, NEW p, NEW r, Witness(p, r)
    PROVE  /\ prune'.registered = prune.registered /\ prune'.before = prune.before
           /\ prune'.after.state = prune.after.state
           /\ holder.task # "prune" => prune' = prune
           /\ holder.task = "prune" =>
                 /\ prune'.step = "synced" /\ prune'.after.location = p
                 /\ prune'.created = IF holder.wrote /\ holder.create
                                     THEN {<<holder.target, holder.seen.state>>} ELSE {}
<1>1. prune \in Prunings
  BY DEF Typed
<1>2. CASE holder.task # "prune"
  BY <1>2 DEF Witness
<1>3. CASE holder.task = "prune"
  <2> DEFINE made == IF holder.wrote /\ holder.create
                     THEN {<<holder.target, holder.seen.state>>} ELSE {}
  <2>1. prune' = [prune EXCEPT !.step = "synced", !.after.location = p, !.row = r,
                               !.created = made]
    BY <1>3 DEF Witness
  <2> HIDE DEF made
  <2>2. /\ prune'.registered = prune.registered /\ prune'.before = prune.before
        /\ prune'.after.state = prune.after.state
        /\ prune'.step = "synced" /\ prune'.after.location = p /\ prune'.created = made
    BY <1>1, <2>1 DEF Prunings, Seen
  <2> QED
    BY <1>3, <2>2 DEF made
<1> QED
  BY <1>2, <1>3

\* Authorities that only grow keep what they account for.
LEMMA OwnedStay ==
    ASSUME AllOwned, immutable \subseteq immutable', unwitnessed \subseteq unwitnessed',
           receipts \subseteq receipts',
           \A p \in Paths : file'[p] # Missing => file[p] = file'[p],
           \A p \in Paths : file'[p] # Missing /\ (p = card.location \/ Working(p)) => Owned(p)'
    PROVE  AllOwned'
<1> SUFFICES ASSUME NEW p \in Paths, file'[p] # Missing
             PROVE  Owned(p)'
  BY DEF AllOwned
<1>1. file[p] = file'[p] /\ Owned(p)
  BY DEF AllOwned
<1>2. CASE p = card.location \/ Working(p)
  BY <1>2
<1>3. CASE p \in immutable \/ p \in unwitnessed \/ <<p, file[p]>> \in receipts
  BY <1>1, <1>3 DEF Owned
<1> QED
  BY <1>1, <1>2, <1>3 DEF Owned

\* The same, where the Card does not move and no intent is ended.
LEMMA OwnedLikeBefore ==
    ASSUME AllOwned, immutable \subseteq immutable', unwitnessed' = unwitnessed,
           receipts' = receipts, file' = file,
           card.location # NoPath => card'.location = card.location,
           \A p : Working(p) => Working(p)'
    PROVE  AllOwned'
<1>1. ASSUME NEW p \in Paths, p = card.location \/ Working(p)
      PROVE  Owned(p)'
  <2>1. p # NoPath
    BY PathsDiffer
  <2> QED
    BY <1>1, <2>1 DEF Owned
<1> QED
  BY <1>1, OwnedStay

LEMMA ElsewhereThanWriting ==
    ASSUME holder'.pc \notin Writing,
           holder'.seen.location # NoPath => card'.location = holder'.seen.location
    PROVE  Publishing'
  BY DEF Publishing, Writing, At

LEMMA RestoresNothing ==
    ASSUME prune'.registered = {}, holder'.task # "restore"
    PROVE  Restoring'
  BY DEF Restoring

LEMMA RestoresOn ==
    ASSUME Restoring, prune'.registered = prune.registered, holder'.task = holder.task,
           \A p \in Paths : file'[p] # Missing => file[p] # Missing,
           \A p : Working(p) => Working(p)'
    PROVE  Restoring'
  BY DEF Restoring

\* Writers and registrars take no authority away, and put no file anywhere.
LEMMA WritersFiles ==
    ASSUME IInv, FileInv, Update \/ Register \/ RecordsLate \/ Prune \/ Accept
    PROVE  FileInv'
<1> USE DEF FileInv
<1>1. UNCHANGED <<file, holder, intents, receipts, unwitnessed>>
  BY DEF Update, Register, RecordsLate, Prune, Accept, disk
<1>2. immutable \subseteq immutable'
      /\ \A p \in immutable' : p \in immutable \/ file[p] # Missing
  BY DEF Update, Register, RecordsLate, Prune, Accept, catalog
<1>3. card.location # NoPath => card'.location = card.location
  BY DEF Update, Register, RecordsLate, Prune, Accept, catalog, IInv, Typed, TypeOK, Cards
<1>4. \A p : Working(p)' <=> Working(p)
  BY <1>1, WorkingKept
<1>5. AllOwned' /\ BoundAreThere'
  BY <1>1, <1>2, <1>3, <1>4, OwnedLikeBefore DEF BoundAreThere
<1>6. Publishing'
  <2>1. holder.seen.location # NoPath => card'.location = holder.seen.location
    BY <1>3 DEF Publishing
  <2> QED
    BY <1>1, <1>2, <1>4, <2>1 DEF Publishing, At
<1>7. Restoring'
  <2>1. CASE Prune \/ Accept
    <3>1. holder.task # "restore"
      BY <2>1 DEF Prune, Accept, IInv, Typed, Pruned
    <3>2. prune'.registered = {}
      <4>1. NoPrune.registered = {}
        BY DEF NoPrune
      <4>2. Prune => prune'.registered = NoPrune.registered
        BY NothingTyped DEF Prune, Prunings
      <4> QED
        BY <2>1, <4>1, <4>2 DEF Accept
    <3> QED
      BY <1>1, <3>1, <3>2, RestoresNothing
  <2>2. CASE Update \/ Register \/ RecordsLate
    <3>1. prune' = prune
      BY <2>2 DEF Update, Register, RecordsLate
    <3> QED
      BY <1>1, <1>4, <3>1, RestoresOn
  <2> QED
    BY <2>1, <2>2
<1> QED
  BY <1>5, <1>6, <1>7

\* What a restore has not to look after.
LEMMA NotRestoring ==
    ASSUME IntentInv, FileInv, Holding \/ holder.pc \notin {"recover", "quarantined", "committed", "archived"}
    PROVE  holder.task # "restore" /\ prune.registered = {}
  BY DEF IntentInv, Tasked, FileInv, Restoring

\* A synchronisation has an intent for a file that it creates, and leaves a file
\* only when that has a receipt or an artifact.
LEMMA PublisherFiles ==
    ASSUME IInv, IntentInv, FileInv, Publisher \/ TakeToSync \/ TakeToReconcile \/ TakeToRestore
    PROVE  FileInv'
<1> USE DEF FileInv
<1>1. /\ Typed /\ Locked /\ holder \in Holders /\ card \in Cards
      /\ file \in [Paths -> States \cup {Missing}] /\ DOMAIN intents \subseteq Intents
  BY DEF IInv, Typed, TypeOK
<1>2. CASE TakeToSync \/ TakeToReconcile \/ TakeToRestore
  <2>1. PICK task \in Tasks : Take(task) /\ (prune.registered = {} \/ task = "none")
    <3>1. prune.registered = {}
      BY <1>2, NotRestoring DEF TakeToSync, TakeToReconcile, TakeToRestore, At
    <3> QED
      BY <1>2, <3>1 DEF TakeToSync, TakeToReconcile, TakeToRestore, Tasks
  <2>2. UNCHANGED <<card, immutable, intents, receipts, unwitnessed, file, prune>>
    BY <1>2 DEF TakeToSync, TakeToReconcile, TakeToRestore, disk, catalog
  <2>3. Blank /\ holder'.pc = "recover"
    BY <2>1, TakenIsBlank
  <2>4. \A p : Working(p)' <=> Working(p)
    BY <2>2, WorkingKept
  <2>5. AllOwned' /\ BoundAreThere'
    BY <2>2, <2>4, OwnedLikeBefore DEF BoundAreThere
  <2>6. Publishing'
    BY <2>3, ElsewhereThanWriting DEF Blank, Writing
  <2>7. Restoring'
    <3>1. prune.registered = {}
      BY <1>2, NotRestoring DEF TakeToSync, TakeToReconcile, TakeToRestore, At
    <3> QED
      BY <2>2, <3>1 DEF Restoring
  <2> QED
    BY <2>5, <2>6, <2>7
<1>3. CASE RecoverFence \/ Observe
  <2>1. UNCHANGED <<card, immutable, intents, receipts, unwitnessed, file, prune>>
    BY <1>3 DEF RecoverFence, Observe, disk, catalog
  <2>2. \A p : Working(p)' <=> Working(p)
    BY <2>1, WorkingKept
  <2>3. AllOwned' /\ BoundAreThere'
    BY <2>1, <2>2, OwnedLikeBefore DEF BoundAreThere
  <2>4. /\ holder'.pc \in {"recover", "select"} /\ holder'.task = holder.task
        /\ holder'.seen \in {holder.seen, card}
    BY <1>1, <1>3, PublisherEffects DEF RecoverFence, At
  <2>5. Publishing'
    <3>1. holder'.seen.location # NoPath => card'.location = holder'.seen.location
      BY <2>1, <2>4 DEF Publishing
    <3> QED
      BY <2>4, <3>1, ElsewhereThanWriting DEF Writing
  <2>6. Restoring'
    BY <2>1, <2>2, <2>4, RestoresOn
  <2> QED
    BY <2>3, <2>5, <2>6
<1>4. CASE PrepareTransition
  <2>1. PICK i \in Intents \ DOMAIN intents :
            /\ i.path = Current /\ Open(i)
            /\ Stays /\ Lists /\ holder'.pc = "prepared" /\ holder'.intent = i
    BY <1>1, <1>4, PreparationEffects
  <2>2. UNCHANGED <<card, immutable, receipts, unwitnessed, file, prune>>
    BY <1>4 DEF PrepareTransition, catalog
  <2>3. \A p : Working(p) => Working(p)'
    BY <2>1, OpenOne
  <2>4. AllOwned' /\ BoundAreThere'
    BY <2>2, <2>3, OwnedLikeBefore DEF BoundAreThere
  <2>5. Publishing'
    <3>1. holder'.seen.location # NoPath => card'.location = holder'.seen.location
      BY <2>1, <2>2 DEF Publishing, Stays
    <3> QED
      BY <2>1, <3>1, ElsewhereThanWriting DEF Writing
  <2>6. Restoring'
    BY <2>1, <2>2, <2>3, RestoresOn DEF Stays
  <2> QED
    BY <2>4, <2>5, <2>6
<1>5. CASE Reserve
  <2> DEFINE c == Target(immutable)
  <2>1. /\ UNCHANGED <<card, immutable, intents, receipts, unwitnessed, file, prune>>
        /\ At("select") /\ ~Unbound
    BY <1>5 DEF Reserve, disk, catalog
  <2>2. /\ holder'.seen = holder.seen /\ holder'.task = holder.task /\ holder'.target = c[1]
        /\ holder'.pc = IF Shows(c[1], holder.seen.state) THEN "final"
                        ELSE IF c[2] THEN "intent" ELSE "write"
    BY <1>1, <1>5, PublisherEffects
  <2>3. Holding
    BY <1>1, <2>1 DEF Locked, Reading, At
  <2>4. /\ ~Shows(c[1], holder.seen.state) => (c[2] <=> file[c[1]] = Missing)
        /\ c[1] # Current => \/ Current \in immutable
                             \/ Current \in Generations /\ ~Shows(Current, holder.seen.state)
    BY <1>1, <2>3, TargetChosen
  <2> HIDE DEF c
  <2>5. \A p : Working(p)' <=> Working(p)
    BY <2>1, WorkingKept
  <2>6. AllOwned' /\ BoundAreThere'
    BY <2>1, <2>5, OwnedLikeBefore DEF BoundAreThere
  <2>7. Publishing'
    <3>1. holder'.pc = "write" => file[c[1]] # Missing
      BY <2>2, <2>4
    <3>2. holder.seen.location \notin {NoPath, c[1]} =>
              \/ holder.seen.location \in immutable
              \/ <<holder.seen.location, file[holder.seen.location]>> \in receipts
      <4>1. holder.seen.location # NoPath => Current = holder.seen.location
        BY DEF Current
      <4> QED
        BY <2>1, <2>4, <4>1 DEF Unbound
    <3> QED
      BY <2>1, <2>2, <3>1, <3>2 DEF Publishing, At
  <2>8. Restoring'
    BY <2>1, <2>2, <2>5, RestoresOn
  <2> QED
    BY <2>6, <2>7, <2>8
<1>6. CASE WriteIntent
  <2>1. UNCHANGED <<card, immutable, receipts, unwitnessed, file, prune>> /\ At("intent")
    BY <1>6 DEF WriteIntent, catalog
  <2>2. PICK i \in Fresh("write", holder.target, holder.seen.state) : Open(i)
    BY <1>6 DEF WriteIntent
  <2>3. i.path = holder.target /\ i \notin DOMAIN intents
    BY <2>2 DEF Fresh
  <2>4. Working(i.path)' /\ \A p : Working(p) => Working(p)'
    BY <2>2, <2>3, OpenOne
  <2>5. Stays /\ holder'.pc = "write"
    BY <1>1, <1>6, PublisherEffects
  <2>6. AllOwned' /\ BoundAreThere'
    BY <2>1, <2>4, OwnedLikeBefore DEF BoundAreThere
  <2>7. Publishing'
    <3>1. holder'.target = i.path
      BY <2>3, <2>5 DEF Stays
    <3>2. (file[holder.target] # Missing \/ Working(holder.target))'
      BY <2>4, <3>1 DEF Working
    <3>3. holder'.seen.location \notin {NoPath, holder'.target} =>
              \/ holder'.seen.location \in immutable'
              \/ <<holder'.seen.location, file'[holder'.seen.location]>> \in receipts'
      BY <2>1, <2>5 DEF Publishing, Stays, Writing, At
    <3>4. holder'.seen.location # NoPath => card'.location = holder'.seen.location
      BY <2>1, <2>5 DEF Publishing, Stays
    <3> QED
      BY <3>2, <3>3, <3>4 DEF Publishing
  <2>8. Restoring'
    BY <2>1, <2>4, <2>5, RestoresOn DEF Stays
  <2> QED
    BY <2>6, <2>7, <2>8
<1>7. CASE WriteFile
  <2>0. PICK t \in {holder.target}, s \in {holder.seen.state} : TRUE
    OBVIOUS
  <2>1. /\ UNCHANGED <<card, immutable, intents, receipts, unwitnessed, prune>>
        /\ At("write") /\ file' = [file EXCEPT ![t] = s]
        /\ t = holder.target /\ s = holder.seen.state
    BY <1>7, <2>0 DEF WriteFile, catalog
  <2>2. /\ holder'.seen = holder.seen /\ holder'.target = t /\ holder'.task = holder.task
        /\ holder'.pc = "final"
    BY <1>1, <1>7, PublisherEffects
  <2>3. t \in Paths /\ Holding /\ s \in States /\ s # Missing
    BY <1>1, <2>1, PathsDiffer DEF Locked, At, Reading, Holding, Holders, Seen
  <2>4. file'[t] = s /\ \A p \in Paths : p # t => file'[p] = file[p]
    BY <1>1, <2>1, <2>3
  <2>5. \A p : Working(p)' <=> Working(p)
    BY <2>1, WorkingKept
  <2>6. Owned(t)'
    <3>1. CASE file[t] = Missing
      BY <2>1, <2>5, <3>1 DEF Publishing, At, Owned
    <3>2. CASE file[t] # Missing /\ <<t, file[t]>> \notin receipts
      BY <2>1, <2>3, <2>5, <3>2 DEF AllOwned, Owned
    <3>3. CASE file[t] # Missing /\ <<t, file[t]>> \in receipts
      <4>1. t \in Generations
        BY <3>3 DEF IInv, Typed, TypeOK
      <4>2. t = Generation(s)
        BY <2>1, <4>1 DEF IInv, Targeted, At
      <4>3. file[t] = s
        BY <2>3, <3>3, <4>2 DEF IInv, GenerationsNamed
      <4> QED
        BY <2>1, <2>4, <3>3, <4>3 DEF Owned
    <3> QED
      BY <3>1, <3>2, <3>3
  <2>7. AllOwned'
    <3>1. ASSUME NEW p \in Paths, p # t, file'[p] # Missing
          PROVE  Owned(p)'
      BY <2>1, <2>4, <2>5, <3>1 DEF AllOwned, Owned
    <3> QED
      BY <2>6, <3>1 DEF AllOwned
  <2>8. BoundAreThere'
    <3>1. \A p \in immutable : p \in Paths
      BY DEF IInv, Typed, TypeOK
    <3> QED
      BY <2>1, <2>3, <2>4, <3>1 DEF BoundAreThere
  <2>9. Publishing'
    <3>1. holder.seen.location \notin {NoPath, t} =>
              file'[holder.seen.location] = file[holder.seen.location]
      <4>1. holder.seen.location \in Paths \cup {NoPath}
        BY <1>1 DEF Holders, Seen
      <4> QED
        BY <2>4, <4>1
    <3> QED
      BY <2>1, <2>2, <3>1 DEF Publishing, At, Writing
  <2>10. Restoring'
    <3>1. holder.task # "restore" /\ prune.registered = {}
      BY <2>3, NotRestoring
    <3> QED
      BY <2>1, <2>2, <3>1, RestoresNothing
  <2> QED
    BY <2>7, <2>8, <2>9, <2>10
<1>8. CASE Acknowledge
  <2>1. /\ UNCHANGED <<immutable, intents, receipts, unwitnessed, file>> /\ At("final") /\ Free
        /\ Witness(card'.location, outbox')
    BY <1>8 DEF Acknowledge, disk
  <2>2. Blank /\ holder'.task = "none" /\ holder'.pc = "idle"
    BY <2>1, IdleIsBlank
  <2>3. Holding
    BY <1>1, <2>1 DEF Locked, Reading, At
  <2>4. \A p : Working(p)' <=> Working(p)
    BY <2>1, WorkingKept
  <2>5. AllOwned'
    <3>1. card' = card \/ (StillSeen /\ card' = [card EXCEPT !.location = holder.target])
      BY <1>1, <1>8 DEF Acknowledge, Cards
    <3>2. CASE card' = card
      BY <2>1, <2>4, <3>2, OwnedLikeBefore
    <3>3. CASE StillSeen /\ card' = [card EXCEPT !.location = holder.target]
      <4>1. card.location = holder.seen.location /\ card'.location = holder.target
        BY <1>1, <3>3 DEF StillSeen, Cards
      <4>2. ASSUME NEW p \in Paths, p = card.location \/ Working(p)
            PROVE  Owned(p)'
        <5>1. CASE Working(p)
          BY <2>4, <5>1 DEF Owned
        <5>2. CASE p = card.location /\ p = holder.target
          BY <4>1, <5>2 DEF Owned
        <5>3. CASE p = card.location /\ p # holder.target
          <6>1. p \in immutable \/ <<p, file[p]>> \in receipts
            BY <2>1, <4>1, <5>3, PathsDiffer DEF Publishing, At, Writing
          <6> QED
            BY <2>1, <6>1 DEF Owned
        <5> QED
          BY <4>2, <5>1, <5>2, <5>3
      <4> QED
        BY <2>1, <4>2, OwnedStay
    <3> QED
      BY <3>1, <3>2, <3>3
  <2>6. BoundAreThere'
    BY <2>1 DEF BoundAreThere
  <2>7. Publishing'
    BY <2>2, ElsewhereThanWriting DEF Blank, Writing
  <2>8. Restoring'
    <3>1. prune'.registered = {}
      BY <1>1, <2>1, <2>3, NotRestoring, WitnessEffects
    <3> QED
      BY <2>2, <3>1, RestoresNothing
  <2> QED
    BY <2>5, <2>6, <2>7, <2>8
<1> QED
  BY <1>2, <1>3, <1>4, <1>5, <1>6, <1>7, <1>8 DEF Publisher

\* A reconciler takes away only a file that nobody refers to, and ends an intent only
\* when its file is gone or has another authority; a restored Card leaves a place that
\* it was not the first to fill, or one that has got an intent.
LEMMA ReconcilerFiles ==
    ASSUME IInv, IntentInv, FileInv, PruneInv,
           Reconciler \/ Fails \/ RegisterCleanup \/ RestoreRows \/ Stop
    PROVE  FileInv'
<1> USE DEF FileInv
<1>1. /\ Typed /\ Locked /\ holder \in Holders /\ card \in Cards /\ immutable \subseteq Paths
      /\ file \in [Paths -> States \cup {Missing}] /\ DOMAIN intents \subseteq Intents
  BY DEF IInv, Typed, TypeOK
<1>2. CASE Inventory \/ FinishAnswered \/ Decide \/ Resume \/ Return
  <2>1. UNCHANGED <<card, immutable, intents, receipts, unwitnessed, file, prune>>
    BY <1>2 DEF Inventory, FinishAnswered, Decide, Resume, Return, disk, catalog
  <2>2. Stays
    BY <1>1, <1>2, ReconcilerEffects DEF FinishAnswered, Decide
  <2>3. \A p : Working(p)' <=> Working(p)
    BY <2>1, WorkingKept
  <2>4. holder'.pc \notin Writing
    <3>1. CASE Inventory \/ Return
      <4>1. holder'.pc \in {"pass", "select", "recover"}
        BY <1>1, <3>1, ReconcilerEffects
      <4> QED
        BY <4>1 DEF Writing
    <3>2. CASE Resume
      <4>1. holder'.pc \in {"archived", "quarantined", "committed"}
        BY <1>1, <3>2, ReconcilerEffects DEF WhereToResume
      <4> QED
        BY <4>1 DEF Writing
    <3>3. CASE FinishAnswered \/ Decide
      <4>1. PICK i \in holder.todo, v \in Verdicts : HandOn(i, v)
        <5>1. holder.todo \subseteq Intents /\ "committed" \in Verdicts
          BY <1>1 DEF Holders, Verdicts
        <5> QED
          BY <3>3, <5>1, VerdictIsKnown DEF FinishAnswered, Decide
      <4>2. holder'.pc \in Verdicts \cup {"pass"}
        BY <1>1, <4>1, ReconcilerEffects
      <4> QED
        BY <4>2 DEF Writing, Verdicts, Terminal
    <3> QED
      BY <1>2, <3>1, <3>2, <3>3
  <2>5. AllOwned' /\ BoundAreThere'
    BY <2>1, <2>3, OwnedLikeBefore DEF BoundAreThere
  <2>6. Publishing'
    <3>1. holder'.seen.location # NoPath => card'.location = holder'.seen.location
      BY <2>1, <2>2 DEF Publishing, Stays
    <3> QED
      BY <2>4, <3>1, ElsewhereThanWriting
  <2>7. Restoring'
    BY <2>1, <2>2, <2>3, RestoresOn DEF Stays
  <2> QED
    BY <2>5, <2>6, <2>7
<1>3. CASE EndPass \/ Fails \/ Stop
  <2>1. UNCHANGED <<card, immutable, intents, receipts, unwitnessed, file>> /\ Free
    BY <1>3 DEF EndPass, Fails, Stop, disk, catalog
  <2>2. Blank /\ holder'.task = "none" /\ holder'.pc = "idle"
    BY <2>1, IdleIsBlank
  <2>3. \A p : Working(p)' <=> Working(p)
    BY <2>1, WorkingKept
  <2>4. AllOwned' /\ BoundAreThere'
    BY <2>1, <2>3, OwnedLikeBefore DEF BoundAreThere
  <2>5. Publishing'
    BY <2>2, ElsewhereThanWriting DEF Blank, Writing
  <2>6. Restoring'
    <3>1. NoPrune.registered = {}
      BY DEF NoPrune
    <3>2. CASE EndPass
      <4>1. prune.registered = {}
        BY <3>2, NotRestoring DEF EndPass, At
      <4>2. prune'.registered = prune.registered
        <5>1. prune \in Prunings
          BY <1>1 DEF Typed
        <5> QED
          BY <3>2, <5>1 DEF EndPass, Prunings
      <4> QED
        BY <2>2, <4>1, <4>2, RestoresNothing
    <3>3. CASE Fails
      <4>1. prune.registered = {}
        BY <3>3, NotRestoring DEF Fails, Holding
      <4>2. prune' \in {prune, NoPrune} \/ Witness(card.location, outbox')
        BY <3>3 DEF Fails
      <4>3. prune'.registered = {}
        BY <1>1, <3>1, <4>1, <4>2, WitnessEffects
      <4> QED
        BY <2>2, <4>3, RestoresNothing
    <3>4. CASE Stop
      <4>1. (prune' = prune /\ holder.task # "restore") \/ prune' = NoPrune
        BY <3>4 DEF Stop
      <4>2. prune'.registered = {}
        BY <3>1, <4>1 DEF Restoring
      <4> QED
        BY <2>2, <4>2, RestoresNothing
    <3> QED
      BY <1>3, <3>2, <3>3, <3>4
  <2> QED
    BY <2>4, <2>5, <2>6
<1>4. CASE Move
  <2>0. PICK i \in {holder.intent} : TRUE
    OBVIOUS
  <2>1. /\ UNCHANGED <<card, immutable, receipts, unwitnessed, prune, holder>>
        /\ At("quarantined") /\ file' = [file EXCEPT ![i.path] = Missing]
        /\ intents' = [intents EXCEPT ![i] = "moved"] /\ i = holder.intent
    BY <1>4, <2>0 DEF Move, catalog
  <2>2. i \in DOMAIN intents /\ i \in Intents /\ i.path \in Paths
    BY <1>1, <2>1 DEF IntentInv, Carrying, At, Intents
  <2>3. i.path \notin immutable
    BY <1>1, <2>1 DEF Locked, IInv, Fenced, At
  <2>4. \A p : Working(p) => Working(p)'
    BY <1>1, <2>1, <2>2, StageOne DEF Stages
  <2>5. file'[i.path] = Missing /\ \A p \in Paths : p # i.path => file'[p] = file[p]
    BY <1>1, <2>1, <2>2
  <2>6. AllOwned'
    <3>1. ASSUME NEW p \in Paths, p = card.location \/ Working(p)
          PROVE  Owned(p)'
      BY <2>1, <2>4, <3>1 DEF Owned
    <3> QED
      BY <2>1, <2>5, <3>1, OwnedStay
  <2>7. BoundAreThere'
    BY <1>1, <2>1, <2>3, <2>5 DEF BoundAreThere
  <2>8. Publishing'
    <3>1. holder.pc \notin Writing
      BY <2>1 DEF At, Writing
    <3> QED
      BY <2>1, <3>1, ElsewhereThanWriting DEF Publishing
  <2>9. Restoring'
    BY <2>1, <2>4, <2>5, RestoresOn
  <2> QED
    BY <2>6, <2>7, <2>8, <2>9
<1>5. CASE PublishVerdict \/ PublishQuarantine
  <2>0. PICK i \in {holder.intent} : TRUE
    OBVIOUS
  <2>1. /\ UNCHANGED <<card, immutable, unwitnessed, file>> /\ Receipt
        /\ intents' = [intents EXCEPT ![i] = "receipted"] /\ i = holder.intent
        /\ receipts \subseteq receipts'
    BY <1>5, <2>0 DEF PublishVerdict, PublishQuarantine, Receipt, catalog
  <2>2. Stays /\ holder'.pc = "committed"
    BY <1>1, <2>1, ReconcilerEffects
  <2>3. holder.pc \in Verdicted \cup {"quarantined"}
    BY <1>5 DEF PublishVerdict, PublishQuarantine, Verdicted, At
  <2>4. i \in DOMAIN intents /\ i \in Intents /\ i.path \in Paths
    BY <1>1, <2>1, <2>3 DEF IntentInv, Carrying, Intents
  <2>5. file[i.path] = Missing \/ i.path = card.location \/ i.path \in immutable
    <3>1. CASE PublishVerdict
      BY <2>1, <3>1 DEF PublishVerdict, Verdicted, IntentInv, Answering
    <3>2. CASE PublishQuarantine
      BY <2>1, <2>4, <3>2 DEF PublishQuarantine, IntentInv, Answering
    <3> QED
      BY <1>5, <3>1, <3>2
  <2>6. \A p : Working(p) /\ p # i.path => Working(p)'
    BY <1>1, <2>1, <2>4, StageOne DEF Stages
  <2>7. AllOwned'
    <3>1. ASSUME NEW p \in Paths, file[p] # Missing, p = card.location \/ Working(p)
          PROVE  Owned(p)'
      <4>1. CASE p = i.path
        BY <2>1, <2>5, <3>1, <4>1 DEF Owned
      <4>2. CASE p # i.path
        BY <2>1, <2>6, <3>1, <4>2 DEF Owned
      <4> QED
        BY <4>1, <4>2
    <3> QED
      BY <2>1, <3>1, OwnedStay
  <2>8. BoundAreThere'
    BY <2>1 DEF BoundAreThere
  <2>9. Publishing'
    <3>1. holder'.seen.location # NoPath => card'.location = holder'.seen.location
      BY <2>1, <2>2 DEF Publishing, Stays
    <3> QED
      BY <2>2, <3>1, ElsewhereThanWriting DEF Writing
  <2>10. Restoring'
    <3>1. CASE PublishVerdict
      <4>1. holder.task # "restore" /\ prune.registered = {}
        <5>1. holder.pc \notin {"recover", "quarantined", "committed", "archived"}
          BY <3>1, PcsDiffer DEF PublishVerdict, Verdicted
        <5> QED
          BY <5>1, NotRestoring
      <4>2. prune'.registered = prune.registered
        <5>1. prune \in Prunings
          BY <1>1 DEF Typed
        <5> QED
          BY <3>1, <5>1 DEF PublishVerdict, Prunings
      <4> QED
        BY <2>2, <4>1, <4>2, RestoresNothing DEF Stays
    <3>2. CASE PublishQuarantine
      <4>1. prune' = prune /\ file[i.path] = Missing
        BY <2>1, <2>4, <3>2 DEF PublishQuarantine, IntentInv, Answering
      <4>2. \A p \in Paths : file'[p] # Missing /\ Working(p) => Working(p)'
        BY <2>1, <2>6, <4>1
      <4> QED
        BY <2>1, <2>2, <4>1, <4>2 DEF Restoring, Stays
    <3> QED
      BY <1>5, <3>1, <3>2
  <2> QED
    BY <2>7, <2>8, <2>9, <2>10
<1>6. CASE Retire
  <2>0. PICK i \in {holder.intent} : TRUE
    OBVIOUS
  <2>1. /\ UNCHANGED <<card, immutable, receipts, unwitnessed, file, prune>> /\ At("committed")
        /\ i = holder.intent
    BY <1>6, <2>0 DEF Retire, catalog
  <2>2. i \in DOMAIN intents /\ i \in Intents /\ intents[i] \in {"receipted", "queued"}
    BY <1>1, <2>1 DEF IntentInv, Answering, At
  <2>3. /\ Stays /\ holder'.pc \in {"committed", "archived"}
        /\ \A p : Working(p) => Working(p)'
    <3>1. CASE intents[i] = "receipted"
      <4>1. holder' = holder /\ intents' = [intents EXCEPT ![i] = "queued"]
        BY <1>6, <2>1, <3>1 DEF Retire
      <4>2. \A p : Working(p) => Working(p)'
        <5>1. ASSUME NEW p, Working(p)
              PROVE  Working(p)'
          <6>1. PICK k \in DOMAIN intents : k.path = p /\ intents[k] \in {"open", "moved"}
            BY <5>1 DEF Working
          <6>2. k # i /\ DOMAIN intents' = DOMAIN intents
            BY <2>2, <4>1, <6>1
          <6>3. intents'[k] = intents[k]
            BY <4>1, <6>1, <6>2
          <6> QED
            BY <6>1, <6>2, <6>3 DEF Working
        <5> QED
          BY <5>1
      <4> QED
        BY <2>1, <4>1, <4>2 DEF Stays, At
    <3>2. CASE intents[i] # "receipted"
      <4>1. Goto("archived") /\ intents' = Restrict(intents, DOMAIN intents \ {i})
        BY <1>6, <2>1, <3>2 DEF Retire
      <4>2. Stays /\ holder'.pc = "archived"
        BY <1>1, <4>1, HolderGoes DEF Pcs
      <4>3. \A p : Working(p) => Working(p)'
        BY <2>2, <4>1, RetireOne
      <4> QED
        BY <4>2, <4>3
    <3> QED
      BY <3>1, <3>2
  <2>4. AllOwned' /\ BoundAreThere'
    BY <2>1, <2>3, OwnedLikeBefore DEF BoundAreThere
  <2>5. Publishing'
    <3>1. holder'.seen.location # NoPath => card'.location = holder'.seen.location
      BY <2>1, <2>3 DEF Publishing, Stays
    <3> QED
      BY <2>3, <3>1, ElsewhereThanWriting DEF Writing
  <2>6. Restoring'
    BY <2>1, <2>3, RestoresOn DEF Stays
  <2> QED
    BY <2>4, <2>5, <2>6
<1>7. CASE RegisterCleanup
  <2>1. /\ UNCHANGED <<card, immutable, receipts, unwitnessed, file, holder>>
        /\ At("recover") /\ holder.task = "restore"
    BY <1>7 DEF RegisterCleanup, catalog
  <2>2. PICK c \in prune.created \ prune.registered :
            /\ \E i \in Fresh("compensation_cleanup", c[1], c[2]) : Open(i)
            /\ prune' = [prune EXCEPT !.registered = @ \cup {c}]
    BY <1>7 DEF RegisterCleanup
  <2>3. PICK i \in Fresh("compensation_cleanup", c[1], c[2]) : Open(i)
    BY <2>2
  <2>4. i.path = c[1] /\ i \notin DOMAIN intents
    BY <2>3 DEF Fresh
  <2>5. Working(i.path)' /\ \A p : Working(p) => Working(p)'
    BY <2>3, <2>4, OpenOne
  <2>6. prune'.registered = prune.registered \cup {c}
    BY <1>1, <2>2 DEF Typed, Prunings
  <2>7. AllOwned' /\ BoundAreThere'
    BY <2>1, <2>5, OwnedLikeBefore DEF BoundAreThere
  <2>8. Publishing'
    <3>1. holder'.pc \notin Writing
      BY <2>1 DEF At, Writing
    <3> QED
      BY <2>1, <3>1, ElsewhereThanWriting DEF Publishing
  <2>9. Restoring'
    <3>1. ASSUME NEW d \in prune'.registered, d[1] \in Paths, file'[d[1]] # Missing
          PROVE  Working(d[1])'
      BY <2>1, <2>4, <2>5, <2>6, <3>1 DEF Restoring
    <3> QED
      BY <2>1, <3>1 DEF Restoring
  <2> QED
    BY <2>7, <2>8, <2>9
<1>8. CASE RestoreRows
  <2>1. /\ UNCHANGED <<immutable, intents, receipts, file>> /\ Free /\ prune' = NoPrune
        /\ holder.task = "restore" /\ prune.registered = prune.created
    BY <1>8 DEF RestoreRows, disk
  <2>2. Blank /\ holder'.task = "none" /\ holder'.pc = "idle"
    BY <2>1, IdleIsBlank
  <2>3. \A p : Working(p)' <=> Working(p)
    BY <2>1, WorkingKept
  <2>4. AllOwned'
    <3>1. CASE card' = card /\ unwitnessed' = unwitnessed
      BY <2>1, <2>3, <3>1, OwnedLikeBefore
    <3>2. CASE ~(card' = card /\ unwitnessed' = unwitnessed)
      <4>1. /\ card = prune.after /\ card' = prune.before
            /\ unwitnessed' = unwitnessed \cup {p \in {card.location} : prune.created = {}}
        BY <1>8, <3>2 DEF RestoreRows
      <4>2. prune.step = "checked" /\ Same
        BY <1>1, <2>1, <4>1 DEF Typed, Pruned, Same, On
      <4>3. ASSUME NEW p \in Paths, file'[p] # Missing, p = card.location \/ Working(p)
            PROVE  Owned(p)'
        <5>1. CASE Working(p)
          BY <2>3, <5>1 DEF Owned
        <5>2. CASE p = card.location /\ p = Was
          BY <4>1, <5>2 DEF Owned, Was
        <5>3. CASE p = card.location /\ prune.created = {}
          BY <4>1, <5>3 DEF Owned
        <5>4. CASE p = card.location /\ p # Was /\ prune.created # {}
          <6>1. p \in Places
            BY <4>1, <4>2, <5>4 DEF PruneInv, Created
          <6>2. PICK c \in prune.created : c[1] = p
            BY <6>1 DEF Places
          <6>3. Working(p)
            BY <2>1, <4>3, <6>2 DEF Restoring
          <6> QED
            BY <2>3, <6>3 DEF Owned
        <5> QED
          BY <4>3, <5>1, <5>2, <5>3, <5>4
      <4> QED
        BY <2>1, <4>1, <4>3, OwnedStay
    <3> QED
      BY <3>1, <3>2
  <2>5. BoundAreThere'
    BY <2>1 DEF BoundAreThere
  <2>6. Publishing'
    BY <2>2, ElsewhereThanWriting DEF Blank, Writing
  <2>7. Restoring'
    BY <2>1, <2>2, RestoresNothing DEF NoPrune
  <2> QED
    BY <2>4, <2>5, <2>6, <2>7
<1> QED
  BY <1>2, <1>3, <1>4, <1>5, <1>6, <1>7, <1>8 DEF Reconciler

-----------------------------------------------------------------------------
(* The pruning.                                                             *)

LEMMA DatedOn ==
    ASSUME Typed, Typed', Dated, latest <= latest',
           card'.state \in {card.state, latest', prune.before.state},
           holder'.seen.state \in {holder.seen.state, card.state, Missing},
           \A p \in Paths : file'[p] \in {file[p], holder.seen.state, Missing},
           prune'.before.state \in {prune.before.state, card.state, Missing},
           prune'.after.state \in {prune.after.state, latest', Missing}
    PROVE  Dated'
<1>1. /\ latest \in Nat /\ latest' \in Nat /\ card.state \in Nat
      /\ prune.before.state \in Nat /\ prune.after.state \in Nat /\ holder.seen.state \in Nat
      /\ \A p \in Paths : file[p] \in Nat
  BY SidecarBounds DEF Typed, TypeOK, Cards, Seen, States, Missing
<1>2. card'.state <= latest' /\ holder'.seen.state <= latest'
  BY <1>1 DEF Dated, Missing
<1>3. \A p \in Paths : file'[p] <= latest'
  BY <1>1 DEF Dated, Missing
<1>4. prune'.before.state <= latest' /\ prune'.after.state <= latest'
  BY <1>1 DEF Dated, Missing
<1> QED
  BY <1>2, <1>3, <1>4 DEF Dated

\* There is no pruning to say anything of.
LEMMA NoneOn ==
    ASSUME Dated', ~On'
    PROVE  PruneInv'
  BY DEF PruneInv, Placed, Shown, Chosen, Created, Same

PruningStays == /\ prune'.step = prune.step /\ prune'.before = prune.before
                /\ prune'.after = prune.after /\ prune'.created = prune.created
FilesStay == UNCHANGED <<card, latest, immutable, file>>

\* A step that neither files nor pruning see: the holder goes on to something else
\* than a publication, or lets go.
LEMMA HolderGoesOn ==
    ASSUME Typed, Typed', PruneInv, PruningStays, FilesStay,
           \/ Stays /\ (holder'.pc = holder.pc \/ holder'.pc \notin Writing)
           \/ holder'.seen.state = Missing /\ (holder'.task = "check" \/ holder.task # "check")
    PROVE  PruneInv'
<1> USE DEF PruneInv
<1>1. Dated'
  BY DatedOn DEF PruningStays, FilesStay, Stays, Typed, TypeOK, States
<1>2. (On' <=> On) /\ (Same' <=> Same) /\ Was' = Was
  BY DEF On, Same, Was, PruningStays, FilesStay
<1>3. On => prune.after.state # Missing
  BY PathsDiffer DEF Typed, Pruned, On, Cards
<1>4. Placed'
  BY <1>2, <1>3 DEF Placed, PruningStays, FilesStay, Stays, Holding
<1>5. Unmoved' <=> Unmoved
  BY <1>2 DEF Unmoved, PruningStays, FilesStay
<1>6. Moved => Moved'
  BY DEF Moved, Shows, FilesStay, Stays, Holding, At, Writing
<1>7. Shown'
  BY <1>2, <1>5, <1>6 DEF Shown, FilesStay
<1>8. Dest' = Dest /\ Places' = Places
  BY <1>2 DEF Dest, Places, PruningStays, FilesStay
<1>9. Chosen'
  BY <1>2, <1>3, <1>8 DEF Chosen, FilesStay, Stays, Same
<1>10. Created'
  BY <1>2, <1>8 DEF Created, PruningStays, FilesStay, Stays
<1> QED
  BY <1>1, <1>4, <1>7, <1>9, <1>10

\* Another state of the Card, or another pruning, is none of the pruning's.
LEMMA WritersPruning ==
    ASSUME IInv, IntentInv, FileInv, PruneInv, Update \/ Register \/ RecordsLate \/ Prune \/ Accept
    PROVE  PruneInv'
<1> USE DEF PruneInv
<1>0. Typed /\ Typed' /\ latest \in Nat /\ (card.state \in States /\ States \subseteq Nat)
  BY WritersTyped, SidecarBounds DEF IInv, Typed, TypeOK, States, Cards
<1>1. CASE Update
  <2>1. /\ UNCHANGED <<immutable, file, holder, prune>> /\ latest' = latest + 1
        /\ card'.state = latest' /\ (card.location # NoPath => card'.location = card.location)
    BY <1>1 DEF Update, disk, IInv, Typed, TypeOK, Cards
  <2>2. Dated'
    <3>1. latest <= latest'
      BY <1>0, <2>1
    <3> QED
      BY <1>0, <2>1, <3>1, DatedOn
  <2>3. ~Same'
    BY <1>0, <2>1 DEF Same, Dated
  <2>4. Placed'
    <3>1. On' => On /\ prune.after.state <= latest
      BY <2>1 DEF On, Dated
    <3>2. prune.after.state \in Nat
      BY SidecarBounds DEF IInv, Typed, TypeOK, Seen, States, Missing
    <3>3. card'.state # prune'.after.state
      BY <1>0, <2>1, <3>2 DEF Dated
    <3> QED
      BY <2>1, <3>1, <3>3 DEF Placed, Holding, Was
  <2> QED
    BY <2>2, <2>3, <2>4 DEF Shown, Chosen, Created
<1>2. CASE RecordsLate
  <2>1. UNCHANGED <<card, latest, immutable, file, holder, prune>>
    BY <1>2 DEF RecordsLate, disk
  <2> QED
    BY <1>0, <2>1, HolderGoesOn DEF PruningStays, FilesStay, Stays
<1>3. CASE Register
  <2>1. /\ UNCHANGED <<card, latest, file, holder, prune>> /\ ~fence
        /\ immutable' = immutable \cup {card.location}
    BY <1>3 DEF Register, disk, Unwritten
  <2>2. Dated'
    BY <1>0, <2>1, DatedOn
  <2>3. (On' <=> On) /\ (Same' <=> Same) /\ Was' = Was
    BY <2>1 DEF On, Same, Was
  <2>4. Placed'
    BY <2>1, <2>3 DEF Placed, Holding
  <2>5. Shown'
    <3>1. card.location = Was /\ Unmoved => Unmoved'
      BY <2>1, <2>3 DEF Unmoved
    <3>2. Moved => Moved'
      BY <2>1 DEF Moved, Shows, Holding, At
    <3> QED
      BY <2>1, <2>3, <3>1, <3>2 DEF Shown
  <2>6. holder.pc \notin Writing
    BY <2>1 DEF IInv, Locked, Writing
  <2>7. Chosen'
    BY <2>1, <2>6 DEF Chosen
  <2>8. card.location = Was => Dest' = Dest
    BY <2>1, <2>3 DEF Dest
  <2>9. Created'
    BY <2>1, <2>3, <2>8 DEF Created, Places
  <2> QED
    BY <2>2, <2>4, <2>5, <2>7, <2>9
<1>4. CASE Prune
  <2>1. /\ UNCHANGED <<immutable, file, holder>> /\ Mirrored /\ latest' = latest + 1
        /\ card' = [card EXCEPT !.state = latest + 1]
        /\ prune' = [NoPrune EXCEPT !.step = "committed", !.before = card, !.after = card',
                        !.row = outbox']
    BY <1>4 DEF Prune, Clean, disk
  <2>2. /\ prune'.before = card /\ prune'.after = card' /\ prune'.created = {}
    <3>1. NoPrune.created = {}
      BY DEF NoPrune
    <3> QED
      BY <2>1, <3>1, NothingTyped DEF Prunings
  <2>3. card'.state = latest' /\ card'.location = card.location
    BY <2>1 DEF IInv, Typed, TypeOK, Cards
  <2>4. Dated'
    <3>1. latest <= latest'
      BY <1>0, <2>1
    <3>2. prune'.before.state = card.state /\ prune'.after.state = latest'
      BY <2>2, <2>3
    <3> QED
      BY <1>0, <2>1, <2>3, <3>1, <3>2, DatedOn
  <2>5. \A p \in Paths : file[p] # latest'
    <3>1. \A p \in Paths : file[p] \in Nat
      BY SidecarBounds DEF IInv, Typed, TypeOK, States, Missing
    <3> QED
      BY <1>0, <2>1, <3>1 DEF Dated
  <2>6. card.location # NoPath /\ file[card.location] # Missing
    BY <1>0, <2>1, PathsDiffer DEF Mirrored, Shows
  <2>7. holder.seen.state # latest'
    <3>1. holder.seen.state \in Nat
      BY SidecarBounds DEF IInv, Typed, TypeOK, States, Missing, Seen
    <3> QED
      BY <1>0, <2>1, <3>1 DEF Dated
  <2>8. holder.task # "prune"
    BY <1>0, <1>4 DEF Prune, Typed, Pruned
  <2>9. Placed'
    BY <2>1, <2>2, <2>3, <2>6, <2>7, <2>8 DEF Placed, Was
  <2>10. Shown'
    BY <2>1, <2>2, <2>3, <2>5, PathsDiffer DEF Shown, Unmoved, Was
  <2>11. Chosen'
    BY <2>1, <2>3, <2>7 DEF Chosen
  <2>12. Created'
    BY <2>2 DEF Created
  <2> QED
    BY <2>4, <2>9, <2>10, <2>11, <2>12
<1>5. CASE Accept
  <2>1. UNCHANGED <<card, latest, immutable, file, holder>> /\ prune' = NoPrune
    BY <1>5 DEF Accept, catalog, disk
  <2>2. Dated'
    BY <1>0, <2>1, DatedOn DEF NoPrune
  <2> QED
    BY <2>1, <2>2, NoneOn DEF On, NoPrune
<1> QED
  BY <1>1, <1>2, <1>3, <1>4, <1>5

\* Where a holder that has seen the Card of a pruning goes: it stays, or goes where
\* the pruning goes, and creates only there.
LEMMA TargetOfPruning ==
    ASSUME IInv, IntentInv, FileInv, PruneInv, Holding, Same, card.location = Was,
           holder.seen.state = card.state
    PROVE  /\ Target(immutable)[1] \in {Was, Dest}
           /\ Target(immutable)[2] => Target(immutable)[1] # Was
<1> USE DEF PruneInv
<1> DEFINE s == holder.seen.state
           c == Target(immutable)
<1>1. /\ s \in States /\ s = prune.after.state /\ Was \in Paths
      /\ file \in [Paths -> States \cup {Missing}]
  BY PathsDiffer DEF IInv, Typed, TypeOK, Seen, Holding, Same, Placed, Cards
<1>2. Current = Was /\ file[Was] # Missing
  BY DEF Same, Placed, FileInv, Publishing, Current
<1>3. Versioned(s)[1] = Generation(s) /\ Versioned(s)[2] = (file[Generation(s)] = Missing)
  BY DEF Versioned
<1>4. CASE Shows(Was, s)
  BY <1>2, <1>4 DEF Target
<1>5. CASE ~Shows(Was, s) /\ Was \in Generations
  <2>1. c[1] = Generation(s) /\ c[2] = (file[Generation(s)] = Missing)
    BY <1>2, <1>3, <1>5 DEF Target
  <2>2. Dest = Generation(s)
    BY <1>1, <1>5 DEF Dest
  <2>3. c[2] => c[1] # Was
    BY <1>2, <2>1
  <2> QED
    BY <2>1, <2>2, <2>3
<1>6. CASE ~Shows(Was, s) /\ Was \notin Generations \cup immutable
  <2>1. c[1] = Was /\ c[2] = (file[Was] = Missing)
    BY <1>2, <1>6 DEF Target
  <2> QED
    BY <1>2, <2>1
<1>7. CASE ~Shows(Was, s) /\ Was \in immutable \ Generations
  <2>1. CASE Shows(Live, s)
    <3>1. c[1] = Live /\ c[2] = FALSE
      BY <1>2, <1>7, <2>1 DEF Target
    <3>2. Was # Live
      BY <1>7, <2>1
    <3>3. Live \notin immutable
      BY <2>1, <3>2 DEF Shown, Unmoved, Shows
    <3>4. Dest = Live
      BY <1>7, <3>2, <3>3 DEF Dest
    <3> QED
      BY <3>1, <3>4
  <2>2. CASE ~Shows(Live, s) /\ (Was = Live \/ Live \in immutable)
    <3>1. c[1] = Generation(s)
      BY <1>2, <1>3, <1>7, <2>2 DEF Target
    <3>2. Dest = Generation(s) /\ Generation(s) # Was
      BY <1>1, <1>7, <2>2, PathsDiffer DEF Dest
    <3> QED
      BY <3>1, <3>2
  <2>3. CASE ~Shows(Live, s) /\ Was # Live /\ Live \notin immutable
    <3>1. c[1] = Live
      BY <1>2, <1>7, <2>3 DEF Target
    <3>2. Dest = Live
      BY <1>7, <2>3 DEF Dest
    <3> QED
      BY <2>3, <3>1, <3>2
  <2> QED
    BY <2>1, <2>2, <2>3
<1> QED
  BY <1>1, <1>4, <1>5, <1>6, <1>7

\* A publication moves the Card of a pruning once, and tells the pruning what it created.
LEMMA PublisherPruning ==
    ASSUME IInv, IntentInv, FileInv, PruneInv, Publisher \/ TakeToSync \/ TakeToReconcile \/ TakeToRestore
    PROVE  PruneInv'
<1> USE DEF PruneInv
<1>0. IInv'
  BY PublisherStep
<1>1. /\ Typed /\ Typed' /\ Locked /\ latest \in Nat /\ card \in Cards /\ holder \in Holders
      /\ file \in [Paths -> States \cup {Missing}] /\ prune \in Prunings
  BY <1>0, SidecarBounds DEF IInv, Typed, TypeOK, States
<1>2. CASE TakeToSync \/ TakeToReconcile \/ TakeToRestore
  <2>1. PICK task \in Tasks : Take(task)
    BY <1>2 DEF TakeToSync, TakeToReconcile, TakeToRestore, Tasks
  <2>2. UNCHANGED <<card, latest, immutable, file, prune>> /\ At("idle")
    BY <1>2 DEF TakeToSync, TakeToReconcile, TakeToRestore, disk, catalog
  <2>3. holder'.seen.state = Missing
    BY <2>1, TakenIsBlank DEF Blank
  <2>4. holder.task = "none"
    BY <2>2 DEF IntentInv, Tasked
  <2> QED
    BY <1>1, <2>2, <2>3, <2>4, HolderGoesOn DEF PruningStays, FilesStay
<1>3. CASE RecoverFence \/ PrepareTransition
  <2>1. UNCHANGED <<card, latest, immutable, file, prune>>
    BY <1>3 DEF RecoverFence, PrepareTransition, disk, catalog
  <2>2. Stays /\ (holder'.pc = holder.pc \/ holder'.pc \notin Writing)
    <3>1. CASE RecoverFence
      BY <3>1 DEF RecoverFence, Stays
    <3>2. CASE PrepareTransition
      BY <1>1, <3>2, PreparationEffects DEF Writing
    <3> QED
      BY <1>3, <3>1, <3>2
  <2> QED
    BY <1>1, <2>1, <2>2, HolderGoesOn DEF PruningStays, FilesStay
<1>4. CASE Observe
  <2>1. UNCHANGED <<card, latest, immutable, file, prune>> /\ At("recover")
    BY <1>4 DEF Observe, disk, catalog
  <2>2. /\ holder'.pc = "select" /\ holder'.seen = card /\ holder'.wrote = holder.wrote
        /\ holder'.task = holder.task
    BY <1>1, <1>4, PublisherEffects
  <2>3. Dated'
    BY <1>1, <2>1, <2>2, DatedOn
  <2>4. (On' <=> On) /\ (Same' <=> Same) /\ Was' = Was /\ Dest' = Dest /\ Places' = Places
    BY <2>1 DEF On, Same, Was, Dest, Places
  <2>5. Placed'
    BY <2>1, <2>2, <2>4 DEF Placed
  <2>6. Shown'
    <3>1. Unmoved => Unmoved'
      BY <2>1, <2>4 DEF Unmoved
    <3>2. ~holder.wrote
      BY <2>1 DEF IntentInv, Tasked, At
    <3>3. Moved => Moved'
      BY <2>1, <2>2, <3>2 DEF Moved, Shows, At
    <3> QED
      BY <2>1, <2>4, <3>1, <3>3 DEF Shown
  <2>7. Chosen'
    BY <2>2 DEF Chosen, Writing
  <2>8. Created'
    BY <2>1, <2>2, <2>4 DEF Created
  <2> QED
    BY <2>3, <2>5, <2>6, <2>7, <2>8
<1>5. CASE Reserve
  <2> DEFINE c == Target(immutable)
  <2>1. UNCHANGED <<card, latest, immutable, file, prune>> /\ At("select")
    BY <1>5 DEF Reserve, disk, catalog
  <2>2. /\ holder'.seen = holder.seen /\ holder'.wrote = holder.wrote /\ holder'.task = holder.task
        /\ holder'.target = c[1] /\ holder'.create = c[2]
        /\ holder'.pc = IF Shows(c[1], holder.seen.state) THEN "final"
                        ELSE IF c[2] THEN "intent" ELSE "write"
    BY <1>1, <1>5, PublisherEffects
  <2>3. Holding
    BY <1>1, <2>1 DEF Locked, Reading, At
  <2>4. /\ Same /\ card.location = Was /\ holder.seen.state = card.state =>
               /\ c[1] \in {Was, Dest}
               /\ c[2] => c[1] # Was
    BY <2>3, TargetOfPruning
  <2>5. Shows(Current, holder.seen.state) => c = <<Current, FALSE>>
    BY DEF Target
  <2> HIDE DEF c
  <2>7. Dated'
    BY <1>1, <2>1, <2>2, DatedOn
  <2>8. (On' <=> On) /\ (Same' <=> Same) /\ Was' = Was /\ Dest' = Dest /\ Places' = Places
    BY <2>1 DEF On, Same, Was, Dest, Places
  <2>9. Placed'
    BY <2>1, <2>2, <2>8 DEF Placed, Holding
  <2>10. Shown'
    <3>1. Unmoved => Unmoved'
      BY <2>1, <2>8 DEF Unmoved
    <3>2. ASSUME Same, Moved
          PROVE  Moved'
      <4>1. holder.seen.state = card.state /\ Shows(card.location, card.state) /\ ~holder.wrote
        BY <2>3, <3>2 DEF Moved
      <4>2. Current = card.location
        BY <3>2, <4>1 DEF Same, Placed, FileInv, Publishing, Current
      <4>3. c = <<card.location, FALSE>>
        BY <2>5, <4>1, <4>2
      <4>4. holder'.pc = "final" /\ holder'.target = card.location
        BY <2>2, <4>1, <4>3 DEF Shows
      <4> QED
        BY <2>1, <2>2, <4>1, <4>4 DEF Moved, Shows, At
    <3> QED
      BY <2>1, <2>8, <3>1, <3>2 DEF Shown
  <2>11. Chosen'
    BY <2>1, <2>2, <2>4, <2>8 DEF Chosen
  <2>12. Created'
    BY <2>1, <2>2, <2>8 DEF Created
  <2> QED
    BY <2>7, <2>9, <2>10, <2>11, <2>12
<1>6. CASE WriteIntent
  <2>1. UNCHANGED <<card, latest, immutable, file, prune>> /\ At("intent")
    BY <1>6 DEF WriteIntent, catalog
  <2>2. Stays /\ holder'.pc = "write"
    BY <1>1, <1>6, PublisherEffects
  <2>3. Dated'
    BY <1>1, <2>1, <2>2, DatedOn DEF Stays
  <2>4. (On' <=> On) /\ (Same' <=> Same) /\ Was' = Was /\ Dest' = Dest /\ Places' = Places
    BY <2>1 DEF On, Same, Was, Dest, Places
  <2>5. Placed'
    BY <2>1, <2>2, <2>4 DEF Placed, Holding, Stays
  <2>6. Holding
    BY <1>1, <2>1 DEF Locked, Reading, At
  <2>7. ~Moved
    BY <2>1, <2>6 DEF Moved, At
  <2>8. Shown'
    <3>1. Unmoved => Unmoved'
      BY <2>1, <2>4 DEF Unmoved
    <3> QED
      BY <2>1, <2>4, <2>7, <3>1 DEF Shown
  <2>9. Chosen'
    BY <2>1, <2>2, <2>4 DEF Chosen, Stays, Writing, At
  <2>10. Created'
    BY <2>1, <2>2, <2>4 DEF Created, Stays
  <2> QED
    BY <2>3, <2>5, <2>8, <2>9, <2>10
<1>7. CASE WriteFile
  <2>1. /\ UNCHANGED <<card, latest, immutable, prune>> /\ At("write")
        /\ file' = [file EXCEPT ![holder.target] = holder.seen.state]
    BY <1>7 DEF WriteFile, catalog
  <2>2. /\ holder'.seen = holder.seen /\ holder'.target = holder.target
        /\ holder'.create = holder.create /\ holder'.task = holder.task /\ holder'.pc = "final"
    BY <1>1, <1>7, PublisherEffects
  <2>3. Holding /\ holder.target \in Paths
    BY <1>1, <2>1 DEF Locked, Reading, At
  <2>4. /\ file'[holder.target] = holder.seen.state
        /\ \A p \in Paths : p # holder.target => file'[p] = file[p]
    BY <1>1, <2>1, <2>3
  <2>5. Dated'
    <3>1. \A p \in Paths : file'[p] \in {file[p], holder.seen.state, Missing}
      BY <2>4
    <3> QED
      BY <1>1, <2>1, <2>2, <3>1, DatedOn
  <2>6. (On' <=> On) /\ (Same' <=> Same) /\ Was' = Was /\ Dest' = Dest /\ Places' = Places
    BY <2>1 DEF On, Same, Was, Dest, Places
  <2>7. Placed'
    <3>1. On => file'[card.location] # Missing
      BY <1>1, <2>3, <2>4 DEF Placed, Cards, Holding
    <3> QED
      BY <2>1, <2>2, <2>6, <3>1 DEF Placed, Holding
  <2>8. ~Moved
    BY <2>1, <2>3 DEF Moved, At
  <2>9. Live \in immutable => holder.target # Live
    BY <2>1 DEF IInv, Targeted, At, FileInv, BoundAreThere
  <2>10. Shown'
    <3>1. Unmoved => Unmoved'
      BY <2>1, <2>4, <2>6, <2>9, PathsDiffer DEF Unmoved
    <3> QED
      BY <2>1, <2>6, <2>8, <3>1 DEF Shown
  <2>11. Chosen'
    BY <2>1, <2>2, <2>6 DEF Chosen, Writing, At
  <2>12. Created'
    BY <2>1, <2>2, <2>6 DEF Created
  <2> QED
    BY <2>5, <2>7, <2>10, <2>11, <2>12
<1>8. CASE Acknowledge
  <2>1. /\ UNCHANGED <<latest, immutable, file>> /\ At("final") /\ Free
        /\ Witness(card'.location, outbox')
    BY <1>8 DEF Acknowledge, disk
  <2>2. /\ holder'.seen.state = Missing /\ holder'.task = "none" /\ holder'.pc = "idle"
    BY <2>1, IdleIsBlank DEF Blank
  <2>3. Holding /\ holder.target \in Paths /\ holder.task \in {"sync", "prune"}
    BY <1>1, <2>1 DEF Locked, Reading, At, IntentInv, Tasked
  <2>4. /\ card'.state = card.state
        /\ \/ card'.location = card.location
           \/ card = holder.seen /\ card'.location = holder.target
    BY <1>1, <1>8 DEF Acknowledge, Cards, StillSeen
  <2>5. /\ prune'.before = prune.before /\ prune'.after.state = prune.after.state
        /\ holder.task # "prune" => prune' = prune
        /\ holder.task = "prune" =>
              /\ prune'.step = "synced" /\ prune'.after.location = card'.location
              /\ prune'.created = IF holder.wrote /\ holder.create
                                  THEN {<<holder.target, holder.seen.state>>} ELSE {}
    BY <1>1, <2>1, WitnessEffects
  <2>6. (On' <=> On) /\ Was' = Was /\ Dest' = Dest /\ (Same' <=> Same)
    BY <1>1, <2>1, <2>4, <2>5 DEF On, Was, Dest, Same, Typed, Pruned
  <2>7. On => prune.after.state # Missing
    BY <1>1, PathsDiffer DEF Typed, Pruned, On, Cards
  <2>8. file[holder.target] = holder.seen.state
    BY <2>1 DEF IInv, Targeted, Shows
  <2>9. Dated'
    BY <1>1, <2>1, <2>2, <2>4, <2>5, DatedOn
  <2>10. Placed'
    <3>1. On => card'.location # NoPath /\ file[card'.location] # Missing
      BY <2>3, <2>4, <2>8, PathsDiffer DEF Placed, Holding
    <3> QED
      BY <2>1, <2>2, <2>5, <2>6, <2>7, <3>1 DEF Placed, Holding
  <2>11. Same /\ card.location # Was => Moved /\ card'.location = card.location /\ ~holder.wrote
    BY <2>1, <2>3, <2>4 DEF Shown, Moved
  <2>12. Same /\ card'.location # card.location =>
             /\ card.location = Was /\ card'.location = Dest /\ card'.location = holder.target
    <3>1. holder.pc \in Writing
      BY <2>1 DEF At, Writing
    <3> QED
      BY <2>4, <2>11, <3>1 DEF Chosen
  <2>13. Shown'
    <3>1. ASSUME Same, card'.location = Was
          PROVE  Unmoved'
      <4>1. card.location = Was /\ Unmoved
        BY <2>11, <3>1 DEF Shown
      <4>2. prune'.after.location = Was
        BY <2>5, <3>1, <4>1 DEF Unmoved
      <4> QED
        BY <2>1, <2>4, <2>6, <4>1, <4>2 DEF Unmoved
    <3>2. ASSUME Same, card'.location # Was
          PROVE  Moved'
      <4>1. Shows(card'.location, card.state)
        <5>1. CASE card'.location = card.location
          BY <2>11, <3>2, <5>1 DEF Moved
        <5>2. CASE card'.location # card.location
          BY <2>4, <2>8, <5>2 DEF Shows
        <5> QED
          BY <5>1, <5>2
      <4> QED
        BY <2>1, <2>2, <2>4, <4>1 DEF Moved, Shows, Holding
    <3> QED
      BY <2>6, <3>1, <3>2 DEF Shown
  <2>14. Chosen'
    BY <2>2 DEF Chosen, Writing
  <2>15. Created'
    <3> SUFFICES ASSUME Same, prune'.created # {}
                 PROVE  /\ prune'.step # "committed"
                        /\ card'.location = Was /\ prune'.step = "synced" => Dest \in Places'
                        /\ card'.location # Was
                           /\ (prune'.step = "checked" => card'.location = prune'.after.location) =>
                              card'.location \in Places'
      BY <2>2, <2>6 DEF Created
    <3>1. CASE holder.task = "prune"
      <4>1. /\ holder.wrote /\ holder.create /\ prune'.created = {<<holder.target, holder.seen.state>>}
            /\ prune'.step = "synced"
        BY <2>5, <3>1
      <4>2. Places' = {holder.target}
        BY <4>1 DEF Places
      <4>3. card.location = Was /\ holder.seen.state = card.state
        BY <2>3, <2>11, <3>1, <4>1 DEF Placed, Same
      <4>4. holder.target = Dest
        BY <2>1, <4>1, <4>3 DEF Chosen, At, Writing
      <4>5. card'.location # Was => card'.location = holder.target
        BY <2>4, <4>3
      <4> QED
        BY <4>1, <4>2, <4>4, <4>5
    <3>2. CASE holder.task # "prune"
      <4>1. prune' = prune /\ Places' = Places /\ holder.task = "sync"
        BY <2>3, <2>5, <3>2 DEF Places
      <4>2. prune.step # "committed"
        BY <4>1 DEF Created
      <4>3. CASE card'.location = card.location
        BY <4>1, <4>2, <4>3 DEF Created
      <4>4. CASE card'.location # card.location
        <5>1. card.location = Was /\ card'.location = Dest /\ card'.location # Was
          BY <2>12, <4>4
        <5>2. prune.step = "synced" => Dest \in Places
          BY <4>1, <5>1 DEF Created
        <5>3. prune.step = "checked" => card'.location # prune.after.location
          BY <5>1 DEF Shown, Unmoved
        <5>4. prune.step \in {"synced", "checked"}
          BY <1>1, <4>2 DEF Prunings, Same, On
        <5> QED
          BY <4>1, <4>2, <5>1, <5>2, <5>3, <5>4
      <4> QED
        BY <4>3, <4>4
    <3> QED
      BY <3>1, <3>2
  <2> QED
    BY <2>9, <2>10, <2>13, <2>14, <2>15
<1> QED
  BY <1>2, <1>3, <1>4, <1>5, <1>6, <1>7, <1>8 DEF Publisher

\* A reconciler tells the pruning which places it adopted, and an error which one the
\* synchronisation created.
LEMMA ReconcilerPruning ==
    ASSUME IInv, IntentInv, FileInv, PruneInv,
           Reconciler \/ Fails \/ RegisterCleanup \/ RestoreRows \/ Stop
    PROVE  PruneInv'
<1> USE DEF PruneInv
<1>0. IInv'
  BY ReconcilerStep
<1>1. /\ Typed /\ Typed' /\ Locked /\ latest \in Nat /\ card \in Cards /\ holder \in Holders
      /\ file \in [Paths -> States \cup {Missing}] /\ prune \in Prunings
  BY <1>0, SidecarBounds DEF IInv, Typed, TypeOK, States
<1>2. CASE Inventory \/ FinishAnswered \/ Decide \/ Resume \/ Return \/ PublishQuarantine \/ Retire
  <2>1. UNCHANGED <<card, latest, immutable, file, prune>>
    BY <1>2 DEF Inventory, FinishAnswered, Decide, Resume, Return, PublishQuarantine, Retire,
                disk, catalog
  <2>2. Stays /\ (holder'.pc = holder.pc \/ holder'.pc \notin Writing)
    <3>1. CASE Inventory \/ Return
      <4>1. Stays /\ holder'.pc \in {"pass", "select", "recover"}
        BY <1>1, <3>1, ReconcilerEffects
      <4> QED
        BY <4>1 DEF Writing
    <3>2. CASE Resume
      <4>1. Stays /\ holder'.pc \in {"archived", "quarantined", "committed"}
        BY <1>1, <3>2, ReconcilerEffects DEF WhereToResume
      <4> QED
        BY <4>1 DEF Writing
    <3>3. CASE FinishAnswered \/ Decide
      <4>1. PICK i \in holder.todo, v \in Verdicts : HandOn(i, v)
        <5>1. holder.todo \subseteq Intents /\ "committed" \in Verdicts
          BY <1>1 DEF Holders, Verdicts
        <5> QED
          BY <3>3, <5>1, VerdictIsKnown DEF FinishAnswered, Decide
      <4>2. Stays /\ holder'.pc \in Verdicts \cup {"pass"}
        BY <1>1, <4>1, ReconcilerEffects
      <4> QED
        BY <4>2 DEF Writing, Verdicts, Terminal
    <3>4. CASE PublishQuarantine
      <4>1. Stays /\ holder'.pc = "committed"
        BY <1>1, <3>4, ReconcilerEffects DEF PublishQuarantine
      <4> QED
        BY <4>1 DEF Writing
    <3>5. CASE Retire
      <4>1. holder' = holder \/ Goto("archived")
        BY <3>5 DEF Retire
      <4>2. Goto("archived") => Stays /\ holder'.pc = "archived"
        BY <1>1, HolderGoes DEF Pcs
      <4> QED
        BY <4>1, <4>2 DEF Writing, Stays
    <3> QED
      BY <1>2, <3>1, <3>2, <3>3, <3>4, <3>5
  <2> QED
    BY <1>1, <2>1, <2>2, HolderGoesOn DEF PruningStays, FilesStay
<1>3. CASE EndPass
  <2>1. UNCHANGED <<card, latest, immutable, file>> /\ Free /\ At("pass")
    BY <1>3 DEF EndPass, disk
  <2>2. holder'.seen.state = Missing /\ holder'.task = "none" /\ holder'.pc = "idle"
    BY <2>1, IdleIsBlank DEF Blank
  <2>3. CASE holder.task # "check"
    <3>1. prune' = prune
      BY <1>3, <2>3 DEF EndPass
    <3> QED
      BY <1>1, <2>1, <2>2, <2>3, <3>1, HolderGoesOn DEF PruningStays, FilesStay
  <2>4. CASE holder.task = "check"
    <3>1. /\ prune'.step = "checked" /\ prune'.before = prune.before
          /\ prune'.after.state = prune.after.state /\ prune'.created = prune.created
          /\ prune'.after.location \in {prune.after.location, card.location}
      BY <1>1, <1>3, <2>4 DEF EndPass, Prunings, Seen
    <3>2. On /\ On' /\ prune.step = "synced" /\ (Same' <=> Same) /\ Was' = Was /\ Dest' = Dest
          /\ Places' = Places
      BY <1>1, <2>1, <2>4, <3>1 DEF Typed, Pruned, On, Same, Was, Dest, Places
    <3>3. prune.after.state # Missing
      BY <1>1, <3>2, PathsDiffer DEF Typed, Pruned, On, Cards
    <3>4. Dated'
      BY <1>1, <2>1, <2>2, <3>1, DatedOn
    <3>5. Placed'
      BY <2>1, <2>2, <3>1, <3>2, <3>3 DEF Placed
    <3>6. Shown'
      <4>1. card.location = Was /\ Unmoved => Unmoved'
        BY <2>1, <3>1, <3>2 DEF Unmoved
      <4>2. Moved => Moved'
        BY <2>1, <2>2 DEF Moved, Shows, Holding
      <4> QED
        BY <2>1, <3>2, <4>1, <4>2 DEF Shown
    <3>7. Chosen'
      BY <2>2 DEF Chosen, Writing
    <3>8. Created'
      BY <2>1, <3>1, <3>2 DEF Created
    <3> QED
      BY <3>4, <3>5, <3>6, <3>7, <3>8
  <2> QED
    BY <2>3, <2>4
<1>4. CASE Move
  <2>0. PICK q \in {holder.intent.path} : TRUE
    OBVIOUS
  <2>1. /\ UNCHANGED <<card, latest, immutable, prune, holder>> /\ At("quarantined")
        /\ file' = [file EXCEPT ![q] = Missing] /\ q = holder.intent.path
    BY <1>4, <2>0 DEF Move, catalog
  <2>2. q # card.location
    BY <1>1, <2>1 DEF Locked, IInv, Fenced, At
  <2>3. \A p \in Paths : file'[p] = file[p] \/ (p = q /\ file'[p] = Missing)
    BY <1>1, <2>1
  <2>4. (On' <=> On) /\ (Same' <=> Same) /\ Was' = Was /\ Dest' = Dest /\ Places' = Places
    BY <2>1 DEF On, Same, Was, Dest, Places
  <2>5. card.location # NoPath => file'[card.location] = file[card.location]
    BY <1>1, <2>2, <2>3 DEF Cards
  <2>6. Dated'
    BY <1>1, <2>1, <2>3, DatedOn
  <2>7. Placed'
    BY <2>1, <2>4, <2>5 DEF Placed, Holding
  <2>8. Shown'
    <3>1. card.state # Missing
      BY <1>1, PathsDiffer DEF Cards
    <3>2. Unmoved => Unmoved'
      BY <2>1, <2>3, <2>4, <3>1, PathsDiffer DEF Unmoved
    <3>3. Same /\ Moved => Moved'
      BY <2>1, <2>5 DEF Moved, Shows, Holding, At, Same, Placed
    <3> QED
      BY <2>1, <2>4, <3>2, <3>3 DEF Shown
  <2>9. Chosen'
    BY <2>1, <2>4 DEF Chosen
  <2>10. Created'
    BY <2>1, <2>4 DEF Created
  <2> QED
    BY <2>6, <2>7, <2>8, <2>9, <2>10
<1>5. CASE PublishVerdict
  <2>1. UNCHANGED <<card, latest, immutable, file>> /\ Receipt
    BY <1>5 DEF PublishVerdict, catalog
  <2>2. Stays /\ holder'.pc = "committed"
    BY <1>1, <2>1, ReconcilerEffects
  <2>3. CASE holder.task # "check" \/ ~At("adopted")
    <3>1. prune' = prune
      BY <1>5, <2>3 DEF PublishVerdict
    <3> QED
      BY <1>1, <2>1, <2>2, <3>1, HolderGoesOn DEF PruningStays, FilesStay, Writing
  <2>4. CASE holder.task = "check" /\ At("adopted")
    <3>1. /\ prune'.step = prune.step /\ prune'.before = prune.before /\ prune'.after = prune.after
          /\ prune'.created = prune.created \cup {<<holder.intent.path, holder.intent.state>>}
      BY <1>1, <1>5, <2>4 DEF PublishVerdict, Prunings
    <3>2. prune.step = "synced" /\ holder.intent.path = card.location /\ ~Holding
      BY <1>1, <2>4 DEF Typed, Pruned, IntentInv, Answering, Tasked
    <3>3. (On' <=> On) /\ (Same' <=> Same) /\ Was' = Was
      BY <2>1, <3>1 DEF On, Same, Was
    <3>4. card.location \in Places'
      BY <3>1, <3>2 DEF Places
    <3>5. Dated'
      BY <1>1, <2>1, <2>2, <3>1, DatedOn DEF Stays
    <3>6. Placed'
      BY <2>1, <2>2, <3>1, <3>2, <3>3 DEF Placed, Stays, Holding
    <3>7. Shown'
      <4>1. Unmoved => Unmoved'
        BY <2>1, <3>1, <3>3 DEF Unmoved
      <4>2. Moved => Moved'
        BY <2>1, <2>2, <3>2 DEF Moved, Shows, Holding, Stays
      <4> QED
        BY <2>1, <3>3, <4>1, <4>2 DEF Shown
    <3>8. Chosen'
      BY <2>2 DEF Chosen, Writing
    <3>9. Created'
      BY <2>1, <2>2, <2>4, <3>1, <3>2, <3>4 DEF Created, Stays
    <3> QED
      BY <3>5, <3>6, <3>7, <3>8, <3>9
  <2> QED
    BY <2>3, <2>4
<1>6. CASE Fails
  <2>1. UNCHANGED <<card, latest, immutable, file>> /\ Free /\ Holding
    BY <1>6 DEF Fails, disk, Holding
  <2>2. holder'.seen.state = Missing /\ holder'.task = "none" /\ holder'.pc = "idle"
    BY <2>1, IdleIsBlank DEF Blank
  <2>3. holder.task \in {"sync", "prune"}
    BY <2>1 DEF IntentInv, Tasked
  <2>4. CASE prune' = NoPrune
    <3>1. Dated'
      BY <1>1, <2>1, <2>2, <2>4, DatedOn DEF NoPrune
    <3> QED
      BY <2>4, <3>1, NoneOn DEF On, NoPrune
  <2>5. CASE prune' = prune
    BY <1>1, <2>1, <2>2, <2>3, <2>5, HolderGoesOn DEF PruningStays, FilesStay
  <2>6. CASE StillSeen /\ Witness(card.location, outbox') /\ holder.task = "prune"
    <3>1. /\ prune'.before = prune.before /\ prune'.after.state = prune.after.state
          /\ prune'.step = "synced" /\ prune'.after.location = card.location
          /\ prune'.created = IF holder.wrote /\ holder.create
                              THEN {<<holder.target, holder.seen.state>>} ELSE {}
      BY <1>1, <2>6, WitnessEffects
    <3>2. On /\ On' /\ (Same' <=> Same) /\ Was' = Was /\ Dest' = Dest
      BY <1>1, <2>1, <2>6, <3>1 DEF Typed, Pruned, On, Same, Was, Dest
    <3>3. prune.after.state # Missing
      BY <1>1, <3>2, PathsDiffer DEF Typed, Pruned, On, Cards
    <3>4. Dated'
      BY <1>1, <2>1, <2>2, <3>1, DatedOn
    <3>5. Placed'
      BY <2>1, <2>2, <3>1, <3>2, <3>3 DEF Placed
    <3>6. Shown'
      <4>1. card.location = Was /\ Unmoved => Unmoved'
        BY <2>1, <3>1, <3>2 DEF Unmoved
      <4>2. Moved => Moved'
        BY <2>1, <2>2 DEF Moved, Shows, Holding
      <4> QED
        BY <2>1, <3>2, <4>1, <4>2 DEF Shown
    <3>7. Chosen'
      BY <2>2 DEF Chosen, Writing
    <3>8. Created'
      <4>1. ASSUME Same, prune'.created # {}
            PROVE  card.location = Was /\ Dest \in Places'
        <5>1. holder.wrote /\ holder.create /\ prune'.created = {<<holder.target, holder.seen.state>>}
          BY <3>1, <4>1
        <5>2. At("final") /\ holder.seen = card
          BY <2>6, <5>1 DEF IntentInv, Tasked, StillSeen
        <5>3. card.location = Was
          BY <2>1, <4>1, <5>1 DEF Shown, Moved
        <5>4. holder.target = Dest
          BY <4>1, <5>1, <5>2, <5>3 DEF Chosen, At, Writing
        <5> QED
          BY <5>1, <5>3, <5>4 DEF Places
      <4> QED
        BY <2>1, <3>1, <3>2, <4>1 DEF Created
    <3> QED
      BY <3>4, <3>5, <3>6, <3>7, <3>8
  <2>7. (StillSeen /\ Witness(card.location, outbox')) \/ prune' = NoPrune \/ prune' = prune
    BY <1>6 DEF Fails
  <2>8. Witness(card.location, outbox') /\ holder.task # "prune" => prune' = prune
    BY DEF Witness
  <2> QED
    BY <2>4, <2>5, <2>6, <2>7, <2>8
<1>7. CASE RegisterCleanup
  <2>1. UNCHANGED <<card, latest, immutable, file, holder>>
    BY <1>7 DEF RegisterCleanup, catalog
  <2>2. PruningStays
    BY <1>1, <1>7 DEF RegisterCleanup, PruningStays, Prunings
  <2> QED
    BY <1>1, <2>1, <2>2, HolderGoesOn DEF FilesStay, Stays
<1>8. CASE RestoreRows
  <2>1. /\ UNCHANGED <<latest, immutable, file>> /\ Free /\ prune' = NoPrune
        /\ card' \in {card, prune.before}
    BY <1>8 DEF RestoreRows, disk
  <2>2. holder'.seen.state = Missing
    BY <2>1, IdleIsBlank DEF Blank
  <2>3. Dated'
    BY <1>1, <2>1, <2>2, DatedOn DEF NoPrune
  <2> QED
    BY <2>1, <2>3, NoneOn DEF On, NoPrune
<1>9. CASE Stop
  <2>1. UNCHANGED <<card, latest, immutable, file>> /\ Free
    BY <1>9 DEF Stop, disk, catalog
  <2>2. holder'.seen.state = Missing /\ holder'.task = "none"
    BY <2>1, IdleIsBlank DEF Blank
  <2>3. CASE holder.task \in {"prune", "check", "restore"}
    <3>1. prune' = NoPrune
      BY <1>9, <2>3 DEF Stop
    <3>2. Dated'
      BY <1>1, <2>1, <2>2, <3>1, DatedOn DEF NoPrune
    <3> QED
      BY <3>1, <3>2, NoneOn DEF On, NoPrune
  <2>4. CASE holder.task \notin {"prune", "check", "restore"}
    <3>1. prune' = prune
      BY <1>9, <2>4 DEF Stop
    <3> QED
      BY <1>1, <2>1, <2>2, <2>4, <3>1, HolderGoesOn DEF PruningStays, FilesStay
  <2> QED
    BY <2>3, <2>4
<1> QED
  BY <1>2, <1>3, <1>4, <1>5, <1>6, <1>7, <1>8, <1>9 DEF Reconciler

-----------------------------------------------------------------------------
LEMMA OrphanInit ==
    ASSUME Init
    PROVE  OrphanInv
<1>1. /\ holder = Idle /\ prune = NoPrune /\ DOMAIN intents = {} /\ receipts = {}
      /\ latest = Born
  BY DEF Init
<1>2. /\ holder.pc = "idle" /\ holder.task = "none" /\ holder.seen.state = Missing
      /\ holder.seen.location = NoPath /\ holder.wrote = FALSE /\ holder.listed = FALSE
      /\ holder.todo = {} /\ holder.intent = NoIntent
  BY <1>1 DEF Idle
<1>3. Carrying /\ Tasked /\ Answering
  BY <1>1, <1>2, PcsDiffer DEF Carrying, Tasked, Answering, At, Holding
<1>4. Publishing
  BY <1>2 DEF Publishing, Writing, At
<1>5. Restoring
  BY <1>1, <1>2 DEF Restoring, NoPrune
<1>6. PICK place \in {NoPath, Default, Live} :
          /\ card = [state |-> Born, location |-> place]
          /\ immutable = IF place = Live THEN DOMAIN Settled ELSE {}
          /\ file = [p \in Paths |->
                        IF place = Live /\ p \in DOMAIN Settled THEN Settled[p] ELSE Missing]
  BY DEF Init
<1>7. /\ DOMAIN Settled = {Default, Live} /\ Settled[Default] = 1 /\ Settled[Live] = 2
  BY PathsDiffer DEF Settled, Born
<1>8. AllOwned
  <2>1. \A p \in Paths : file[p] # Missing => p \in immutable
    BY <1>6
  <2> QED
    BY <2>1 DEF AllOwned, Owned
<1>9. BoundAreThere
  BY <1>6, <1>7, PathsDiffer DEF BoundAreThere, Missing
<1>10. Dated
  <2>1. card.state = 2 /\ latest = 2
    BY <1>1, <1>6 DEF Born
  <2>2. \A p \in Paths : file[p] \in {0, 1, 2}
    BY <1>6, <1>7 DEF Missing
  <2>3. prune.before.state = 0 /\ prune.after.state = 0 /\ holder.seen.state = 0
    BY <1>1, <1>2 DEF NoPrune, Missing
  <2> QED
    BY <2>1, <2>2, <2>3 DEF Dated
<1>11. ~On
  BY <1>1 DEF On, NoPrune
<1>12. PruneInv
  BY <1>10, <1>11 DEF PruneInv, Placed, Shown, Chosen, Created, Same
<1> QED
  BY <1>3, <1>4, <1>5, <1>8, <1>9, <1>12 DEF OrphanInv, IntentInv, FileInv

LEMMA OrphanStep ==
    ASSUME IInv, OrphanInv, [Next]_vars
    PROVE  OrphanInv'
<1> USE DEF OrphanInv
<1>1. CASE UNCHANGED vars
  <2>1. UNCHANGED <<card, outbox, latest, immutable, fence, reserved, file, intents, receipts,
                    unwitnessed, holder, prune, faults, prunes>>
    BY <1>1 DEF vars
  <2>2. \A p : Working(p)' <=> Working(p)
    BY <2>1, WorkingKept
  <2>3. IntentInv'
    BY <2>1 DEF IntentInv, Carrying, Tasked, Answering, At, Unfenced, Holding
  <2>4. AllOwned'
    BY <2>1, <2>2, OwnedLikeBefore DEF FileInv
  <2>5. BoundAreThere' /\ Publishing' /\ Restoring'
    BY <2>1, <2>2 DEF FileInv, BoundAreThere, Publishing, Restoring, At
  <2>6. PruneInv'
    <3>1. Typed /\ Typed'
      BY IInvStep DEF IInv
    <3> QED
      BY <2>1, <3>1, HolderGoesOn DEF PruningStays, FilesStay, Stays
  <2> QED
    BY <2>3, <2>4, <2>5, <2>6 DEF FileInv
<1>2. CASE Update \/ Register \/ RecordsLate \/ Prune \/ Accept
  BY <1>2, WritersIntents, WritersFiles, WritersPruning
<1>3. CASE Publisher \/ TakeToSync \/ TakeToReconcile \/ TakeToRestore
  <2>1. Publishing
    BY DEF FileInv
  <2> QED
    BY <1>3, <2>1, PublisherIntents, PublisherFiles, PublisherPruning
<1>4. CASE Reconciler \/ Fails \/ RegisterCleanup \/ RestoreRows \/ Stop
  BY <1>4, ReconcilerIntents, ReconcilerFiles, ReconcilerPruning
<1> QED
  BY <1>1, <1>2, <1>3, <1>4 DEF Next, Pruner

-----------------------------------------------------------------------------
(* The rows that failed because of sidecars.                                *)

Receipts == [is : {"current", "superseded", "replaced"}, completed : BOOLEAN]
Statuses == {"absent", "pending", "running", "failed", "superseded", "done"}
Decisions == [key : Nat, decision : {"requeued", "rejected"}]

\* What the rows, their receipts and the decisions about them are.
RowsTyped ==
    /\ row \in [FailedRows -> [status : Statuses, kind : F!Kinds \cup {"none"}, turn : Nat]]
    /\ steps \in [FailedRows -> Seq(Receipts)]
    /\ effects \in [FailedRows -> Seq(BOOLEAN)]
    /\ dispositions \in [FailedRows -> Seq(Decisions)]

\* Only a scribe row has children that can be replaced, and only it and an import
\* name more than one card.
Named(j) ==
    /\ row[j].status = "absent" <=> row[j].kind = "none"
    /\ row[j].status = "absent" => steps[j] = <<>>
    /\ row[j].kind \notin {"scribe", "import"} => Len(steps[j]) <= 1
    /\ \A k \in DOMAIN steps[j] : steps[j][k].is = "replaced" => row[j].kind = "scribe"

\* An effect is decided about once, and only when it is there.
Once(j) ==
    \A i \in DOMAIN dispositions[j] :
        /\ dispositions[j][i].key <= F!Key(j)
        /\ \A k \in DOMAIN dispositions[j] :
               dispositions[j][k].key = dispositions[j][i].key => k = i

RowInv == RowsTyped /\ \A j \in FailedRows : Named(j) /\ Once(j)

LEMMA RowInit ==
    ASSUME F!Init
    PROVE  RowInv
<1>1. RowsTyped
  BY DEF F!Init, RowsTyped, Statuses
<1>2. \A j \in FailedRows : Named(j) /\ Once(j)
  BY DEF F!Init, Named, Once
<1> QED
  BY <1>1, <1>2 DEF RowInv

\* What a step leaves as it is of a row.
RowStays(j) == /\ row'[j] = row[j] /\ steps'[j] = steps[j]
               /\ effects'[j] = effects[j] /\ dispositions'[j] = dispositions[j]

LEMMA StaysGood ==
    ASSUME NEW j, Named(j), Once(j), RowStays(j)
    PROVE  Named(j)' /\ Once(j)'
  BY DEF Named, Once, RowStays, F!Key

\* An update of a row is one of its status.
LEMMA UpdateMoves ==
    ASSUME RowsTyped, NEW j \in FailedRows, NEW status \in Statuses, F!Update(j, status)
    PROVE  /\ \A i \in FailedRows : i # j => row'[i] = row[i]
           /\ row'[j].status = status /\ row'[j].kind = row[j].kind
           /\ row' \in [FailedRows -> [status : Statuses, kind : F!Kinds \cup {"none"}, turn : Nat]]
<1> DEFINE RowType == [status : Statuses, kind : F!Kinds \cup {"none"}, turn : Nat]
           r == [row[j] EXCEPT !.status = status, !.turn = row[j].turn + 1]
<1>1. row \in [FailedRows -> RowType] /\ row[j] \in RowType
  BY DEF RowsTyped
<1>2. row' = [row EXCEPT ![j] = r]
  BY <1>1 DEF F!Update
<1>3. r \in RowType /\ r.status = status /\ r.kind = row[j].kind
  <2> DEFINE K == F!Kinds \cup {"none"}
  <2>1. row[j] \in [status : Statuses, kind : K, turn : Nat]
    BY <1>1
  <2> HIDE DEF K
  <2>2. PICK s \in [status : Statuses, kind : K, turn : Nat] : s = row[j]
    BY <2>1
  <2>3. LET u == [s EXCEPT !.status = status, !.turn = s.turn + 1]
        IN  u \in [status : Statuses, kind : K, turn : Nat] /\ u.status = status /\ u.kind = s.kind
    <3>1. s.turn + 1 \in Nat
      OBVIOUS
    <3>2. \A n \in Nat :
              LET u == [s EXCEPT !.status = status, !.turn = n]
              IN  u \in [status : Statuses, kind : K, turn : Nat] /\ u.status = status /\ u.kind = s.kind
      OBVIOUS
    <3> QED
      BY <3>1, <3>2
  <2> QED
    BY <2>2, <2>3 DEF K
<1> HIDE DEF RowType, r
<1>4. /\ row' \in [FailedRows -> RowType] /\ row'[j] = r
      /\ \A i \in FailedRows : i # j => row'[i] = row[i]
  BY <1>1, <1>2, <1>3
<1> QED
  BY <1>3, <1>4 DEF RowType

\* A row only gets another status.
LEMMA StatusMoves ==
    ASSUME RowInv, NEW j \in FailedRows, NEW status \in Statuses \ {"absent"},
           row[j].status # "absent", F!Update(j, status),
           UNCHANGED <<steps, effects, dispositions>>
    PROVE  RowInv'
<1>1. /\ \A i \in FailedRows : i # j => RowStays(i)
      /\ row'[j].status = status /\ row'[j].kind = row[j].kind
      /\ row' \in [FailedRows -> [status : Statuses, kind : F!Kinds \cup {"none"}, turn : Nat]]
  BY UpdateMoves DEF RowInv, RowStays
<1>2. RowsTyped'
  BY <1>1 DEF RowInv, RowsTyped
<1>3. Named(j)' /\ Once(j)'
  BY <1>1 DEF RowInv, Named, Once, F!Key
<1> QED
  BY <1>1, <1>2, <1>3, StaysGood DEF RowInv

\* A row only gets another list of receipts.
LEMMA ReceiptsMove ==
    ASSUME RowInv, NEW j \in FailedRows, NEW list \in Seq(Receipts),
           steps' = [steps EXCEPT ![j] = list], UNCHANGED <<row, effects, dispositions>>,
           row[j].status # "absent",
           row[j].kind \notin {"scribe", "import"} => Len(list) <= 1,
           \A k \in DOMAIN list : list[k].is = "replaced" => row[j].kind = "scribe"
    PROVE  RowInv'
<1>1. /\ \A i \in FailedRows : i # j => RowStays(i)
      /\ steps'[j] = list /\ steps' \in [FailedRows -> Seq(Receipts)]
  BY DEF RowInv, RowsTyped, RowStays
<1>2. RowsTyped'
  BY <1>1 DEF RowInv, RowsTyped
<1>3. Named(j)' /\ Once(j)'
  BY <1>1 DEF RowInv, Named, Once, F!Key
<1> QED
  BY <1>1, <1>2, <1>3, StaysGood DEF RowInv

\* The steps of workers and of others.
LEMMA WorkersRows ==
    ASSUME RowInv, NEW j \in FailedRows,
           \/ \E kind \in F!Kinds : F!Enqueue(j, kind)
           \/ F!Claim(j) \/ F!Raise(j) \/ F!Finish(j)
           \/ F!CommitSegment(j) \/ F!CommitCore(j)
           \/ \E result \in {<<>>, <<TRUE>>, <<FALSE>>} : F!FailAsBefore(j, result)
           \/ \E k \in 1 .. MaxSteps : F!CompleteStep(j, k) \/ F!Disturb(j, k)
    PROVE  RowInv'
<1>1. RowsTyped /\ Named(j) /\ Once(j) /\ F!Committed \in Receipts
  BY DEF RowInv, F!Committed, Receipts
<1>2. ASSUME NEW kind \in F!Kinds, F!Enqueue(j, kind)
      PROVE  RowInv'
  <2>1. /\ row[j].status = "absent" /\ UNCHANGED <<steps, effects, dispositions>>
        /\ row' = [row EXCEPT ![j] = [status |-> "pending", kind |-> kind, turn |-> 1]]
    BY <1>2, RowsAreNumbered DEF F!Enqueue, F!Maintenance
  <2>2. /\ \A i \in FailedRows : i # j => RowStays(i)
        /\ row'[j].status = "pending" /\ row'[j].kind = kind
        /\ row' \in [FailedRows -> [status : Statuses, kind : F!Kinds \cup {"none"}, turn : Nat]]
    BY <1>1, <2>1 DEF RowsTyped, RowStays, Statuses
  <2>3. RowsTyped'
    BY <1>1, <2>1, <2>2 DEF RowsTyped
  <2>4. kind # "none" /\ steps'[j] = <<>>
    BY <1>1, <2>1 DEF Named, F!Kinds
  <2>5. Named(j)' /\ Once(j)'
    BY <1>1, <2>1, <2>2, <2>4 DEF Named, Once, F!Key
  <2> QED
    BY <2>2, <2>3, <2>5, StaysGood DEF RowInv
<1>3. CASE F!Claim(j) \/ F!Raise(j) \/ F!Finish(j)
  <2>1. /\ UNCHANGED <<steps, effects, dispositions>> /\ row[j].status # "absent"
        /\ \E status \in Statuses \ {"absent"} : F!Update(j, status)
    BY <1>3 DEF F!Claim, F!Raise, F!Finish, F!Maintenance, Statuses
  <2> QED
    BY <2>1, StatusMoves
<1>4. CASE F!CommitSegment(j)
  <2> DEFINE list == Append(steps[j], F!Committed)
  <2>1. /\ row[j].status = "running" /\ row[j].kind = "scribe"
        /\ steps' = [steps EXCEPT ![j] = list] /\ UNCHANGED <<row, effects, dispositions>>
    BY <1>1, <1>4 DEF F!CommitSegment, F!Maintenance, RowsTyped
  <2>2. list \in Seq(Receipts)
    BY <1>1 DEF RowsTyped
  <2> HIDE DEF list
  <2> QED
    BY <2>1, <2>2, ReceiptsMove
<1>5. CASE F!CommitCore(j)
  <2>1. PICK n \in 1 .. (IF row[j].kind = "import" THEN MaxSteps ELSE 1) :
            steps' = [steps EXCEPT ![j] = [k \in 1 .. n |-> F!Committed]]
    BY <1>5 DEF F!CommitCore
  <2> DEFINE list == [k \in 1 .. n |-> F!Committed]
  <2>2. row[j].status = "running" /\ UNCHANGED <<row, effects, dispositions>>
    BY <1>5 DEF F!CommitCore, F!Maintenance
  <2>3. list \in Seq(Receipts) /\ Len(list) = n
    BY <1>1, <2>1
  <2>4. \A k \in DOMAIN list : list[k].is # "replaced"
    BY DEF F!Committed
  <2>5. row[j].kind # "import" => n <= 1
    BY <2>1
  <2>6. steps' = [steps EXCEPT ![j] = list]
    BY <2>1
  <2> HIDE DEF list
  <2> QED
    BY <2>2, <2>3, <2>4, <2>5, <2>6, ReceiptsMove
<1>6. ASSUME NEW result \in {<<>>, <<TRUE>>, <<FALSE>>}, F!FailAsBefore(j, result)
      PROVE  RowInv'
  <2>1. /\ row[j].status = "running" /\ F!Update(j, "failed") /\ UNCHANGED <<steps, dispositions>>
        /\ effects' = [effects EXCEPT ![j] = effects[j] \o result]
    BY <1>1, <1>6 DEF F!FailAsBefore, F!Maintenance, RowsTyped
  <2>2. result \in Seq(BOOLEAN)
    <3>1. <<>> \in Seq(BOOLEAN) /\ <<TRUE>> \in Seq(BOOLEAN) /\ <<FALSE>> \in Seq(BOOLEAN)
      OBVIOUS
    <3> QED
      BY <1>6, <3>1
  <2>3. effects[j] \in Seq(BOOLEAN)
    BY <1>1 DEF RowsTyped
  <2>4. effects[j] \o result \in Seq(BOOLEAN) /\ Len(effects[j] \o result) >= Len(effects[j])
    BY <2>2, <2>3
  <2>5. /\ \A i \in FailedRows : i # j => RowStays(i)
        /\ row'[j].status = "failed" /\ row'[j].kind = row[j].kind
        /\ row' \in [FailedRows -> [status : Statuses, kind : F!Kinds \cup {"none"}, turn : Nat]]
    <3>1. "failed" \in Statuses
      BY DEF Statuses
    <3>2. \A i \in FailedRows : i # j => effects'[i] = effects[i]
      BY <1>1, <2>1 DEF RowsTyped
    <3> QED
      BY <1>1, <2>1, <3>1, <3>2, UpdateMoves DEF RowStays
  <2>6. effects'[j] = effects[j] \o result /\ effects' \in [FailedRows -> Seq(BOOLEAN)]
    BY <1>1, <2>1, <2>4 DEF RowsTyped
  <2>7. RowsTyped'
    BY <1>1, <2>1, <2>5, <2>6 DEF RowsTyped
  <2>8. Named(j)'
    BY <1>1, <2>1, <2>5 DEF Named
  <2>9. Once(j)'
    <3>1. F!Key(j) <= F!Key(j)' /\ F!Key(j) \in Nat /\ F!Key(j)' \in Nat
      BY <2>3, <2>4, <2>6 DEF F!Key
    <3>2. \A i \in DOMAIN dispositions[j] : dispositions[j][i].key \in Nat
      <4>1. dispositions[j] \in Seq(Decisions)
        BY <1>1 DEF RowsTyped
      <4>2. \A i \in DOMAIN dispositions[j] : dispositions[j][i] \in Decisions
        BY <4>1
      <4> QED
        BY <4>2 DEF Decisions
    <3> QED
      BY <1>1, <2>1, <3>1, <3>2 DEF Once
  <2> QED
    BY <2>5, <2>7, <2>8, <2>9, StaysGood DEF RowInv
<1>7. ASSUME NEW k \in 1 .. MaxSteps, F!CompleteStep(j, k) \/ F!Disturb(j, k)
      PROVE  RowInv'
  <2>1. /\ k \in DOMAIN steps[j] /\ UNCHANGED <<row, effects, dispositions>>
        /\ steps[j] \in Seq(Receipts)
    BY <1>1, <1>7 DEF F!CompleteStep, F!Disturb, F!Maintenance, RowsTyped
  <2>0. steps[j][k] \in Receipts
    BY <2>1
  <2>2. PICK receipt \in Receipts :
            /\ steps' = [steps EXCEPT ![j] = [steps[j] EXCEPT ![k] = receipt]]
            /\ receipt.is = "replaced" => row[j].kind = "scribe"
    <3>1. CASE F!CompleteStep(j, k)
      <4>1. [steps[j][k] EXCEPT !.completed = TRUE] \in Receipts
        BY <2>0 DEF Receipts
      <4>2. steps' = [steps EXCEPT ![j] = [steps[j] EXCEPT ![k] = [steps[j][k] EXCEPT !.completed = TRUE]]]
        BY <1>1, <2>1, <3>1 DEF F!CompleteStep, RowsTyped
      <4>3. [steps[j][k] EXCEPT !.completed = TRUE].is = steps[j][k].is
        BY <2>0 DEF Receipts
      <4> QED
        BY <1>1, <2>1, <4>1, <4>2, <4>3 DEF Named
    <3>2. CASE F!Disturb(j, k)
      <4>1. PICK is \in {"superseded"} \cup (IF row[j].kind = "scribe" THEN {"replaced"} ELSE {}) :
                steps' = [steps EXCEPT ![j][k].is = is]
        BY <3>2 DEF F!Disturb
      <4>2. [steps[j][k] EXCEPT !.is = is] \in Receipts
        BY <2>0, <4>1 DEF Receipts
      <4>3. steps' = [steps EXCEPT ![j] = [steps[j] EXCEPT ![k] = [steps[j][k] EXCEPT !.is = is]]]
        BY <1>1, <2>1, <4>1 DEF RowsTyped
      <4>4. [steps[j][k] EXCEPT !.is = is].is = is
        BY <2>0 DEF Receipts
      <4> QED
        BY <4>1, <4>2, <4>3, <4>4
    <3> QED
      BY <1>7, <3>1, <3>2
  <2> DEFINE list == [steps[j] EXCEPT ![k] = receipt]
  <2>3. /\ list \in Seq(Receipts) /\ Len(list) = Len(steps[j]) /\ DOMAIN list = DOMAIN steps[j]
        /\ \A i \in DOMAIN list : list[i] = IF i = k THEN receipt ELSE steps[j][i]
    BY <2>1
  <2>4. steps' = [steps EXCEPT ![j] = list]
    BY <2>2
  <2>5. row[j].status # "absent"
    <3>1. steps[j] # <<>>
      BY <2>1
    <3> QED
      BY <1>1, <3>1 DEF Named
  <2> HIDE DEF list
  <2>6. \A i \in DOMAIN list : list[i].is = "replaced" => row[j].kind = "scribe"
    BY <1>1, <2>2, <2>3 DEF Named
  <2>7. row[j].kind \notin {"scribe", "import"} => Len(list) <= 1
    BY <1>1, <2>3 DEF Named
  <2> QED
    BY <2>1, <2>3, <2>4, <2>5, <2>6, <2>7, ReceiptsMove
<1> QED
  BY <1>2, <1>3, <1>4, <1>5, <1>6, <1>7

\* A decision about a row, and at most a requeue.
LEMMA DecisionMoves ==
    ASSUME RowInv, NEW j \in FailedRows, ~F!Decided(j), NEW decision \in {"requeued", "rejected"},
           dispositions' = [dispositions EXCEPT ![j] =
                               Append(dispositions[j], [key |-> F!Key(j), decision |-> decision])],
           UNCHANGED <<steps, effects>>,
           row[j].status # "absent", UNCHANGED row \/ F!Update(j, "pending")
    PROVE  RowInv'
<1> DEFINE new == [key |-> F!Key(j), decision |-> decision]
           list == Append(dispositions[j], new)
<1>1. RowsTyped /\ Named(j) /\ Once(j)
  BY DEF RowInv
<1>2. F!Key(j) \in Nat /\ F!Key(j)' = F!Key(j)
  BY <1>1 DEF RowsTyped, F!Key
<1>3. dispositions[j] \in Seq(Decisions) /\ new \in Decisions
  BY <1>1, <1>2 DEF RowsTyped, Decisions
<1>4. /\ dispositions'[j] = list /\ dispositions' \in [FailedRows -> Seq(Decisions)]
      /\ \A i \in FailedRows : i # j => dispositions'[i] = dispositions[i]
  <2>1. list \in Seq(Decisions)
    BY <1>3
  <2> QED
    BY <1>1, <2>1 DEF RowsTyped
<1>5. /\ \A i \in FailedRows : i # j => row'[i] = row[i]
      /\ row' \in [FailedRows -> [status : Statuses, kind : F!Kinds \cup {"none"}, turn : Nat]]
      /\ row'[j].kind = row[j].kind /\ row'[j].status # "absent"
  <2>1. CASE UNCHANGED row
    BY <1>1, <2>1 DEF RowsTyped
  <2>2. CASE F!Update(j, "pending")
    <3>1. "pending" \in Statuses
      BY DEF Statuses
    <3> QED
      BY <1>1, <2>2, <3>1, UpdateMoves
  <2> QED
    BY <2>1, <2>2
<1>6. RowsTyped'
  BY <1>1, <1>4, <1>5 DEF RowsTyped
<1>7. Named(j)'
  BY <1>1, <1>5 DEF Named
<1>8. Once(j)'
  <2> DEFINE n == Len(dispositions[j])
  <2>1. /\ n \in Nat /\ DOMAIN dispositions[j] = 1 .. n /\ DOMAIN list = 1 .. n + 1
        /\ list[n + 1] = new /\ \A i \in 1 .. n : list[i] = dispositions[j][i]
    BY <1>3
  <2>2. \A i \in 1 .. n : dispositions[j][i].key # F!Key(j)
    BY <2>1 DEF F!Decided
  <2>3. new.key = F!Key(j)
    OBVIOUS
  <2> HIDE DEF list, new, n
  <2>4. \A i \in 1 .. n + 1 : i = n + 1 \/ i \in 1 .. n
    BY <2>1
  <2>5. ASSUME NEW i \in 1 .. n + 1
        PROVE  /\ list[i].key <= F!Key(j)
               /\ \A k \in 1 .. n + 1 : list[k].key = list[i].key => k = i
    <3>1. CASE i = n + 1
      <4>1. list[i].key = F!Key(j)
        BY <2>1, <2>3, <3>1
      <4>2. \A k \in 1 .. n : list[k].key # F!Key(j)
        BY <2>1, <2>2
      <4> QED
        BY <1>2, <2>4, <3>1, <4>1, <4>2
    <3>2. CASE i \in 1 .. n
      <4>1. list[i] = dispositions[j][i] /\ list[i].key # F!Key(j) /\ list[i].key <= F!Key(j)
        BY <1>1, <2>1, <2>2, <3>2 DEF Once
      <4>2. list[n + 1].key = F!Key(j)
        BY <2>1, <2>3
      <4>3. \A k \in 1 .. n : list[k].key = list[i].key => k = i
        BY <1>1, <2>1, <3>2, <4>1 DEF Once
      <4> QED
        BY <2>4, <4>1, <4>2, <4>3
    <3> QED
      BY <2>4, <3>1, <3>2
  <2> QED
    BY <1>2, <1>4, <2>1, <2>5 DEF Once
<1>9. \A i \in FailedRows : i # j => RowStays(i)
  BY <1>4, <1>5 DEF RowStays
<1> QED
  BY <1>6, <1>7, <1>8, <1>9, StaysGood DEF RowInv

\* A candidate that is still the same names its row, and its newest effect.
LEMMA CandidateNamed ==
    ASSUME NEW c, F!Current(c)
    PROVE  /\ c.job \in FailedRows /\ ~F!Decided(c.job) /\ row[c.job].status = "failed"
           /\ c.key = F!Key(c.job)
<1>1. c.job \in F!Candidates /\ c = F!Snapshot(c.job)
  BY DEF F!Current
<1>2. F!Snapshot(c.job).key = F!Key(c.job)
  BY DEF F!Snapshot
<1> QED
  BY <1>1, <1>2 DEF F!Candidates

LEMMA MaintenanceRows ==
    ASSUME RowInv, NEW p \in Passes, F!Select(p) \/ F!Recover(p) \/ F!Die(p)
    PROVE  RowInv'
<1>1. ASSUME UNCHANGED <<row, steps, effects, dispositions>>
      PROVE  RowInv'
  BY <1>1 DEF RowInv, RowsTyped, Named, Once, F!Key
<1>2. CASE F!Select(p) \/ F!Die(p)
  BY <1>1, <1>2 DEF F!Select, F!Die
<1>3. CASE F!Recover(p)
  <2>1. PICK c : /\ UNCHANGED <<steps, effects>>
                 /\ F!Changed(p, c) \/ F!Validate(p, c) \/ F!Requeue(p, c) \/ F!Reject(p, c)
    BY <1>3 DEF F!Recover
  <2>2. CASE F!Changed(p, c) \/ F!Validate(p, c)
    BY <1>1, <2>1, <2>2 DEF F!Changed, F!Validate
  <2>3. CASE F!Requeue(p, c) \/ F!Reject(p, c)
    <3>1. F!Current(c)
      BY <2>3 DEF F!Requeue, F!Reject
    <3>2. /\ c.job \in FailedRows /\ ~F!Decided(c.job) /\ row[c.job].status = "failed"
          /\ c.key = F!Key(c.job)
      BY <3>1, CandidateNamed
    <3>3. \E decision \in {"requeued", "rejected"} : F!Dispose(c, decision)
      BY <2>3 DEF F!Requeue, F!Reject
    <3>4. \E decision \in {"requeued", "rejected"} :
             dispositions' = [dispositions EXCEPT ![c.job] =
                                Append(dispositions[c.job], [key |-> F!Key(c.job), decision |-> decision])]
      BY <3>2, <3>3 DEF F!Dispose, RowInv, RowsTyped
    <3>5. UNCHANGED row \/ F!Update(c.job, "pending")
      BY <2>3 DEF F!Requeue, F!Reject
    <3> QED
      BY <2>1, <3>2, <3>4, <3>5, DecisionMoves
  <2> QED
    BY <2>1, <2>2, <2>3
<1> QED
  BY <1>2, <1>3

LEMMA RowStep ==
    ASSUME RowInv, F!Next \/ UNCHANGED rowVars
    PROVE  RowInv'
<1>1. CASE UNCHANGED rowVars
  BY <1>1 DEF rowVars, RowInv, RowsTyped, Named, Once, F!Key
<1>2. CASE F!Next
  BY <1>2, WorkersRows, MaintenanceRows DEF F!Next
<1> QED
  BY <1>1, <1>2

\* Decisions with keys of their own are as many as their keys.
LEMMA KeysCount ==
    ASSUME RowInv
    PROVE  F!DecidedOnce
<1>1. SUFFICES ASSUME NEW j \in FailedRows
               PROVE  F!Cardinality({dispositions[j][i].key : i \in DOMAIN dispositions[j]})
                          = Len(dispositions[j])
  BY DEF RowInv, Once, F!DecidedOnce
<1> DEFINE s == dispositions[j]
           n == Len(s)
           keys == {s[i].key : i \in DOMAIN s}
           key == [i \in 1 .. n |-> s[i].key]
<1>2. s \in Seq(Decisions) /\ n \in Nat /\ DOMAIN s = 1 .. n
  BY DEF RowInv, RowsTyped
<1>3. \A i, k \in 1 .. n : s[i].key = s[k].key => i = k
  BY <1>2 DEF RowInv, Once
<1>4. key \in Injection(1 .. n, keys) /\ key \in Surjection(1 .. n, keys)
  <2>1. key \in [1 .. n -> keys]
    BY <1>2
  <2>2. \A i, k \in 1 .. n : key[i] = key[k] => i = k
    BY <1>3
  <2>3. \A x \in keys : \E i \in 1 .. n : key[i] = x
    BY <1>2
  <2> HIDE DEF key, keys
  <2> QED
    BY <2>1, <2>2, <2>3 DEF Injection, Surjection, IsInjective
<1>5. IsFiniteSet(1 .. n) /\ Cardinality(1 .. n) = n
  <2>1. \A a, b \in Int : IsFiniteSet(a .. b)
                           /\ Cardinality(a .. b) = IF a > b THEN 0 ELSE b - a + 1
    BY FS_Interval, Zenon
  <2> QED
    BY <1>2, <2>1
<1>6. Cardinality(keys) = n
  <2> HIDE DEF key, keys
  <2> QED
    BY <1>4, <1>5, FS_Surjection
<1>7. F!Cardinality(keys) = Cardinality(keys)
  BY DEF F!Cardinality, Cardinality
<1> QED
  BY <1>6, <1>7

\* What all receipts of an eligible candidate say is still so.
LEMMA EligibleIsCurrent ==
    ASSUME RowInv, NEW c, F!Current(c), F!Eligible(c)
    PROVE  /\ steps[c.job] # <<>> /\ \A k \in DOMAIN steps[c.job] : steps[c.job][k].is = "current"
           /\ F!Alike(c.job, F!Live) = {}
<1>1. c.job \in FailedRows /\ row[c.job].status = "failed"
  BY CandidateNamed
<1>2. /\ RowsTyped /\ Named(c.job) /\ steps[c.job] \in Seq(Receipts)
  BY <1>1 DEF RowInv, RowsTyped
<1>3. \A k \in DOMAIN steps[c.job] : steps[c.job][k].is \in {"current", "superseded", "replaced"}
  <2>1. \A k \in DOMAIN steps[c.job] : steps[c.job][k] \in Receipts
    BY <1>2
  <2> QED
    BY <2>1 DEF Receipts
<1>4. F!Alike(c.job, F!Live) = {}
  BY DEF F!Eligible, F!Collides
<1>5. CASE row[c.job].kind = "scribe"
  BY <1>3, <1>5 DEF F!Eligible, F!NoDrift, F!ReceiptsCounted, F!CardsCurrent, F!ChildrenCurrent, F!Alike, F!Collides
<1>6. CASE row[c.job].kind = "import"
  BY <1>6 DEF F!Eligible, F!Holds, F!ImportCurrent, F!StepCurrent, F!Alike, F!Collides
<1>7. CASE row[c.job].kind \notin {"scribe", "import"}
  <2>1. F!CardCurrent(c)
    BY <1>7 DEF F!Eligible, F!Holds
  <2>2. Len(steps[c.job]) <= 1
    BY <1>2, <1>7 DEF Named
  <2>3. \A k \in DOMAIN steps[c.job] : k = 1
    BY <1>2, <2>2
  <2> QED
    BY <1>4, <2>1, <2>3 DEF F!CardCurrent, F!StepCurrent
<1> QED
  BY <1>4, <1>5, <1>6, <1>7

\* Only a requeue takes a row out of its failure.
LEMMA RequeueStep ==
    ASSUME RowInv, F!Next \/ UNCHANGED rowVars,
           NEW j \in FailedRows, row[j].status = "failed", row'[j].status # "failed"
    PROVE  /\ steps[j] # <<>> /\ \A k \in DOMAIN steps[j] : steps[j][k].is = "current"
           /\ F!Alike(j, F!Live) = {}
<1>1. row' # row
  OBVIOUS
<1>2. RowsTyped
  BY DEF RowInv
<1>3. F!Next
  BY <1>1 DEF rowVars
<1>4. ASSUME NEW i \in FailedRows, NEW status, F!Update(i, status), row[i].status # "failed"
      PROVE  FALSE
  <2>1. row'[j] = row[j]
    BY <1>2, <1>4 DEF RowsTyped, F!Update
  <2> QED
    BY <2>1
<1>5. ASSUME NEW i \in FailedRows, NEW kind \in F!Kinds, F!Enqueue(i, kind)
      PROVE  FALSE
  <2>1. row' = [row EXCEPT ![i] = [status |-> "pending", kind |-> kind, turn |-> 1]]
        /\ row[i].status = "absent"
    BY <1>5, RowsAreNumbered DEF F!Enqueue
  <2>2. row'[j] = row[j]
    BY <1>2, <2>1 DEF RowsTyped
  <2> QED
    BY <2>2
<1>6. ASSUME NEW i \in FailedRows, F!Claim(i) \/ F!Raise(i) \/ F!Finish(i)
      PROVE  FALSE
  <2>1. row[i].status # "failed" /\ \E status : F!Update(i, status)
    BY <1>6 DEF F!Claim, F!Raise, F!Finish
  <2> QED
    BY <1>4, <2>1
<1>7. ASSUME NEW i \in FailedRows, NEW result, F!FailAsBefore(i, result)
      PROVE  FALSE
  BY <1>4, <1>7 DEF F!FailAsBefore
<1>8. ASSUME NEW i \in FailedRows, F!CommitSegment(i) \/ F!CommitCore(i)
      PROVE  FALSE
  BY <1>1, <1>8 DEF F!CommitSegment, F!CommitCore
<1>9. ASSUME NEW i \in FailedRows, NEW k, F!CompleteStep(i, k) \/ F!Disturb(i, k)
      PROVE  FALSE
  BY <1>1, <1>9 DEF F!CompleteStep, F!Disturb
<1>10. PICK p \in Passes : F!Select(p) \/ F!Recover(p) \/ F!Die(p)
  BY <1>3, <1>5, <1>6, <1>7, <1>8, <1>9 DEF F!Next
<1>11. PICK c : F!Changed(p, c) \/ F!Validate(p, c) \/ F!Requeue(p, c) \/ F!Reject(p, c)
  BY <1>1, <1>10 DEF F!Select, F!Recover, F!Die
<1>12. F!Current(c) /\ F!Eligible(c) /\ F!Update(c.job, "pending")
  BY <1>1, <1>11 DEF F!Changed, F!Validate, F!Requeue, F!Reject
<1>13. j = c.job
  <2>1. c.job \in FailedRows
    BY <1>12, CandidateNamed
  <2>2. \A i \in FailedRows : i # c.job => row'[i] = row[i]
    BY <1>2, <1>12, <2>1 DEF RowsTyped, F!Update
  <2> QED
    BY <2>2
<1> QED
  BY <1>12, <1>13, EligibleIsCurrent

-----------------------------------------------------------------------------
(* The results.                                                             *)

\* The inductive invariant holds for every number of states of the Card, of deaths
\* and errors, of prunings and of like intents.
THEOREM SidecarInvariance == Spec => []IInv
<1>1. Init => IInv
  BY IInvInit
<1>2. IInv /\ [Next]_vars => IInv'
  BY IInvStep
<1> QED
  BY <1>1, <1>2, PTL DEF Spec

\* The state keeps its shape.
THEOREM SidecarTypeCorrect == Spec => []TypeOK
<1>1. IInv => TypeOK
  BY DEF IInv, Typed
<1> QED
  BY <1>1, SidecarInvariance, PTL

\* Wherever a publisher, a reconciler or a pruning dies, and whoever changes the Card
\* meanwhile: the file that the catalog points at shows the Card, or an outbox row
\* says that it has to be written again.
THEOREM SidecarNeverSilentlyStale == Spec => []SidecarOrDebt
<1>1. IInv => SidecarOrDebt
  BY DEF IInv
<1> QED
  BY <1>1, SidecarInvariance, PTL

BytesStay == \A p \in Paths : file[p] # Missing =>
                 /\ p \in immutable => file'[p] = file[p]
                 /\ p = card.location => file'[p] # Missing

LEMMA BytesKept ==
    ASSUME IInv, [Next]_vars
    PROVE  [BytesStay]_vars
<1> USE DEF IInv
<1>1. file \in [Paths -> States \cup {Missing}] /\ holder \in Holders
  BY DEF Typed, TypeOK
<1>2. CASE WriteFile
  <2>1. At("write") /\ file' = [file EXCEPT ![holder.target] = holder.seen.state]
    BY <1>2 DEF WriteFile
  <2>2. holder.target \notin immutable \/ file[holder.target] = Missing
    BY <2>1 DEF Targeted, At
  <2>3. holder.seen.state # Missing
    BY <2>1 DEF Locked, Holding, Reading, At
  <2> QED
    BY <1>1, <2>1, <2>2, <2>3 DEF BytesStay
<1>3. CASE Move
  <2>1. At("quarantined") /\ file' = [file EXCEPT ![holder.intent.path] = Missing]
    BY <1>3 DEF Move
  <2>2. holder.intent.path # card.location /\ holder.intent.path \notin immutable
    BY <2>1 DEF Locked, Fenced
  <2> QED
    BY <1>1, <2>1, <2>2 DEF BytesStay
<1>4. CASE ~WriteFile /\ ~Move
  <2>1. file' = file
    BY <1>4 DEF Next, Publisher, Reconciler, Pruner, vars, Update, Register, TakeToSync,
       TakeToReconcile, Fails, RecordsLate, Stop, RecoverFence, Observe, PrepareTransition,
       Reserve, WriteIntent, Acknowledge, Inventory, FinishAnswered, Decide, EndPass, Resume,
       PublishVerdict, PublishQuarantine, Retire, Return, Prune, TakeToRestore,
       RegisterCleanup, RestoreRows, Accept, disk
  <2> QED
    BY <2>1 DEF BytesStay
<1> QED
  BY <1>2, <1>3, <1>4

\* No step changes bytes that an immutable artifact binds, and none takes away the
\* file that the catalog points at.
THEOREM AuthoritativeBytesAreKept == Spec => AuthoritativeBytesStay
<1>1. IInv /\ [Next]_vars => [BytesStay]_vars
  BY BytesKept
<1> QED
  BY <1>1, SidecarInvariance, PTL DEF Spec, AuthoritativeBytesStay, BytesStay

-----------------------------------------------------------------------------
(* The results for both parts of a run.                                     *)

\* An open or a moved intent is an intent.
LEMMA OrphansOwned ==
    ASSUME OrphanInv
    PROVE  OrphansAccounted
  BY DEF OrphanInv, FileInv, AllOwned, Owned, Working, OrphansAccounted

\* Every file of the Card is the catalog's, is bound by an artifact, was reported, has
\* a receipt or has an intent that a reconciler will judge.
THEOREM EveryFileIsAccounted == Spec => []OrphansAccounted
<1> DEFINE Inv == IInv /\ OrphanInv
<1>1. Init => Inv
  BY IInvInit, OrphanInit
<1>2. Inv /\ [Next]_vars => Inv'
  BY IInvStep, OrphanStep
<1>3. Inv => OrphansAccounted
  BY OrphansOwned
<1> QED
  BY <1>1, <1>2, <1>3, PTL DEF Spec

SidecarInv == IInv /\ OrphanInv /\ RowInv

LEMMA SidecarInvInit ==
    ASSUME SidecarInit
    PROVE  SidecarInv
  BY IInvInit, OrphanInit, RowInit DEF SidecarInit, SidecarInv

LEMMA SidecarParts ==
    ASSUME [SidecarNext]_allVars
    PROVE  /\ Next \/ UNCHANGED vars
           /\ F!Next \/ UNCHANGED rowVars
  BY DEF SidecarNext, OfCard, OfRows, allVars

LEMMA SidecarInvStep ==
    ASSUME SidecarInv, [SidecarNext]_allVars
    PROVE  SidecarInv'
<1>1. [Next]_vars /\ (F!Next \/ UNCHANGED rowVars)
  BY SidecarParts
<1>2. IInv' /\ OrphanInv'
  BY <1>1, IInvStep, OrphanStep DEF SidecarInv
<1>3. RowInv'
  BY <1>1, RowStep DEF SidecarInv
<1> QED
  BY <1>2, <1>3 DEF SidecarInv

\* Wherever a publisher, a reconciler or a pruning stops: every file has an authority or
\* an intent.  However many maintenance passes look at the same rows: each failure of a
\* row is decided once.
THEOREM DebtsAreAccounted == SidecarSpec => []DebtsAccounted
<1>1. SidecarInit => SidecarInv
  BY SidecarInvInit
<1>2. SidecarInv /\ [SidecarNext]_allVars => SidecarInv'
  BY SidecarInvStep
<1>3. SidecarInv => DebtsAccounted
  BY OrphansOwned, KeysCount DEF SidecarInv, DebtsAccounted
<1> QED
  BY <1>1, <1>2, <1>3, PTL DEF SidecarSpec

\* No step takes the bytes that the catalog or an artifact binds, and a failed row only
\* comes back while every receipt it has is still so and no other row has its key,
\* though its receipts were validated in windows.
THEOREM AuthorityOfDebtsStands == SidecarSpec => AuthorityStands
<1> DEFINE Requeues == \A j \in FailedRows : row[j].status = "failed" /\ row'[j].status # "failed" =>
                          /\ steps[j] # <<>> /\ \A k \in DOMAIN steps[j] : steps[j][k].is = "current"
                          /\ F!Alike(j, F!Live) = {}
<1>1. SidecarInit => SidecarInv
  BY SidecarInvInit
<1>2. SidecarInv /\ [SidecarNext]_allVars => SidecarInv'
  BY SidecarInvStep
<1>3. ASSUME SidecarInv, [SidecarNext]_allVars
      PROVE  [BytesStay]_vars /\ [Requeues]_F!vars
  <2>1. [Next]_vars /\ (F!Next \/ UNCHANGED rowVars)
    BY <1>3, SidecarParts
  <2>2. [BytesStay]_vars
    BY <1>3, <2>1, BytesKept DEF SidecarInv
  <2>3. Requeues
    BY <1>3, <2>1, RequeueStep DEF SidecarInv
  <2> QED
    BY <2>2, <2>3
<1> QED
  BY <1>1, <1>2, <1>3, PTL DEF SidecarSpec, AuthorityStands, AuthoritativeBytesStay, BytesStay, F!RequeuedIsCurrent
=============================================================================
