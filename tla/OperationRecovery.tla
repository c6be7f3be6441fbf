------------------------- MODULE OperationRecovery -------------------------
(***************************************************************************)
(* The life of one guarded operation (operations.py): the owner that runs  *)
(* it inside an OperationGuard, and the recover_stale_operations calls     *)
(* that interrupt it when it looks dead and publish a sealed recovery.     *)
(*                                                                         *)
(* Everything durable is a file or a ledger row of its own, so one call is *)
(* a list of writes, `todo', made one at a time by the holder of the       *)
(* operation lock.  Between two of them the process may die (Crash: the    *)
(* lock is an flock and goes with it) or the write may raise (Fault).      *)
(* An event is its type; the run log's events are numbered by position, so *)
(* the hash chain of the export mirror is valid exactly when it holds a    *)
(* prefix of them.                                                         *)
(***************************************************************************)
EXTENDS Integers, FiniteSets, Sequences

CONSTANTS
    Recoverers,     \* processes that call recover_stale_operations
    None,           \* no file, no row, no holder
    MaxProgress,    \* bound: progress, cursor and snapshot notes of the owner
    MaxFaults,      \* bound: writes that raise
    MaxCrashes      \* bound: processes that die

Owner == "owner"
ACTIVE_STATUSES == {"running"}
Verdicts == {"succeeded", "failed", "interrupted"}

ASSUME BoundsAreNaturals ==
    /\ MaxProgress \in Nat /\ MaxFaults \in Nat /\ MaxCrashes \in Nat
    /\ Owner \notin Recoverers

\* What a receipt may say, in runs of any length.
Receipts ==
    [status : ACTIVE_STATUSES \cup Verdicts, steps : Nat, fails : Nat, proof : BOOLEAN, packet : BOOLEAN]

ASSUME NoneIsNothing == None \notin Receipts /\ None # Owner /\ None \notin Recoverers

VARIABLES
    run, exp,       \* the receipt and its export mirror
    log,            \* the run event log, a sequence of event types
    mirror,         \* the positions of it that the export log holds
    packet,         \* the recovery packet files written: "md", "json"
    proof,          \* the proof pack: what it was bound to
    row,            \* its row of the artifact ledger, with the seal
    lock, todo, mode,   \* the holder, the writes it still makes, its call
    pc,             \* where the owner is
    chosen,         \* per recoverer: the receipt its scan selected
    faults, crashes

durable == <<run, exp, log, mirror, packet, proof, row>>
vars == <<durable, lock, todo, mode, pc, chosen, faults, crashes>>

----------------------------------------------------------------------------
(* The evidence: what the files say of each other. *)

Receipt(status) ==
    [status |-> status, steps |-> 0, fails |-> 0, proof |-> FALSE, packet |-> FALSE]

Started == run # None
Active == Started /\ run.status \in ACTIVE_STATUSES
Marked == Started /\ run.status = "interrupted"
MirrorIsPrefix == mirror = 1..Cardinality(mirror)
Count(type) == Cardinality({i \in DOMAIN log : log[i] = type})

\* A pack binds the receipts and both event logs as they were when it was written.
Evidence(recovery) ==
    [receipt |-> run, export |-> exp, events |-> Len(log), mirror |-> mirror,
     recovery |-> recovery]

PackIsCurrent == proof # None /\ proof = Evidence(proof.recovery)
Verified ==
    /\ PackIsCurrent
    /\ run = exp
    /\ mirror = DOMAIN log
    /\ run.proof
Bound == row # None /\ row.of = proof
Material ==
    /\ proof # None /\ proof.recovery
    /\ packet = {"md", "json"}
    /\ run.proof /\ run.packet
Completed == Material /\ Verified /\ Bound

SealPayload ==
    IF run = exp /\ packet = {"md", "json"} /\ proof # None
    THEN [receipt |-> run, proof |-> proof]
    ELSE None
Sealed ==
    /\ Marked /\ run.proof /\ run.packet
    /\ SealPayload # None
    /\ Bound /\ row.seal = SealPayload

----------------------------------------------------------------------------
(* The writes of each call, in the code's order. *)

Do(what, arg) == [do |-> what, arg |-> arg]
WriteReceipt(r) == <<Do("run", r), Do("exp", r)>>
AppendEvent(type) == <<Do("event", type), Do("mirror", 0)>>
Rewrite(r, type) == WriteReceipt(r) \o AppendEvent(type)

ProofWrites(r, recovery) ==
    Rewrite([r EXCEPT !.proof = TRUE], "proof_pack_started")
        \o <<Do("proof", recovery), Do("row", 0), Do("retention", 0)>>

\* FAULT: the pack is removed after the receipt is rewritten.
FailureWritesFirst ==
    <<Do("drop", 0)>>
        \o Rewrite([run EXCEPT !.proof = FALSE, !.fails = @ + 1], "publication_failed")
        \o <<Do("unlink", 0)>>
FailureWrites ==
    <<Do("drop", 0), Do("unlink", 0)>>
        \o Rewrite([run EXCEPT !.proof = FALSE, !.fails = @ + 1], "publication_failed")

CanBootstrap == run.steps = 0 /\ run.fails = 0 /\ ~run.proof /\ ~run.packet
CanReconcile == IF log = <<>> THEN CanBootstrap ELSE MirrorIsPrefix
Repeat(type, n) == [i \in 1..2 * n |-> AppendEvent(type)[2 - (i % 2)]]
CopyMissing(from) ==
    IF log = <<>> THEN AppendEvent("started")
    ELSE [i \in 1..(Len(log) - Cardinality(mirror)) |-> Do("copy", from + i)]
MissingFailures ==
    Repeat("publication_failed", run.fails - Count("publication_failed"))

\* FAULTS: an interruption told on every attempt, failures whose events a
\* crash lost.
InterruptedEventWritesAgain ==
    CopyMissing(Cardinality(mirror)) \o AppendEvent("interrupted") \o MissingFailures
InterruptedEventWritesOnly ==
    CopyMissing(Cardinality(mirror))
        \o (IF Count("interrupted") = 0 THEN AppendEvent("interrupted") ELSE <<>>)
InterruptedEventWrites ==
    CopyMissing(Cardinality(mirror))
        \o (IF Count("interrupted") = 0 THEN AppendEvent("interrupted") ELSE <<>>)
        \o MissingFailures

PacketWrites(r) ==
    <<Do("md", 0), Do("json", 0)>> \o WriteReceipt([r EXCEPT !.packet = TRUE])

PublicationWrites ==
    LET clean == [run EXCEPT !.proof = FALSE] IN
    InterruptedEventWrites \o <<Do("drop", 0)>>
        \o (IF run.proof THEN WriteReceipt(clean) ELSE <<>>)
        \o <<Do("try", 0)>> \o PacketWrites(clean)
        \o ProofWrites([clean EXCEPT !.packet = TRUE], TRUE)
        \o <<Do("verify", 0), Do("seal", 0)>>

\* Rows that name the pack with another content go, and one that binds it comes.
Rebind == Do("row", 0)

\* FAULT: a pack whose ledger row a crash lost is not bound again.
PublishWritesUnbound ==
    CASE Completed -> <<Do("seal", 0)>>
      [] ~Completed /\ (proof # None \/ ~CanReconcile) -> None
      [] OTHER -> PublicationWrites
\* None: the call raises before it writes anything.
PublishWrites ==
    CASE Completed -> <<Do("seal", 0)>>
      [] ~Completed /\ Material /\ Verified ->
            <<Rebind, Do("verify", 0), Do("seal", 0)>>
      [] ~(Material /\ Verified) /\ (proof # None \/ ~CanReconcile) -> None
      [] OTHER -> PublicationWrites

\* One write reaching the disk.
Effect(w) ==
    /\ run' = IF w.do = "run" THEN w.arg ELSE run
    /\ exp' = IF w.do = "exp" THEN w.arg ELSE exp
    /\ log' = IF w.do = "event" THEN Append(log, w.arg) ELSE log
    /\ mirror' = CASE w.do = "mirror" -> mirror \cup {Len(log)}
                   [] w.do = "copy" -> mirror \cup {w.arg}
                   [] OTHER -> mirror
    /\ packet' = CASE w.do = "md" -> {"md"}
                   [] w.do = "json" -> {"md", "json"}
                   [] OTHER -> packet
    /\ proof' = CASE w.do = "proof" -> Evidence(w.arg)
                  [] w.do = "unlink" -> None
                  [] OTHER -> proof
    /\ row' = CASE w.do = "row" -> [of |-> proof, seal |-> None]
                [] w.do = "drop" -> None
                [] w.do = "seal" -> [row EXCEPT !.seal = SealPayload]
                [] OTHER -> row

----------------------------------------------------------------------------
Init ==
    /\ run = None /\ exp = None /\ proof = None /\ row = None
    /\ log = <<>> /\ mirror = {} /\ packet = {}
    /\ lock = None /\ todo = <<>> /\ mode = "none"
    /\ pc = "new"
    /\ chosen = [r \in Recoverers |-> None]
    /\ faults = 0 /\ crashes = 0

Take(a, call, writes) ==
    /\ lock = None
    /\ lock' = a /\ mode' = call /\ todo' = writes
    /\ UNCHANGED <<durable, faults, crashes>>
Release == lock' = None /\ mode' = "none" /\ todo' = <<>>

(* The owner: OperationGuard.  Each call is one `with operation_lock'. *)
Start ==
    /\ pc = "new"
    /\ Take(Owner, "start", Rewrite(Receipt("running"), "started"))
    /\ UNCHANGED <<pc, chosen>>

\* record_operation_progress, update_operation_cursor, attach_preflight_snapshot
Note(kind) ==
    /\ pc = "body" /\ Active /\ run.steps < MaxProgress
    /\ Take(Owner, "note", Rewrite([run EXCEPT !.steps = @ + 1], kind))
    /\ UNCHANGED <<pc, chosen>>

\* FAULT: an owner that wakes up late does not look at the status again.
FinishAnyway(status) ==
    /\ pc = "body" \/ (pc = "exit" /\ status = "failed")
    /\ Take(Owner, IF pc = "exit" THEN "exit" ELSE "finish",
            Rewrite([run EXCEPT !.status = status], status))
    /\ UNCHANGED <<pc, chosen>>
Finish(status) ==
    /\ pc = "body" \/ (pc = "exit" /\ status = "failed")
    /\ Active
    /\ Take(Owner, IF pc = "exit" THEN "exit" ELSE "finish",
            Rewrite([run EXCEPT !.status = status], status))
    /\ UNCHANGED <<pc, chosen>>

\* _require_active_operation raises, and raises again in __exit__.
Evicted ==
    /\ pc \in {"body", "exit"} /\ lock = None /\ ~Active
    /\ pc' = "gone"
    /\ UNCHANGED <<durable, lock, todo, mode, chosen, faults, crashes>>

Prove ==
    /\ pc = "prove"
    /\ Take(Owner, "prove", ProofWrites(run, FALSE))
    /\ UNCHANGED <<pc, chosen>>

RecordProofFailure ==
    /\ pc = "unproved"
    /\ Take(Owner, "unprove", <<Do("unlink", 0)>>
            \o Rewrite([run EXCEPT !.proof = FALSE, !.steps = @ + 1], "proof_pack_failed"))
    /\ UNCHANGED <<pc, chosen>>

AfterCall ==
    CASE mode = "start" -> "body" [] mode = "note" -> "body"
      [] mode \in {"finish", "exit"} -> "prove"
      [] mode \in {"prove", "unprove"} -> "gone"
      [] OTHER -> pc

\* A raising call: preflight keeps going or __exit__ records the failure.
AfterFault ==
    CASE mode = "note" -> "body" [] mode = "finish" -> "exit"
      [] mode = "prove" -> "unproved"
      [] mode \in {"start", "exit", "unprove"} -> "gone"
      [] OTHER -> pc

(* recover_stale_operations: the scan reads without the lock. *)
Scan(r) ==
    /\ chosen[r] = None
    /\ Active \/ (Marked /\ ~Sealed)
    /\ chosen' = [chosen EXCEPT ![r] = run]
    /\ UNCHANGED <<durable, lock, todo, mode, pc, faults, crashes>>

\* FAULT: the locked recheck looks at the status only.
StillChosenActive(r) ==
    IF chosen[r].status = "interrupted" THEN Marked /\ ~Sealed ELSE Active
StillChosen(r) ==
    IF chosen[r].status = "interrupted" THEN Marked /\ ~Sealed
    ELSE run = chosen[r] /\ Active

Recover(r) ==
    /\ chosen[r] # None /\ StillChosen(r)
    /\ Take(r, "recover",
            (IF Marked THEN <<>> ELSE WriteReceipt([run EXCEPT !.status = "interrupted"]))
                \o <<Do("publish", 0)>>)
    /\ UNCHANGED <<pc, chosen>>

Skip(r) ==
    /\ chosen[r] # None /\ lock = None /\ ~StillChosen(r)
    /\ chosen' = [chosen EXCEPT ![r] = None]
    /\ UNCHANGED <<durable, lock, todo, mode, pc, faults, crashes>>

\* A recoverer is done with its call, the owner goes on.
Return(a, where) ==
    /\ Release
    /\ pc' = IF a = Owner THEN where ELSE pc
    /\ chosen' = [r \in Recoverers |-> IF r = a THEN None ELSE chosen[r]]

\* The exception handler of _publish_stale_operation_recovery.
Clean ==
    /\ mode' = "clean" /\ todo' = FailureWrites'
    /\ UNCHANGED <<lock, pc, chosen>>

Raise(a) ==
    IF mode = "publish" /\ ~Sealed' THEN Clean ELSE Return(a, AfterFault)

----------------------------------------------------------------------------
(* The steps of the lock's holder. *)
Advance(a, w) ==
    IF Tail(todo) = <<>>
    THEN Return(a, AfterCall)
    ELSE /\ todo' = Tail(todo)
         /\ mode' = IF w.do = "try" THEN "publish" ELSE mode
         /\ UNCHANGED <<lock, pc, chosen>>

Write(a) ==
    /\ lock = a /\ todo # <<>>
    /\ LET w == Head(todo) IN
       /\ w.do \notin {"publish", "verify"}
       /\ Effect(w)
       /\ Advance(a, w)
    /\ UNCHANGED <<faults, crashes>>

\* The decisions of _publish_stale_operation_recovery.
Decide(a) ==
    /\ lock = a /\ todo # <<>>
    /\ \/ /\ Head(todo).do = "publish"
          /\ IF PublishWrites = None
             THEN Return(a, pc)
             ELSE todo' = PublishWrites /\ UNCHANGED <<lock, mode, pc, chosen>>
       \/ /\ Head(todo).do = "verify"
          /\ IF Completed
             THEN Advance(a, Head(todo))
             ELSE IF mode = "publish"
                  THEN /\ mode' = "clean" /\ todo' = FailureWrites
                       /\ UNCHANGED <<lock, pc, chosen>>
                  ELSE Return(a, pc)
    /\ UNCHANGED <<durable, faults, crashes>>

\* A write raises, having reached the disk or not; a ledger insert rolls back.
Fault(a) ==
    /\ lock = a /\ todo # <<>> /\ faults < MaxFaults
    /\ LET w == Head(todo) IN
       /\ w.do \notin {"publish", "verify", "try"}
       /\ (w.do # "row" /\ Effect(w)) \/ UNCHANGED durable
    /\ Raise(a)
    /\ faults' = faults + 1
    /\ UNCHANGED crashes

\* _record_proof_artifacts rolls back and swallows a database error.
LoseRow(a) ==
    /\ lock = a /\ todo # <<>> /\ faults < MaxFaults
    /\ Head(todo).do = "row"
    /\ Advance(a, Head(todo))
    /\ faults' = faults + 1
    /\ UNCHANGED <<durable, crashes>>

\* The process dies; the operating system drops its lock.
Crash(a) ==
    /\ crashes < MaxCrashes
    /\ IF lock = a THEN Return(a, "gone")
       ELSE /\ a = Owner /\ pc \notin {"new", "gone"}
            /\ pc' = "gone"
            /\ UNCHANGED <<lock, todo, mode, chosen>>
    /\ crashes' = crashes + 1
    /\ UNCHANGED <<durable, faults>>

Actors == {Owner} \cup Recoverers
OwnerCalls ==
    \/ Start
    \/ \E kind \in {"progress", "cursor", "preflight_snapshot"} : Note(kind)
    \/ \E status \in {"succeeded", "failed"} : Finish(status)
    \/ Evicted \/ Prove \/ RecordProofFailure
HolderSteps(a) == Write(a) \/ Decide(a)
RecoverCalls(r) == Scan(r) \/ Recover(r) \/ Skip(r)

Next ==
    \/ OwnerCalls
    \/ \E r \in Recoverers : RecoverCalls(r)
    \/ \E a \in Actors : HolderSteps(a) \/ Fault(a) \/ LoseRow(a) \/ Crash(a)

Spec == Init /\ [][Next]_vars

\* A process that holds the lock runs on or dies; recovery is run again and again.
Fairness ==
    /\ \A a \in Actors : WF_vars(HolderSteps(a))
    /\ \A r \in Recoverers : WF_vars(RecoverCalls(r))
LiveSpec == Spec /\ Fairness
----------------------------------------------------------------------------
ReceiptType ==
    [status : ACTIVE_STATUSES \cup Verdicts, steps : 0..(MaxProgress + 1),
     fails : 0..(MaxFaults + 1), proof : BOOLEAN, packet : BOOLEAN]
Events == {"started", "progress", "cursor", "preflight_snapshot", "proof_pack_started",
           "proof_pack_failed", "publication_failed"} \cup Verdicts

(* The files, the lock and the processes always have the shape that the    *)
(* writes of operations.py give them.                                      *)
TypeOK ==
    /\ run \in ReceiptType \cup {None} /\ exp \in ReceiptType \cup {None}
    /\ log \in Seq(Events) /\ mirror \subseteq DOMAIN log
    /\ packet \in {{}, {"md"}, {"md", "json"}}
    /\ lock \in Actors \cup {None} /\ (lock = None <=> todo = <<>>)
    /\ pc \in {"new", "body", "exit", "prove", "unproved", "gone"}
    /\ chosen \in [Recoverers -> ReceiptType \cup {None}]
    /\ faults \in 0..MaxFaults /\ crashes \in 0..MaxCrashes

(* Whatever the owner, several recoverers, crashes and failing writes do,  *)
(* the event log never tells two verdicts, and never one the receipt does  *)
(* not carry: _require_active_operation, the locked recheck of             *)
(* recover_stale_operations and the replayed interrupted event agree.      *)
OneVerdict ==
    LET told == {i \in DOMAIN log : log[i] \in Verdicts} IN
    /\ Cardinality(told) <= 1
    /\ \A i \in told : log[i] = run.status

(* A published proof pack is bound to what the receipts and the run log    *)
(* say now, not to what they said once: every later rewrite removes the    *)
(* pack first (_require_unproofed_operation, unlink before the rewrite).   *)
ProofIsCurrent ==
    proof # None =>
        /\ proof.receipt = run /\ proof.export = exp
        /\ proof.events = Len(log) /\ proof.mirror = mirror

(* A sealed recovery is whole: both receipts agree, both logs are the same *)
(* chain with the interruption in it once and every failed publication     *)
(* that the receipt notes, and the packet and the pack exist.              *)
SealedIsWhole ==
    Sealed =>
        /\ run = exp /\ mirror = DOMAIN log
        /\ log # <<>> /\ log[1] = "started"
        /\ Count("interrupted") = 1
        /\ Count("publication_failed") = run.fails
        /\ Verified

(* A verdict, once in the receipt, is never replaced, and a sealed         *)
(* recovery is never undone, by an owner that wakes up late or by another  *)
(* recoverer that selected the operation before.                           *)
VerdictStands ==
    [][/\ (Started /\ ~Active => run'.status = run.status)
       /\ (Sealed => Sealed')]_vars

(* A recoverer interrupts only an operation that made no progress between  *)
(* the scan that found it stale and the marking (the selection hash).      *)
NoFreshWorkInterrupted ==
    [][\A r \in Recoverers :
          lock = r /\ Active /\ run' # run => run = chosen[r]]_vars

(* An operation whose owner died while it was running, or that a recovery  *)
(* has marked, ends with a sealed recovery, whatever crashes interrupt the *)
(* publication, as long as no write raises.                                *)
Orphaned == pc = "gone" /\ lock = None /\ (Active \/ Marked)
CrashesConverge == (Orphaned /\ faults = 0) ~> (Sealed \/ faults > 0)

(* The same for writes that raise: a stale publication converges.          *)
FaultsConverge == Orphaned ~> Sealed
============================================================================
