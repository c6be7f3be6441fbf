--------------------------- MODULE WorkspaceImport ---------------------------
(***************************************************************************)
(* Importing a capsule of shared evidence into a project, and deciding     *)
(* between the variants of one origin (core/workspaces.py).                *)
(*                                                                         *)
(* An import plans without a lock and gives up before it writes anything   *)
(* if the plan shows a conflict.  It then appends its records one          *)
(* transaction at a time, each checked again against what others have      *)
(* committed meanwhile; a record that is there already is left alone, so   *)
(* that an import that stopped half way can be run again.                  *)
(***************************************************************************)
EXTENDS KnowledgeLog, SequencesExt

CONSTANTS
    Importers,     \* processes that import
    Origins,       \* (workspace, project, record) identities, in the order of their ids
    Hashes,        \* the contents an origin may come with
    MaxVariants,   \* 32: variants kept of one origin
    MaxDecisions   \* bound: how many decisions are recorded

ASSUME ImportAssumption == Origins \subseteq Nat /\ MaxVariants \in Nat \ {0}

VARIABLE import     \* what each importer is doing

vars == <<log, clock, import>>

SharedKinds == {"shared", "decision"}

\* A capsule: a set of origins, each with one content.
Capsules == UNION {[origins -> Hashes] : origins \in (SUBSET Origins) \ {{}}}

Shared(origin, hash, fork) ==
    [kind |-> "shared", origin |-> origin, hash |-> hash, fork |-> fork, variants |-> {}, previous |-> 0]
Decision(origin, variants, selected, previous) ==
    [kind |-> "decision", origin |-> origin, hash |-> selected, fork |-> FALSE,
     variants |-> variants, previous |-> previous]

-----------------------------------------------------------------------------
\* _state: the variants of an origin and the head of its decisions.

Before(records, i, kind) ==
    {j \in 1..(i - 1) : records[j].kind = kind /\ records[j].origin = records[i].origin}

\* What _state requires of the i-th record read.
Sound(records, i) ==
    LET shared == {records[j].hash : j \in Before(records, i, "shared")}
        decided == Before(records, i, "decision")
        head == IF decided = {} THEN 0 ELSE records[CHOOSE j \in decided : \A k \in decided : k <= j].id
    IN  IF records[i].kind = "shared"
        THEN records[i].hash \notin shared
        ELSE /\ records[i].variants = shared
             /\ records[i].hash \in shared
             /\ records[i].previous = head

\* FALSE where _state raises.
Replays(l) ==
    LET records == Read(l, SharedKinds) IN Readable(l) /\ \A i \in DOMAIN records : Sound(records, i)

Variants(origin) == {log[i].hash : i \in {j \in DOMAIN log : log[j].kind = "shared" /\ log[j].origin = origin}}

LastDecision(origin) ==
    LET records == Read(log, {"decision"})
        decided == {i \in DOMAIN records : records[i].origin = origin}
    IN  IF decided = {} THEN 0 ELSE records[CHOOSE i \in decided : \A j \in decided : j <= i].id

-----------------------------------------------------------------------------
\* plan_workspace_import

Status(origin, hash, fork) ==
    CASE hash \in Variants(origin) -> "unchanged"
      [] Variants(origin) = {} -> "import"
      [] ~fork -> "conflict"
      [] Cardinality(Variants(origin)) >= MaxVariants -> "capacity_exceeded"
      [] OTHER -> "fork"

CanImport(capsule, fork) ==
    LET new == {o \in DOMAIN capsule : Status(o, capsule[o], fork) \in {"import", "fork"}}
    IN  /\ Len(log) + Cardinality(new) <= MaxRecords
        /\ \A o \in DOMAIN capsule : Status(o, capsule[o], fork) \notin {"conflict", "capacity_exceeded"}

-----------------------------------------------------------------------------
\* The calls.

Resting == [phase |-> "resting", capsule |-> <<>>, fork |-> FALSE, left |-> {}]

\* import_workspace with a capsule the plan does not object to: a new one, or once more
\* the one of an import that stopped.
BeginImport(p) ==
    /\ import[p].phase # "importing"
    /\ \E capsule \in Capsules, fork \in BOOLEAN :
        /\ CanImport(capsule, fork)
        /\ import' = [import EXCEPT ![p] = [@ EXCEPT !.phase = "importing", !.capsule = capsule,
                                                     !.fork = fork, !.left = DOMAIN capsule]]
    /\ UNCHANGED <<log, clock>>

Step(p, origin) ==
    import' = [import EXCEPT ![p].left = @ \ {origin},
                             ![p].phase = IF import[p].left = {origin} THEN "done" ELSE "importing"]

Stop(p) == import' = [import EXCEPT ![p] = Resting]

\* FAULT: the plan is trusted; only the history as a whole is checked.
AdmitsPlanned(fork, r) == Replays(Append(log, r))

\* The validate callback, with the record in the history.
Admits(fork, r) ==
    /\ Variants(r.origin) = {} \/ fork
    /\ Cardinality(Variants(r.origin)) < MaxVariants
    /\ Replays(Append(log, r))

\* FAULT: any variant of the origin will do.
UnchangedByOrigin(p, origin) == Variants(origin) # {}

\* The record is there already: found without the lock, or by the validation.
Unchanged(p, origin) == import[p].capsule[origin] \in Variants(origin)

Appends(p, origin) ==
    /\ ~Unchanged(p, origin)
    /\ \E r \in Rows(Shared(origin, import[p].capsule[origin], import[p].fork)) :
            Admits(import[p].fork, r) /\ AppendRecord(r)

\* The validation raises.
Refused(p, origin) ==
    /\ ~Unchanged(p, origin)
    /\ \E r \in Rows(Shared(origin, import[p].capsule[origin], import[p].fork)) :
            ~Admits(import[p].fork, r)

\* The next record of the capsule; what was appended before a refusal stays.
ImportRecord(p) ==
    /\ import[p].phase = "importing"
    /\ LET origin == CHOOSE o \in import[p].left : \A q \in import[p].left : o <= q
       IN  \/ Appends(p, origin) /\ Step(p, origin)
           \/ Unchanged(p, origin) /\ Step(p, origin) /\ UNCHANGED <<log, clock>>
           \/ Refused(p, origin) /\ Stop(p) /\ UNCHANGED <<log, clock>>

\* The process dies between two records.
Crash(p) ==
    /\ import[p].phase = "importing"
    /\ Stop(p)
    /\ UNCHANGED <<log, clock>>

\* FAULT: what was current before the caller had the lock is not read again.
ResolveUnchecked(origin) ==
    LET variants == Variants(origin)
    IN  /\ Cardinality(variants) >= 2
        /\ Cardinality({i \in DOMAIN log : log[i].kind = "decision"}) < MaxDecisions
        /\ \E selected \in variants :
            \E r \in Rows(Decision(origin, variants, selected, LastDecision(origin))) :
                Fits(r) /\ AppendRecord(r)
        /\ UNCHANGED import

\* resolve_workspace_conflict: the variants and the head the caller names were current
\* before it had the lock, and are again under it.
Resolve(origin) ==
    LET variants == Variants(origin)
    IN  /\ Cardinality(variants) >= 2
        /\ Cardinality({i \in DOMAIN log : log[i].kind = "decision"}) < MaxDecisions
        /\ \E selected \in variants :
            \E r \in Rows(Decision(origin, variants, selected, LastDecision(origin))) :
                Replays(Append(log, r)) /\ AppendRecord(r)
        /\ UNCHANGED import

Init == log = <<>> /\ clock \in Instants /\ import = [p \in Importers |-> Resting]

Next ==
    \/ SetClock /\ UNCHANGED import
    \/ \E p \in Importers : BeginImport(p) \/ ImportRecord(p) \/ Crash(p)
    \/ \E origin \in Origins : Resolve(origin)

Spec == Init /\ [][Next]_vars

-----------------------------------------------------------------------------

\* Whatever imports and decisions ran at the same time, and however the clock was
\* set, the next call can read the project: no evidence is there twice, and every
\* decision was between exactly the variants there were.
HistoryReplays == Replays(log)

\* Evidence is never given a second variant behind its owner's back: only an import
\* that was allowed to fork puts one beside another, and never more than MaxVariants.
ForksAreWanted ==
    \A i, j \in DOMAIN log :
        (i < j /\ log[i].kind = "shared" /\ log[j].kind = "shared" /\ log[i].origin = log[j].origin)
            => log[j].fork /\ Cardinality(Variants(log[i].origin)) <= MaxVariants

\* An import that reports success has put all of its capsule into the project, its own
\* records or those of somebody else, and what is there stays.
DoneIsComplete ==
    \A p \in Importers : import[p].phase = "done" =>
        \A origin \in DOMAIN import[p].capsule : import[p].capsule[origin] \in Variants(origin)
=============================================================================
