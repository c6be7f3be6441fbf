------------------------------ MODULE BookFiles ------------------------------
(***************************************************************************)
(* The files of a book: ingestion (src/continuum/core/store.py,             *)
(* ingest_file) beside storage tiering (src/continuum/core/workers.py,      *)
(* apply_storage_tiering).  Tiering copies the files of an aged book to the *)
(* next tier, points the row at the copies, and retires the sources; what   *)
(* it has still to retire is in the history of the row, so that a later     *)
(* pass can finish.  Files an immutable artifact names are kept.  Passes    *)
(* are serialized by a lock; ingestion and proofs take no part in it.       *)
(***************************************************************************)
EXTENDS Naturals, FiniteSets

CONSTANTS
    MaxIngests, \* bound on ingestions of the one file
    MaxDeaths,  \* bound on deaths
    MaxPins,    \* bound on paths that become immutable artifacts
    Cited       \* the paths that proofs may cite

VARIABLES
    file,    \* file[f][t]: the file of field f in tier t: "none", "part" or "whole"
    parked,  \* <<f, t>> whose file was renamed to its retirement object
    row,     \* the row of the book
    pinned,  \* the immutable artifacts: a path and the bytes it had when it was hashed
    cite,    \* the file a proof has hashed and not yet recorded
    pass,    \* the tiering pass that holds the lock
    ing,     \* the ingestion that is running
    ingests, deaths,
    met,     \* history: an ingestion and a pass ran at the same time
    cut      \* history: an ingestion died while it copied the original

vars == <<file, parked, row, pinned, cite, pass, ing, ingests, deaths, met, cut>>

Fields == {"original", "reader"}
Tiers == 1 .. 4  \* hot, warm, cold, vault
Paths == Fields \X Tiers
\* The vault has no reader editions of its own.
ReaderTier(t) == IF t = 4 THEN 3 ELSE t

\* at: original_uri and reader_uri; loc: location_uri; plan: what tier_history has open.
NoRow == [here |-> FALSE, tier |-> 1, at |-> [f \in Fields |-> 1], loc |-> 1,
          aged |-> FALSE, plan |-> {}]

\* row: what the pass read; fresh: nobody wrote the row since; kept: the fields an
\* artifact binds; at, staged: where the files are to be and what was moved; todo,
\* done: sources to retire, and retired.
NoPass == [pc |-> "idle", row |-> NoRow, fresh |-> TRUE, kept |-> {}, at |-> NoRow.at,
           staged |-> {}, todo |-> {}, done |-> {}, then |-> "end"]
NoIngest == [pc |-> "idle", tier |-> 1]
NoCite == [path |-> <<"original", 1>>, bytes |-> "none"]

Init ==
    /\ file = [f \in Fields |-> [t \in Tiers |-> "none"]]
    /\ parked = {} /\ row = NoRow /\ pinned = {} /\ cite = NoCite
    /\ pass = NoPass /\ ing = NoIngest
    /\ ingests = 0 /\ deaths = 0 /\ met = FALSE /\ cut = FALSE

At(f, t) == file[f][t]
Put(f, t, what) == file' = [file EXCEPT ![f][t] = what]
In(pc) == pass.pc = pc
\* The artifact table and the row are fenced while a source is retired.
Fenced == pass.pc \in {"detach", "remove"}
counters == <<ingests, deaths, met, cut>>
proofs == <<pinned, cite>>
quiet == <<ing, proofs, counters>>
Raise == pass' = NoPass
\* The row was written, and a pass that has still to commit will find it changed.
Stale == [pass EXCEPT !.fresh = (pass.then = "end")]

----------------------------------------------------------------------------
(* ingest_file                                                               *)

IngestBegins ==
    /\ ing.pc = "idle" /\ ingests < MaxIngests /\ ingests' = ingests + 1
    /\ \E t \in Tiers :
           ing' = [pc |-> IF At("original", t) = "none" THEN "copy" ELSE "reader", tier |-> t]
    /\ met' = (met \/ ~In("idle"))
    /\ UNCHANGED <<file, parked, row, proofs, pass, deaths, cut>>

\* The original is copied in place, byte by byte.
CopyOriginal ==
    /\ ing.pc \in {"copy", "copying"}
    /\ Put("original", ing.tier, IF ing.pc = "copy" THEN "part" ELSE "whole")
    /\ ing' = [ing EXCEPT !.pc = IF @ = "copy" THEN "copying" ELSE "reader"]
    /\ UNCHANGED <<parked, row, proofs, pass, counters>>

WriteReader ==
    /\ ing.pc = "reader" /\ Put("reader", ReaderTier(ing.tier), "whole")
    /\ ing' = [ing EXCEPT !.pc = "commit"]
    /\ UNCHANGED <<parked, row, proofs, pass, counters>>

\* The first ingestion says where the original is; a later one moves only the reader
\* edition, the location and the tier, and its metadata has no tier history.
IngestCommits ==
    /\ ing.pc = "commit" /\ ~Fenced
    /\ row' = [here |-> TRUE, tier |-> ing.tier, loc |-> ing.tier, aged |-> FALSE, plan |-> {},
               at |-> [original |-> IF row.here THEN row.at["original"] ELSE ing.tier,
                       reader |-> ReaderTier(ing.tier)]]
    /\ pass' = Stale
    /\ ing' = NoIngest
    /\ UNCHANGED <<file, parked, proofs, counters>>

IngestDies ==
    /\ ing.pc # "idle" /\ deaths < MaxDeaths /\ deaths' = deaths + 1
    /\ cut' = (cut \/ ing.pc = "copying") /\ ing' = NoIngest
    /\ UNCHANGED <<file, parked, row, proofs, pass, ingests, met>>

\* The book is old enough for the next tier; a verification makes it young again.
Age ==
    /\ row.here /\ ~row.aged /\ row' = [row EXCEPT !.aged = TRUE]
    /\ UNCHANGED <<file, parked, pass, quiet>>

Verify ==
    /\ row.here /\ ~Fenced /\ row' = [row EXCEPT !.aged = FALSE]
    /\ pass' = Stale
    /\ UNCHANGED <<file, parked, quiet>>

\* A proof hashes a file that is there, and later makes the path with that hash an
\* immutable artifact, whatever became of the file.
Describe ==
    /\ cite = NoCite /\ Cardinality(pinned) < MaxPins
    /\ \E p \in Cited : /\ file[p[1]][p[2]] # "none"
                        /\ cite' = [path |-> p, bytes |-> file[p[1]][p[2]]]
    /\ UNCHANGED <<file, parked, row, pinned, pass, ing, counters>>

Pin ==
    /\ cite # NoCite /\ ~Fenced
    /\ pinned' = pinned \cup {cite} /\ cite' = NoCite
    /\ UNCHANGED <<file, parked, row, pass, ing, counters>>

----------------------------------------------------------------------------
(* apply_storage_tiering                                                     *)

Due(r) == r.here /\ r.aged /\ r.tier < 3
Source(d) == <<d.field, d.from>>
Copy(d) == <<d.field, d.to>>
Holds(p, bytes) == file[p[1]][p[2]] = bytes
Bound(p) == \E a \in pinned : a.path = p
Mismatch(p) == \E a \in pinned : a.path = p /\ ~Holds(p, a.bytes)

\* _reconcile_storage_tier_history: what an earlier pass left to retire.
Open(r) == {d \in r.plan : r.at[d.field] = d.to}

Begin ==
    /\ In("idle") /\ row.here
    /\ pass' = [NoPass EXCEPT !.pc = "preflight", !.row = row, !.at = row.at,
                              !.todo = Open(row), !.then = "original"]
    /\ met' = (met \/ ing.pc # "idle")
    /\ UNCHANGED <<file, parked, row, proofs, ing, ingests, deaths, cut>>

\* _preflight_storage_tier_artifacts: before anything is done, every artifact must be
\* its file, and a destination that is one the same as the source.
Moving(r) == IF Due(r) THEN Fields ELSE {}
From(r, f) == <<f, r.at[f]>>
To(r, f) == <<f, r.tier + 1>>
Conflict(r, f) ==
    \/ Mismatch(From(r, f)) \/ Mismatch(To(r, f))
    \/ Bound(To(r, f)) /\ At(f, r.at[f]) # At(f, r.tier + 1)

Preflight ==
    /\ In("preflight")
    /\ LET r == pass.row IN
       IF \E f \in Moving(r) : Conflict(r, f) THEN Raise
       ELSE pass' = [pass EXCEPT !.pc = "retire",
                         !.kept = {f \in Moving(r) : Bound(From(r, f)) \/ Bound(To(r, f))}]
    /\ UNCHANGED <<file, parked, row, quiet>>

\* Details are retired one at a time, the original's first.
First(ds) == IF \E d \in ds : d.field = "original"
             THEN CHOOSE d \in ds : d.field = "original" ELSE CHOOSE d \in ds : TRUE
This == First(pass.todo)
Done == [pass EXCEPT !.pc = "retire", !.todo = @ \ {This}, !.done = @ \cup {This}]

\* _retire_storage_tier_source: the copy is restored from the source when it is gone.
Restore ==
    /\ In("retire") /\ pass.todo # {}
    /\ IF Holds(Copy(This), This.bytes)
       THEN pass' = [pass EXCEPT !.pc = "fence"] /\ UNCHANGED file
       ELSE IF Holds(Source(This), This.bytes) /\ Holds(Copy(This), "none")
       THEN /\ Put(This.field, This.to, This.bytes)
            /\ pass' = [pass EXCEPT !.pc = "fence"]
       ELSE Raise /\ UNCHANGED file
    /\ UNCHANGED <<parked, row, quiet>>

Kept(d) == d.kept \/ Bound(Source(d)) \/ Bound(Copy(d))

\* Under the fence the artifacts are asked again before anything is retired.
Fence ==
    /\ In("fence")
    /\ IF Mismatch(Source(This)) \/ Mismatch(Copy(This)) THEN Raise
       ELSE IF ~Kept(This) THEN pass' = [pass EXCEPT !.pc = "detach"]
       ELSE IF Holds(Source(This), This.bytes) /\ Holds(Copy(This), This.bytes)
       THEN pass' = Done ELSE Raise
    /\ UNCHANGED <<file, parked, row, quiet>>

\* _finish_storage_tier_source_retirement: the source is renamed, then removed.
Detach ==
    /\ In("detach")
    /\ IF Source(This) \in parked
       THEN pass' = (IF Holds(Source(This), "none") THEN [pass EXCEPT !.pc = "remove"]
                     ELSE NoPass) /\ UNCHANGED <<file, parked>>
       ELSE IF Holds(Source(This), "none")
       THEN pass' = (IF Holds(Copy(This), This.bytes) THEN Done ELSE NoPass)
            /\ UNCHANGED <<file, parked>>
       ELSE IF ~Holds(Source(This), This.bytes)
       THEN Raise /\ UNCHANGED <<file, parked>>
       ELSE /\ Put(This.field, This.from, "none") /\ parked' = parked \cup {Source(This)}
            /\ pass' = [pass EXCEPT !.pc = "remove"]
    /\ UNCHANGED <<row, quiet>>

Remove ==
    /\ In("remove")
    /\ IF Holds(Copy(This), This.bytes)
       THEN parked' = parked \ {Source(This)} /\ pass' = Done
       ELSE Raise /\ UNCHANGED parked
    /\ UNCHANGED <<file, row, quiet>>

\* _mark_storage_tier_cleanup_complete, in the row as it is now.
Mark ==
    /\ In("retire") /\ pass.todo = {}
    /\ LET marked == pass.done \cap Open(row) IN
       /\ row' = [row EXCEPT !.plan = @ \ marked]
       /\ IF pass.then = "original" /\ Due(pass.row)
          THEN pass' = [pass EXCEPT !.pc = "original", !.done = {}, !.fresh = @ /\ marked = {}]
          ELSE pass' = NoPass
    /\ UNCHANGED <<file, parked, quiet>>

\* _stage_storage_tier_file, for the original and then for the reader edition.
Stage ==
    /\ pass.pc \in Fields
    /\ LET f == pass.pc
           from == pass.row.at[f]
           to == pass.row.tier + 1
           next == IF f = "original" THEN "reader" ELSE "commit"
           here == At(f, from)
       IN  IF from = to \/ here = "none"
           THEN /\ pass' = [pass EXCEPT !.pc = next, !.at[f] = IF from = to THEN to ELSE @]
                /\ UNCHANGED file
           ELSE IF At(f, to) \notin {"none", here}
           THEN Raise /\ UNCHANGED file
           ELSE /\ Put(f, to, here)
                /\ pass' = [pass EXCEPT !.pc = next, !.at[f] = to,
                       !.staged = @ \cup {[field |-> f, from |-> from, to |-> to, bytes |-> here,
                                           kept |-> f \in pass.kept]}]
    /\ UNCHANGED <<parked, row, quiet>>

\* A location that was the original's goes with it.
Located == IF row.loc = row.at["original"] THEN pass.at["original"] ELSE row.loc

Commit ==
    /\ In("commit")
    /\ IF pass.fresh
       THEN /\ row' = [row EXCEPT !.tier = pass.row.tier + 1, !.at = pass.at, !.loc = Located, !.aged = FALSE,
                                  !.plan = pass.row.plan \cup pass.staged]
            /\ pass' = [NoPass EXCEPT !.pc = "retire", !.todo = pass.staged]
       ELSE Raise /\ UNCHANGED row
    /\ UNCHANGED <<file, parked, quiet>>

PassDies ==
    /\ ~In("idle") /\ deaths < MaxDeaths /\ deaths' = deaths + 1 /\ Raise
    /\ UNCHANGED <<file, parked, row, proofs, ing, ingests, met, cut>>

Step == Preflight \/ Restore \/ Fence \/ Detach \/ Remove \/ Mark \/ Stage \/ Commit
Ingest == IngestBegins \/ CopyOriginal \/ WriteReader \/ IngestCommits \/ IngestDies
Next == Ingest \/ Age \/ Verify \/ Describe \/ Pin \/ Begin \/ Step \/ PassDies

\* Passes go on, each to its end.
Spec == Init /\ [][Next]_vars /\ WF_vars(Begin) /\ WF_vars(Step)

----------------------------------------------------------------------------
\* The row's original is there at every step of every pass, after any death and beside
\* any ingestion.  It is whole, and the reader edition is there, unless an ingestion met
\* a pass, or died while it copied the original (the next one takes the part for the file).
BookStays ==
    row.here =>
        /\ At("original", row.at["original"]) # "none"
        /\ At("original", row.loc) # "none" \/ met
        /\ At("original", row.at["original"]) = "whole" \/ cut \/ met
        /\ At("reader", row.at["reader"]) = "whole" \/ met

\* A file that an immutable artifact names is never taken away.
PinnedStays ==
    [][\A a \in pinned : file[a.path[1]][a.path[2]] # "none" => file'[a.path[1]][a.path[2]] # "none"]_vars

\* What every pass fails on: a proof names a copy whose source is gone and not yet
\* marked, a source is parked and was ingested once more, or an artifact is not what
\* its path has when the book is due.
Refused(d) == \/ d.kept \/ Bound(Copy(d)) \/ Bound(Source(d))
              \/ Source(d) \in parked /\ ~Holds(Source(d), "none")
              \/ \E f \in Moving(row) : Conflict(row, f)

\* What a pass moved is retired and marked in the end, whoever died in between,
\* unless passes fail on it, or an ingestion met a pass or died in its copy.
Unsettled == Open(row) # {}
Settled == Open(row) = {} \/ met \/ cut \/ \E d \in Open(row) : Refused(d)
RetiredInTheEnd == Unsettled ~> Settled
=============================================================================
