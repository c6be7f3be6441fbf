--------------------------- MODULE VersionedFiles ---------------------------
(***************************************************************************)
(* Versions of files and what is recorded about them: the project index    *)
(* (core/project_knowledge.py), the analysis assets, findings and notebook *)
(* entries (core/investigation.py), all of them records of one log.        *)
(*                                                                         *)
(* The two readers find the current version of a path each in its own      *)
(* way: the index takes the highest version, the investigation the last    *)
(* record read.                                                            *)
(***************************************************************************)
EXTENDS KnowledgeLog, SequencesExt

CONSTANTS
    Paths, Hashes,   \* files, and the contents they may have
    MaxAssets,       \* bound: how many assets are registered
    NoPath, NoHash

vars == <<log, clock>>

ProjectKinds == {"file", "knowledge"}
AllKinds == ProjectKinds \cup {"asset", "finding", "notebook"}

-----------------------------------------------------------------------------
\* Which version of a path is current.

OfPath(records, kind, path) == SelectSeq(records, LAMBDA r : r.kind = kind /\ r.path = path)

\* FAULT: the last record read is current.
FilesLastRead(records, path) ==
    LET versions == OfPath(records, "file", path) IN IF versions = <<>> THEN {} ELSE {versions[Len(versions)]}

\* _files: the highest version.
Files(records, path) ==
    LET versions == OfPath(records, "file", path)
    IN  {r \in Range(versions) : \A s \in Range(versions) : s.version <= r.version}

\* _files raises on the same version twice.
Ambiguous(records, path) ==
    LET versions == OfPath(records, "file", path)
    IN  \E i, j \in DOMAIN versions : i < j /\ versions[i].version = versions[j].version

\* _latest of the investigation: the last record read.
Latest(records, kind, path) ==
    LET versions == OfPath(records, kind, path) IN IF versions = <<>> THEN {} ELSE {versions[Len(versions)]}

NextVersion(current) == IF current = {} THEN 1 ELSE 1 + (CHOOSE r \in current : TRUE).version

-----------------------------------------------------------------------------
\* What needs review.

Dependents(records, target) == {r.id : r \in {s \in Range(records) : target \in s.links}}

\* FAULT: the flag goes one link far.
RECURSIVE PropagatedOnce(_, _, _)
PropagatedOnce(records, pending, stale) ==
    IF pending = <<>> THEN stale
    ELSE PropagatedOnce(records, Tail(pending), stale \cup Dependents(records, Head(pending)))

\* The worklist of query_project_knowledge and of _evaluated.
RECURSIVE Propagated(_, _, _)
Propagated(records, pending, stale) ==
    IF pending = <<>> THEN stale
    ELSE LET found == Dependents(records, Head(pending))
         IN  Propagated(records, Tail(pending) \o SetToSeq(found \ stale), stale \cup found)

Flagged(records, base) == Propagated(records, SetToSeq(base), base)

\* query_project_knowledge: a file that is not its path's highest version.
OldFiles(records) ==
    {r.id : r \in {s \in Range(records) : s.kind = "file" /\ s \notin Files(records, s.path)}}

NeedsReview == LET records == Read(log, ProjectKinds) IN Flagged(records, OldFiles(records))

\* _evaluated: an asset or file that is not the last of its path in read order.
Replaced(records) ==
    {r.id : r \in {s \in Range(records) : s.kind \in {"asset", "file"} /\ s \notin Latest(records, s.kind, s.path)}}

InvestigationNeedsReview == LET records == Read(log, AllKinds) IN Flagged(records, Replaced(records))

-----------------------------------------------------------------------------
Versioned(kind, path, hash, version) ==
    [kind |-> kind, path |-> path, hash |-> hash, version |-> version, links |-> {}]
Linked(kind, links) ==
    [kind |-> kind, path |-> NoPath, hash |-> NoHash, version |-> 0, links |-> links]

Ids(kinds) == {i \in DOMAIN log : log[i].kind \in kinds}
Present == Read(log, AllKinds)

\* index_project_files, one of its files: the version it computed before it had the
\* lock must be the one that is due under it, and a content that is current already
\* is not recorded again.
IndexFile(path) ==
    LET current == Files(Present, path)
    IN  \E hash \in Hashes :
            /\ \A r \in current : r.hash # hash
            /\ ~Ambiguous(Present, path)
            /\ \E r \in Rows(Versioned("file", path, hash, NextVersion(current))) :
                    Fits(r) /\ AppendRecord(r)

\* register_analysis_asset
RegisterAsset(path) ==
    LET current == Latest(Present, "asset", path)
    IN  /\ Cardinality(Ids({"asset"})) < MaxAssets
        /\ \E hash \in Hashes :
            /\ \A r \in current : r.hash # hash
            /\ \E r \in Rows(Versioned("asset", path, hash, NextVersion(current))) :
                    Fits(r) /\ AppendRecord(r)

\* record_project_knowledge
RecordKnowledge ==
    \E links \in SUBSET Ids(ProjectKinds) :
        \E r \in Rows(Linked("knowledge", links)) : Fits(r) /\ AppendRecord(r)

\* record_analysis_finding, bound to the exact asset.
RecordFinding ==
    \E asset \in Ids({"asset"}) :
        \E r \in Rows(Linked("finding", {asset})) : Fits(r) /\ AppendRecord(r)

\* record_notebook_entry: links to any records of the project.
RecordNotebook ==
    \E links \in SUBSET Ids(AllKinds) :
        \E r \in Rows(Linked("notebook", links)) : Fits(r) /\ AppendRecord(r)

Init == log = <<>> /\ clock \in Instants

Next ==
    \/ SetClock
    \/ \E path \in Paths : IndexFile(path) \/ RegisterAsset(path)
    \/ RecordKnowledge \/ RecordFinding \/ RecordNotebook

Spec == Init /\ [][Next]_vars

-----------------------------------------------------------------------------

\* However the clock is set, the index never finds two records of one version, and
\* the version it takes for current is the one that was committed last.
IndexFollowsCommits ==
    \A path \in Paths :
        LET ids == {i \in Ids({"file"}) : log[i].path = path}
        IN  /\ ~Ambiguous(Present, path)
            /\ ids # {} => {r.id : r \in Files(Present, path)} = {CHOOSE i \in ids : \A j \in ids : j <= i}

\* What project-context flags is what depends, over any number of links, on a file
\* that has a newer recorded version, and nothing else.
RECURSIVE Reaches(_, _)
Reaches(i, old) == i \in old \/ \E j \in log[i].links : Reaches(j, old)
FlagsReachAllDependents ==
    NeedsReview = {i \in Ids(ProjectKinds) :
                     Reaches(i, {k \in Ids({"file"}) : \E j \in Ids({"file"}) : j > k /\ log[j].path = log[k].path})}

\* While no clock was set back, what an investigation shows as needing review is
\* what depends, over any number of links, on an asset or an indexed file that has
\* a newer version.
NewerAssetMakesStale ==
    Ordered(Present) =>
        InvestigationNeedsReview =
            {i \in Ids(AllKinds) :
                Reaches(i, {k \in Ids({"asset", "file"}) :
                    \E j \in Ids({log[k].kind}) : j > k /\ log[j].path = log[k].path})}
=============================================================================
