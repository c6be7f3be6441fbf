----------------------------- MODULE MCProjects -----------------------------
(***************************************************************************)
(* One run over the log of a project: imports of capsules and decisions     *)
(* between variants, or the families of records that replace one another.   *)
(* `which` says which of the two a behaviour follows: each is explored with *)
(* the log to itself, within bounds of its own.                             *)
(***************************************************************************)
EXTENDS WorkspaceImport

CONSTANTS Paths, MaxAssets, MaxRows, NoPath, NoHash, Subjects

VARIABLE which

R == INSTANCE ProjectRecords WITH MaxRecords <- MaxRows

ProjectsInit == which \in {"import", "records"} /\ Init /\ R!Init

ProjectsNext ==
    \/ which = "import" /\ Next /\ UNCHANGED which
    \/ which = "records" /\ R!Next /\ UNCHANGED <<which, import>>

ProjectsSpec == ProjectsInit /\ [][ProjectsNext]_<<which, vars>>

Symmetry == Permutations(Importers) \cup Permutations(Hashes)

----------------------------------------------------------------------------
\* import_workspace, resolve_workspace_conflict: whatever was appended, the next call
\* can read the project; nothing is there twice.
ImportsReplay == which = "import" => HistoryReplays

\* import_workspace: only an import that may fork puts a second variant beside
\* another, and one that reports success has put all of its capsule there.
ImportsAreWanted == which = "import" => ForksAreWanted /\ DoneIsComplete

\* project_knowledge.py: readers take the version committed last for current.
IndexFollowsCommits == which = "records" => R!IndexFollowsCommits

\* query_project_knowledge, query_investigation: what depends on a replaced file or
\* asset is flagged, and nothing else is.
DependentsFlagged == which = "records" => R!FlagsReachAllDependents /\ R!NewerAssetMakesStale

\* Records that replace one another: of two callers that saw the same record one is
\* refused, and every claim has one form at every past instant.
NoForks == which = "records" => R!NoForks /\ R!KnownHasOneForm
=============================================================================
