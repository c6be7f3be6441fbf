--------------------------- MODULE ProjectRecords ---------------------------
(***************************************************************************)
(* One project's log with every family of records on it at once: versions  *)
(* of files and what links to them, and the records that replace one       *)
(* another.  The families share the rows, the clock and the bound on what  *)
(* is read, so that each one's history has the others' rows in between.    *)
(***************************************************************************)
EXTENDS KnowledgeLog

CONSTANTS Paths, Hashes, MaxAssets, NoPath, NoHash, Subjects

Files == INSTANCE VersionedFiles
Chains == INSTANCE SuccessorChains

Init == log = <<>> /\ clock \in Instants

Next == Files!Next \/ Chains!Next

Spec == Init /\ [][Next]_<<log, clock>>

-----------------------------------------------------------------------------
\* What the families promise, each among the rows of the others.

\* However the clock is set, index_project_files and its readers take the version
\* committed last for current.
IndexFollowsCommits == Files!IndexFollowsCommits

\* query_project_knowledge flags exactly what depends, over any number of links,
\* on a file that was indexed again.
FlagsReachAllDependents == Files!FlagsReachAllDependents

\* query_investigation shows as stale exactly what depends on a replaced asset or
\* file, as long as no clock was set back.
NewerAssetMakesStale == Files!NewerAssetMakesStale

\* Of two callers that saw the same collection, fact, attempt or review, one is
\* refused: no record is replaced twice.
NoForks == Chains!NoForks

\* query_temporal_facts shows one form of every claim at every past instant.
KnownHasOneForm == Chains!KnownHasOneForm
=============================================================================
