--------------------------- MODULE SuccessorChains ---------------------------
(***************************************************************************)
(* Records that replace one another on the append-only log: revisions of   *)
(* a collection (core/coordination.py), corrections of a fact              *)
(* (core/temporal_facts.py), corrections of an attempt and reviews of a    *)
(* procedure (core/experience.py).                                         *)
(*                                                                         *)
(* A record names the one it replaces, as its caller saw it some time      *)
(* before; the transaction that appends it reads the family again and      *)
(* raises if that one is not current any more.  Each family reads in the   *)
(* order of the clock; only collections also require it to be the order    *)
(* of the commits.                                                         *)
(***************************************************************************)
EXTENDS KnowledgeLog

CONSTANT Subjects     \* collections, facts' (subject, predicate), goals, procedures

vars == <<log, clock>>

\* follows: the record that is replaced, 0 for the first of a chain.
Families == {"collection", "fact", "experience", "review"}

Entry(kind, subject, follows, version) ==
    [kind |-> kind, subject |-> subject, follows |-> follows, version |-> version]

-----------------------------------------------------------------------------
\* What each family requires of its i-th record read.

Earlier(records, i) == {records[j] : j \in 1..(i - 1)}
Replaced(records, i) == {r.follows : r \in Earlier(records, i)}

\* _collections: the head is replaced, by the next version.
RevisionSound(records, i) ==
    LET r == records[i]
    IN  IF r.follows = 0 THEN r.version = 1
        ELSE \E head \in Earlier(records, i) :
                /\ head.id = r.follows /\ head.subject = r.subject
                /\ head.id \notin Replaced(records, i)
                /\ r.version = head.version + 1

\* FAULT: a fact may be corrected twice.
CorrectionSoundTwice(records, i) ==
    records[i].follows = 0 \/ \E target \in Earlier(records, i) : target.id = records[i].follows

\* FAULT: the fact that is corrected need not have been read before.
CorrectionSoundUnread(records, i) ==
    LET r == records[i]
    IN  r.follows # 0 => \A j \in DOMAIN records \ {i} : records[j].follows # r.follows

\* _validated of facts, and _history for the corrections of attempts: an earlier record
\* that is not corrected yet, of the same subject, and inserted earlier.
CorrectionSound(records, i) ==
    LET r == records[i]
    IN  r.follows = 0 \/ \E target \in Earlier(records, i) :
            /\ target.id = r.follows /\ target.subject = r.subject
            /\ target.id \notin Replaced(records, i)
            /\ target.id < r.id

\* _history for reviews: the last review read of the procedure.
ReviewSound(records, i) ==
    LET r == records[i]
        reviews == {j \in 1..(i - 1) : records[j].subject = r.subject}
    IN  r.follows = IF reviews = {} THEN 0
                    ELSE records[CHOOSE j \in reviews : \A k \in reviews : k <= j].id

\* FALSE where reading the family raises.
Replays(kind, l) ==
    LET records == Read(l, {kind})
    IN  /\ Readable(l)
        /\ kind = "collection" => Ordered(records)
        /\ \A i \in DOMAIN records :
            CASE kind = "collection" -> RevisionSound(records, i)
              [] kind = "review" -> ReviewSound(records, i)
              [] OTHER -> CorrectionSound(records, i)

-----------------------------------------------------------------------------
\* The calls, each with what its caller saw of the family some time before.

Seen(kind, subject) == {0} \cup {i \in DOMAIN log : log[i].kind = kind /\ log[i].subject = subject}

VersionAfter(i) == IF i = 0 THEN 1 ELSE log[i].version + 1

AppendEntry(kind, subject, follows, version) ==
    \E r \in Rows(Entry(kind, subject, follows, version)) :
        Replays(kind, Append(log, r)) /\ AppendRecord(r)

\* create_collection and revise_collection; the version is one more than the head's.
ReviseCollection(subject) ==
    \E head \in Seen("collection", subject) :
        /\ head = 0 => Seen("collection", subject) = {0}
        /\ AppendEntry("collection", subject, head, VersionAfter(head))

\* record_temporal_fact, correcting a fact or asserting one.
RecordFact(subject) == \E target \in Seen("fact", subject) : AppendEntry("fact", subject, target, 1)

\* record_experience
RecordExperience(goal) == \E target \in Seen("experience", goal) : AppendEntry("experience", goal, target, 1)

\* review_procedure
ReviewProcedure(procedure) ==
    \E head \in Seen("review", procedure) : AppendEntry("review", procedure, head, 1)

Init == log = <<>> /\ clock \in Instants

Next ==
    \/ SetClock
    \/ \E s \in Subjects :
        ReviseCollection(s) \/ RecordFact(s) \/ RecordExperience(s) \/ ReviewProcedure(s)

Spec == Init /\ [][Next]_vars

-----------------------------------------------------------------------------

\* However the calls race and the clock is set, no record is replaced twice: of two
\* callers that saw the same head, one is refused, and no replacement is lost.
NoForks ==
    \A i, j \in DOMAIN log :
        (/\ i < j /\ log[i].kind \in Families /\ log[i].kind = log[j].kind
         /\ log[i].subject = log[j].subject /\ log[i].follows = log[j].follows)
            => log[i].follows = 0 /\ log[i].kind \in {"fact", "experience"}

\* query_temporal_facts: what was known at an instant never includes a correction
\* without what it corrects, so that every claim known then has exactly one current
\* form among those known then.
Known(t) == {i \in DOMAIN log : log[i].kind = "fact" /\ log[i].at <= t}
RECURSIVE Forms(_, _)
Forms(i, known) == {i} \cup UNION {Forms(j, known) : j \in {k \in known : log[k].follows = i}}
KnownHasOneForm ==
    \A t \in {Second(u) : u \in Instants} :
        /\ \A i \in Known(t) : log[i].follows \in Known(t) \cup {0}
        /\ \A i \in {k \in Known(t) : log[k].follows = 0} :
            Cardinality({j \in Forms(i, Known(t)) : \A k \in Known(t) : log[k].follows # j}) = 1
=============================================================================
