------------------------------ MODULE Handoffs ------------------------------
(***************************************************************************)
(* Claimable handoffs on the Scroll (core/coordination.py): a handoff is   *)
(* a record, and so is every claim, renewal, release and completion of it. *)
(* The state of a handoff is what replaying its records gives.             *)
(*                                                                         *)
(* A transition names the head its caller last saw and the instant its     *)
(* caller started at; both are checked again under the writer lock.        *)
(***************************************************************************)
EXTENDS KnowledgeLog

CONSTANTS
    Actors,       \* the callers
    MaxLease,     \* bound of lease_seconds, in instants
    MaxHandoffs,  \* bound: how many handoffs are created
    MaxOthers,    \* bound: how many records of other families are appended
    Nobody

ASSUME HandoffAssumption == Nobody \notin Actors /\ MaxLease \in Nat \ {0}

\* What replaying the log gives.  The code keeps no such table: every reader
\* replays; it is a variable so that each log is replayed once.
VARIABLE states

vars == <<log, clock, states>>

HandoffKinds == {"handoff", "transition"}
Actions == {"claim", "renew", "release", "complete"}
Leased == {"claim", "renew"}

-----------------------------------------------------------------------------
\* Replaying the history.

\* _handoffs: a handoff as it is created.
Opened(r) == [status |-> "open", owner |-> Nobody, until |-> 0, head |-> r.id, last |-> 0]

Active(s, moment) == s.status = "claimed" /\ moment < s.until

\* FAULT: a claimed handoff stays claimed when its lease is over.
AppliesOpenOnly(s, r) ==
    /\ s.head = r.head
    /\ r.moment >= s.last
    /\ IF r.action = "claim"
       THEN s.status = "open"
       ELSE Active(s, r.moment) /\ s.owner = r.actor

\* _apply_transition, what it requires.
Applies(s, r) ==
    /\ s.head = r.head
    /\ s.status # "completed"
    /\ r.moment >= s.last
    /\ IF r.action = "claim"
       THEN ~Active(s, r.moment)
       ELSE Active(s, r.moment) /\ s.owner = r.actor

\* _apply_transition, what it does.
Applied(s, r) ==
    [status |-> CASE r.action \in Leased -> "claimed"
                  [] r.action = "release" -> "open"
                  [] r.action = "complete" -> "completed",
     owner |-> IF r.action \in Leased THEN r.actor ELSE Nobody,
     until |-> IF r.action \in Leased THEN r.until ELSE 0,
     head |-> r.id,
     last |-> r.moment]

Step(replayed, r) ==
    IF r.kind = "handoff" THEN [replayed EXCEPT !.of = @ @@ (r.id :> Opened(r))]
    ELSE IF r.target \in DOMAIN replayed.of /\ Applies(replayed.of[r.target], r)
    THEN [replayed EXCEPT !.of[r.target] = Applied(@, r)]
    ELSE [replayed EXCEPT !.ok = FALSE]

\* The states after the first n of the records.
Folded(records, ok) ==
    LET fold[n \in 0..Len(records)] ==
            IF n = 0 THEN [ok |-> ok, of |-> <<>>] ELSE Step(fold[n - 1], records[n])
    IN  fold[Len(records)]

\* _handoffs over read_records; ok is FALSE where it raises.
Replay(l) ==
    LET records == Read(l, HandoffKinds)
    IN  Folded(records, Readable(l) /\ Ordered(records))

\* query_handoffs: the status a reader is shown.
Observed(s) == IF s.status = "claimed" /\ clock >= s.until THEN "expired" ELSE s.status

-----------------------------------------------------------------------------
\* The calls.

Created == [kind |-> "handoff", target |-> 0, head |-> 0, action |-> "create",
            actor |-> Nobody, moment |-> 0, until |-> 0]

Transition(h, head, action, a, moment, until) ==
    [kind |-> "transition", target |-> h, head |-> head, action |-> action,
     actor |-> a, moment |-> moment, until |-> until]

HandoffIds == {i \in DOMAIN log : log[i].kind = "handoff"}

\* The heads a caller may have seen.
HeadsOf(h) == {h} \cup {i \in DOMAIN log : log[i].kind = "transition" /\ log[i].target = h}

\* FAULT: only the history before the call is examined.
AcceptsStale(r) == TRUE

\* FAULT: the lease is compared with the instant the call started at.
AcceptsLate(r) ==
    LET after == Replay(Append(log, r))
    IN  /\ after.ok
        /\ r.kind = "transition" =>
            /\ after.of[r.target].head = r.id
            /\ clock >= r.moment

\* The validate callbacks of create_handoff and transition_handoff, under the lock.
Accepts(r) ==
    LET after == Replay(Append(log, r))
    IN  /\ after.ok
        /\ r.kind = "handoff" => r.id \in DOMAIN after.of
        /\ r.kind = "transition" =>
            /\ after.of[r.target].head = r.id
            /\ clock >= r.moment
            /\ r.action \in Leased => clock < after.of[r.target].until
            /\ r.action # "claim" => clock < states[r.target].until

CreateHandoff ==
    /\ Cardinality(HandoffIds) < MaxHandoffs
    /\ \E r \in Rows(Created) : Accepts(r) /\ AppendRecord(r)
    /\ states' = Replay(log').of

\* The caller started at moment, and saw head, some time before.
TransitionHandoff(a) ==
    \E h \in HandoffIds, moment \in Instants :
        \E head \in HeadsOf(h), action \in Actions, lease \in 1..MaxLease :
            /\ action \in Leased \/ lease = 1
            /\ \E r \in Rows(Transition(h, head, action, a, moment,
                                       IF action \in Leased THEN moment + lease ELSE 0)) :
                    Accepts(r) /\ AppendRecord(r)
            /\ states' = Replay(log').of

\* A record of another family of the project, whose own validation passes.
AppendOther ==
    /\ Cardinality({i \in DOMAIN log : log[i].kind = "other"}) < MaxOthers
    /\ \E r \in Rows([Created EXCEPT !.kind = "other"]) : Fits(r) /\ AppendRecord(r)
    /\ UNCHANGED states

Init == log = <<>> /\ clock \in Instants /\ states = <<>>

Next ==
    \/ SetClock /\ UNCHANGED states
    \/ CreateHandoff
    \/ \E a \in Actors : TransitionHandoff(a)
    \/ AppendOther

Spec == Init /\ [][Next]_vars

-----------------------------------------------------------------------------

\* However the clock is set and whatever other families append, every record of
\* the history is accepted again when it is replayed: query_handoffs and the next
\* transition never raise on what earlier calls committed.
HistoryReplays == Replay(log) = [ok |-> TRUE, of |-> states]

\* Every handoff keeps the promise of HandoffLease: at the instant a transition
\* commits, nobody else's lease is running (claim) or its own is (the others).
Tasks == 1..MaxRecords
Shown(h) == IF h \in HandoffIds THEN states[h] ELSE Opened([id |-> h])
Lease == INSTANCE HandoffLease WITH
    now <- clock,
    owner <- [h \in Tasks |-> Shown(h).owner],
    until <- [h \in Tasks |-> Shown(h).until],
    done <- [h \in Tasks |-> Shown(h).status = "completed"]
KeepsLease == Lease!Spec

\* A handoff is never wedged: one that readers see open or expired can be claimed
\* by any actor that names its head, once the clock has caught up with the
\* handoff's history.
ClaimableAgain ==
    Len(log) < MaxRecords => \A h \in HandoffIds, p \in Actors :
        LET s == states[h]
            claim == Transition(h, s.head, "claim", p, clock, clock + 1)
        IN  (/\ Observed(s) \in {"open", "expired"}
             /\ clock >= s.last
             /\ \A i \in DOMAIN log : log[i].kind \in HandoffKinds => Second(clock) >= log[i].at)
            => \A r \in Rows(claim) : r.at = Second(clock) => Accepts(r)
=============================================================================
