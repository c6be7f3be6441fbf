---------------------------- MODULE Checkpoints ----------------------------
(***************************************************************************)
(* Project-state checkpoints of one project (src/continuum/core/store.py,   *)
(* record_project_state and repair_invalid_project_state_checkpoints;       *)
(* src/continuum/core/workers.py, detect_conflicts and resolve_conflict).   *)
(* Every agent keeps a line of checkpoint cards, the newest being its       *)
(* current head.  Heads of different agents that disagree are put into a    *)
(* conflict group; a person resolves a group, or a whole boundary, by       *)
(* naming a winner.  A damaged card is taken out of the lines by a repair   *)
(* that plans on what it read and commits only if nobody wrote since.       *)
(***************************************************************************)
EXTENDS Naturals, Sequences, FiniteSets, FiniteSetsExt

CONSTANTS
    Agents,
    Deniers,         \* the agents whose checkpoints negate what the others say
    MaxCards,        \* bound on checkpoints
    MaxDamages,      \* bound on cards damaged from outside
    MaxStirs,        \* bound on writes to other tables while a repair plans
    CandidateLimit,  \* the largest candidate_card_limit of a scan
    RepairLimit      \* limit of a repair

VARIABLES
    card,    \* the cards, in order of creation
    proofs,  \* audit events of supersessions and receipts of resolutions
    scan,    \* the cards that the running detect_conflicts selected
    plan,    \* the running repair
    harm, stirs

vars == <<card, proofs, scan, plan, harm, stirs>>

Ids == 1 .. Len(card)
Null == 0

\* prev, next: supersedes and superseded_by; current: a status that may be current;
\* payload: its text is that of its source event; evidence: card and event name the
\* same agent, else the card names one of its own; sealed: a quarantine receipt binds
\* the card as it is.
Card(a, p) == [agent |-> a, prev |-> p, next |-> Null, group |-> Null,
               current |-> TRUE, payload |-> TRUE, evidence |-> TRUE, sealed |-> FALSE]

NoScan == [on |-> FALSE, of |-> {}]
NoPlan == [on |-> FALSE, fresh |-> TRUE, again |-> FALSE, heads |-> {}, restore |-> {}, retire |-> {},
           detach |-> {}, free |-> {}, ungroup |-> {}]

Init ==
    /\ card = <<>> /\ proofs = {}
    /\ scan = NoScan /\ plan = NoPlan
    /\ harm = 0 /\ stirs = 0

\* Card and source event do not contradict each other on the agent; they agree on
\* the agent and on the text.
Attributed(c) == card[c].evidence
Intact(c) == card[c].payload /\ Attributed(c)

\* A receipt binds the quarantined card and its source events as they are.
Quarantined(c) == card[c].sealed
Altered(new) == [new EXCEPT !.sealed = FALSE]

Referenced(c) == \E d \in Ids : card[d].prev = c
IsHead(c) == card[c].current /\ card[c].next = Null /\ ~Referenced(c)
Heads == {c \in Ids : IsHead(c)}
InGroup(g) == {c \in Ids : card[c].group = g}
GroupsOf(cards) == {cards[c].group : c \in Ids} \ {Null}
Groups == GroupsOf(card)

\* Every commit of another connection changes the data_version a plan rests on.
Commit(new) == card' = new /\ plan' = [plan EXCEPT !.fresh = FALSE]

----------------------------------------------------------------------------
(* record_project_state                                                      *)

\* Why a checkpoint of agent a is refused.
Blocked(a) == \E h \in Heads : ~Attributed(h) \/ (card[h].agent = a /\ ~Intact(h))

\* FAULT: a contested head does not keep its agent from recording.
Uncontested(a) == FALSE

Contested(a) == \E h \in Heads : card[h].agent = a /\ card[h].group # Null

\* The heads that a new checkpoint replaces, and the newest, which it names.
Previous(a) == {h \in Heads : card[h].agent = a}
Direct(old) == IF old = {} THEN Null ELSE Max(old)

Record(a) ==
    LET old == Previous(a)
        n == Len(card) + 1
    IN
    /\ Len(card) < MaxCards /\ ~Blocked(a) /\ ~Contested(a)
    /\ Commit(Append([c \in Ids |-> IF c \in old THEN [card[c] EXCEPT !.next = n] ELSE card[c]],
                     Card(a, Direct(old))))
    /\ proofs' = IF old = {} THEN proofs
                 ELSE proofs \cup {[act |-> "record", win |-> n, of |-> old, first |-> Direct(old)]}
    /\ UNCHANGED <<scan, harm, stirs>>

----------------------------------------------------------------------------
(* detect_conflicts                                                          *)

Boundary(S) == S = Ids
OfAgent(a) == {c \in Ids : card[c].agent = a}
ClosedTitle(a, S) == OfAgent(a) \subseteq S

\* FAULT: whatever was read of a group passes for the group.
AnyPart(cards, g, S) == g # Null

\* _complete_conflict_groups
Whole(cards, g, S) == g # Null /\ {c \in Ids : cards[c].group = g} \subseteq S

\* A card together with the cards of its title and of its group.
Related(c) == OfAgent(card[c].agent) \cup (IF card[c].group = Null THEN {} ELSE InGroup(card[c].group))
Spread(S) == S \cup UNION {Related(c) : c \in S}
Closure(c) == LET grow[k \in 0 .. MaxCards] == IF k = 0 THEN {c} ELSE Spread(grow[k - 1]) IN grow[MaxCards]

\* The anchor's closure, cut at the limit, or all of it and other cards as they fit;
\* a pass over the whole root may fill the rest with cards that are no checkpoints.
Look ==
    /\ ~scan.on
    /\ \E S \in SUBSET Ids :
          /\ Cardinality(S) \in 1 .. CandidateLimit
          /\ \E anchor \in Ids : S \subseteq Closure(anchor) \/ Closure(anchor) \subseteq S
          /\ scan' = [on |-> TRUE, of |-> S]
    /\ UNCHANGED <<card, proofs, plan, harm, stirs>>

\* _clear_orphan_conflict_groups, for the groups that mutation_limit leaves time for:
\* what is no head leaves its group, a lone head too.
Clear(cards, S, done) ==
    LET heads(g) == {c \in S \cap Heads : cards[c].group = g}
        leaves(c) == c \in S /\ cards[c].group \in done /\ Whole(cards, cards[c].group, S)
                     /\ (c \notin Heads \/ Cardinality(heads(cards[c].group)) < 2)
    IN [c \in Ids |-> IF leaves(c) THEN [cards[c] EXCEPT !.group = Null] ELSE cards[c]]

SameGroup(cards, S, c, d) == cards[c].group = cards[d].group /\ Whole(cards, cards[c].group, S)

\* Successive checkpoints of one agent are no conflict.  Titles name the agent, so
\* cards of two agents are compared only when the whole boundary was read.
Disagree(S, c, d) ==
    /\ ~(card[c].agent = card[d].agent /\ Attributed(c) /\ Attributed(d))
    /\ card[c].agent = card[d].agent \/ (Boundary(S) /\ (card[c].agent \in Deniers) # (card[d].agent \in Deniers))

Adjacent(cards, S, c, d) == c # d /\ (SameGroup(cards, S, c, d) \/ Disagree(S, c, d))

\* The heads that chains of disagreements connect with c.
Component(cards, S, c) ==
    LET closed(T) == \A e \in T : \A d \in S \cap Heads : Adjacent(cards, S, e, d) => d \in T
    IN {d \in S \cap Heads : \A T \in SUBSET (S \cap Heads) : c \in T /\ closed(T) => d \in T}
Components(cards, S) == {C \in {Component(cards, S, c) : c \in S \cap Heads} : Cardinality(C) > 1}

\* A component is acted upon only if no member of it can lie outside what was read.
Closed(cards, S, C) ==
    /\ \A c \in C : cards[c].group = Null \/ Whole(cards, cards[c].group, S)
    /\ \/ Boundary(S)
       \/ \A c \in C : ClosedTitle(card[c].agent, S)
       \/ \A c \in C : cards[c].group # Null

\* A dismissal stands while its members' titles and texts are what they were.
Stands(C) == \A c \in C : card[c].payload
Dismissed(C) == (\E p \in proofs : p.act = "dismiss" /\ p.of = C) /\ Stands(C)

\* The group that the oldest grouped member has, or one named after the oldest member.
GroupOf(cards, C) ==
    LET grouped == {c \in C : cards[c].group # Null}
    IN IF grouped = {} THEN Min(C) ELSE cards[Min(grouped)].group

\* The components that a pass may act upon; limit, card_id and mutation_limit say
\* which of them it does.
Known(cards, S) == {C \in Components(cards, S) : Closed(cards, S, C)}

Regroup(cards, acted) ==
    LET mine(c) == CHOOSE C \in acted : c \in C
    IN [c \in Ids |->
          IF c \notin UNION acted THEN cards[c]
          ELSE [cards[c] EXCEPT !.group = IF Dismissed(mine(c)) THEN Null ELSE GroupOf(cards, mine(c))]]

\* Broken groups are cleared before and after.
Scan ==
    /\ scan.on /\ scan' = NoScan
    /\ \E early \in SUBSET Groups : LET cleared == Clear(card, scan.of, early) IN
       \E acted \in SUBSET Known(cleared, scan.of) : LET grouped == Regroup(cleared, acted) IN
       \E late \in SUBSET GroupsOf(grouped) : LET new == Clear(grouped, scan.of, late) IN
          IF new = card THEN UNCHANGED <<card, plan>> ELSE Commit(new)
    /\ UNCHANGED <<proofs, harm, stirs>>

\* The scan's time is up, or the process dies: its transaction is rolled back.
Expire ==
    /\ scan.on /\ scan' = NoScan
    /\ UNCHANGED <<card, proofs, plan, harm, stirs>>

----------------------------------------------------------------------------
(* resolve_conflict                                                          *)

\* The receipt and the audit event of a resolution.
Resolved(act, w, all) == proofs' = proofs \cup {[act |-> act, win |-> w, of |-> all]}

\* The peers are every other head of the boundary, each confirmed by name unless they
\* are the winner's group.  A group that one of them is in lies inside the boundary.
Peers(w) == Heads \ {w}
WholeGroups ==
    \A g \in {card[c].group : c \in Heads} \ {Null} : InGroup(g) \subseteq Heads /\ Cardinality(InGroup(g)) > 1

\* FAULT: the members' integrity is not looked at.
ResolvableUnread(w, peers) ==
    /\ w \in Heads /\ peers # {}
    /\ card[w].group # Null => InGroup(card[w].group) \subseteq Heads

Resolvable(w, peers) ==
    /\ w \in Heads /\ peers # {}
    /\ card[w].group # Null => InGroup(card[w].group) \subseteq Heads
    /\ \A c \in peers \cup {w} : Intact(c)

Supersede(w) ==
    LET peers == Peers(w) IN
    /\ Resolvable(w, peers) /\ WholeGroups
    /\ Commit([c \in Ids |->
          CASE c \in peers -> [card[c] EXCEPT !.next = w, !.group = Null]
            [] c = w -> [card[c] EXCEPT !.group = Null,
                                        !.prev = IF card[w].prev = Null THEN Max(peers) ELSE card[w].prev]
            [] OTHER -> card[c]])
    /\ Resolved("supersede", w, peers \cup {w})
    /\ UNCHANGED <<scan, harm, stirs>>

Dismiss(w) ==
    LET all == InGroup(card[w].group) IN
    /\ card[w].group # Null /\ Resolvable(w, all \ {w})
    /\ Commit([c \in Ids |-> IF c \in all THEN [card[c] EXCEPT !.group = Null] ELSE card[c]])
    /\ Resolved("dismiss", w, all)
    /\ UNCHANGED <<scan, harm, stirs>>

----------------------------------------------------------------------------
(* repair_invalid_project_state_checkpoints                                  *)

Invalid == {c \in Ids : ~Quarantined(c) /\ ~Intact(c)}
Retired == {c \in Ids : ~Quarantined(c) /\ ~card[c].current /\ card[c].next = Null /\ ~Referenced(c)}
Candidates == Invalid \cup Retired

\* _project_state_boundary_proven_edges, for the agents that `known` proves: an audit
\* event proves the heads a checkpoint replaced beside the one it names, a receipt
\* those a resolution put behind its winner.  Members that no longer are what their
\* receipt says are damaged or quarantined, and a receipt allows for those.
ProvenByAudit(known) ==
    UNION {IF /\ card[p.win].prev = p.first /\ p.of \cup {p.win} \subseteq known
              /\ \A c \in p.of : card[c].next = p.win /\ card[c].agent = card[p.win].agent
           THEN {<<c, p.win>> : c \in p.of \ {p.first}} ELSE {}
           : p \in {q \in proofs : q.act = "record"}}
ProvenByReceipt ==
    UNION {{<<c, p.win>> : c \in p.of \ {p.win}} : p \in {q \in proofs : q.act = "supersede"}}
Proven(known) == ProvenByAudit(known) \cup ProvenByReceipt

Trusted == {c \in Ids : ~Quarantined(c) /\ Intact(c)}

\* _project_state_authority_boundary_report: what is wrong, as the cards each issue names.
Linked == {l \in Ids \X Ids : card[l[2]].prev = l[1] \/ card[l[1]].next = l[2]}
NoBacklink == {{e[1], e[2]} : e \in {l \in Linked : card[l[2]].prev = l[1] /\ card[l[1]].next # l[2]}}
NoForwardLink(proven) ==
    {{e[1], e[2]} : e \in {l \in Linked \ proven : card[l[1]].next = l[2] /\ card[l[2]].prev # l[1]}}
CrossAgent(proven) ==
    {{e[1], e[2]} : e \in {l \in Linked \ proven : /\ {l[1], l[2]} \subseteq Trusted
                                                  /\ card[l[1]].agent # card[l[2]].agent}}
UnprovenRetirement == {Retired} \ {{}}
SeveralHeads == {H \in {{c \in Heads \cap Trusted : card[c].agent = a} : a \in Agents} : Cardinality(H) > 1}
BrokenGroups == {G \in {InGroup(g) : g \in Groups} : Cardinality(G) < 2 \/ ~(G \subseteq Heads)}

Issues ==
    LET proven == Proven(Trusted) IN
    NoBacklink \cup NoForwardLink(proven) \cup CrossAgent(proven)
        \cup UnprovenRetirement \cup SeveralHeads \cup BrokenGroups

RestoredBy(h) ==
    {p \in Ids \ Candidates : /\ card[h].prev = p /\ card[p].next = h
                              /\ Attributed(h) /\ Attributed(p) /\ card[p].agent = card[h].agent}
Incoming(h) == {c \in Ids \ Candidates : card[c].next = h} \ RestoredBy(h)
ProvenToRepair == Proven({c \in Ids : Attributed(c)})
ProvenPeers(h) == {c \in Incoming(h) : <<c, h>> \in ProvenToRepair}
UnprovenPeers(h) == Incoming(h) \ ProvenPeers(h)

\* What a repair refuses to guess: issues that no candidate explains, a successor
\* with other predecessors, a peer whose status cannot be put back, too many candidates.
Unexplained == {I \in Issues : I \cap Candidates = {}}
FannedIn == {x \in Candidates : \E s \in Ids \ Candidates :
                 card[s].prev = x /\ \E y \in Ids \ {x} : card[y].next = s}
Irrestorable == {h \in Candidates : \E c \in UnprovenPeers(h) : ~card[c].current}
Unrepairable ==
    Unexplained # {} \/ FannedIn # {} \/ Irrestorable # {} \/ Cardinality(Candidates) > RepairLimit

\* Cards that are quarantined themselves are neither freed nor ungrouped.
Out == Candidates \cup UNION {ProvenPeers(h) : h \in Candidates}
Freed == {s \in Ids \ Out : card[s].prev \in Candidates}
Ungrouped == {c \in Ids \ Out : card[c].group # Null /\ \E h \in Candidates : card[h].group = card[c].group}

Drawn == [on |-> TRUE, fresh |-> TRUE, again |-> plan.again,
          heads |-> Candidates, restore |-> UNION {RestoredBy(h) : h \in Candidates},
          retire |-> UNION {ProvenPeers(h) : h \in Candidates},
          detach |-> UNION {UnprovenPeers(h) : h \in Candidates},
          free |-> Freed, ungroup |-> Ungrouped]

Plan ==
    /\ ~plan.on /\ Candidates # {}
    /\ UNCHANGED <<card, proofs, scan, harm, stirs>>
    /\ ~Unrepairable /\ plan' = Drawn

Sealed(c) == [card[c] EXCEPT !.current = FALSE, !.prev = Null, !.next = Null, !.group = Null, !.sealed = TRUE]
Cut(c) == [card[c] EXCEPT
    !.next = IF c \in plan.restore \cup plan.detach THEN Null ELSE card[c].next,
    !.prev = IF c \in plan.free THEN Null ELSE card[c].prev,
    !.group = IF c \in plan.ungroup THEN Null ELSE card[c].group]

Apply ==
    /\ plan.on /\ plan.fresh
    /\ card' = [c \in Ids |-> IF c \in plan.heads \cup plan.retire THEN Sealed(c) ELSE Cut(c)]
    /\ plan' = NoPlan
    /\ UNCHANGED <<proofs, scan, harm, stirs>>

\* _ProjectStateRepairPlanChangedError: planned once more, then raised.
Replan ==
    /\ plan.on /\ ~plan.fresh
    /\ UNCHANGED <<card, proofs, scan, harm, stirs>>
    /\ plan' = IF ~plan.again /\ Candidates # {} /\ ~Unrepairable
               THEN [Drawn EXCEPT !.again = TRUE] ELSE NoPlan

----------------------------------------------------------------------------
(* The outside                                                               *)

\* A card's text, the agent it names or its status is changed by a hand.
Damage(c) ==
    /\ harm < MaxDamages /\ harm' = harm + 1
    /\ \E new \in {Altered([card[c] EXCEPT !.payload = FALSE]),
                   Altered([card[c] EXCEPT !.evidence = FALSE]),
                   [card[c] EXCEPT !.current = FALSE]} :
          new # card[c] /\ Commit([card EXCEPT ![c] = new])
    /\ UNCHANGED <<proofs, scan, stirs>>

\* Another table of the root is written.
Stir ==
    /\ stirs < MaxStirs /\ stirs' = stirs + 1
    /\ plan.on /\ plan.fresh /\ plan' = [plan EXCEPT !.fresh = FALSE]
    /\ UNCHANGED <<card, proofs, scan, harm>>

Repair == Plan \/ Apply \/ Replan
Detect == Look \/ Scan \/ Expire
Next ==
    \/ \E a \in Agents : Record(a)
    \/ Detect
    \/ \E w \in Ids : Dismiss(w) \/ Supersede(w)
    \/ Repair
    \/ \E c \in Ids : Damage(c)
    \/ Stir

Spec == Init /\ [][Next]_vars /\ WF_vars(Repair)

----------------------------------------------------------------------------
\* detect_conflicts, repair: a conflict group has at least two members and all are
\* heads, however scans, checkpoints, resolutions and repairs follow one another, as
\* long as no member's status was changed by a hand.
GroupsWhole ==
    \A g \in Groups : (\A c \in InGroup(g) : card[c].current)
        => Cardinality(InGroup(g)) > 1 /\ InGroup(g) \subseteq Heads

\* record, resolve, repair: an intact head stops being one only in favour of an intact
\* checkpoint that names it as superseded, never by a scan or a repair.
AuthorityPassesOn ==
    [][\A c \in Ids : IsHead(c) /\ Intact(c) /\ ~IsHead(c)' =>
          \/ harm' # harm
          \/ \E s \in 1 .. Len(card') : card'[c].next = s /\ (IsHead(s) /\ Intact(s))']_vars

\* _record_project_state_quarantine: what is quarantined stays out of the lines.
QuarantineHolds ==
    [][\A c \in Ids : Quarantined(c) => card'[c] = card[c] \/ harm' # harm]_vars

\* detect_conflicts: a scan parts two heads of one group only if the group they belong to was dismissed.
DisputesStay ==
    [][Scan => \A c, d \in Heads : (c # d /\ card[c].group # Null /\ card[c].group = card[d].group)
          => card'[c].group = card'[d].group /\ (card'[c].group # Null \/ \E C \in SUBSET Heads : {c, d} \subseteq C /\ Dismissed(C))]_vars

\* repair: when a damaged card keeps agents from recording, all can record again.
BlockedRecovers == (\E a \in Agents : Blocked(a)) ~> (\A a \in Agents : ~Blocked(a))

\* docs/recovery-and-continuity.md: after a repair semantic verification can proceed.
RepairedIsClean == [][Apply => Issues' = {}]_vars
=============================================================================
