------------------------- MODULE MCRecovery_proofs -------------------------
(***************************************************************************)
(* Proofs about the composed recovery of module MCRecovery, for any number *)
(* of recoverers, faults, crashes, agents, cards, damages, files and       *)
(* contents: the evidence of an operation agrees with its receipt and its  *)
(* verdict stands, the groups of conflicting checkpoints stay whole, an    *)
(* authority gives way only to an intact one that names it, and the bytes  *)
(* that a proof binds stay until they can be read from the archive.        *)
(***************************************************************************)
EXTENDS MCRecovery, SequenceTheorems, FiniteSetTheorems, WellFoundedInduction, NaturalsInduction, TLAPS

-----------------------------------------------------------------------------
(* Checkpoints: the cards.                                                   *)

\* What a card and a plan of a repair are.
CardType == [agent : Agents, prev : Nat, next : Nat, group : Nat, current : BOOLEAN,
             payload : BOOLEAN, evidence : BOOLEAN, sealed : BOOLEAN]
PlanType == [on : BOOLEAN, fresh : BOOLEAN, again : BOOLEAN, heads : SUBSET Nat, restore : SUBSET Nat,
             retire : SUBSET Nat, detach : SUBSET Nat, free : SUBSET Nat, ungroup : SUBSET Nat]

\* A quarantined card is out of the lines and of the groups.
Shelved(r) == r.sealed => ~r.current /\ r.prev = 0 /\ r.next = 0 /\ r.group = 0

\* No card refers to one that is not there yet, and what is quarantined is shelved.
Cards ==
    /\ card \in Seq(CardType)
    /\ \A c \in K!Ids : card[c].prev <= Len(card) /\ Shelved(card[c])

\* A plan that is still fresh says of the cards what is still true of them.
Fresh ==
    plan.on /\ plan.fresh =>
        /\ plan.heads = K!Candidates
        /\ plan.retire = UNION {K!ProvenPeers(h) : h \in K!Candidates}
        /\ plan.ungroup = K!Ungrouped
        /\ K!Unexplained = {}

\* The checkpoints, between two steps.
Lines == Cards /\ plan \in PlanType /\ Fresh /\ scan.of \in SUBSET K!Ids /\ harm \in Nat

\* Changing cards one by one keeps how many there are.
LEMMA OneByOne ==
    ASSUME NEW n \in Nat, NEW S, NEW f \in [1 .. n -> S]
    PROVE  f \in Seq(S) /\ Len(f) = n
<1>1. f \in Seq(S)
  BY SeqDef
<1>2. DOMAIN f = 1 .. n /\ DOMAIN f = 1 .. Len(f) /\ Len(f) \in Nat
  BY <1>1, LenProperties
<1> QED
  BY <1>1, <1>2

\* What the shape of the cards says of one of them.
LEMMA OfCard ==
    ASSUME Cards
    PROVE  /\ Len(card) \in Nat
           /\ \A c \in K!Ids : /\ card[c] \in CardType
                               /\ c \in Nat /\ c > 0 /\ c <= Len(card)
BY ElementOfSeq, LenProperties DEF Cards, K!Ids

\* A set of cards that is not empty has an oldest and a newest card.
LEMMA Least ==
    ASSUME NEW S \in SUBSET Nat, S # {}
    PROVE  \E k \in S : \A j \in S : k <= j
<1> DEFINE R == OpToRel(<, Nat)
<1>1. IsWellFoundedOn(R, Nat)
  BY NatLessThanWellFounded, Zenon
<1>2. \A k, m \in Nat : k < m => <<k, m>> \in R
  BY DEF OpToRel
<1> HIDE DEF R
<1>3. PICK k \in S : \A j \in S : ~(<<j, k>> \in R)
  BY <1>1, WFMin
<1>4. \A j \in S : k <= j
  <2> TAKE j \in S
  <2>1. j \in Nat /\ k \in Nat /\ ~(j < k)
    BY <1>2, <1>3
  <2> QED
    BY <2>1
<1> QED
  BY <1>3, <1>4

\* The same, from above.
LEMMA Greatest ==
    ASSUME NEW n \in Nat, NEW S \in SUBSET (0 .. n), S # {}
    PROVE  \E k \in S : \A j \in S : j <= k
<1> DEFINE T == {k \in Nat : n - k \in S}
<1>1. \A j \in S : n - j \in T
  <2> TAKE j \in S
  <2>1. n - j \in Nat /\ n - (n - j) = j
    OBVIOUS
  <2> QED
    BY <2>1
<1>2. T \in SUBSET Nat
  OBVIOUS
<1>3. PICK k \in T : \A j \in T : k <= j
  <2> HIDE DEF T
  <2> QED
    BY <1>1, <1>2, Least
<1>4. n - k \in S
  OBVIOUS
<1>5. \A j \in S : j <= n - k
  <2> TAKE j \in S
  <2>1. k <= n - j /\ k \in Nat
    BY <1>1, <1>3
  <2> QED
    BY <2>1
<1> QED
  BY <1>4, <1>5

\* The minimum of a set of cards is one of them.
LEMMA Smallest ==
    ASSUME NEW n \in Nat, NEW S \in SUBSET (1 .. n), S # {}
    PROVE  K!Min(S) \in S
<1>1. S \in SUBSET Nat
  OBVIOUS
<1> QED
  BY <1>1, Least DEF K!Min

\* So is the maximum.
LEMMA Largest ==
    ASSUME NEW n \in Nat, NEW S \in SUBSET (1 .. n), S # {}
    PROVE  K!Max(S) \in S
<1>1. S \in SUBSET (0 .. n)
  OBVIOUS
<1>2. PICK k \in S : \A j \in S : j <= k
  BY <1>1, Greatest
<1>3. \A j \in S : k >= j
  <2> TAKE j \in S
  <2>1. j <= k /\ j \in Nat /\ k \in Nat
    BY <1>1, <1>2
  <2> QED
    BY <2>1
<1> QED
  BY <1>2, <1>3 DEF K!Max

\* What a new checkpoint leaves: those it replaces point to it, the rest is as it was.
LEMMA Recorded ==
    ASSUME Cards, NEW a \in Agents, K!Record(a)
    PROVE  LET n == Len(card) + 1
               old == K!Previous(a)
           IN  /\ Len(card') = n /\ Cards' /\ plan' = [plan EXCEPT !.fresh = FALSE]
               /\ old \subseteq K!Heads
               /\ \A c \in K!Ids : card'[c] = IF c \in old THEN [card[c] EXCEPT !.next = n] ELSE card[c]
               /\ card'[n] = K!Card(a, K!Direct(old))
               /\ K!Direct(old) \in old \cup {0}
<1> DEFINE n == Len(card) + 1
           old == K!Previous(a)
           f == [c \in K!Ids |-> IF c \in old THEN [card[c] EXCEPT !.next = n] ELSE card[c]]
           new == K!Card(a, K!Direct(old))
<1>1. card' = Append(f, new) /\ plan' = [plan EXCEPT !.fresh = FALSE]
  BY DEF K!Record, K!Commit
<1>2. old \subseteq K!Heads /\ K!Heads \subseteq K!Ids
  BY DEF K!Previous, K!Heads
<1>3. K!Direct(old) \in old \cup {0}
  BY <1>2, Largest, OfCard DEF K!Direct, K!Null, K!Ids
<1>4. K!Direct(old) \in Nat /\ K!Direct(old) <= Len(card)
  BY <1>2, <1>3, OfCard
<1>5. new \in CardType /\ new.prev = K!Direct(old) /\ new.sealed = FALSE
  BY <1>4 DEF K!Card, CardType, K!Null
<1>6. f \in Seq(CardType) /\ Len(f) = Len(card)
  <2>1. Len(card) \in Nat
    BY OfCard
  <2>2. f \in [1 .. Len(card) -> CardType]
    BY OfCard DEF K!Ids, CardType
  <2> HIDE DEF f
  <2> QED
    BY <2>1, <2>2, OneByOne
<1>7. /\ card' \in Seq(CardType) /\ Len(card') = n
      /\ card'[n] = new /\ \A c \in K!Ids : card'[c] = f[c]
  <2> HIDE DEF f, new
  <2> QED
    BY <1>1, <1>5, <1>6 DEF K!Ids
<1>8. \A c \in K!Ids : card'[c] = IF c \in old THEN [card[c] EXCEPT !.next = n] ELSE card[c]
  BY <1>7
<1>9. Cards'
  <2>1. \A c \in K!Ids' : c \in K!Ids \/ c = n
    BY <1>7, OfCard DEF K!Ids
  <2>2. \A c \in K!Ids : card'[c].prev = card[c].prev /\ Shelved(card'[c])
    <3> TAKE c \in K!Ids
    <3>1. card[c] \in CardType /\ Shelved(card[c]) /\ card'[c] \in {card[c], [card[c] EXCEPT !.next = n]}
      BY <1>8, OfCard DEF Cards
    <3>2. CASE card'[c] = card[c]
      BY <3>1, <3>2
    <3>3. CASE c \in old
      <4>1. card[c].current
        BY <1>2, <3>3 DEF K!Heads, K!IsHead
      <4> QED
        BY <1>8, <3>1, <3>3, <4>1 DEF Shelved, CardType
    <3> QED
      BY <1>8, <3>2, <3>3
  <2>3. \A c \in K!Ids' : card'[c].prev <= Len(card') /\ Shelved(card'[c])
    <3> TAKE c \in K!Ids'
    <3>0. \A d \in K!Ids : card[d].prev \in Nat /\ card[d].prev <= Len(card)
      BY OfCard DEF Cards, CardType
    <3>a. Len(card) \in Nat /\ Len(card') = Len(card) + 1
      BY <1>7, OfCard
    <3>1. CASE c \in K!Ids
      BY <3>0, <3>a, <3>1, <2>2
    <3>2. CASE c = n
      <4>1. card'[c].prev <= Len(card) /\ card'[c].sealed = FALSE
        <5> HIDE DEF new
        <5> QED
          BY <3>2, <1>4, <1>5, <1>7
      <4> QED
        BY <4>1, <3>a, <3>2, <1>3, <1>4, <1>5, <1>7 DEF Shelved
    <3> QED
      BY <2>1, <3>1, <3>2
  <2> QED
    BY <1>7, <2>3 DEF Cards
<1> QED
  BY <1>1, <1>2, <1>3, <1>7, <1>8, <1>9

\* Every other step changes cards where they are.
LEMMA Mapped ==
    ASSUME Cards, card' \in [K!Ids -> CardType],
           \A c \in K!Ids : card'[c].prev <= Len(card) /\ Shelved(card'[c])
    PROVE  Cards' /\ Len(card') = Len(card) /\ K!Ids' = K!Ids
<1>1. Len(card) \in Nat /\ card' \in [1 .. Len(card) -> CardType]
  BY OfCard DEF K!Ids
<1>2. card' \in Seq(CardType) /\ Len(card') = Len(card)
  BY <1>1, OneByOne
<1> QED
  BY <1>2 DEF Cards, K!Ids

\* A scan and a dismissal change nothing but the groups of cards.
Regrouped ==
    /\ card' \in [K!Ids -> CardType]
    /\ \A c \in K!Ids : card'[c] = [card[c] EXCEPT !.group = card'[c].group] /\ Shelved(card'[c])

\* A step that changes groups only keeps lines, seals and heads.
LEMMA RegroupedKeeps ==
    ASSUME Cards, Regrouped
    PROVE  /\ Cards' /\ Len(card') = Len(card) /\ K!Ids' = K!Ids
           /\ \A c \in K!Ids : /\ card'[c].next = card[c].next /\ card'[c].prev = card[c].prev
                               /\ card'[c].current = card[c].current /\ card'[c].sealed = card[c].sealed
                               /\ card'[c].agent = card[c].agent
                               /\ card'[c].payload = card[c].payload /\ card'[c].evidence = card[c].evidence
           /\ \A c \in K!Ids : K!IsHead(c)' <=> K!IsHead(c)
           /\ K!Heads' = K!Heads
<1>1. \A c \in K!Ids : /\ card'[c].next = card[c].next /\ card'[c].prev = card[c].prev
                       /\ card'[c].current = card[c].current /\ card'[c].sealed = card[c].sealed
                       /\ card'[c].agent = card[c].agent
                       /\ card'[c].payload = card[c].payload /\ card'[c].evidence = card[c].evidence
  BY OfCard DEF Regrouped, CardType
<1>2. Cards' /\ Len(card') = Len(card) /\ K!Ids' = K!Ids
  BY <1>1, OfCard, Mapped DEF Regrouped, Cards
<1>3. \A c \in K!Ids : K!IsHead(c)' <=> K!IsHead(c)
  BY <1>1, <1>2 DEF K!IsHead, K!Referenced, K!Null
<1> QED
  BY <1>1, <1>2, <1>3 DEF K!Heads

\* The instance counts as this module does.
LEMMA SameCount == \A S : K!Cardinality(S) = Cardinality(S)
BY DEF K!Cardinality, Cardinality

\* A set of cards has two elements or more when it has two that differ.
LEMMA TwoOf ==
    ASSUME NEW n \in Nat, NEW S \in SUBSET (1 .. n)
    PROVE  /\ (\E x, y \in S : x # y) => ~(Cardinality(S) < 2) /\ Cardinality(S) > 1
           /\ ~(Cardinality(S) < 2) \/ Cardinality(S) > 1 =>
                  \A x \in S : \E y \in S : y # x
           /\ ~(Cardinality(S) < 2) \/ Cardinality(S) > 1 => S # {}
<1>1. IsFiniteSet(S) /\ Cardinality(S) \in Nat
  <2>1. IsFiniteSet(1 .. n)
    BY FS_Interval
  <2> QED
    BY <2>1, FS_Subset, FS_CardinalityType
<1>2. S = {} => Cardinality(S) = 0
  BY FS_EmptySet
<1>3. \A x \in S : S = {x} \/ \E y \in S : y # x
  OBVIOUS
<1>4. \A x : Cardinality({x}) = 1
  BY FS_Singleton
<1>5. (\E x, y \in S : x # y) => Cardinality(S) # 0 /\ Cardinality(S) # 1
  BY <1>1, FS_EmptySet, FS_Singleton
<1> QED
  BY <1>1, <1>2, <1>3, <1>4, <1>5

-----------------------------------------------------------------------------
(* Scans.                                                                    *)

\* One card is the other but for its group.
But(q, t) == q = [t EXCEPT !.group = q.group]

\* Giving a card another group changes nothing else of it.
LEMMA GroupSet ==
    ASSUME NEW r \in CardType, NEW g \in Nat, NEW q, q = [r EXCEPT !.group = g]
    PROVE  /\ q \in CardType /\ q.group = g
           /\ \A t \in CardType : But(r, t) => But(q, t)
           /\ Shelved(r) /\ g \in {r.group, 0} => Shelved(q)
<1>1. q \in CardType /\ q.group = g
  BY DEF CardType
<1>2. ASSUME NEW t \in CardType, r = [t EXCEPT !.group = r.group]
      PROVE  q = [t EXCEPT !.group = q.group]
  BY <1>1, <1>2 DEF CardType
<1>3. ASSUME Shelved(r), g \in {r.group, 0} PROVE Shelved(q)
  <2>1. /\ q.sealed = r.sealed /\ q.current = r.current /\ q.prev = r.prev /\ q.next = r.next
        /\ q.group = g
    BY DEF CardType
  <2> QED
    BY <1>3, <2>1 DEF Shelved
<1> QED
  BY <1>1, <1>2, <1>3 DEF But

\* The cards as a scan has grouped them so far.
Grouping(cards) ==
    /\ cards \in [K!Ids -> CardType]
    /\ \A c \in K!Ids : cards[c] = [card[c] EXCEPT !.group = cards[c].group]

\* Clearing takes cards out of their group and does nothing else.
LEMMA ClearGroups ==
    ASSUME Cards, NEW cards, Grouping(cards), NEW S, NEW done
    PROVE  /\ Grouping(K!Clear(cards, S, done))
           /\ \A c \in K!Ids : K!Clear(cards, S, done)[c].group \in {cards[c].group, 0}
<1> DEFINE new == K!Clear(cards, S, done)
<1>1. new = [c \in K!Ids |-> new[c]] /\ \A c \in K!Ids : new[c] = cards[c] \/ new[c] = [cards[c] EXCEPT !.group = 0]
  BY DEF K!Clear, K!Null
<1> HIDE DEF new
<1>2. \A c \in K!Ids : cards[c] \in CardType /\ card[c] \in CardType /\ But(cards[c], card[c])
  BY OfCard DEF Grouping, But
<1>3. \A c \in K!Ids : new[c] \in CardType /\ But(new[c], card[c]) /\ new[c].group \in {cards[c].group, 0}
  <2> TAKE c \in K!Ids
  <2>1. CASE new[c] = cards[c]
    BY <1>2, <2>1
  <2>2. CASE new[c] = [cards[c] EXCEPT !.group = 0]
    <3>1. PICK r \in CardType, g \in Nat, q \in {new[c]} :
             r = cards[c] /\ g = 0 /\ q = new[c] /\ q = [r EXCEPT !.group = g]
      BY <1>2, <2>2
    <3> QED
      BY <1>2, <3>1, GroupSet
  <2> QED
    BY <1>1, <2>1, <2>2
<1>4. new \in [K!Ids -> CardType]
  BY <1>1, <1>3
<1> QED
  BY <1>3, <1>4 DEF Grouping, But, new

\* What leaves its group: members of a group that was read whole, all but two heads or more.
LEMMA ClearAt ==
    ASSUME Cards, NEW cards, Grouping(cards), NEW S \in SUBSET K!Ids, NEW done,
           NEW c \in K!Ids
    PROVE  K!Clear(cards, S, done)[c].group =
              IF c \in S /\ cards[c].group \in done /\ K!Whole(cards, cards[c].group, S)
                 /\ (c \notin K!Heads \/ Cardinality({e \in S \cap K!Heads : cards[e].group = cards[c].group}) < 2)
              THEN 0 ELSE cards[c].group
<1>1. cards[c] \in CardType
  BY DEF Grouping
<1>2. K!Clear(cards, S, done)[c] =
        IF c \in S /\ cards[c].group \in done /\ K!Whole(cards, cards[c].group, S)
           /\ (c \notin K!Heads \/ Cardinality({e \in S \cap K!Heads : cards[e].group = cards[c].group}) < 2)
        THEN [cards[c] EXCEPT !.group = 0] ELSE cards[c]
  BY SameCount, Zenon DEF K!Clear, K!Null
<1> QED
  BY <1>1, <1>2 DEF CardType

\* Two heads that a scan finds in one group stay in it.
LEMMA ClearTogether ==
    ASSUME Cards, NEW cards, Grouping(cards), NEW S \in SUBSET K!Ids, NEW done,
           NEW c \in K!Heads, NEW d \in K!Heads, c # d, cards[c].group = cards[d].group
    PROVE  K!Clear(cards, S, done)[c].group = cards[c].group
<1> DEFINE heads == {e \in S \cap K!Heads : cards[e].group = cards[c].group}
<1>1. c \in K!Ids /\ d \in K!Ids
  BY DEF K!Heads
<1>2. K!Whole(cards, cards[c].group, S) => ~(Cardinality(heads) < 2)
  <2> SUFFICES ASSUME K!Whole(cards, cards[c].group, S) PROVE ~(Cardinality(heads) < 2)
    OBVIOUS
  <2>1. c \in heads /\ d \in heads
    BY <1>1 DEF K!Whole
  <2>2. heads \subseteq 1 .. Len(card) /\ Len(card) \in Nat
    BY OfCard DEF K!Ids
  <2> HIDE DEF heads
  <2> QED
    BY <2>1, <2>2, TwoOf
<1> HIDE DEF heads
<1> QED
  BY <1>1, <1>2, ClearAt DEF heads

\* A group is good when a member of it is no longer current, or else all its members
\* are heads and none is alone.
Good(cards, g) ==
    \/ \E x \in K!Ids : cards[x].group = g /\ ~card[x].current
    \/ \A x \in K!Ids : cards[x].group = g => x \in K!Heads /\ \E y \in K!Ids : y # x /\ cards[y].group = g

\* A group that is whole is whole, or empty, after _clear_resolved_conflict_groups.
LEMMA ClearGood ==
    ASSUME Cards, NEW cards, Grouping(cards), NEW S \in SUBSET K!Ids, NEW done,
           NEW g \in Nat \ {0}, Good(cards, g)
    PROVE  Good(K!Clear(cards, S, done), g)
<1> DEFINE new == K!Clear(cards, S, done)
           heads == {e \in S \cap K!Heads : cards[e].group = g}
           cleared == K!Whole(cards, g, S) /\ g \in done
<1>0. \A x \in K!Ids : cards[x].group = g =>
         new[x].group = IF x \in S /\ cleared /\ (x \notin K!Heads \/ Cardinality(heads) < 2) THEN 0 ELSE g
  <2> TAKE x \in K!Ids
  <2> HAVE cards[x].group = g
  <2> DEFINE same == {e \in S \cap K!Heads : cards[e].group = cards[x].group}
  <2>1. heads = same
    OBVIOUS
  <2>2. new[x].group = IF x \in S /\ cards[x].group \in done /\ K!Whole(cards, cards[x].group, S)
                           /\ (x \notin K!Heads \/ Cardinality(same) < 2)
                        THEN 0 ELSE cards[x].group
    BY ClearAt
  <2> HIDE DEF same, heads, new
  <2> QED
    BY <2>1, <2>2
<1>1. \A x \in K!Ids : (cards[x].group = g /\ x \in S /\ cleared /\ (x \notin K!Heads \/ Cardinality(heads) < 2))
                         => new[x].group = 0
  <2> HIDE DEF heads, new, cleared
  <2> QED
    BY <1>0
<1>2. \A x \in K!Ids : (cards[x].group = g /\ ~(cleared /\ (x \notin K!Heads \/ Cardinality(heads) < 2)))
                         => new[x].group = g
  <2> HIDE DEF heads, new, cleared
  <2> QED
    BY <1>0
<1>3. \A x \in K!Ids : new[x].group = g => cards[x].group = g
  BY ClearGroups DEF K!Null
<1>4. heads \subseteq 1 .. Len(card) /\ Len(card) \in Nat
  BY OfCard DEF K!Ids
<1>5. cleared => \A x \in K!Ids : cards[x].group = g => x \in S
  BY DEF K!Whole
<1>6. CASE cleared
  <2>1. \A x \in K!Ids : new[x].group = g => x \in K!Heads /\ ~(Cardinality(heads) < 2) /\ x \in heads
    BY <1>1, <1>3, <1>5, <1>6
  <2>2. \A x \in K!Ids : new[x].group = g => \E y \in K!Ids : y # x /\ new[y].group = g
    <3> TAKE x \in K!Ids
    <3> HAVE new[x].group = g
    <3>1. PICK y \in heads : y # x
      <4> HIDE DEF heads
      <4> QED
        BY <1>4, <2>1, TwoOf
    <3>2. y \in K!Ids /\ cards[y].group = g /\ y \in K!Heads
      OBVIOUS
    <3>3. new[y].group = g
      BY <1>2, <2>1, <3>2
    <3> QED
      BY <3>1, <3>2, <3>3
  <2> QED
    BY <2>1, <2>2 DEF Good
<1>7. CASE ~cleared
  <2>1. \A x \in K!Ids : new[x].group = g <=> cards[x].group = g
    BY <1>2, <1>3, <1>7
  <2>2. Good(new, g)
    <3> HIDE DEF new, cleared
    <3> QED
      BY <2>1 DEF Good
  <2> QED
    BY <2>2
<1> QED
  BY <1>6, <1>7

\* Disagreement is symmetric.
LEMMA AdjacentSymmetric ==
    ASSUME NEW cards, NEW S, NEW c, NEW d, K!Adjacent(cards, S, c, d)
    PROVE  K!Adjacent(cards, S, d, c)
BY DEF K!Adjacent, K!SameGroup, K!Disagree

\* A component holds the card it is drawn from and what its members disagree with,
\* and is the least such set.
Shut(cards, S, T) == \A e \in T : \A d \in S \cap K!Heads : K!Adjacent(cards, S, e, d) => d \in T

\* The component of a head is the least closed set around it.
LEMMA ComponentOf ==
    ASSUME NEW cards, NEW S, NEW c \in S \cap K!Heads
    PROVE  LET C == K!Component(cards, S, c) IN
           /\ C \subseteq S \cap K!Heads /\ c \in C /\ Shut(cards, S, C)
           /\ \A T \in SUBSET (S \cap K!Heads) : c \in T /\ Shut(cards, S, T) => C \subseteq T
<1> DEFINE C == K!Component(cards, S, c)
<1>1. C = {d \in S \cap K!Heads : \A T \in SUBSET (S \cap K!Heads) : c \in T /\ Shut(cards, S, T) => d \in T}
  BY Zenon DEF K!Component, Shut
<1> HIDE DEF C
<1>2. C \subseteq S \cap K!Heads /\ c \in C
  BY <1>1
<1>3. Shut(cards, S, C)
  <2> SUFFICES ASSUME NEW e \in C, NEW d \in S \cap K!Heads, K!Adjacent(cards, S, e, d),
                      NEW T \in SUBSET (S \cap K!Heads), c \in T, Shut(cards, S, T)
               PROVE  d \in T
    BY <1>1 DEF Shut
  <2>1. e \in T
    BY <1>1
  <2> QED
    BY <2>1 DEF Shut
<1>4. \A T \in SUBSET (S \cap K!Heads) : c \in T /\ Shut(cards, S, T) => C \subseteq T
  BY <1>1
<1> QED
  BY <1>2, <1>3, <1>4 DEF C

\* Two heads of one component have the same component: components are apart or equal.
LEMMA ComponentsPart ==
    ASSUME NEW cards, NEW S, NEW c \in S \cap K!Heads, NEW d \in K!Component(cards, S, c)
    PROVE  K!Component(cards, S, d) = K!Component(cards, S, c)
<1> DEFINE C == K!Component(cards, S, c)
           D == K!Component(cards, S, d)
<1>1. /\ C \subseteq S \cap K!Heads /\ c \in C /\ Shut(cards, S, C)
      /\ \A T \in SUBSET (S \cap K!Heads) : c \in T /\ Shut(cards, S, T) => C \subseteq T
  BY ComponentOf
<1>2. /\ D \subseteq S \cap K!Heads /\ d \in D /\ Shut(cards, S, D)
      /\ \A T \in SUBSET (S \cap K!Heads) : d \in T /\ Shut(cards, S, T) => D \subseteq T
  BY <1>1, ComponentOf
<1>3. d \in C
  OBVIOUS
<1> HIDE DEF C, D
<1>4. D \subseteq C
  BY <1>1, <1>2, <1>3
<1>5. Shut(cards, S, C \ D)
  <2> SUFFICES ASSUME NEW e \in C \ D, NEW x \in S \cap K!Heads, K!Adjacent(cards, S, e, x), x \in D
               PROVE  FALSE
    BY <1>1 DEF Shut
  <2>1. K!Adjacent(cards, S, x, e) /\ e \in S \cap K!Heads
    BY <1>1, AdjacentSymmetric
  <2> QED
    BY <1>2, <2>1 DEF Shut
<1>6. c \in D
  <2> SUFFICES ASSUME c \notin D PROVE FALSE
    OBVIOUS
  <2>1. C \subseteq C \ D
    BY <1>1, <1>5
  <2> QED
    BY <1>2, <1>3, <2>1
<1>7. C \subseteq D
  BY <1>1, <1>2, <1>6
<1> QED
  BY <1>4, <1>7 DEF C, D

\* The components a scan acts on are disjoint sets of two heads or more.
LEMMA KnownComponents ==
    ASSUME Cards, NEW cards, NEW S \in SUBSET K!Ids, NEW acted \in SUBSET K!Known(cards, S)
    PROVE  /\ \A C \in acted : /\ C \subseteq S \cap K!Heads /\ Shut(cards, S, C) /\ C \subseteq K!Ids
                               /\ C # {} /\ (\A x \in C : \E y \in C : y # x)
                               /\ \A x \in C : cards[x].group = 0 \/ K!Whole(cards, cards[x].group, S)
           /\ \A C, D \in acted : C \cap D # {} => C = D
<1>1. \A C \in acted : /\ \E c \in S \cap K!Heads : C = K!Component(cards, S, c)
                       /\ Cardinality(C) > 1
                       /\ \A x \in C : cards[x].group = 0 \/ K!Whole(cards, cards[x].group, S)
  BY SameCount DEF K!Known, K!Components, K!Closed, K!Null
<1>2. \A C \in acted : C \subseteq S \cap K!Heads /\ Shut(cards, S, C)
  BY <1>1, ComponentOf
<1>3. \A C \in acted : C # {} /\ \A x \in C : \E y \in C : y # x
  <2> TAKE C \in acted
  <2>1. C \in SUBSET (1 .. Len(card)) /\ Len(card) \in Nat
    BY <1>2, OfCard DEF K!Ids
  <2> QED
    BY <1>1, <2>1, TwoOf
<1>4. \A C, D \in acted : C \cap D # {} => C = D
  <2> TAKE C, D \in acted
  <2> HAVE C \cap D # {}
  <2>1. PICK x \in C \cap D : TRUE
    OBVIOUS
  <2>2. C = K!Component(cards, S, x) /\ D = K!Component(cards, S, x)
    BY <1>1, ComponentsPart
  <2> QED
    BY <2>2
<1> QED
  BY <1>1, <1>2, <1>3, <1>4

\* The members of a component all get the same group, or all none.
GroupGiven(cards, C) == IF K!Dismissed(C) THEN 0 ELSE K!GroupOf(cards, C)

\* The group a component gets is one of its own, or a new one.
LEMMA GroupChosen ==
    ASSUME Cards, NEW cards, Grouping(cards), NEW C \in SUBSET K!Ids, C # {}
    PROVE  /\ K!GroupOf(cards, C) \in Nat
           /\ (\E c \in C : cards[c].group # 0) => K!GroupOf(cards, C) # 0
<1> DEFINE grouped == {c \in C : cards[c].group # 0}
<1>1. K!GroupOf(cards, C) = IF grouped = {} THEN K!Min(C) ELSE cards[K!Min(grouped)].group
  BY Zenon DEF K!GroupOf, K!Null
<1>2. grouped # {} => K!Min(grouped) \in grouped
  BY OfCard, Smallest DEF K!Ids
<1>3. K!Min(C) \in C
  BY OfCard, Smallest DEF K!Ids
<1>4. grouped # {} => cards[K!Min(grouped)].group \in Nat \ {0}
  BY <1>2 DEF Grouping, CardType
<1> QED
  BY <1>1, <1>3, <1>4, OfCard

\* Each card of a component gets the group of that component, the others keep theirs.
LEMMA RegroupAt ==
    ASSUME Cards, NEW cards, Grouping(cards), NEW S \in SUBSET K!Ids, NEW acted \in SUBSET K!Known(cards, S)
    PROVE  LET new == K!Regroup(cards, acted) IN
           /\ Grouping(new)
           /\ \A c \in K!Ids : c \notin UNION acted => new[c].group = cards[c].group
           /\ \A C \in acted : \A c \in C : new[c].group = GroupGiven(cards, C)
<1> DEFINE new == K!Regroup(cards, acted)
           mine(c) == CHOOSE C \in acted : c \in C
<1>1. new = [c \in K!Ids |-> IF c \notin UNION acted THEN cards[c]
                             ELSE [cards[c] EXCEPT !.group = GroupGiven(cards, mine(c))]]
  BY Zenon DEF K!Regroup, GroupGiven, K!Null
<1>2. \A C \in acted : \A c \in C : mine(c) = C
  BY KnownComponents
<1>3. \A C \in acted : GroupGiven(cards, C) \in Nat /\ C \subseteq K!Ids
  BY KnownComponents, GroupChosen DEF GroupGiven
<1> HIDE DEF mine
<1>4. \A c \in K!Ids : IF c \notin UNION acted THEN new[c] = cards[c]
                       ELSE new[c] = [cards[c] EXCEPT !.group = GroupGiven(cards, mine(c))]
                            /\ GroupGiven(cards, mine(c)) \in Nat
  BY <1>1, <1>2, <1>3
<1>5. DOMAIN new = K!Ids /\ new = [c \in K!Ids |-> new[c]]
  BY <1>1
<1> HIDE DEF new
<1>6. \A c \in K!Ids : cards[c] \in CardType /\ card[c] \in CardType
                       /\ cards[c] = [card[c] EXCEPT !.group = cards[c].group]
  BY OfCard DEF Grouping
<1>7. \A c \in K!Ids : new[c] \in CardType /\ But(new[c], card[c])
  <2> TAKE c \in K!Ids
  <2>1. PICK g \in Nat : new[c] = [cards[c] EXCEPT !.group = g]
    <3>1. CASE c \notin UNION acted
      <4>1. cards[c].group \in Nat /\ cards[c] = [cards[c] EXCEPT !.group = cards[c].group]
        BY <1>6 DEF CardType
      <4> QED
        BY <1>4, <3>1, <4>1
    <3>2. CASE c \in UNION acted
      BY <1>4, <3>2
    <3> QED
      BY <3>1, <3>2
  <2>2. PICK r \in CardType, q \in {new[c]} : r = cards[c] /\ q = new[c] /\ q = [r EXCEPT !.group = g]
    BY <1>6, <2>1
  <2>3. But(r, card[c]) /\ card[c] \in CardType
    BY <1>6, <2>2 DEF But
  <2> QED
    BY <2>2, <2>3, GroupSet
<1>8. Grouping(new)
  BY <1>5, <1>7 DEF Grouping, But
<1>9. \A C \in acted : \A c \in C : new[c].group = GroupGiven(cards, C)
  <2> TAKE C \in acted
  <2> TAKE c \in C
  <2>1. c \in K!Ids /\ c \in UNION acted /\ mine(c) = C
    BY <1>2, <1>3
  <2>2. new[c] = [cards[c] EXCEPT !.group = GroupGiven(cards, C)] /\ GroupGiven(cards, C) \in Nat
    BY <1>4, <2>1
  <2> QED
    BY <1>6, <2>1, <2>2, GroupSet
<1> QED
  BY <1>4, <1>8, <1>9 DEF new

\* Heads of one group are in one component, when any of them is in one.
LEMMA GroupTogether ==
    ASSUME Cards, NEW cards, NEW S \in SUBSET K!Ids, NEW acted \in SUBSET K!Known(cards, S),
           NEW C \in acted, NEW c \in C, cards[c].group # 0,
           NEW d \in K!Heads, cards[d].group = cards[c].group
    PROVE  d \in C
<1>0. /\ C \subseteq S \cap K!Heads /\ Shut(cards, S, C)
      /\ \A x \in C : cards[x].group = 0 \/ K!Whole(cards, cards[x].group, S)
  <2>1. /\ \E x \in S \cap K!Heads : C = K!Component(cards, S, x)
        /\ \A x \in C : cards[x].group = 0 \/ K!Whole(cards, cards[x].group, S)
    BY SameCount DEF K!Known, K!Components, K!Closed, K!Null
  <2>2. C \subseteq S \cap K!Heads /\ Shut(cards, S, C)
    BY <2>1, ComponentOf
  <2> QED
    BY <2>1, <2>2
<1>1. c \in S \cap K!Heads /\ Shut(cards, S, C) /\ K!Whole(cards, cards[c].group, S)
  BY <1>0
<1>2. d \in S
  BY <1>1 DEF K!Whole, K!Heads
<1>3. CASE d = c
  BY <1>3
<1>4. CASE d # c
  <2>1. K!Adjacent(cards, S, c, d)
    BY <1>1, <1>4 DEF K!Adjacent, K!SameGroup
  <2> QED
    BY <1>1, <1>2, <2>1 DEF Shut
<1> QED
  BY <1>3, <1>4

\* Two heads of a group are parted only when their component was dismissed.
LEMMA RegroupTogether ==
    ASSUME Cards, NEW cards, Grouping(cards), NEW S \in SUBSET K!Ids, NEW acted \in SUBSET K!Known(cards, S),
           NEW c \in K!Heads, NEW d \in K!Heads, c # d, cards[c].group = cards[d].group, cards[c].group # 0
    PROVE  LET new == K!Regroup(cards, acted) IN
           /\ new[c].group = new[d].group
           /\ new[c].group # 0 \/ \E C \in SUBSET K!Heads : {c, d} \subseteq C /\ K!Dismissed(C)
<1> DEFINE new == K!Regroup(cards, acted)
<1>1. c \in K!Ids /\ d \in K!Ids
  BY DEF K!Heads
<1>2. /\ \A x \in K!Ids : x \notin UNION acted => new[x].group = cards[x].group
      /\ \A C \in acted : \A x \in C : new[x].group = GroupGiven(cards, C)
  BY RegroupAt
<1> HIDE DEF new
<1>3. CASE c \notin UNION acted /\ d \notin UNION acted
  BY <1>1, <1>2, <1>3 DEF new
<1>4. ASSUME NEW C \in acted, c \in C \/ d \in C
      PROVE  /\ new[c].group = new[d].group
             /\ new[c].group # 0 \/ (C \subseteq K!Heads /\ {c, d} \subseteq C /\ K!Dismissed(C))
  <2>1. c \in C /\ d \in C
    BY <1>4, GroupTogether
  <2>2. new[c].group = GroupGiven(cards, C) /\ new[d].group = GroupGiven(cards, C)
    BY <1>2, <2>1
  <2>3. C \subseteq K!Heads /\ C \subseteq K!Ids
    BY KnownComponents
  <2>4. K!GroupOf(cards, C) # 0
    BY <2>1, <2>3, GroupChosen
  <2> QED
    BY <2>1, <2>2, <2>3, <2>4 DEF GroupGiven
<1>5. CASE c \in UNION acted \/ d \in UNION acted
  <2>1. PICK C \in acted : c \in C \/ d \in C
    BY <1>5
  <2> QED
    BY <1>4, <2>1 DEF new
<1> QED
  BY <1>3, <1>5

\* A group that is whole is whole, or empty, after the components got their groups.
LEMMA RegroupGood ==
    ASSUME Cards, NEW cards, Grouping(cards), NEW S \in SUBSET K!Ids, NEW acted \in SUBSET K!Known(cards, S),
           NEW g \in Nat \ {0}, Good(cards, g)
    PROVE  Good(K!Regroup(cards, acted), g)
<1> DEFINE new == K!Regroup(cards, acted)
<1>1. /\ \A x \in K!Ids : x \notin UNION acted => new[x].group = cards[x].group
      /\ \A C \in acted : \A x \in C : new[x].group = GroupGiven(cards, C)
  BY RegroupAt
<1>2. \A C \in acted : C \subseteq K!Heads /\ C \subseteq K!Ids /\ \A x \in C : \E y \in C : y # x
  BY KnownComponents
<1> HIDE DEF new
<1>3. CASE \E x \in K!Ids : cards[x].group = g /\ ~card[x].current
  <2>1. PICK x \in K!Ids : cards[x].group = g /\ ~card[x].current
    BY <1>3
  <2>2. x \notin UNION acted
    BY <1>2, <2>1 DEF K!Heads, K!IsHead
  <2> QED
    BY <1>1, <2>1, <2>2 DEF Good, new
<1>4. CASE \A x \in K!Ids : cards[x].group = g => x \in K!Heads /\ \E y \in K!Ids : y # x /\ cards[y].group = g
  <2>1. ASSUME NEW x \in K!Ids, new[x].group = g, x \in UNION acted
        PROVE  x \in K!Heads /\ \E y \in K!Ids : y # x /\ new[y].group = g
    <3>1. PICK C \in acted : x \in C
      BY <2>1
    <3>2. PICK y \in C : y # x
      BY <1>2, <3>1
    <3> QED
      BY <1>1, <1>2, <2>1, <3>1, <3>2
  <2>2. ASSUME NEW x \in K!Ids, new[x].group = g, x \notin UNION acted
        PROVE  x \in K!Heads /\ \E y \in K!Ids : y # x /\ new[y].group = g
    <3>1. cards[x].group = g
      BY <1>1, <2>2
    <3>2. PICK y \in K!Ids : y # x /\ cards[y].group = g
      BY <1>4, <3>1
    <3>3. x \in K!Heads /\ y \in K!Heads
      BY <1>4, <3>1, <3>2
    <3>4. y \notin UNION acted
      BY <2>2, <3>1, <3>2, <3>3, GroupTogether
    <3> QED
      BY <1>1, <3>2, <3>3, <3>4
  <2>3. \A x \in K!Ids : new[x].group = g => x \in K!Heads /\ \E y \in K!Ids : y # x /\ new[y].group = g
    BY <2>1, <2>2
  <2> QED
    BY <2>3 DEF Good, new
<1> QED
  BY <1>3, <1>4 DEF Good

\* A scan clears, regroups and clears.
LEMMA ScanShape ==
    ASSUME Lines, K!Scan
    PROVE  \E early, late : \E acted \in SUBSET K!Known(K!Clear(card, scan.of, early), scan.of) :
              LET cleared == K!Clear(card, scan.of, early)
                  grouped == K!Regroup(cleared, acted)
              IN /\ Grouping(card) /\ Grouping(cleared) /\ Grouping(grouped)
                 /\ card' = K!Clear(grouped, scan.of, late) /\ Grouping(card')
                 /\ (plan' = plan /\ card' = card) \/ plan' = [plan EXCEPT !.fresh = FALSE]
<1>1. PICK early \in SUBSET K!Groups :
         LET cleared == K!Clear(card, scan.of, early) IN
         \E acted \in SUBSET K!Known(cleared, scan.of) : LET grouped == K!Regroup(cleared, acted) IN
         \E late \in SUBSET K!GroupsOf(grouped) : LET new == K!Clear(grouped, scan.of, late) IN
            IF new = card THEN UNCHANGED <<card, plan>> ELSE K!Commit(new)
  BY DEF K!Scan
<1> DEFINE cleared == K!Clear(card, scan.of, early)
<1>2. PICK acted \in SUBSET K!Known(cleared, scan.of) : LET grouped == K!Regroup(cleared, acted) IN
         \E late \in SUBSET K!GroupsOf(grouped) : LET new == K!Clear(grouped, scan.of, late) IN
            IF new = card THEN UNCHANGED <<card, plan>> ELSE K!Commit(new)
  BY <1>1
<1> DEFINE grouped == K!Regroup(cleared, acted)
<1>3. PICK late \in SUBSET K!GroupsOf(grouped) : LET new == K!Clear(grouped, scan.of, late) IN
            IF new = card THEN UNCHANGED <<card, plan>> ELSE K!Commit(new)
  BY <1>2
<1>4. card' = K!Clear(grouped, scan.of, late) /\ ((plan' = plan /\ card' = card) \/ plan' = [plan EXCEPT !.fresh = FALSE])
  BY <1>3 DEF K!Commit
<1>5. Cards /\ scan.of \in SUBSET K!Ids
  BY DEF Lines
<1>6. Grouping(card)
  <2>1. card \in [K!Ids -> CardType]
    BY <1>5, LenProperties DEF Cards, K!Ids
  <2>2. \A c \in K!Ids : card[c] = [card[c] EXCEPT !.group = card[c].group]
    BY <1>5, OfCard DEF CardType
  <2> QED
    BY <2>1, <2>2 DEF Grouping
<1>7. Grouping(cleared)
  BY <1>5, <1>6, ClearGroups
<1>8. Grouping(grouped)
  <2> HIDE DEF cleared
  <2> QED
    BY <1>5, <1>7, RegroupAt
<1>9. Grouping(card')
  <2> HIDE DEF grouped
  <2> QED
    BY <1>4, <1>5, <1>8, ClearGroups
<1> QED
  BY <1>4, <1>6, <1>7, <1>8, <1>9

\* What the steps that change cards promise.
GoodAll == \A g \in Nat \ {0} : Good(card, g)

\* StateAuthority: what is not current any more gives way to an intact head that names it.
AuthorityStep ==
    \A c \in K!Ids : K!IsHead(c) /\ K!Intact(c) /\ ~K!IsHead(c)' =>
        \/ harm' # harm
        \/ \E s \in 1 .. Len(card') : card'[c].next = s /\ (K!IsHead(s) /\ K!Intact(s))'
\* A quarantined card is left alone.
QuarantineStep ==
    \A c \in K!Ids : K!Quarantined(c) => card'[c] = card[c] \/ harm' # harm
\* A scan parts no two heads of a group unless a dismissal covers both.
DisputesStep ==
    \A c, d \in K!Heads : (c # d /\ card[c].group # 0 /\ card[c].group = card[d].group)
        => card'[c].group = card'[d].group
           /\ (card'[c].group # 0 \/ \E C \in SUBSET K!Heads : {c, d} \subseteq C /\ K!Dismissed(C))

\* A step that changes groups only passes no authority on.
LEMMA RegroupedStep ==
    ASSUME Cards, Regrouped
    PROVE  AuthorityStep /\ QuarantineStep
<1>1. AuthorityStep
  BY RegroupedKeeps DEF AuthorityStep
<1>2. QuarantineStep
  <2> SUFFICES ASSUME NEW c \in K!Ids, card[c].sealed PROVE card'[c] = card[c]
    BY DEF QuarantineStep, K!Quarantined
  <2>1. card[c].group = 0 /\ card[c] \in CardType
    BY OfCard DEF Cards, Shelved
  <2>2. card'[c] = [card[c] EXCEPT !.group = card'[c].group] /\ Shelved(card'[c]) /\ card'[c].sealed
    BY RegroupedKeeps DEF Regrouped
  <2>3. card'[c].group = card[c].group
    BY <2>1, <2>2 DEF Shelved
  <2> QED
    BY <2>1, <2>2, <2>3 DEF CardType
<1> QED
  BY <1>1, <1>2

\* Whether a group is whole depends on groups and heads only.
LEMMA GoodKept ==
    ASSUME Cards, Regrouped, NEW g, Good(card', g)
    PROVE  Good(card, g)'
<1>1. /\ K!Ids' = K!Ids /\ K!Heads' = K!Heads
      /\ \A c \in K!Ids : card'[c].current = card[c].current
  BY RegroupedKeeps
<1> QED
  BY <1>1 DEF Good

\* detect_project_state_conflicts keeps groups whole and disputes together.
LEMMA ScanStep ==
    ASSUME Lines, K!Scan
    PROVE  Regrouped /\ (GoodAll => GoodAll') /\ DisputesStep
<1>1. PICK early, late : \E acted \in SUBSET K!Known(K!Clear(card, scan.of, early), scan.of) :
              LET cleared == K!Clear(card, scan.of, early)
                  grouped == K!Regroup(cleared, acted)
              IN /\ Grouping(card) /\ Grouping(cleared) /\ Grouping(grouped)
                 /\ card' = K!Clear(grouped, scan.of, late) /\ Grouping(card')
                 /\ (plan' = plan /\ card' = card) \/ plan' = [plan EXCEPT !.fresh = FALSE]
  BY ScanShape, Zenon
<1> DEFINE cleared == K!Clear(card, scan.of, early)
<1>2. PICK acted \in SUBSET K!Known(cleared, scan.of) :
         LET grouped == K!Regroup(cleared, acted)
         IN /\ Grouping(card) /\ Grouping(cleared) /\ Grouping(grouped)
            /\ card' = K!Clear(grouped, scan.of, late) /\ Grouping(card')
  BY <1>1, Zenon
<1> DEFINE grouped == K!Regroup(cleared, acted)
<1>3. /\ Grouping(card) /\ Grouping(cleared) /\ Grouping(grouped) /\ Grouping(card')
      /\ card' = K!Clear(grouped, scan.of, late)
  BY <1>2, Zenon
<1>4. Cards /\ scan.of \in SUBSET K!Ids
  BY DEF Lines
<1>5. \A c \in K!Ids : cleared[c].group \in {card[c].group, 0}
  BY <1>3, <1>4, ClearGroups
<1>6. \A c \in K!Ids : c \in K!Heads \/ grouped[c].group = cleared[c].group
  <2> HIDE DEF cleared
  <2>1. \A c \in K!Ids : c \notin UNION acted => grouped[c].group = cleared[c].group
    BY <1>3, <1>4, RegroupAt
  <2>2. UNION acted \subseteq K!Heads
    BY <1>4, KnownComponents
  <2> QED
    BY <2>1, <2>2
<1>7. \A c \in K!Ids : card'[c].group \in {grouped[c].group, 0}
  <2> HIDE DEF grouped
  <2> QED
    BY <1>3, <1>4, ClearGroups
<1>8. Regrouped
  <2> HIDE DEF cleared, grouped
  <2> SUFFICES ASSUME NEW c \in K!Ids PROVE Shelved(card'[c])
    BY <1>3 DEF Regrouped, Grouping
  <2>1. card'[c] = [card[c] EXCEPT !.group = card'[c].group] /\ card[c] \in CardType /\ Shelved(card[c])
    BY <1>3, <1>4, OfCard DEF Grouping, Cards
  <2>2. card[c].sealed => card'[c].group = 0
    <3> HAVE card[c].sealed
    <3>1. c \notin K!Heads
      BY <2>1 DEF K!Heads, K!IsHead, Shelved
    <3> QED
      BY <1>5, <1>6, <1>7, <2>1, <3>1 DEF Shelved
  <2> QED
    BY <2>1, <2>2 DEF Shelved, CardType
<1>9. GoodAll => GoodAll'
  <2> SUFFICES ASSUME NEW g \in Nat \ {0}, Good(card, g) PROVE Good(card, g)'
    BY DEF GoodAll
  <2>1. Good(cleared, g)
    BY <1>3, <1>4, ClearGood
  <2> HIDE DEF cleared
  <2>2. Good(grouped, g)
    BY <1>3, <1>4, <2>1, RegroupGood
  <2> HIDE DEF grouped
  <2>3. Good(K!Clear(grouped, scan.of, late), g)
    BY <1>3, <1>4, <2>2, ClearGood
  <2> QED
    BY <1>3, <1>4, <1>8, <2>3, GoodKept
<1>10. DisputesStep
  <2> SUFFICES ASSUME NEW c \in K!Heads, NEW d \in K!Heads, c # d, card[c].group # 0, card[c].group = card[d].group
               PROVE  /\ card'[c].group = card'[d].group
                      /\ card'[c].group # 0 \/ \E C \in SUBSET K!Heads : {c, d} \subseteq C /\ K!Dismissed(C)
    BY DEF DisputesStep
  <2>1. cleared[c].group = card[c].group /\ cleared[d].group = card[d].group
    BY <1>3, <1>4, ClearTogether
  <2> HIDE DEF cleared
  <2>2. /\ grouped[c].group = grouped[d].group
        /\ grouped[c].group # 0 \/ \E C \in SUBSET K!Heads : {c, d} \subseteq C /\ K!Dismissed(C)
    BY <1>3, <1>4, <2>1, RegroupTogether
  <2> HIDE DEF grouped
  <2>3. card'[c].group = grouped[c].group /\ card'[d].group = grouped[d].group
    BY <1>3, <1>4, <2>2, ClearTogether
  <2> QED
    BY <2>2, <2>3
<1> QED
  BY <1>8, <1>9, <1>10

-----------------------------------------------------------------------------
(* Checkpoints and resolutions.                                              *)

\* record_project_state: the new card names what it replaces.
LEMMA RecordStep ==
    ASSUME Cards, NEW a \in Agents, K!Record(a)
    PROVE  AuthorityStep /\ QuarantineStep /\ (GoodAll => GoodAll')
<1>0. PICK n \in Nat : n = Len(card) + 1
  BY OfCard
<1> DEFINE old == K!Previous(a)
<1>1. /\ Len(card') = n /\ Cards'
      /\ old \subseteq K!Heads
      /\ \A c \in K!Ids : card'[c] = IF c \in old THEN [card[c] EXCEPT !.next = n] ELSE card[c]
      /\ card'[n] = K!Card(a, K!Direct(old))
      /\ K!Direct(old) \in old \cup {0}
  BY <1>0, Recorded
<1>2. Len(card) \in Nat /\ \A c \in K!Ids : /\ card[c] \in CardType
                                            /\ c \in Nat /\ c > 0 /\ c <= Len(card)
  BY OfCard
<1>3. \A c \in K!Ids : card[c].prev \in Nat /\ card[c].prev <= Len(card) /\ Shelved(card[c])
  BY <1>2 DEF Cards, CardType
<1>4. /\ card'[n].prev = K!Direct(old) /\ card'[n].next = 0 /\ card'[n].current /\ card'[n].group = 0
      /\ card'[n].payload /\ card'[n].evidence
  BY <1>1 DEF K!Card, K!Null
<1>5. \A c \in K!Ids : /\ card'[c].prev = card[c].prev /\ card'[c].current = card[c].current
                       /\ card'[c].group = card[c].group
                       /\ card'[c].next = IF c \in old THEN n ELSE card[c].next
  BY <1>1, <1>2 DEF CardType
<1>6. n \in K!Ids' /\ \A c \in K!Ids' : c \in K!Ids \/ c = n
  BY <1>0, <1>1, <1>2 DEF K!Ids
<1>7. \A c \in K!Ids : c \in K!Ids'
  BY <1>0, <1>1, <1>2 DEF K!Ids
<1> HIDE DEF old
<1>8. K!IsHead(n)'
  <2>1. \A d \in K!Ids' : card'[d].prev # n
    <3> TAKE d \in K!Ids'
    <3>1. CASE d \in K!Ids
      BY <1>2, <1>3, <1>5, <3>1, <1>0
    <3>2. CASE d = n
      BY <1>0, <1>1, <1>2, <1>4, <3>2 DEF K!Heads
    <3> QED
      BY <1>6, <3>1, <3>2
  <2> QED
    BY <1>4, <2>1 DEF K!IsHead, K!Referenced, K!Null
<1>9. \A c \in K!Heads : c \notin old => K!IsHead(c)'
  <2> SUFFICES ASSUME NEW c \in K!Heads, c \notin old PROVE K!IsHead(c)'
    OBVIOUS
  <2>1. c \in K!Ids /\ card[c].current /\ card[c].next = 0 /\ \A d \in K!Ids : card[d].prev # c
    BY DEF K!Heads, K!IsHead, K!Referenced, K!Null
  <2>2. \A d \in K!Ids' : card'[d].prev # c
    BY <1>1, <1>2, <1>4, <1>5, <1>6, <2>1
  <2> QED
    BY <1>5, <2>1, <2>2 DEF K!IsHead, K!Referenced, K!Null
<1>10. AuthorityStep
  <2> SUFFICES ASSUME NEW c \in K!Ids, K!IsHead(c), ~K!IsHead(c)'
               PROVE  \E s \in 1 .. Len(card') : card'[c].next = s /\ (K!IsHead(s) /\ K!Intact(s))'
    BY DEF AuthorityStep
  <2>1. c \in old
    BY <1>9 DEF K!Heads
  <2>2. card'[c].next = n
    BY <1>5, <2>1
  <2>3. K!Intact(n)'
    BY <1>4 DEF K!Intact, K!Attributed
  <2> QED
    BY <1>6, <1>8, <2>2, <2>3 DEF K!Ids
<1>11. QuarantineStep
  <2> SUFFICES ASSUME NEW c \in K!Ids, card[c].sealed PROVE c \notin old
    BY <1>1 DEF QuarantineStep, K!Quarantined
  <2> QED
    BY <1>1, <1>3 DEF K!Heads, K!IsHead, Shelved
<1>12. GoodAll => GoodAll'
  <2> SUFFICES ASSUME NEW g \in Nat \ {0}, Good(card, g) PROVE Good(card, g)'
    BY DEF GoodAll
  <2>1. CASE \E x \in K!Ids : card[x].group = g /\ ~card[x].current
    BY <1>5, <1>7, <2>1 DEF Good
  <2>2. CASE \A x \in K!Ids : card[x].group = g => x \in K!Heads /\ \E y \in K!Ids : y # x /\ card[y].group = g
    <3>1. \A x \in K!Ids' : card'[x].group = g => x \in K!Ids /\ card[x].group = g
      BY <1>4, <1>5, <1>6
    <3>2. \A x \in old : card[x].group = 0
      BY DEF old, K!Previous, K!Record, K!Contested, K!Null
    <3>3. \A x \in K!Ids : card[x].group = g => K!IsHead(x)'
      BY <1>9, <2>2, <3>2
    <3> QED
      BY <1>5, <1>7, <2>2, <3>1, <3>3 DEF Good, K!Heads
  <2> QED
    BY <2>1, <2>2 DEF Good
<1> QED
  BY <1>10, <1>11, <1>12

\* resolve_project_state_conflict, when it dismisses: the whole group is let go.
LEMMA DismissStep ==
    ASSUME Cards, NEW w \in K!Ids, K!Dismiss(w)
    PROVE  /\ Regrouped /\ (GoodAll => GoodAll')
           /\ plan' = [plan EXCEPT !.fresh = FALSE]
<1> DEFINE all == K!InGroup(card[w].group)
<1>1. /\ card' = [c \in K!Ids |-> IF c \in all THEN [card[c] EXCEPT !.group = 0] ELSE card[c]]
      /\ plan' = [plan EXCEPT !.fresh = FALSE]
  BY DEF K!Dismiss, K!Commit, K!Null
<1>2. \A c \in K!Ids : card[c] \in CardType /\ Shelved(card[c])
  BY OfCard DEF Cards
<1>3. \A c \in K!Ids : /\ card'[c] \in CardType /\ card'[c] = [card[c] EXCEPT !.group = card'[c].group]
                       /\ card'[c].group = IF c \in all THEN 0 ELSE card[c].group
  BY <1>1, <1>2 DEF CardType
<1>4. card' \in [K!Ids -> CardType]
  BY <1>1, <1>3
<1>5. Regrouped
  <2> SUFFICES ASSUME NEW c \in K!Ids PROVE Shelved(card'[c])
    BY <1>3, <1>4 DEF Regrouped
  <2>1. PICK g \in Nat : g \in {card[c].group, 0} /\ card'[c] = [card[c] EXCEPT !.group = g]
    <3>1. card[c].group \in Nat /\ 0 \in Nat
      BY <1>2 DEF CardType
    <3> QED
      BY <1>3, <3>1
  <2> QED
    BY <1>2, <2>1, GroupSet
<1>6. GoodAll => GoodAll'
  <2> SUFFICES ASSUME NEW g \in Nat \ {0}, Good(card, g) PROVE Good(card, g)'
    BY DEF GoodAll
  <2>1. Good(card', g)
    <3>1. CASE g = card[w].group
      <4>1. \A x \in K!Ids : card'[x].group # g
        BY <1>3, <3>1 DEF K!InGroup
      <4> QED
        BY <4>1 DEF Good
    <3>2. CASE g # card[w].group
      <4>1. \A x \in K!Ids : card'[x].group = g <=> card[x].group = g
        BY <1>3, <3>2 DEF K!InGroup
      <4> QED
        BY <4>1 DEF Good
    <3> QED
      BY <3>1, <3>2
  <2> QED
    BY <1>5, <2>1, GoodKept
<1> QED
  BY <1>1, <1>5, <1>6

\* resolve_project_state_conflict, when a winner supersedes the whole group.
LEMMA SupersedeStep ==
    ASSUME Cards, NEW w \in K!Ids, K!Supersede(w)
    PROVE  /\ Cards' /\ Len(card') = Len(card) /\ plan' = [plan EXCEPT !.fresh = FALSE]
           /\ AuthorityStep /\ QuarantineStep /\ (GoodAll => GoodAll')
<1> DEFINE peers == K!Heads \ {w}
           before == IF card[w].prev = 0 THEN K!Max(peers) ELSE card[w].prev
<1>1. /\ card' = [c \in K!Ids |-> CASE c \in peers -> [card[c] EXCEPT !.next = w, !.group = 0]
                                    [] c = w -> [card[c] EXCEPT !.group = 0, !.prev = before]
                                    [] OTHER -> card[c]]
      /\ plan' = [plan EXCEPT !.fresh = FALSE]
  BY DEF K!Supersede, K!Commit, K!Null, K!Peers
<1>2. /\ w \in K!Heads /\ peers # {} /\ K!Intact(w)
      /\ K!WholeGroups
  BY DEF K!Supersede, K!Resolvable, K!Peers
<1>3. /\ Len(card) \in Nat
      /\ \A c \in K!Ids : /\ card[c] \in CardType /\ c \in Nat /\ c > 0 /\ c <= Len(card)
                          /\ card[c].prev \in Nat /\ card[c].prev <= Len(card) /\ Shelved(card[c])
  BY OfCard DEF Cards, CardType
<1>4. peers \in SUBSET K!Ids /\ w \notin peers
  BY DEF K!Heads
<1>5. K!Max(peers) \in peers
  <2> HIDE DEF peers
  <2> QED
    BY <1>2, <1>3, <1>4, Largest DEF K!Ids
<1> HIDE DEF peers
<1>6. before \in Nat /\ before <= Len(card) /\ before # 0 /\ before # w
  <2>1. card[w].prev # w
    BY <1>2 DEF K!Heads, K!IsHead, K!Referenced
  <2> QED
    BY <1>3, <1>4, <1>5, <2>1
<1>a. before \in K!Heads \cup {card[w].prev}
  BY <1>5 DEF peers
<1> HIDE DEF before
<1>7. \A c \in K!Ids : card'[c] = IF c \in peers THEN [card[c] EXCEPT !.next = w, !.group = 0]
                                  ELSE IF c = w THEN [card[c] EXCEPT !.group = 0, !.prev = before]
                                  ELSE card[c]
  BY <1>1, <1>4
<1>8. \A c \in K!Ids : /\ card'[c] \in CardType
                       /\ card'[c].current = card[c].current
                       /\ card'[c].payload = card[c].payload /\ card'[c].evidence = card[c].evidence
                       /\ card'[c].sealed = card[c].sealed
                       /\ card'[c].next = IF c \in peers THEN w ELSE card[c].next
                       /\ card'[c].prev = IF c = w THEN before ELSE card[c].prev
                       /\ card'[c].group = IF c \in K!Heads THEN 0 ELSE card[c].group
  <2> TAKE c \in K!Ids
  <2>1. card[c] \in CardType /\ w \in Nat /\ before \in Nat
    BY <1>3, <1>6
  <2>2. w \in K!Heads /\ (c \in K!Heads <=> c \in peers \/ c = w)
    BY <1>2, <1>3 DEF peers
  <2>3. PICK x \in Nat, y \in Nat, z \in Nat :
           /\ card'[c] = [card[c] EXCEPT !.next = x, !.prev = y, !.group = z]
           /\ x = IF c \in peers THEN w ELSE card[c].next
           /\ y = IF c = w THEN before ELSE card[c].prev
           /\ z = IF c \in K!Heads THEN 0 ELSE card[c].group
    <3>1. PICK p, n, g \in Nat : p = card[c].prev /\ n = card[c].next /\ g = card[c].group
      BY <2>1 DEF CardType
    <3>2. /\ \A x \in Nat, y \in Nat :
                [card[c] EXCEPT !.next = x, !.group = y] = [card[c] EXCEPT !.next = x, !.prev = p, !.group = y]
          /\ \A x \in Nat, y \in Nat :
                [card[c] EXCEPT !.group = y, !.prev = x] = [card[c] EXCEPT !.next = n, !.prev = x, !.group = y]
          /\ card[c] = [card[c] EXCEPT !.next = n, !.prev = p, !.group = g]
      <4>1. \A x \in Nat, y \in Nat :
               [card[c] EXCEPT !.next = x, !.group = y] = [card[c] EXCEPT !.next = x, !.prev = p, !.group = y]
        BY <2>1, <3>1 DEF CardType
      <4>2. \A x \in Nat, y \in Nat :
               [card[c] EXCEPT !.group = y, !.prev = x] = [card[c] EXCEPT !.next = n, !.prev = x, !.group = y]
        BY <2>1, <3>1 DEF CardType
      <4>3. card[c] = [card[c] EXCEPT !.next = n, !.prev = p, !.group = g]
        BY <2>1, <3>1 DEF CardType
      <4> QED
        BY <4>1, <4>2, <4>3
    <3>3. CASE c \in peers
      <4>1. c # w /\ c \in K!Heads
        BY <1>4, <2>2, <3>3
      <4>2. card'[c] = [card[c] EXCEPT !.next = w, !.group = 0]
        BY <1>7, <3>3
      <4>3. card'[c] = [card[c] EXCEPT !.next = w, !.prev = p, !.group = 0] /\ 0 \in Nat
        BY <2>1, <3>2, <4>2
      <4> QED
        BY <2>1, <3>1, <3>3, <4>1, <4>3, Zenon
    <3>4. CASE c = w
      <4>1. c \notin peers /\ c \in K!Heads
        BY <1>4, <2>2, <3>4
      <4>2. card'[c] = [card[c] EXCEPT !.group = 0, !.prev = before]
        BY <1>7, <3>4, <4>1
      <4>3. card'[c] = [card[c] EXCEPT !.next = n, !.prev = before, !.group = 0] /\ 0 \in Nat
        <5>1. 0 \in Nat /\ before \in Nat
          BY <2>1
        <5> QED
          BY <3>2, <4>2, <5>1
      <4> QED
        BY <2>1, <3>1, <3>4, <4>1, <4>3, Zenon
    <3>5. CASE c \notin peers /\ c # w
      <4>1. c \notin K!Heads
        BY <2>2, <3>5
      <4>2. card'[c] = card[c]
        BY <1>7, <3>5
      <4>3. card'[c] = [card[c] EXCEPT !.next = n, !.prev = p, !.group = g]
        BY <2>1, <3>2, <4>2
      <4> QED
        BY <2>1, <3>1, <3>5, <4>1, <4>3, Zenon
    <3> QED
      BY <3>3, <3>4, <3>5
  <2>4. /\ card'[c] \in CardType /\ card'[c].next = x /\ card'[c].prev = y /\ card'[c].group = z
        /\ card'[c].current = card[c].current /\ card'[c].sealed = card[c].sealed
        /\ card'[c].payload = card[c].payload /\ card'[c].evidence = card[c].evidence
    BY <2>1, <2>3 DEF CardType
  <2> QED
    BY <2>3, <2>4
<1>9. \A c \in K!Ids : Shelved(card'[c])
  <2> TAKE c \in K!Ids
  <2>1. CASE c \in K!Heads
    BY <1>3, <1>8, <2>1 DEF K!Heads, K!IsHead, Shelved
  <2>2. CASE c \notin K!Heads
    BY <1>2, <1>3, <1>8, <2>2 DEF Shelved, peers
  <2> QED
    BY <2>1, <2>2
<1>10. Cards' /\ Len(card') = Len(card) /\ K!Ids' = K!Ids
  <2>1. card' \in [K!Ids -> CardType]
    BY <1>1, <1>8
  <2>2. \A c \in K!Ids : card'[c].prev <= Len(card)
    BY <1>3, <1>6, <1>8
  <2> QED
    BY <1>9, <2>1, <2>2, Mapped
<1>11. K!IsHead(w)' /\ K!Intact(w)'
  <2>1. /\ card[w].current /\ card[w].next = 0 /\ (\A d \in K!Ids : card[d].prev # w)
        /\ card[w].payload /\ card[w].evidence
    BY <1>2 DEF K!Heads, K!IsHead, K!Referenced, K!Null, K!Intact, K!Attributed
  <2>2. \A d \in K!Ids' : card'[d].prev # w
    BY <1>6, <1>8, <1>10, <2>1
  <2>3. card'[w].current /\ card'[w].next = 0 /\ card'[w].payload /\ card'[w].evidence
    BY <1>4, <1>8, <2>1
  <2> QED
    BY <2>2, <2>3 DEF K!IsHead, K!Referenced, K!Null, K!Intact, K!Attributed
<1>12. AuthorityStep
  <2> SUFFICES ASSUME NEW c \in K!Ids, K!IsHead(c), ~K!IsHead(c)'
               PROVE  w \in 1 .. Len(card') /\ card'[c].next = w
    BY <1>11 DEF AuthorityStep
  <2>1. c \in peers
    BY <1>11 DEF K!Heads, peers
  <2> QED
    BY <1>3, <1>8, <1>10, <2>1 DEF K!Ids
<1>13. QuarantineStep
  <2> SUFFICES ASSUME NEW c \in K!Ids, card[c].sealed PROVE card'[c] = card[c]
    BY DEF QuarantineStep, K!Quarantined
  <2>1. c \notin K!Heads
    BY <1>3 DEF K!Heads, K!IsHead, Shelved
  <2> QED
    BY <1>2, <1>7, <2>1 DEF peers
<1>14. GoodAll => GoodAll'
  <2> SUFFICES ASSUME NEW g \in Nat \ {0}, Good(card, g) PROVE Good(card, g)'
    BY DEF GoodAll
  <2>1. CASE \E x \in K!Ids : card[x].group = g /\ ~card[x].current
    <3>1. PICK x \in K!Ids : card[x].group = g /\ ~card[x].current
      BY <2>1
    <3>2. x \notin K!Heads
      BY <3>1 DEF K!Heads, K!IsHead
    <3> QED
      BY <1>8, <1>10, <3>1, <3>2 DEF Good
  <2>2. CASE \A x \in K!Ids : card[x].group = g => x \in K!Heads /\ \E y \in K!Ids : y # x /\ card[y].group = g
    <3>1. \A x \in K!Ids : card'[x].group # g
      BY <1>8, <2>2
    <3> QED
      BY <1>10, <3>1 DEF Good
  <2> QED
    BY <2>1, <2>2 DEF Good
<1> QED
  BY <1>1, <1>10, <1>12, <1>13, <1>14

-----------------------------------------------------------------------------
(* Repairs.                                                                  *)

\* repair_invalid_project_state_checkpoints, applied while its plan is fresh.
LEMMA ApplyStep ==
    ASSUME Cards, Fresh, plan \in PlanType, K!Apply
    PROVE  /\ Cards' /\ Len(card') = Len(card) /\ plan' = K!NoPlan
           /\ AuthorityStep /\ QuarantineStep /\ (GoodAll => GoodAll')
<1> DEFINE out == plan.heads \cup plan.retire
<1>1. /\ card' = [c \in K!Ids |-> IF c \in out THEN K!Sealed(c) ELSE K!Cut(c)]
      /\ plan' = K!NoPlan
  BY DEF K!Apply
<1>2. /\ plan.heads = K!Candidates
      /\ plan.retire = UNION {K!ProvenPeers(h) : h \in K!Candidates}
      /\ plan.ungroup = K!Ungrouped
      /\ K!Unexplained = {}
  BY DEF K!Apply, Fresh
<1>3. /\ Len(card) \in Nat
      /\ \A c \in K!Ids : /\ card[c] \in CardType /\ c \in Nat /\ c > 0 /\ c <= Len(card)
                          /\ card[c].prev \in Nat /\ card[c].prev <= Len(card) /\ Shelved(card[c])
  BY OfCard DEF Cards, CardType
<1> HIDE DEF out
<1>4. \A c \in K!Ids : c \in out =>
          /\ card'[c] \in CardType /\ Shelved(card'[c])
          /\ ~card'[c].current /\ card'[c].prev = 0 /\ card'[c].next = 0 /\ card'[c].group = 0
  BY <1>1, <1>3 DEF K!Sealed, CardType, Shelved, K!Null
<1>5. \A c \in K!Ids : c \notin out =>
          /\ card'[c] \in CardType
          /\ card'[c] = [card[c] EXCEPT !.next = card'[c].next, !.prev = card'[c].prev, !.group = card'[c].group]
          /\ card'[c].next \in {0, card[c].next} /\ card'[c].prev \in {0, card[c].prev}
          /\ card'[c].group = IF c \in plan.ungroup THEN 0 ELSE card[c].group
  <2> TAKE c \in K!Ids
  <2> HAVE c \notin out
  <2>1. PICK x \in {0, card[c].next}, y \in {0, card[c].prev}, z \in {0, card[c].group} :
            /\ card'[c] = [card[c] EXCEPT !.next = x, !.prev = y, !.group = z]
            /\ z = IF c \in plan.ungroup THEN 0 ELSE card[c].group
    BY <1>1 DEF K!Cut, K!Null
  <2>2. card[c] \in CardType /\ x \in Nat /\ y \in Nat /\ z \in Nat
    BY <1>3 DEF CardType
  <2>3. card'[c] \in CardType /\ card'[c].next = x /\ card'[c].prev = y /\ card'[c].group = z
    BY <2>1, <2>2 DEF CardType
  <2> QED
    BY <2>1, <2>3
<1>6. \A c \in K!Ids : c \notin out =>
          /\ Shelved(card'[c]) /\ card'[c].current = card[c].current
          /\ card'[c].payload = card[c].payload /\ card'[c].evidence = card[c].evidence
          /\ card'[c].sealed = card[c].sealed
  <2> TAKE c \in K!Ids
  <2> HAVE c \notin out
  <2>1. /\ card[c] \in CardType /\ Shelved(card[c])
        /\ card'[c] = [card[c] EXCEPT !.next = card'[c].next, !.prev = card'[c].prev, !.group = card'[c].group]
        /\ card'[c].next \in {0, card[c].next} /\ card'[c].prev \in {0, card[c].prev}
        /\ card'[c].group \in {0, card[c].group}
    BY <1>3, <1>5
  <2>2. /\ card'[c].current = card[c].current
        /\ card'[c].payload = card[c].payload /\ card'[c].evidence = card[c].evidence
        /\ card'[c].sealed = card[c].sealed
    BY <2>1 DEF CardType
  <2> QED
    BY <2>1, <2>2 DEF Shelved
<1>7. Cards' /\ Len(card') = Len(card) /\ K!Ids' = K!Ids
  <2>1. card' \in [K!Ids -> CardType]
    BY <1>1, <1>4, <1>5
  <2>2. \A c \in K!Ids : card'[c].prev <= Len(card) /\ Shelved(card'[c])
    <3> TAKE c \in K!Ids
    <3>1. CASE c \in out
      BY <1>3, <1>4, <3>1
    <3>2. CASE c \notin out
      <4>1. card'[c].prev \in {0, card[c].prev}
        BY <1>5, <3>2
      <4> QED
        BY <1>3, <1>6, <3>2, <4>1
    <3> QED
      BY <3>1, <3>2
  <2> QED
    BY <2>1, <2>2, Mapped
<1>8. \A c \in K!Candidates : /\ c \in K!Ids /\ ~card[c].sealed /\ (~K!Intact(c) \/ ~card[c].current)
  BY DEF K!Candidates, K!Invalid, K!Retired, K!Quarantined
<1>9. \A c \in plan.retire : c \in K!Ids /\ card[c].next # 0
  <2> TAKE c \in plan.retire
  <2>1. PICK h \in K!Candidates : c \in K!ProvenPeers(h)
    BY <1>2
  <2>2. c \in K!Ids /\ card[c].next = h
    BY <2>1 DEF K!ProvenPeers, K!Incoming
  <2> QED
    BY <1>3, <1>8, <2>2
<1>10. \A c \in K!Heads : c \notin out => K!IsHead(c)'
  <2> SUFFICES ASSUME NEW c \in K!Heads, c \notin out PROVE K!IsHead(c)'
    OBVIOUS
  <2>1. c \in K!Ids /\ card[c].current /\ card[c].next = 0 /\ \A d \in K!Ids : card[d].prev # c
    BY DEF K!Heads, K!IsHead, K!Referenced, K!Null
  <2>2. \A d \in K!Ids : card'[d].prev # c
    <3> TAKE d \in K!Ids
    <3>1. card'[d].prev \in {0, card[d].prev}
      BY <1>4, <1>5
    <3> QED
      BY <1>3, <2>1, <3>1
  <2> QED
    BY <1>5, <1>6, <1>7, <2>1, <2>2 DEF K!IsHead, K!Referenced, K!Null
<1>11. AuthorityStep
  <2> SUFFICES ASSUME NEW c \in K!Ids, K!IsHead(c), K!Intact(c) PROVE c \notin out
    BY <1>10 DEF AuthorityStep, K!Heads
  <2>1. c \notin plan.heads
    BY <1>2, <1>8 DEF K!IsHead
  <2>2. c \notin plan.retire
    BY <1>9 DEF K!IsHead, K!Null
  <2> QED
    BY <2>1, <2>2 DEF out
<1>12. QuarantineStep
  <2> SUFFICES ASSUME NEW c \in K!Ids, card[c].sealed PROVE card'[c] = card[c]
    BY DEF QuarantineStep, K!Quarantined
  <2>1. card[c].next = 0 /\ card[c].prev = 0 /\ card[c].group = 0 /\ card[c] \in CardType
    BY <1>3 DEF Shelved
  <2>2. c \notin out
    BY <1>2, <1>8, <1>9, <2>1 DEF out
  <2>3. /\ card'[c] = [card[c] EXCEPT !.next = card'[c].next, !.prev = card'[c].prev, !.group = card'[c].group]
        /\ card'[c].next = 0 /\ card'[c].prev = 0 /\ card'[c].group = 0
    BY <1>5, <2>1, <2>2
  <2>4. card'[c] = [card[c] EXCEPT !.next = 0, !.prev = 0, !.group = 0]
    BY <2>3
  <2>5. [card[c] EXCEPT !.next = 0, !.prev = 0, !.group = 0] = card[c]
    BY <2>1 DEF CardType
  <2> QED
    BY <2>4, <2>5
<1>13. GoodAll => GoodAll'
  <2> SUFFICES ASSUME NEW g \in Nat \ {0}, Good(card, g) PROVE Good(card, g)'
    BY DEF GoodAll
  <2>1. \A x \in K!Ids : card'[x].group = g => x \notin out /\ x \notin plan.ungroup /\ card[x].group = g
    BY <1>4, <1>5
  <2>2. CASE \E h \in K!Candidates : card[h].group = g
    <3>1. \A x \in K!Ids : card[x].group = g /\ x \notin out => x \in plan.ungroup
      BY <1>2, <2>2 DEF K!Ungrouped, K!Out, K!Null, out
    <3>2. \A x \in K!Ids : card'[x].group # g
      BY <2>1, <3>1
    <3> QED
      BY <1>7, <3>2 DEF Good
  <2>3. CASE (\A h \in K!Candidates : card[h].group # g) /\ \E x \in K!Ids : card[x].group = g
    <3> DEFINE G == K!InGroup(g)
    <3>1. G \subseteq K!Heads
      <4>1. G \cap K!Candidates = {}
        BY <2>3 DEF K!InGroup
      <4>2. g \in K!Groups
        BY <2>3 DEF K!Groups, K!GroupsOf, K!Null
      <4>3. G \notin K!Issues
        BY <1>2, <4>1 DEF K!Unexplained
      <4>4. G \notin K!BrokenGroups
        BY <4>3 DEF K!Issues
      <4> QED
        BY <4>2, <4>4 DEF K!BrokenGroups
    <3>2. \A x \in G : x \notin out /\ x \notin plan.ungroup
      <4> TAKE x \in G
      <4>1. x \in K!Ids /\ card[x].group = g /\ card[x].next = 0
        BY <3>1 DEF K!InGroup, K!Heads, K!IsHead, K!Null
      <4>2. x \notin plan.heads /\ x \notin plan.retire
        BY <1>2, <1>9, <2>3, <4>1
      <4>3. x \notin plan.ungroup
        BY <1>2, <2>3, <4>1 DEF K!Ungrouped
      <4> QED
        BY <4>2, <4>3 DEF out
    <3>3. \A x \in K!Ids : card'[x].group = g <=> card[x].group = g
      BY <1>5, <2>1, <3>2 DEF K!InGroup
    <3>4. \A x \in K!Ids : card[x].group = g => K!IsHead(x)' /\ card[x].current
      BY <1>10, <3>1, <3>2 DEF K!InGroup, K!Heads, K!IsHead
    <3>5. \A x \in K!Ids : card[x].group = g => \E y \in K!Ids : y # x /\ card[y].group = g
      BY <3>4 DEF Good
    <3> QED
      BY <1>7, <3>3, <3>4, <3>5 DEF Good, K!Heads
  <2>4. CASE \A x \in K!Ids : card[x].group # g
    BY <1>7, <2>1, <2>4 DEF Good
  <2> QED
    BY <2>2, <2>3, <2>4
<1> QED
  BY <1>1, <1>7, <1>11, <1>12, <1>13

\* A damaged card is no longer intact, and passes no authority on.
LEMMA DamageStep ==
    ASSUME Cards, harm \in Nat, NEW c \in K!Ids, K!Damage(c)
    PROVE  /\ Cards' /\ Len(card') = Len(card) /\ plan' = [plan EXCEPT !.fresh = FALSE]
           /\ AuthorityStep /\ QuarantineStep /\ (GoodAll => GoodAll')
<1>1. PICK new \in {K!Altered([card[c] EXCEPT !.payload = FALSE]),
                    K!Altered([card[c] EXCEPT !.evidence = FALSE]),
                    [card[c] EXCEPT !.current = FALSE]} :
          /\ card' = [card EXCEPT ![c] = new]
          /\ plan' = [plan EXCEPT !.fresh = FALSE]
  BY DEF K!Damage, K!Commit
<1>2. /\ Len(card) \in Nat /\ card \in [K!Ids -> CardType]
      /\ \A d \in K!Ids : /\ card[d] \in CardType /\ card[d].prev <= Len(card) /\ Shelved(card[d])
  BY OfCard, LenProperties DEF Cards, K!Ids
<1>3. harm' # harm /\ harm' = harm + 1
  BY DEF K!Damage
<1>4. /\ new \in CardType /\ new.prev = card[c].prev /\ new.next = card[c].next /\ new.group = card[c].group
      /\ (new.sealed => card[c].sealed) /\ (new.current => card[c].current)
  BY <1>1, <1>2 DEF K!Altered, CardType
<1>5. \A d \in K!Ids : card'[d] = IF d = c THEN new ELSE card[d]
  BY <1>1, <1>2
<1>6. \A d \in K!Ids : /\ card'[d] \in CardType /\ Shelved(card'[d])
                       /\ card'[d].prev = card[d].prev /\ card'[d].next = card[d].next
                       /\ card'[d].group = card[d].group /\ (card'[d].current => card[d].current)
                       /\ d # c => card'[d].current = card[d].current
  BY <1>2, <1>4, <1>5 DEF Shelved
<1>7. Cards' /\ Len(card') = Len(card) /\ K!Ids' = K!Ids
  <2>1. card' \in [K!Ids -> CardType]
    BY <1>1, <1>2, <1>4
  <2> QED
    BY <1>2, <1>6, <2>1, Mapped
<1>8. GoodAll => GoodAll'
  <2> SUFFICES ASSUME NEW g \in Nat \ {0}, Good(card, g) PROVE Good(card, g)'
    BY DEF GoodAll
  <2>1. CASE \E x \in K!Ids : card'[x].group = g /\ ~card'[x].current
    BY <1>7, <2>1 DEF Good
  <2>2. CASE \A x \in K!Ids : card'[x].group = g => card'[x].current
    <3>1. \A x \in K!Ids : card[x].group = g => card[x].current
      BY <1>6, <2>2
    <3>2. \A x \in K!Ids : card[x].group = g => x \in K!Heads /\ \E y \in K!Ids : y # x /\ card[y].group = g
      BY <3>1 DEF Good
    <3>3. \A x \in K!Ids : card[x].group = g => K!IsHead(x)'
      <4> TAKE x \in K!Ids
      <4> HAVE card[x].group = g
      <4>1. card[x].next = 0 /\ \A d \in K!Ids : card[d].prev # x
        BY <3>2 DEF K!Heads, K!IsHead, K!Referenced, K!Null
      <4>2. card'[x].next = 0 /\ card'[x].current /\ \A d \in K!Ids : card'[d].prev # x
        BY <1>6, <2>2, <4>1
      <4> QED
        BY <1>7, <4>2 DEF K!IsHead, K!Referenced, K!Null
    <3> QED
      BY <1>6, <1>7, <3>2, <3>3 DEF Good, K!Heads
  <2> QED
    BY <2>1, <2>2
<1> QED
  BY <1>1, <1>3, <1>7, <1>8 DEF AuthorityStep, QuarantineStep

\* A fresh plan stays true as long as neither cards nor receipts change.
LEMMA StillTrue ==
    ASSUME UNCHANGED <<card, proofs>>
    PROVE  /\ K!Candidates' = K!Candidates /\ K!Ungrouped' = K!Ungrouped /\ K!Unexplained' = K!Unexplained
           /\ \A h : K!ProvenPeers(h)' = K!ProvenPeers(h)
<1> USE DEF K!Null
<1>1. card' = card /\ proofs' = proofs
  OBVIOUS
<1>2. K!Ids' = K!Ids
  BY <1>1 DEF K!Ids
<1>3. \A c : (K!Attributed(c)' <=> K!Attributed(c)) /\ (K!Intact(c)' <=> K!Intact(c))
             /\ (K!Quarantined(c)' <=> K!Quarantined(c)) /\ (K!Referenced(c)' <=> K!Referenced(c))
             /\ (K!IsHead(c)' <=> K!IsHead(c)) /\ K!InGroup(c)' = K!InGroup(c)
  BY <1>1, <1>2 DEF K!Attributed, K!Intact, K!Quarantined, K!Referenced, K!IsHead, K!InGroup
<1>4. /\ K!Invalid' = K!Invalid /\ K!Retired' = K!Retired /\ K!Candidates' = K!Candidates
      /\ K!Trusted' = K!Trusted /\ K!Heads' = K!Heads
  BY <1>1, <1>2, <1>3 DEF K!Invalid, K!Retired, K!Candidates, K!Trusted, K!Heads
<1>5. K!Groups' = K!Groups
  BY <1>1, <1>2 DEF K!Groups, K!GroupsOf
<1>6. K!ProvenByReceipt' = K!ProvenByReceipt
  BY <1>1 DEF K!ProvenByReceipt
<1>7. \A S : K!ProvenByAudit(S)' = K!ProvenByAudit(S)
  BY <1>1 DEF K!ProvenByAudit
<1>8. \A S : K!Proven(S)' = K!Proven(S)
  BY <1>6, <1>7 DEF K!Proven
<1>9. K!ProvenToRepair' = K!ProvenToRepair
  BY <1>2, <1>3, <1>8 DEF K!ProvenToRepair
<1>10. \A h : K!RestoredBy(h)' = K!RestoredBy(h) /\ K!Incoming(h)' = K!Incoming(h)
              /\ K!ProvenPeers(h)' = K!ProvenPeers(h)
  BY <1>1, <1>2, <1>3, <1>4, <1>9 DEF K!RestoredBy, K!Incoming, K!ProvenPeers
<1>11. K!Ungrouped' = K!Ungrouped
  BY <1>1, <1>2, <1>4, <1>10 DEF K!Ungrouped, K!Out
<1>12. K!Issues' = K!Issues
  BY <1>1, <1>2, <1>3, <1>4, <1>5, <1>8 DEF K!Issues, K!NoBacklink, K!Linked, K!NoForwardLink, K!CrossAgent,
     K!UnprovenRetirement, K!SeveralHeads, K!BrokenGroups
<1>13. K!Unexplained' = K!Unexplained
  BY <1>4, <1>12 DEF K!Unexplained
<1> QED
  BY <1>4, <1>10, <1>11, <1>13

\* So a fresh plan stays fresh.
LEMMA FreshKept ==
    ASSUME Fresh, UNCHANGED <<card, proofs, plan>>
    PROVE  Fresh'
BY StillTrue DEF Fresh

\* A plan says what is true of the cards when it is drawn.
LEMMA DrawnFresh ==
    ASSUME Cards, plan \in PlanType, ~K!Unrepairable, UNCHANGED <<card, proofs>>,
           plan' = K!Drawn \/ plan' = [K!Drawn EXCEPT !.again = TRUE]
    PROVE  Fresh' /\ plan' \in PlanType
<1> DEFINE New(b) == [on |-> TRUE, fresh |-> TRUE, again |-> b,
                      heads |-> K!Candidates, restore |-> UNION {K!RestoredBy(h) : h \in K!Candidates},
                      retire |-> UNION {K!ProvenPeers(h) : h \in K!Candidates},
                      detach |-> UNION {K!UnprovenPeers(h) : h \in K!Candidates},
                      free |-> K!Freed, ungroup |-> K!Ungrouped]
<1>1. PICK b \in BOOLEAN : plan' = New(b)
  <2>1. CASE plan' = K!Drawn
    <3>1. plan.again \in BOOLEAN
      BY DEF PlanType
    <3> QED
      BY <2>1, <3>1, Zenon DEF K!Drawn
  <2>2. CASE plan' = [K!Drawn EXCEPT !.again = TRUE]
    BY <2>2 DEF K!Drawn
  <2> QED
    BY <2>1, <2>2
<1>2. K!Ids \in SUBSET Nat
  BY OfCard
<1>3. K!Candidates \in SUBSET K!Ids
  BY DEF K!Candidates, K!Invalid, K!Retired
<1>4. \A h : /\ K!RestoredBy(h) \in SUBSET K!Ids /\ K!ProvenPeers(h) \in SUBSET K!Ids
             /\ K!UnprovenPeers(h) \in SUBSET K!Ids
  BY DEF K!RestoredBy, K!ProvenPeers, K!UnprovenPeers, K!Incoming
<1>5. /\ UNION {K!RestoredBy(h) : h \in K!Candidates} \in SUBSET Nat
      /\ UNION {K!ProvenPeers(h) : h \in K!Candidates} \in SUBSET Nat
      /\ UNION {K!UnprovenPeers(h) : h \in K!Candidates} \in SUBSET Nat
  BY <1>2, <1>4
<1>6. K!Freed \in SUBSET Nat /\ K!Ungrouped \in SUBSET Nat
  BY <1>2 DEF K!Freed, K!Ungrouped
<1>7. plan' \in PlanType
  <2>1. K!Candidates \in SUBSET Nat
    BY <1>2, <1>3
  <2> QED
    BY <1>1, <1>5, <1>6, <2>1 DEF PlanType
<1>8. /\ plan'.heads = K!Candidates
      /\ plan'.retire = UNION {K!ProvenPeers(h) : h \in K!Candidates}
      /\ plan'.ungroup = K!Ungrouped
      /\ K!Unexplained = {}
  BY <1>1 DEF K!Unrepairable
<1> QED
  BY <1>7, <1>8, StillTrue DEF Fresh

-----------------------------------------------------------------------------
(* A step of the checkpoints.                                                *)

\* The checkpoints before the first of them.
LEMMA LinesInit == K!Init => Lines /\ GoodAll
<1> SUFFICES ASSUME K!Init PROVE Lines /\ GoodAll
  OBVIOUS
<1>1. card = << >> /\ K!Ids = {} /\ Len(card) = 0
  BY DEF K!Init, K!Ids
<1>2. Cards
  BY <1>1 DEF Cards
<1>3. plan = K!NoPlan /\ plan \in PlanType /\ Fresh /\ scan.of = {} /\ harm = 0
  BY DEF K!Init, K!NoPlan, PlanType, Fresh, K!NoScan
<1> QED
  BY <1>1, <1>2, <1>3 DEF Lines, GoodAll, Good

\* A plan that is not fresh says nothing.
LEMMA Stale ==
    ASSUME plan \in PlanType, plan' = [plan EXCEPT !.fresh = FALSE]
    PROVE  plan' \in PlanType /\ Fresh'
BY DEF PlanType, Fresh

\* Every step of the checkpoints.
LEMMA LinesStep ==
    ASSUME Lines, K!Next
    PROVE  /\ Lines' /\ (GoodAll => GoodAll')
           /\ AuthorityStep /\ QuarantineStep
<1> DEFINE Kept == /\ Cards' /\ plan' \in PlanType /\ Fresh' /\ K!Ids \subseteq K!Ids'
                   /\ (GoodAll => GoodAll') /\ AuthorityStep /\ QuarantineStep
<1>0. /\ Cards /\ plan \in PlanType /\ Fresh /\ scan.of \in SUBSET K!Ids /\ harm \in Nat
      /\ Len(card) \in Nat
  BY OfCard DEF Lines
<1>a. ASSUME card' = card, proofs' = proofs, plan' \in PlanType, Fresh' PROVE Kept
  <2>1. Cards' /\ K!Ids' = K!Ids /\ (GoodAll => GoodAll')
    <3>1. Cards' /\ K!Ids' = K!Ids
      BY <1>0, <1>a DEF Cards, K!Ids
    <3>2. K!Heads' = K!Heads
      BY <1>a, <3>1 DEF K!Heads, K!IsHead, K!Referenced
    <3>3. \A g \in Nat \ {0} : Good(card, g) => Good(card, g)'
      BY <1>a, <3>1, <3>2 DEF Good
    <3> QED
      BY <3>1, <3>3 DEF GoodAll
  <2>2. AuthorityStep /\ QuarantineStep
    BY <1>a DEF AuthorityStep, QuarantineStep, K!IsHead, K!Referenced, K!Ids
  <2> QED
    BY <1>a, <2>1, <2>2
<1>b. ASSUME Len(card') = Len(card) PROVE K!Ids \subseteq K!Ids'
  BY <1>b DEF K!Ids
<1>1. ASSUME NEW a \in Agents, K!Record(a)
      PROVE  Kept /\ scan' = scan /\ harm' = harm
  <2>1. /\ Cards' /\ plan' = [plan EXCEPT !.fresh = FALSE] /\ Len(card') = Len(card) + 1
    BY <1>0, <1>1, Recorded
  <2>2. K!Ids \subseteq K!Ids'
    BY <1>0, <2>1 DEF K!Ids
  <2>3. scan' = scan /\ harm' = harm
    BY <1>1 DEF K!Record
  <2> QED
    BY <1>0, <1>1, <2>1, <2>2, <2>3, RecordStep, Stale
<1>2. ASSUME K!Look PROVE Kept /\ scan'.of \in SUBSET K!Ids /\ harm' = harm
  <2>1. card' = card /\ proofs' = proofs /\ plan' = plan /\ harm' = harm /\ scan'.of \in SUBSET K!Ids
    BY <1>2 DEF K!Look
  <2> QED
    BY <1>0, <1>a, <2>1, FreshKept
<1>3. ASSUME K!Scan PROVE Kept /\ scan'.of = {} /\ harm' = harm
  <2>1. Regrouped /\ (GoodAll => GoodAll')
    BY <1>3, ScanStep
  <2>2. /\ Cards' /\ Len(card') = Len(card) /\ AuthorityStep /\ QuarantineStep
    BY <1>0, <2>1, RegroupedKeeps, RegroupedStep
  <2>3. (plan' = plan /\ card' = card) \/ plan' = [plan EXCEPT !.fresh = FALSE]
    BY <1>3, ScanShape, Zenon
  <2>4. proofs' = proofs /\ harm' = harm /\ scan'.of = {}
    BY <1>3 DEF K!Scan, K!NoScan
  <2>5. plan' \in PlanType /\ Fresh'
    BY <1>0, <2>3, <2>4, FreshKept, Stale
  <2> QED
    BY <1>b, <2>1, <2>2, <2>4, <2>5
<1>4. ASSUME K!Expire PROVE Kept /\ scan'.of = {} /\ harm' = harm
  <2>1. card' = card /\ proofs' = proofs /\ plan' = plan /\ harm' = harm /\ scan'.of = {}
    BY <1>4 DEF K!Expire, K!NoScan
  <2> QED
    BY <1>0, <1>a, <2>1, FreshKept
<1>5. ASSUME NEW w \in K!Ids, K!Dismiss(w) PROVE Kept /\ scan' = scan /\ harm' = harm
  <2>1. Regrouped /\ (GoodAll => GoodAll') /\ plan' = [plan EXCEPT !.fresh = FALSE]
    BY <1>0, <1>5, DismissStep
  <2>2. /\ Cards' /\ Len(card') = Len(card) /\ AuthorityStep /\ QuarantineStep
    BY <1>0, <2>1, RegroupedKeeps, RegroupedStep
  <2>3. scan' = scan /\ harm' = harm
    BY <1>5 DEF K!Dismiss
  <2> QED
    BY <1>0, <1>b, <2>1, <2>2, <2>3, Stale
<1>6. ASSUME NEW w \in K!Ids, K!Supersede(w) PROVE Kept /\ scan' = scan /\ harm' = harm
  <2>1. scan' = scan /\ harm' = harm
    BY <1>6 DEF K!Supersede
  <2> QED
    BY <1>0, <1>6, <1>b, <2>1, SupersedeStep, Stale
<1>7. ASSUME K!Plan PROVE Kept /\ scan' = scan /\ harm' = harm
  <2>1. card' = card /\ proofs' = proofs /\ scan' = scan /\ harm' = harm /\ ~K!Unrepairable /\ plan' = K!Drawn
    BY <1>7 DEF K!Plan
  <2>2. Fresh' /\ plan' \in PlanType
    BY <1>0, <2>1, DrawnFresh
  <2> QED
    BY <1>a, <2>1, <2>2
<1>8. ASSUME K!Apply PROVE Kept /\ scan' = scan /\ harm' = harm
  <2>1. scan' = scan /\ harm' = harm
    BY <1>8 DEF K!Apply
  <2>2. /\ Cards' /\ Len(card') = Len(card) /\ plan' = K!NoPlan
        /\ AuthorityStep /\ QuarantineStep /\ (GoodAll => GoodAll')
    BY <1>0, <1>8, ApplyStep
  <2>3. plan' \in PlanType /\ Fresh'
    BY <2>2 DEF K!NoPlan, PlanType, Fresh
  <2> QED
    BY <1>b, <2>1, <2>2, <2>3
<1>9. ASSUME K!Replan PROVE Kept /\ scan' = scan /\ harm' = harm
  <2>1. /\ card' = card /\ proofs' = proofs /\ scan' = scan /\ harm' = harm
        /\ (~K!Unrepairable /\ plan' = [K!Drawn EXCEPT !.again = TRUE]) \/ plan' = K!NoPlan
    BY <1>9, Zenon DEF K!Replan
  <2>2. CASE ~K!Unrepairable /\ plan' = [K!Drawn EXCEPT !.again = TRUE]
    <3>1. Fresh' /\ plan' \in PlanType
      BY <1>0, <2>1, <2>2, DrawnFresh
    <3> QED
      BY <1>a, <2>1, <3>1
  <2>3. CASE plan' = K!NoPlan
    <3>1. plan' \in PlanType /\ Fresh'
      BY <2>3 DEF K!NoPlan, PlanType, Fresh
    <3> QED
      BY <1>a, <2>1, <3>1
  <2> QED
    BY <2>1, <2>2, <2>3
<1>10. ASSUME NEW c \in K!Ids, K!Damage(c) PROVE Kept /\ scan' = scan /\ harm' \in Nat
  <2>1. scan' = scan /\ harm' \in Nat
    BY <1>0, <1>10 DEF K!Damage
  <2> QED
    BY <1>0, <1>10, <1>b, <2>1, DamageStep, Stale
<1>11. ASSUME K!Stir PROVE Kept /\ scan' = scan /\ harm' = harm
  <2>1. card' = card /\ proofs' = proofs /\ scan' = scan /\ harm' = harm /\ plan' = [plan EXCEPT !.fresh = FALSE]
    BY <1>11 DEF K!Stir
  <2>2. plan' \in PlanType /\ Fresh'
    BY <1>0, <2>1, Stale
  <2> QED
    BY <1>a, <2>1, <2>2
<1> HIDE DEF Kept
<1>12. Kept /\ (scan' = scan \/ scan'.of \in SUBSET K!Ids) /\ harm' \in Nat
  BY <1>0, <1>1, <1>2, <1>3, <1>4, <1>5, <1>6, <1>7, <1>8, <1>9, <1>10, <1>11 DEF K!Next, K!Detect, K!Repair
<1>13. scan'.of \in SUBSET K!Ids' /\ Cards' /\ plan' \in PlanType /\ Fresh'
  BY <1>0, <1>12 DEF Kept
<1> QED
  BY <1>12, <1>13 DEF Kept, Lines

-----------------------------------------------------------------------------
(* The archive.                                                              *)

\* What the files, the calls and the entries of the archive are.
FileType == [content : Contents \cup {"none", "empty"}, id : Nat]
ItemType == [uri : Uris, content : Contents, id : Nat]
EntryType == [action : {"archived", "restored"}, uri : Uris, content : Contents, previous : Nat]
Places == {"idle", "manifest", "name", "locator", "plan", "item", "copy", "fill", "record", "verify",
           "park", "unlink", "resolve", "restore", "refill", "again"}
CallType == [pc : Places, keep : Nat, items : SUBSET ItemType, item : ItemType \cup {A!NoItem}, seen : Nat]

ArchiveTyped ==
    /\ file \in [Uris -> FileType] /\ made \in Nat
    /\ object \in [Contents -> {"none", "reserved", "whole"}]
    /\ bound \in {"none", "temporary", "manifest", "located"}
    /\ ledger \in Seq(EntryType)
    /\ refs \in SUBSET (Uris \X Contents) /\ owed \in SUBSET (Uris \X Contents)
    /\ call \in CallType
    /\ linked \in BOOLEAN
    /\ \A u \in Uris : file[u].id <= made
    /\ \A i \in call.items : i.id <= made

Before == {"idle", "manifest", "name", "locator", "plan"}
Recording == {"item", "copy", "fill", "record", "verify", "park", "unlink", "refill", "again"}

\* Where a call is says what it has seen and done.
CallSound ==
    /\ call.pc \notin Before \cup {"item"} => call.item \in ItemType
    /\ call.pc \in Recording => call.seen = Len(ledger)
    /\ call.pc \in {"copy", "fill", "record"} => A!Archived(call.item.uri) = {}
    /\ call.pc \in {"verify", "park", "unlink", "restore", "refill", "again"}
          => call.item.content \in A!Archived(call.item.uri)
    /\ call.pc = "record" => object[call.item.content] = "whole"
    /\ call.pc \in {"locator", "plan", "item", "copy", "fill", "record", "verify", "park", "unlink"} \ {"name"}
          => bound \in {"manifest", "located"}
    /\ call.pc = "refill" => file[call.item.uri].content = "empty"

LedgerSound ==
    /\ \A i \in 1 .. Len(ledger) :
          /\ ledger[i].previous = i - 1
          /\ ledger[i].action = "restored" =>
                \E k \in 1 .. i - 1 : ledger[k] = [ledger[i] EXCEPT !.action = "archived", !.previous = k - 1]
    /\ \A u \in Uris : \A c, d \in A!Archived(u) : c = d

Archive == ArchiveTyped /\ CallSound /\ LedgerSound /\ A!RecordedIsWhole /\ A!BytesStay

\* What is archived, by position.
LEMMA ArchivedAt ==
    ASSUME NEW u
    PROVE  A!Archived(u) = {ledger[i].content : i \in {k \in DOMAIN ledger : ledger[k].action = "archived" /\ ledger[k].uri = u}}
BY DEF A!Archived

\* The ledger grows by a record that names what was read of it.
LEMMA Appended ==
    ASSUME ArchiveTyped, NEW action \in {"archived", "restored"}, call.item \in ItemType, A!Append1(action)
    PROVE  LET n == Len(ledger) + 1 IN
           /\ ledger' \in Seq(EntryType) /\ Len(ledger') = n /\ DOMAIN ledger' = 1 .. n
           /\ \A i \in 1 .. Len(ledger) : ledger'[i] = ledger[i]
           /\ ledger'[n] = [action |-> action, uri |-> call.item.uri, content |-> call.item.content,
                            previous |-> call.seen]
           /\ \A u : A!Archived(u)' = IF action = "archived" /\ u = call.item.uri
                                      THEN A!Archived(u) \cup {call.item.content} ELSE A!Archived(u)
<1> DEFINE n == Len(ledger) + 1
           e == [action |-> action, uri |-> call.item.uri, content |-> call.item.content, previous |-> call.seen]
<1>1. e \in EntryType /\ ledger \in Seq(EntryType)
  BY DEF ArchiveTyped, EntryType, ItemType, CallType
<1>2. ledger' = Append(ledger, e)
  BY DEF A!Append1, A!This
<1>3. e.action = action /\ e.uri = call.item.uri /\ e.content = call.item.content
  OBVIOUS
<1> HIDE DEF e
<1>4. /\ ledger' \in Seq(EntryType) /\ Len(ledger') = n
      /\ \A i \in 1 .. Len(ledger) : ledger'[i] = ledger[i]
      /\ ledger'[n] = e /\ Len(ledger) \in Nat
  BY <1>1, <1>2
<1>5. DOMAIN ledger' = 1 .. n /\ DOMAIN ledger = 1 .. Len(ledger)
  BY <1>1, <1>4, LenProperties
<1>6. ASSUME NEW u
      PROVE  A!Archived(u)' = IF action = "archived" /\ u = call.item.uri
                              THEN A!Archived(u) \cup {call.item.content} ELSE A!Archived(u)
  <2>1. \A i : i \in DOMAIN ledger' <=> i \in DOMAIN ledger \/ i = n
    BY <1>4, <1>5
  <2>2. \A i \in DOMAIN ledger : ledger'[i] = ledger[i] /\ i # n
    BY <1>4, <1>5
  <2>3. \A c : c \in A!Archived(u) <=> \E i \in DOMAIN ledger : ledger[i].action = "archived" /\ ledger[i].uri = u
                                                                  /\ ledger[i].content = c
    BY DEF A!Archived
  <2>4. \A c : c \in A!Archived(u)' <=> \E i \in DOMAIN ledger' : ledger'[i].action = "archived" /\ ledger'[i].uri = u
                                                                  /\ ledger'[i].content = c
    BY DEF A!Archived
  <2>5. \A c : c \in A!Archived(u)' <=> c \in A!Archived(u) \/ (action = "archived" /\ u = call.item.uri
                                                                /\ c = call.item.content)
    BY <1>3, <1>4, <2>1, <2>2, <2>3, <2>4
  <2> QED
    BY <2>5
<1> QED
  BY <1>4, <1>5, <1>6 DEF e

\* A call picks the newest of its items.
LEMMA NewestIsAnItem ==
    ASSUME ArchiveTyped, call.items # {}
    PROVE  A!Newest \in call.items
<1> DEFINE S == {i.id : i \in call.items}
<1>1. call.items \in SUBSET ItemType /\ made \in Nat /\ \A i \in call.items : i.id \in Nat /\ i.id <= made
  BY DEF ArchiveTyped, CallType, ItemType
<1>2. S \in SUBSET (0 .. made) /\ S # {}
  BY <1>1
<1>3. PICK n \in S : \A m \in S : m <= n
  <2> HIDE DEF S
  <2> QED
    BY <1>1, <1>2, Greatest
<1>4. PICK i \in call.items : \A k \in call.items : k.id <= i.id
  BY <1>3
<1> QED
  BY <1>4 DEF A!Newest

\* What is archived is a content.
LEMMA ArchivedIsContents ==
    ASSUME ArchiveTyped, NEW u
    PROVE  A!Archived(u) \in SUBSET Contents
<1>1. \A i \in DOMAIN ledger : ledger[i] \in EntryType
  <2>1. ledger \in Seq(EntryType)
    BY DEF ArchiveTyped
  <2> QED
    BY <2>1, ElementOfSeq, LenProperties
<1>2. \A i \in DOMAIN ledger : ledger[i].content \in Contents
  BY <1>1 DEF EntryType
<1> QED
  BY <1>2 DEF A!Archived

\* A step that leaves files and ledger alone.
LEMMA CallOnly ==
    ASSUME Archive, UNCHANGED <<file, made, ledger, refs, owed, aside, linked>>,
           object' \in [Contents -> {"none", "reserved", "whole"}],
           \A c \in Contents : object[c] = "whole" => object'[c] = "whole",
           bound' \in {"none", "temporary", "manifest", "located"},
           bound \in {"manifest", "located"} => bound' \in {"manifest", "located"},
           call' \in CallType, \A i \in call'.items : i.id <= made, CallSound'
    PROVE  Archive'
<1>1. \A u : A!Archived(u)' = A!Archived(u)
  BY DEF A!Archived
<1>2. \A u \in Uris : A!Archived(u) \in SUBSET Contents
  BY ArchivedIsContents DEF Archive
<1>3. ArchiveTyped'
  BY DEF Archive, ArchiveTyped
<1>4. LedgerSound'
  BY <1>1 DEF Archive, LedgerSound
<1>5. A!RecordedIsWhole'
  BY <1>1, <1>2 DEF Archive, A!RecordedIsWhole
<1>6. \A u \in Uris, c \in Contents : A!Resolves(u, c) => A!Resolves(u, c)'
  BY <1>1 DEF A!Resolves
<1>7. A!BytesStay'
  <2>1. owed \in SUBSET (Uris \X Contents)
    BY DEF Archive, ArchiveTyped
  <2> SUFFICES ASSUME NEW r \in owed
               PROVE  \/ file[r[1]].content = r[2]
                      \/ \E q \in aside : q.uri = r[1] /\ q.content = r[2]
                      \/ A!Resolves(r[1], r[2])'
    BY DEF A!BytesStay
  <2>2. r[1] \in Uris /\ r[2] \in Contents
    BY <2>1
  <2> QED
    BY <1>6, <2>2 DEF Archive, A!BytesStay
<1> QED
  BY <1>3, <1>4, <1>5, <1>7 DEF Archive

\* A call that returned says nothing.
LEMMA IdleIsSound ==
    ASSUME call' = A!Idle
    PROVE  call' \in CallType /\ call'.items = {} /\ CallSound'
<1>1. call' = [pc |-> "idle", keep |-> 0, items |-> {}, item |-> A!NoItem, seen |-> 0]
  BY DEF A!Idle
<1>2. call' \in CallType /\ call'.items = {} /\ call'.pc = "idle"
  BY <1>1 DEF CallType, Places
<1> QED
  BY <1>2 DEF CallSound, Before, Recording

\* The steps that move a call on.
LEMMA Moves ==
    ASSUME Archive, \/ \E keep \in 0 .. 1 : A!Begin(keep)
                    \/ A!Manifest \/ A!Name \/ A!Locator \/ A!Plan \/ A!Take \/ A!CopyObject
                    \/ A!Fill \/ A!Verify
                    \/ \E u \in Uris, c \in Contents : A!BeginRestore(u, c)
                    \/ A!Resolve \/ A!Die
    PROVE  Archive'
<1>1. UNCHANGED <<file, made, ledger, refs, owed, aside, linked>>
  BY DEF A!Begin, A!Manifest, A!Name, A!Locator, A!Plan, A!Take, A!CopyObject, A!Fill, A!Verify, A!BeginRestore,
     A!Resolve, A!Die, A!Quiet
<1>2. \A u : A!Archived(u)' = A!Archived(u)
  BY <1>1 DEF A!Archived
<1>3. /\ file \in [Uris -> FileType] /\ made \in Nat
      /\ object \in [Contents -> {"none", "reserved", "whole"}]
      /\ bound \in {"none", "temporary", "manifest", "located"}
      /\ Len(ledger) \in Nat
      /\ refs \in SUBSET (Uris \X Contents)
      /\ call \in CallType
      /\ \A u \in Uris : file[u].id <= made
      /\ \A i \in call.items : i.id <= made
  BY LenProperties DEF Archive, ArchiveTyped
<1> DEFINE Rest == /\ object' \in [Contents -> {"none", "reserved", "whole"}]
                   /\ \A c \in Contents : object[c] = "whole" => object'[c] = "whole"
                   /\ bound' \in {"none", "temporary", "manifest", "located"}
                   /\ bound \in {"manifest", "located"} => bound' \in {"manifest", "located"}
                   /\ call' \in CallType /\ (\A i \in call'.items : i.id <= made) /\ CallSound'
<1>4. CallSound
  BY DEF Archive
<1> USE DEF A!In, A!Goto, A!Return, A!This
<1>5. ASSUME \E keep \in 0 .. 1 : A!Begin(keep) PROVE Rest
  <2> PICK keep \in 0 .. 1 : A!Begin(keep)
    BY <1>5
  <2>0. keep \in Nat
    OBVIOUS
  <2>1. call' = [A!Idle EXCEPT !.pc = "manifest", !.keep = keep]
    BY DEF A!Begin
  <2>2. call' = [pc |-> "manifest", keep |-> keep, items |-> {}, item |-> A!NoItem, seen |-> 0]
    BY <2>1 DEF A!Idle
  <2>3. object' = object /\ bound' = bound
    BY DEF A!Begin
  <2>4. call' \in CallType
    BY <2>0, <2>2 DEF CallType, Places
  <2>5. call'.pc = "manifest" /\ call'.items = {}
    BY <2>2
  <2> QED
    BY <1>3, <2>3, <2>4, <2>5 DEF CallSound, Before, Recording
<1>6. ASSUME A!Manifest PROVE Rest
  BY <1>3, <1>6 DEF A!Manifest, CallType, CallSound, A!Idle, Places, Before, Recording
<1>7. ASSUME A!Name PROVE Rest
  BY <1>3, <1>7 DEF A!Name, CallType, CallSound, Places, Before, Recording
<1>8. ASSUME A!Locator PROVE Rest
  BY <1>3, <1>4, <1>8 DEF A!Locator, CallType, CallSound, Places, Before, Recording
<1>9. ASSUME A!Plan PROVE Rest
  <2>1. A!Candidates \in SUBSET ItemType /\ \A i \in A!Candidates : i.id <= made
    BY <1>3 DEF A!Candidates, ItemType, FileType
  <2>2. A!Older(A!Candidates, call.keep) \in SUBSET A!Candidates
    BY DEF A!Older
  <2>3. call' = [call EXCEPT !.pc = "item", !.items = A!Older(A!Candidates, call.keep), !.seen = Len(ledger)]
    BY <1>9 DEF A!Plan
  <2>4. object' = object /\ bound' = bound /\ bound \in {"manifest", "located"}
    BY <1>4, <1>9 DEF A!Plan, CallSound
  <2> QED
    BY <1>1, <1>3, <2>1, <2>2, <2>3, <2>4 DEF CallType, CallSound, Places, Before, Recording
<1>10. ASSUME A!Take PROVE Rest
  <2>1. object' = object /\ bound' = bound /\ call.pc = "item"
    BY <1>10 DEF A!Take
  <2>2. CASE call' = A!Idle
    BY <1>3, <2>1, <2>2, IdleIsSound
  <2>3. CASE call' # A!Idle
    <3> DEFINE i == A!Newest
               to == IF A!Archived(i.uri) = {} THEN "copy" ELSE "verify"
    <3>1. /\ call.items # {} /\ ~(A!Archived(i.uri) \ {i.content} # {})
          /\ call' = [call EXCEPT !.item = i, !.items = @ \ {i}, !.pc = to]
      BY <1>10, <2>3 DEF A!Take
    <3>2. i \in ItemType /\ call.items \in SUBSET ItemType
      BY <3>1, NewestIsAnItem DEF Archive, ArchiveTyped, CallType
    <3> HIDE DEF i
    <3>3. /\ call' \in CallType /\ call'.items \in SUBSET call.items
          /\ call'.item = i /\ call'.seen = call.seen /\ call'.pc = to
      BY <1>3, <3>1, <3>2 DEF CallType, Places
    <3>4. call.seen = Len(ledger) /\ bound \in {"manifest", "located"}
      BY <1>4, <2>1 DEF CallSound, Before, Recording
    <3>5. to = "verify" => i.content \in A!Archived(i.uri)
      BY <3>1
    <3>6. to \in {"copy", "verify"} /\ (to = "copy" => A!Archived(i.uri) = {})
      OBVIOUS
    <3> HIDE DEF to
    <3>7. Len(ledger)' = Len(ledger)
      BY <1>1
    <3> QED
      BY <1>2, <1>3, <2>1, <3>2, <3>3, <3>4, <3>5, <3>6, <3>7 DEF CallSound, Before, Recording
  <2> QED
    BY <2>2, <2>3
<1>11. ASSUME A!CopyObject PROVE Rest
  <2>1. CASE call' = A!Idle
    BY <1>3, <1>11, <2>1, IdleIsSound DEF A!CopyObject, A!Idle
  <2>2. CASE call' # A!Idle
    <3> DEFINE c == call.item.content
    <3>1. call.pc = "copy" /\ bound' = bound
      BY <1>11 DEF A!CopyObject
    <3>2. call.item \in ItemType /\ c \in Contents
      BY <1>4, <3>1 DEF CallSound, Before, ItemType
    <3>3. \/ call' = [call EXCEPT !.pc = "record"] /\ object[c] = "whole" /\ object' = object
          \/ call' = [call EXCEPT !.pc = "record"] /\ object[c] = "none" /\ object' = [object EXCEPT ![c] = "whole"]
          \/ call' = [call EXCEPT !.pc = "fill"] /\ object[c] = "none" /\ object' = [object EXCEPT ![c] = "reserved"]
      BY <1>11, <2>2 DEF A!CopyObject
    <3> HIDE DEF c
    <3>4. /\ object' \in [Contents -> {"none", "reserved", "whole"}]
          /\ \A d \in Contents : object[d] = "whole" => object'[d] = "whole"
          /\ call'.pc = "record" => object'[c] = "whole"
      BY <1>3, <3>2, <3>3 DEF CallType
    <3>5. /\ call' \in CallType /\ call'.items = call.items /\ call'.item = call.item
          /\ call'.seen = call.seen /\ call'.pc \in {"fill", "record"}
      BY <1>3, <3>3 DEF CallType, Places
    <3>6. /\ call.seen = Len(ledger) /\ bound \in {"manifest", "located"}
          /\ A!Archived(call.item.uri) = {}
      BY <1>4, <3>1 DEF CallSound, Before, Recording
    <3>7. Len(ledger)' = Len(ledger)
      BY <1>1
    <3> QED
      BY <1>2, <1>3, <3>1, <3>2, <3>4, <3>5, <3>6, <3>7 DEF CallSound, Before, Recording, c
  <2> QED
    BY <2>1, <2>2
<1>12. ASSUME A!Fill PROVE Rest
  <2> DEFINE c == call.item.content
  <2>1. /\ call.pc = "fill" /\ bound' = bound /\ object' = [object EXCEPT ![c] = "whole"]
        /\ call' = [call EXCEPT !.pc = "record"]
    BY <1>12 DEF A!Fill
  <2>2. call.item \in ItemType /\ c \in Contents
    BY <1>4, <2>1 DEF CallSound, Before, ItemType
  <2> HIDE DEF c
  <2>3. /\ object' \in [Contents -> {"none", "reserved", "whole"}]
        /\ \A d \in Contents : object[d] = "whole" => object'[d] = "whole"
        /\ object'[c] = "whole"
    BY <1>3, <2>1, <2>2
  <2>4. /\ call' \in CallType /\ call'.items = call.items /\ call'.item = call.item
        /\ call'.seen = call.seen /\ call'.pc = "record"
    BY <1>3, <2>1 DEF CallType, Places
  <2>5. call.seen = Len(ledger) /\ bound \in {"manifest", "located"} /\ A!Archived(call.item.uri) = {}
    BY <1>4, <2>1 DEF CallSound, Recording
  <2>6. Len(ledger)' = Len(ledger)
    BY <1>1
  <2> QED
    BY <1>2, <1>3, <2>1, <2>2, <2>3, <2>4, <2>5, <2>6 DEF CallSound, Before, Recording, c
<1>13. ASSUME A!Verify PROVE Rest
  <2>1. call.pc = "verify" /\ bound' = bound /\ object' = object
    BY <1>13 DEF A!Verify
  <2>2. \/ call' = [call EXCEPT !.pc = "park"]
        \/ call' = [call EXCEPT !.pc = "item"]
    BY <1>13 DEF A!Verify
  <2>3. /\ call' \in CallType /\ call'.items = call.items /\ call'.item = call.item
        /\ call'.seen = call.seen /\ call'.pc \in {"park", "item"}
    BY <1>3, <2>2 DEF CallType, Places
  <2>4. /\ call.seen = Len(ledger) /\ bound \in {"manifest", "located"} /\ call.item \in ItemType
        /\ call.item.content \in A!Archived(call.item.uri)
    BY <1>4, <2>1 DEF CallSound, Before, Recording
  <2>5. Len(ledger)' = Len(ledger)
    BY <1>1
  <2> QED
    BY <1>2, <1>3, <2>1, <2>3, <2>4, <2>5 DEF CallSound, Before, Recording
<1>14. ASSUME \E u \in Uris, c \in Contents : A!BeginRestore(u, c) PROVE Rest
  <2> PICK u \in Uris, c \in Contents : A!BeginRestore(u, c)
    BY <1>14
  <2>1. call' = [A!Idle EXCEPT !.pc = "resolve", !.item = [A!NoItem EXCEPT !.uri = u, !.content = c]]
    BY DEF A!BeginRestore
  <2>2. call' = [pc |-> "resolve", keep |-> 0, items |-> {}, item |-> [uri |-> u, content |-> c, id |-> 0], seen |-> 0]
    BY <2>1 DEF A!Idle, A!NoItem
  <2>3. object' = object /\ bound' = bound
    BY DEF A!BeginRestore
  <2>4. call'.item \in ItemType
    BY <2>2 DEF ItemType
  <2>5. call' \in CallType /\ call'.pc = "resolve" /\ call'.items = {}
    BY <2>2, <2>4 DEF CallType, Places
  <2> QED
    BY <1>3, <2>3, <2>4, <2>5 DEF CallSound, Before, Recording
<1>15. ASSUME A!Resolve PROVE Rest
  <2>1. object' = object /\ bound' = bound /\ call.pc = "resolve"
    BY <1>15 DEF A!Resolve
  <2>2. CASE call' = A!Idle
    BY <1>3, <2>1, <2>2, IdleIsSound
  <2>3. CASE call' # A!Idle
    <3>1. /\ A!Resolves(call.item.uri, call.item.content)
          /\ call' = [call EXCEPT !.pc = "restore"]
      BY <1>15, <2>3 DEF A!Resolve
    <3>2. /\ call' \in CallType /\ call'.items = call.items /\ call'.item = call.item /\ call'.pc = "restore"
      BY <1>3, <3>1 DEF CallType, Places
    <3>3. call.item \in ItemType
      BY <1>4, <2>1 DEF CallSound, Before
    <3>4. call.item.content \in A!Archived(call.item.uri)
      BY <3>1 DEF A!Resolves
    <3> QED
      BY <1>2, <1>3, <2>1, <3>2, <3>3, <3>4 DEF CallSound, Before, Recording
  <2> QED
    BY <2>2, <2>3
<1>16. ASSUME A!Die PROVE Rest
  BY <1>3, <1>16, IdleIsSound DEF A!Die
<1> HIDE DEF Rest
<1> QED
  BY CallOnly, <1>1, <1>5, <1>6, <1>7, <1>8, <1>9, <1>10, <1>11, <1>12, <1>13, <1>14, <1>15, <1>16 DEF Rest

\* A step that leaves the ledger, the objects and what binds them alone keeps what is
\* resolved; what remains is that the bytes it moves stay.
LEMMA FilesOnly ==
    ASSUME Archive, UNCHANGED <<ledger, object, bound>>,
           ArchiveTyped', CallSound', A!BytesStay'
    PROVE  Archive'
<1>1. \A u : A!Archived(u)' = A!Archived(u)
  BY DEF A!Archived
<1>2. LedgerSound'
  BY <1>1 DEF Archive, LedgerSound
<1>3. A!RecordedIsWhole'
  BY <1>1 DEF Archive, A!RecordedIsWhole
<1> QED
  BY <1>2, <1>3 DEF Archive

\* What stays resolved when ledger, objects and bindings stay.
LEMMA StillResolved ==
    ASSUME UNCHANGED <<ledger, object, bound>>
    PROVE  \A u, c : A!Archived(u)' = A!Archived(u) /\ (A!Resolves(u, c)' <=> A!Resolves(u, c))
<1>1. \A u : A!Archived(u)' = A!Archived(u)
  BY DEF A!Archived
<1> QED
  BY <1>1 DEF A!Resolves

\* Another file under a name: what was bound there is no longer owed by the archive.
LEMMA WriteStep ==
    ASSUME Archive, NEW u \in Uris, NEW c \in Contents, A!Write(u, c)
    PROVE  Archive'
<1>1. /\ made' = made + 1 /\ file' = [file EXCEPT ![u] = [content |-> c, id |-> made']]
      /\ owed' = owed \ {<<u, file[u].content>>}
      /\ UNCHANGED <<windows, linked, aside, object, bound, ledger, refs, call>>
      /\ ~(call.pc = "refill" /\ call.item.uri = u)
  BY DEF A!Write, A!In, A!This
<1>2. /\ file \in [Uris -> FileType] /\ made \in Nat /\ owed \in SUBSET (Uris \X Contents)
      /\ call \in CallType /\ \A v \in Uris : file[v].id <= made
      /\ \A i \in call.items : i \in ItemType /\ i.id <= made
  BY DEF Archive, ArchiveTyped, CallType
<1>3. made' \in Nat /\ [content |-> c, id |-> made'] \in FileType
  BY <1>1, <1>2 DEF FileType
<1>4. /\ file' \in [Uris -> FileType]
      /\ \A v \in Uris : v # u => file'[v] = file[v]
      /\ file'[u].id = made' /\ file'[u].content = c
  BY <1>1, <1>2, <1>3
<1>5. (\A v \in Uris : file'[v].id <= made') /\ (\A i \in call.items : i.id <= made')
  <2>1. \A n \in Nat : n <= made => n <= made'
    BY <1>1, <1>2
  <2>2. \A v \in Uris : file[v].id \in Nat
    BY <1>2 DEF FileType
  <2>3. \A i \in call.items : i.id \in Nat
    BY <1>2 DEF ItemType
  <2>4. made' <= made'
    BY <1>3
  <2>5. ASSUME NEW v \in Uris PROVE file'[v].id <= made'
    BY <1>2, <1>4, <2>1, <2>2, <2>4
  <2> QED
    BY <1>2, <2>1, <2>3, <2>5
<1>6. ArchiveTyped'
  BY <1>1, <1>2, <1>3, <1>4, <1>5 DEF Archive, ArchiveTyped
<1>7. CallSound'
  <2>1. \A v : A!Archived(v)' = A!Archived(v)
    BY <1>1, StillResolved
  <2>2. call.pc = "refill" => call.item.uri \in Uris /\ call.item.uri # u
    BY <1>1 DEF Archive, CallSound, Before, ItemType
  <2>3. call.pc = "refill" => file'[call.item.uri].content = "empty"
    BY <1>4, <2>2 DEF Archive, CallSound
  <2>4. call' = call /\ object' = object /\ bound' = bound /\ Len(ledger)' = Len(ledger) /\ CallSound
    BY <1>1 DEF Archive
  <2> QED
    BY <2>1, <2>3, <2>4 DEF CallSound
<1>8. A!BytesStay'
  <2> SUFFICES ASSUME NEW r \in owed'
               PROVE  \/ file'[r[1]].content = r[2]
                      \/ \E q \in aside : q.uri = r[1] /\ q.content = r[2]
                      \/ A!Resolves(r[1], r[2])'
    BY <1>1 DEF A!BytesStay
  <2>1. r \in owed /\ r[1] \in Uris /\ r = <<r[1], r[2]>> /\ r # <<u, file[u].content>>
    BY <1>1, <1>2
  <2>2. \/ file[r[1]].content = r[2]
        \/ \E q \in aside : q.uri = r[1] /\ q.content = r[2]
        \/ A!Resolves(r[1], r[2])
    BY <2>1 DEF Archive, A!BytesStay
  <2>3. A!Resolves(r[1], r[2])' <=> A!Resolves(r[1], r[2])
    BY <1>1, StillResolved
  <2>4. file[r[1]].content = r[2] => r[1] # u
    BY <2>1
  <2> QED
    BY <1>4, <2>1, <2>2, <2>3, <2>4
<1> QED
  BY <1>1, <1>6, <1>7, <1>8, FilesOnly

\* A proof binds what is under a name.
LEMMA RegisterStep ==
    ASSUME Archive, NEW u \in Uris, A!Register(u)
    PROVE  Archive'
<1>1. /\ file[u].content \in Contents /\ refs' = refs \cup {<<u, file[u].content>>}
      /\ owed' = owed \cup {<<u, file[u].content>>}
      /\ UNCHANGED <<windows, linked, file, aside, object, bound, ledger, made, call>>
  BY DEF A!Register
<1>2. ArchiveTyped'
  BY <1>1 DEF Archive, ArchiveTyped
<1>3. CallSound'
  <2>1. \A v : A!Archived(v)' = A!Archived(v)
    BY <1>1, StillResolved
  <2> QED
    BY <1>1, <2>1 DEF Archive, CallSound
<1>4. A!BytesStay'
  <2> SUFFICES ASSUME NEW r \in owed'
               PROVE  \/ file[r[1]].content = r[2]
                      \/ \E q \in aside : q.uri = r[1] /\ q.content = r[2]
                      \/ A!Resolves(r[1], r[2])'
    BY <1>1 DEF A!BytesStay
  <2>1. A!Resolves(r[1], r[2])' <=> A!Resolves(r[1], r[2])
    BY <1>1, StillResolved
  <2>2. CASE r \in owed
    BY <2>1, <2>2 DEF Archive, A!BytesStay
  <2>3. CASE r = <<u, file[u].content>>
    BY <2>3
  <2> QED
    BY <1>1, <2>2, <2>3
<1> QED
  BY <1>1, <1>2, <1>3, <1>4, FilesOnly

\* The record that a restoration goes back to.
LEMMA Earlier ==
    ASSUME NEW e \in EntryType, NEW q \in Nat
    PROVE  [e EXCEPT !.action = "archived", !.previous = q]
             = [action |-> "archived", uri |-> e.uri, content |-> e.content, previous |-> q]
<1> DEFINE f == [e EXCEPT !.action = "archived", !.previous = q]
           g == [action |-> "archived", uri |-> e.uri, content |-> e.content, previous |-> q]
<1>1. f \in EntryType /\ f.action = "archived" /\ f.uri = e.uri /\ f.content = e.content /\ f.previous = q
  BY DEF EntryType
<1>2. g \in EntryType /\ g.action = "archived" /\ g.uri = e.uri /\ g.content = e.content /\ g.previous = q
  BY DEF EntryType
<1> HIDE DEF f, g
<1>3. f = g
  BY <1>1, <1>2 DEF EntryType
<1> QED
  BY <1>3 DEF f, g

\* _append_relocation_record, for a copy that can be read.
LEMMA AppendStep ==
    ASSUME Archive, NEW action \in {"archived", "restored"}, A!Append1(action),
           call.pc \in {"record", "again"}, action = "archived" <=> call.pc = "record",
           UNCHANGED <<file, aside, object, bound, made, linked, refs, owed>>,
           call' \in CallType, \A i \in call'.items : i.id <= made,
           call'.pc = "idle" \/ (action = "archived" /\ call'.pc = "verify" /\ call'.item = call.item
                                   /\ call'.seen = call.seen + 1)
    PROVE  Archive'
<1> DEFINE n == Len(ledger) + 1
           e == [action |-> action, uri |-> call.item.uri, content |-> call.item.content, previous |-> call.seen]
<1>0. ArchiveTyped /\ CallSound /\ LedgerSound
  BY DEF Archive
<1>1. /\ call.item \in ItemType /\ call.seen = Len(ledger) /\ Len(ledger) \in Nat
      /\ call.item.uri \in Uris /\ call.item.content \in Contents
  BY <1>0, LenProperties DEF CallSound, Before, Recording, ArchiveTyped, ItemType
<1>2. /\ ledger' \in Seq(EntryType) /\ Len(ledger') = n /\ DOMAIN ledger' = 1 .. n
      /\ \A i \in 1 .. Len(ledger) : ledger'[i] = ledger[i]
      /\ ledger'[n] = e
      /\ \A u : A!Archived(u)' = IF action = "archived" /\ u = call.item.uri
                                 THEN A!Archived(u) \cup {call.item.content} ELSE A!Archived(u)
  BY <1>0, <1>1, Appended
<1>3. ArchiveTyped'
  BY <1>0, <1>2 DEF ArchiveTyped
<1>4. action = "archived" => A!Archived(call.item.uri) = {} /\ object[call.item.content] = "whole"
                             /\ bound \in {"manifest", "located"}
  BY <1>0 DEF CallSound
<1>5. CallSound'
  <2>1. CASE call'.pc = "idle"
    BY <2>1 DEF CallSound, Before, Recording
  <2>2. CASE call'.pc = "verify" /\ action = "archived"
    <3>1. call'.seen = Len(ledger') /\ call'.item = call.item
      BY <1>1, <1>2, <2>2
    <3> QED
      BY <1>1, <1>2, <1>4, <2>2, <3>1 DEF CallSound, Before, Recording
  <2> QED
    BY <2>1, <2>2
<1>6. LedgerSound'
  <2>1. ASSUME NEW i \in 1 .. n
        PROVE  /\ ledger'[i].previous = i - 1
               /\ ledger'[i].action = "restored" =>
                    \E k \in 1 .. i - 1 : ledger'[k] = [ledger'[i] EXCEPT !.action = "archived", !.previous = k - 1]
    <3>1. CASE i \in 1 .. Len(ledger)
      <4>1. \A k \in 1 .. i - 1 : k \in 1 .. Len(ledger)
        BY <1>1, <3>1
      <4>2. \A k \in 1 .. i - 1 : ledger'[k] = ledger[k]
        BY <1>2, <4>1
      <4>3. ledger'[i] = ledger[i]
        BY <1>2, <3>1
      <4> QED
        BY <1>0, <3>1, <4>2, <4>3 DEF LedgerSound
    <3>2. CASE i = n
      <4>1. ledger'[i] = e /\ e.previous = i - 1 /\ e.action = action
        BY <1>1, <1>2, <3>2
      <4>2. ASSUME action = "restored"
            PROVE  \E k \in 1 .. i - 1 : ledger'[k] = [e EXCEPT !.action = "archived", !.previous = k - 1]
        <5>1. call.item.content \in A!Archived(call.item.uri)
          BY <1>0, <4>2 DEF CallSound
        <5>2. DOMAIN ledger = 1 .. Len(ledger)
          BY <1>0, LenProperties DEF ArchiveTyped
        <5>3. PICK k \in 1 .. Len(ledger) : ledger[k].action = "archived" /\ ledger[k].uri = call.item.uri
                                            /\ ledger[k].content = call.item.content
          BY <5>1, <5>2 DEF A!Archived
        <5>4. ledger[k].previous = k - 1 /\ ledger'[k] = ledger[k]
          BY <1>0, <1>2 DEF LedgerSound
        <5>5. ledger[k] \in EntryType
          BY <1>0, <5>2, ElementOfSeq DEF ArchiveTyped
        <5>6. ledger[k] = [action |-> "archived", uri |-> call.item.uri, content |-> call.item.content, previous |-> k - 1]
          BY <5>3, <5>4, <5>5 DEF EntryType
        <5>7. k \in 1 .. i - 1
          BY <1>1, <3>2
        <5>8. [e EXCEPT !.action = "archived", !.previous = k - 1]
                = [action |-> "archived", uri |-> call.item.uri, content |-> call.item.content, previous |-> k - 1]
          <6>1. e \in EntryType /\ e.uri = call.item.uri /\ e.content = call.item.content
            BY <1>1 DEF EntryType
          <6>2. k - 1 \in Nat
            BY <1>1
          <6> HIDE DEF e
          <6> QED
            BY <6>1, <6>2, Earlier
        <5> HIDE DEF e
        <5> QED
          BY <5>4, <5>6, <5>7, <5>8
      <4> HIDE DEF e
      <4> QED
        BY <4>1, <4>2
    <3>3. i \in 1 .. Len(ledger) \/ i = n
      BY <1>1
    <3> HIDE DEF n, e
    <3> QED
      BY <3>1, <3>2, <3>3
  <2>2. ASSUME NEW u \in Uris, NEW c \in A!Archived(u)', NEW d \in A!Archived(u)'
        PROVE  c = d
    <3>1. CASE action = "archived" /\ u = call.item.uri
      BY <1>2, <1>4, <3>1
    <3>2. CASE ~(action = "archived" /\ u = call.item.uri)
      BY <1>0, <1>2, <3>2 DEF LedgerSound
    <3> QED
      BY <3>1, <3>2
  <2> QED
    BY <1>2, <2>1, <2>2 DEF LedgerSound
<1>7. A!RecordedIsWhole'
  BY <1>2, <1>4 DEF Archive, A!RecordedIsWhole
<1>8. A!BytesStay'
  <2>1. \A u, c : A!Resolves(u, c) => A!Resolves(u, c)'
    BY <1>2 DEF A!Resolves
  <2> QED
    BY <2>1 DEF Archive, A!BytesStay
<1> QED
  BY <1>3, <1>5, <1>6, <1>7, <1>8 DEF Archive

\* The two calls of _append_relocation_record.
LEMMA RecordStepOfArchive ==
    ASSUME Archive, A!Record \/ A!RecordRestored
    PROVE  Archive'
<1>0. call \in CallType /\ \A i \in call.items : i.id <= made
  BY DEF Archive, ArchiveTyped
<1>1. CASE A!Record
  <2>1. /\ call.pc = "record" /\ A!Append1("archived")
        /\ call' = [call EXCEPT !.pc = "verify", !.seen = @ + 1]
        /\ UNCHANGED <<file, aside, object, bound, made, linked, refs, owed>>
    BY <1>1 DEF A!Record, A!In, A!Quiet
  <2>0. call.seen + 1 \in Nat
    BY <1>0 DEF CallType
  <2>2. /\ call' \in CallType /\ call'.pc = "verify" /\ call'.item = call.item
        /\ call'.seen = call.seen + 1 /\ call'.items = call.items
    BY <1>0, <2>0, <2>1 DEF CallType, Places
  <2> QED
    BY <1>0, <2>1, <2>2, AppendStep
<1>2. CASE A!RecordRestored
  <2>1. /\ call.pc = "again" /\ A!Append1("restored") /\ call' = A!Idle
        /\ UNCHANGED <<file, aside, object, bound, made, linked, refs, owed>>
    BY <1>2 DEF A!RecordRestored, A!In, A!Return, A!Quiet
  <2>2. call' \in CallType /\ call'.items = {}
    BY <2>1, IdleIsSound
  <2>3. call'.pc = "idle"
    BY <2>1 DEF A!Idle
  <2> QED
    BY <2>1, <2>2, <2>3, AppendStep
<1> QED
  BY <1>1, <1>2

\* _remove_verified_source: a file moves into a quarantine, whatever it holds.
LEMMA ParkStep ==
    ASSUME Archive, A!Park
    PROVE  Archive'
<1> DEFINE u == call.item.uri
           q == [uri |-> u, content |-> file[u].content, id |-> file[u].id]
<1>0. ArchiveTyped /\ CallSound
  BY DEF Archive
<1>1. /\ call.pc = "park" /\ UNCHANGED <<object, bound, ledger, made, linked, refs, owed>>
      /\ \/ file' = file /\ aside' = aside /\ call' = [call EXCEPT !.pc = "item"]
         \/ /\ aside' = aside \cup {q} /\ file' = [file EXCEPT ![u] = A!NoFile]
            /\ call' = [call EXCEPT !.pc = "unlink"]
  BY DEF A!Park, A!In, A!Goto, A!Quiet, A!This
<1>2. u \in Uris
  BY <1>0, <1>1 DEF CallSound, Before, ItemType
<1>3. q.uri = u /\ q.content = file[u].content
  OBVIOUS
<1>4. file \in [Uris -> FileType] /\ A!NoFile \in FileType /\ A!NoFile.id = 0 /\ made \in Nat
  BY <1>0 DEF ArchiveTyped, FileType, A!NoFile
<1> HIDE DEF u, q
<1>5. /\ call' \in CallType /\ call'.items = call.items /\ call'.item = call.item
      /\ call'.seen = call.seen /\ call'.pc \in {"item", "unlink"}
  BY <1>0, <1>1 DEF ArchiveTyped, CallType, Places
<1>6. /\ file' \in [Uris -> FileType] /\ \A v \in Uris : file'[v] = file[v] \/ file'[v] = A!NoFile
      /\ \A v \in Uris : v # u => file'[v] = file[v]
      /\ file'[u] = file[u] \/ aside' = aside \cup {q}
      /\ aside \in SUBSET aside'
  BY <1>1, <1>2, <1>4
<1>7. ArchiveTyped'
  <2>1. \A v \in Uris : file'[v].id <= made
    BY <1>0, <1>4, <1>6 DEF ArchiveTyped
  <2> QED
    BY <1>0, <1>1, <1>5, <1>6, <2>1 DEF ArchiveTyped
<1>8. CallSound'
  <2>1. \A v : A!Archived(v)' = A!Archived(v)
    BY <1>1, StillResolved
  <2>2. /\ call.item \in ItemType /\ call.seen = Len(ledger) /\ bound \in {"manifest", "located"}
        /\ call.item.content \in A!Archived(call.item.uri)
    BY <1>0, <1>1 DEF CallSound, Before, Recording
  <2>3. Len(ledger)' = Len(ledger) /\ bound' = bound
    BY <1>1
  <2> QED
    BY <1>5, <2>1, <2>2, <2>3 DEF CallSound, Before, Recording
<1>9. A!BytesStay'
  <2> SUFFICES ASSUME NEW r \in owed
               PROVE  \/ file'[r[1]].content = r[2]
                      \/ \E p \in aside' : p.uri = r[1] /\ p.content = r[2]
                      \/ A!Resolves(r[1], r[2])'
    BY <1>1 DEF A!BytesStay
  <2>1. r[1] \in Uris
    BY <1>0 DEF ArchiveTyped
  <2>2. A!Resolves(r[1], r[2])' <=> A!Resolves(r[1], r[2])
    BY <1>1, StillResolved
  <2>3. \/ file[r[1]].content = r[2]
        \/ \E p \in aside : p.uri = r[1] /\ p.content = r[2]
        \/ A!Resolves(r[1], r[2])
    BY DEF Archive, A!BytesStay
  <2>4. ASSUME file[r[1]].content = r[2]
        PROVE  file'[r[1]].content = r[2] \/ \E p \in aside' : p.uri = r[1] /\ p.content = r[2]
    BY <1>3, <1>6, <2>1, <2>4
  <2> QED
    BY <1>6, <2>2, <2>3, <2>4
<1> QED
  BY <1>1, <1>7, <1>8, <1>9, FilesOnly

\* _unlink_verified_quarantine: what is deleted for good can be read from the archive.
LEMMA UnlinkStep ==
    ASSUME Archive, A!Unlink
    PROVE  Archive'
<1>0. ArchiveTyped /\ CallSound
  BY DEF Archive
<1>1. /\ call.pc = "unlink" /\ UNCHANGED <<file, object, bound, ledger, made, linked, refs, owed>>
      /\ \A q \in aside : q # call.item => q \in aside'
      /\ call' = [call EXCEPT !.pc = "item"]
  BY DEF A!Unlink, A!In, A!Goto, A!Quiet, A!This, A!StaysAside
<1>2. /\ call.item \in ItemType /\ call.seen = Len(ledger) /\ bound \in {"manifest", "located"}
      /\ call.item.content \in A!Archived(call.item.uri)
  BY <1>0, <1>1 DEF CallSound, Before, Recording
<1>3. /\ call' \in CallType /\ call'.items = call.items /\ call'.item = call.item
      /\ call'.seen = call.seen /\ call'.pc = "item"
  BY <1>0, <1>1 DEF ArchiveTyped, CallType, Places
<1>4. ArchiveTyped'
  BY <1>0, <1>1, <1>3 DEF ArchiveTyped
<1>5. CallSound'
  <2>1. Len(ledger)' = Len(ledger) /\ bound' = bound
    BY <1>1
  <2> QED
    BY <1>2, <1>3, <2>1 DEF CallSound, Before, Recording
<1>6. A!Resolves(call.item.uri, call.item.content)
  BY <1>2 DEF Archive, A!RecordedIsWhole, A!Resolves, ItemType
<1>7. A!BytesStay'
  <2> SUFFICES ASSUME NEW r \in owed
               PROVE  \/ file[r[1]].content = r[2]
                      \/ \E q \in aside' : q.uri = r[1] /\ q.content = r[2]
                      \/ A!Resolves(r[1], r[2])'
    BY <1>1 DEF A!BytesStay
  <2>1. A!Resolves(r[1], r[2])' <=> A!Resolves(r[1], r[2])
    BY <1>1, StillResolved
  <2>2. \/ file[r[1]].content = r[2]
        \/ \E q \in aside : q.uri = r[1] /\ q.content = r[2]
        \/ A!Resolves(r[1], r[2])
    BY DEF Archive, A!BytesStay
  <2>3. ASSUME NEW q \in aside, q.uri = r[1] /\ q.content = r[2], q = call.item
        PROVE  A!Resolves(r[1], r[2])
    BY <1>6, <2>3
  <2> QED
    BY <1>1, <2>1, <2>2, <2>3
<1> QED
  BY <1>1, <1>4, <1>5, <1>7, FilesOnly

\* restore_relocated_proof puts a file only where none is, or where it reserved the name.
LEMMA RestoreStep ==
    ASSUME Archive, A!CopyBack \/ A!Refill
    PROVE  Archive'
<1> DEFINE u == call.item.uri
<1>0. ArchiveTyped /\ CallSound
  BY DEF Archive
<1>1. /\ call.pc \in {"restore", "refill"} /\ UNCHANGED <<aside, object, bound, ledger, linked, refs, owed>>
  BY DEF A!CopyBack, A!Refill, A!In, A!Quiet
<1>2. /\ call.item \in ItemType /\ u \in Uris /\ call.item.content \in Contents
      /\ call.item.content \in A!Archived(u)
  BY <1>0, <1>1 DEF CallSound, Before, ItemType
<1>3. /\ file \in [Uris -> FileType] /\ made \in Nat /\ call \in CallType
      /\ \A v \in Uris : file[v].id <= made /\ file[v].id \in Nat
      /\ \A i \in call.items : i.id <= made /\ i.id \in Nat
      /\ Len(ledger) \in Nat /\ linked \in BOOLEAN
  BY <1>0, LenProperties DEF ArchiveTyped, FileType, CallType, ItemType
<1> HIDE DEF u
\* What the file system holds afterwards.
<1>4. /\ made' \in Nat /\ made <= made'
      /\ file' \in [Uris -> FileType] /\ \A v \in Uris : v # u => file'[v] = file[v]
      /\ file'[u].id <= made'
      /\ file'[u] = file[u] \/ file[u].content \in {"none", "empty"}
      /\ call'.pc = "refill" => file'[u].content = "empty"
      /\ call' \in CallType /\ call'.items \in SUBSET call.items
      /\ \/ call' = A!Idle
         \/ call'.pc \in {"again", "refill"} /\ call'.item = call.item /\ call'.seen = Len(ledger)
  <2>1. CASE A!Refill
    <3>1. /\ call.pc = "refill" /\ file' = [file EXCEPT ![u].content = call.item.content]
          /\ call' = [call EXCEPT !.pc = "again"] /\ made' = made
      BY <2>1 DEF A!Refill, A!In, A!Goto, A!This, u
    <3>2. file[u].content = "empty" /\ call.seen = Len(ledger)
      BY <1>0, <3>1 DEF CallSound, Recording, u
    <3>3. /\ call' \in CallType /\ call'.items = call.items /\ call'.item = call.item
          /\ call'.seen = call.seen /\ call'.pc = "again"
      BY <1>3, <3>1 DEF CallType, Places
    <3>4. /\ file' \in [Uris -> FileType] /\ file'[u].id = file[u].id
          /\ \A v \in Uris : v # u => file'[v] = file[v]
      BY <1>2, <1>3, <3>1 DEF FileType
    <3> QED
      BY <1>2, <1>3, <3>1, <3>2, <3>3, <3>4
  <2>2. CASE A!CopyBack /\ file[u] # A!NoFile
    <3>1. file' = file /\ made' = made
      BY <2>2 DEF A!CopyBack, A!This, u
    <3>2. CASE call' = A!Idle
      <4>1. call' \in CallType /\ call'.items = {} /\ call'.pc = "idle"
        BY <3>2, IdleIsSound DEF A!Idle
      <4> QED
        BY <1>2, <1>3, <3>1, <3>2, <4>1
    <3>3. CASE call' = [call EXCEPT !.pc = "again", !.seen = Len(ledger)]
      <4>1. /\ call' \in CallType /\ call'.items = call.items /\ call'.item = call.item
            /\ call'.seen = Len(ledger) /\ call'.pc = "again"
        BY <1>3, <3>3 DEF CallType, Places
      <4> QED
        BY <1>2, <1>3, <3>1, <4>1
    <3> QED
      BY <2>2, <3>2, <3>3 DEF A!CopyBack, A!This, A!Return, u
  <2>3. CASE A!CopyBack /\ file[u] = A!NoFile
    <3> DEFINE f == [content |-> IF linked THEN call.item.content ELSE "empty", id |-> made + 1]
               to == IF linked THEN "again" ELSE "refill"
    <3>1. /\ made' = made + 1 /\ file' = [file EXCEPT ![u] = f]
          /\ call' = [call EXCEPT !.pc = to, !.seen = Len(ledger)]
      BY <2>3 DEF A!CopyBack, A!This, u
    <3>2. f \in FileType /\ f.id = made + 1 /\ (to = "refill" => f.content = "empty") /\ to \in {"again", "refill"}
      BY <1>2, <1>3 DEF FileType
    <3> HIDE DEF f, to
    <3>3. /\ call' \in CallType /\ call'.items = call.items /\ call'.item = call.item
          /\ call'.seen = Len(ledger) /\ call'.pc = to
      BY <1>3, <3>1, <3>2 DEF CallType, Places
    <3>4. /\ file' \in [Uris -> FileType] /\ file'[u] = f
          /\ \A v \in Uris : v # u => file'[v] = file[v]
      BY <1>2, <1>3, <3>1, <3>2
    <3>5. file[u].content = "none"
      BY <2>3 DEF A!NoFile
    <3> QED
      BY <1>2, <1>3, <3>1, <3>2, <3>3, <3>4, <3>5
  <2> QED
    BY <2>1, <2>2, <2>3
<1>5. ArchiveTyped'
  <2>1. \A v \in Uris : file'[v].id <= made'
    BY <1>2, <1>3, <1>4
  <2>2. \A i \in call'.items : i.id <= made'
    BY <1>3, <1>4
  <2> QED
    BY <1>0, <1>1, <1>4, <2>1, <2>2 DEF ArchiveTyped
<1>6. CallSound'
  <2>1. CASE call' = A!Idle
    BY <2>1, IdleIsSound
  <2>2. CASE call'.pc \in {"again", "refill"} /\ call'.item = call.item /\ call'.seen = Len(ledger)
    <3>1. \A v : A!Archived(v)' = A!Archived(v)
      BY <1>1, StillResolved
    <3>2. Len(ledger)' = Len(ledger)
      BY <1>1
    <3>3. call'.pc = "refill" => file'[call'.item.uri].content = "empty"
      BY <1>4, <2>2 DEF u
    <3> QED
      BY <1>2, <2>2, <3>1, <3>2, <3>3 DEF CallSound, Before, Recording, u
  <2> QED
    BY <1>4, <2>1, <2>2
<1>7. A!BytesStay'
  <2> SUFFICES ASSUME NEW r \in owed
               PROVE  \/ file'[r[1]].content = r[2]
                      \/ \E q \in aside : q.uri = r[1] /\ q.content = r[2]
                      \/ A!Resolves(r[1], r[2])'
    BY <1>1 DEF A!BytesStay
  <2>1. r[1] \in Uris /\ r[2] \in Contents
    BY <1>0 DEF ArchiveTyped
  <2>2. A!Resolves(r[1], r[2])' <=> A!Resolves(r[1], r[2])
    BY <1>1, StillResolved
  <2>3. \/ file[r[1]].content = r[2]
        \/ \E q \in aside : q.uri = r[1] /\ q.content = r[2]
        \/ A!Resolves(r[1], r[2])
    BY DEF Archive, A!BytesStay
  <2>4. file[r[1]].content = r[2] => file'[r[1]] = file[r[1]]
    BY <1>4, <2>1, ContentsAreReal
  <2> QED
    BY <2>2, <2>3, <2>4
<1> QED
  BY <1>1, <1>5, <1>6, <1>7, FilesOnly

\* Every step of the archive.
LEMMA ArchiveStep ==
    ASSUME Archive, A!Next
    PROVE  Archive'
<1>1. CASE \E u \in Uris : A!Register(u)
  BY <1>1, RegisterStep
<1>2. CASE \E u \in Uris, c \in Contents : A!Write(u, c)
  BY <1>2, WriteStep
<1>3. CASE A!Record \/ A!RecordRestored
  BY <1>3, RecordStepOfArchive
<1>4. CASE A!Park
  BY <1>4, ParkStep
<1>5. CASE A!Unlink
  BY <1>5, UnlinkStep
<1>6. CASE A!CopyBack \/ A!Refill
  BY <1>6, RestoreStep
<1>7. CASE \/ \E keep \in 0 .. 1 : A!Begin(keep)
           \/ A!Manifest \/ A!Name \/ A!Locator \/ A!Plan \/ A!Take \/ A!CopyObject
           \/ A!Fill \/ A!Verify
           \/ \E u \in Uris, c \in Contents : A!BeginRestore(u, c)
           \/ A!Resolve \/ A!Die
  BY <1>7, Moves
<1> QED
  BY <1>1, <1>2, <1>3, <1>4, <1>5, <1>6, <1>7 DEF A!Next

\* The archive before the first call.
LEMMA ArchiveInit == A!Init => Archive
<1> SUFFICES ASSUME A!Init
             PROVE  Archive
  OBVIOUS
<1>1. ledger = <<>> /\ Len(ledger) = 0 /\ DOMAIN ledger = {} /\ ledger \in Seq(EntryType)
  BY DEF A!Init
<1>2. call = [pc |-> "idle", keep |-> 0, items |-> {}, item |-> A!NoItem, seen |-> 0]
  BY DEF A!Init, A!Idle
<1>3. call \in CallType /\ call.items = {} /\ call.pc = "idle"
  BY <1>2 DEF CallType, Places
<1>4. ArchiveTyped
  BY <1>1, <1>3 DEF A!Init, ArchiveTyped, FileType, A!NoFile
<1>5. \A u : A!Archived(u) = {}
  BY <1>1 DEF A!Archived
<1>6. CallSound
  BY <1>3 DEF CallSound, Before, Recording
<1> QED
  BY <1>1, <1>4, <1>5, <1>6 DEF A!Init, Archive, LedgerSound, A!RecordedIsWhole, A!BytesStay

-----------------------------------------------------------------------------
(* The operation: its files, what a call still writes, and who holds the     *)
(* lock.                                                                     *)

\* The writes a call still makes, whatever their order.
All(ws) == {ws[i] : i \in DOMAIN ws}
IsEvent(w, type) == w.do = "event" /\ w.arg = type
\* How many failed publications a list still notes.
Tally(ws) == Cardinality({i \in DOMAIN ws : IsEvent(ws[i], "publication_failed")})

\* What outdates a proof pack; what tells a verdict.
Changing == {"run", "exp", "event", "mirror", "copy"}
Telling(w) == w.do = "event" /\ w.arg \in Verdicts

\* What may still come after a write.
Follows(a, b) ==
    /\ a.do = "proof" => b.do \notin Changing
    /\ b.do = "unlink" => a.do = "drop"
    /\ a.do # "seal"
    /\ a.do = "verify" => b.do = "seal"
    /\ ~(Telling(a) /\ Telling(b))
    /\ IsEvent(b, "started") => a.do \notin {"event", "try"}
    /\ a.do = "run" /\ b.do = "run" => a.arg.status = b.arg.status /\ a.arg.fails = b.arg.fails

\* A list of writes, in an order that may be written.
IsList(ws) == ws \in Seq(All(ws))
Ordered(ws) == \A i, j \in DOMAIN ws : i < j => Follows(ws[i], ws[j])
\* A receipt is written before anything is told of it.
Late(ws) == \A i, j \in DOMAIN ws : i < j /\ ws[j].do = "run" => ws[i].do # "event"

\* What the receipt notes, and what the log tells.
Noted == IF Started THEN run.fails ELSE 0
Told(e) == \E i \in DOMAIN log : log[i] = e

\* The files, whoever holds the lock.
RowSound == row # None =>
    /\ row = [of |-> row.of, seal |-> row.seal]
    /\ row.seal # None => Sealed /\ Completed
\* The log tells one verdict at most, and it is the one of the receipt.
TellsOnce == \A i \in DOMAIN log : log[i] \in Verdicts =>
    /\ Started /\ log[i] = run.status
    /\ \A j \in DOMAIN log : log[j] \in Verdicts => i = j
\* A proof pack describes the files as they are.
PackSound == proof # None =>
    /\ PackIsCurrent /\ Started /\ ~Active
    /\ proof.recovery => Told("interrupted") /\ Count("publication_failed") = run.fails
\* The log begins with the start, and notes no failure the receipt does not.
LogSound ==
    /\ log \in Seq(Events) /\ (log # <<>> => log[1] = "started")
    /\ Count("publication_failed") <= Noted
    /\ (~Started => log = <<>>)
Files == run \in Receipts \cup {None} /\ IsFiniteSet(mirror) /\ RowSound /\ TellsOnce /\ PackSound /\ LogSound

\* What is still to be written: the receipts among it, and the form of the list.
Runs(ws) == {w \in All(ws) : w.do = "run"}
Proper(ws) ==
    /\ IsList(ws) /\ Ordered(ws)
    /\ \A w \in All(ws) :
          /\ w.do \in {"run", "exp"} => w.arg \in Receipts
          /\ w.do = "event" => w.arg \in Events
          /\ w.do = "proof" => w.arg \in BOOLEAN
\* No pending receipt changes a verdict, and the first of all is the one that starts.
Fitting(ws) ==
    /\ \A w \in Runs(ws) : Started /\ ~Active => w.arg.status = run.status
    /\ ~Started /\ ws # <<>> => ws[1].do = "run"
\* The seal is only for a decided operation whose publication was verified.
Sealing(ws) == \A w \in All(ws) : w.do = "seal" =>
    Marked /\ ((\A v \in All(ws) : v.do # "verify") => Completed /\ ws[1].do = "seal")
\* A pending verdict is the first to be told, and follows the receipt that has it.
TellingSound(ws) == \A w \in All(ws) : Telling(w) =>
    /\ \A e \in Verdicts : ~Told(e)
    /\ Started
    /\ IF Active THEN ws[1].do = "run" /\ ws[1].arg.status = w.arg ELSE w.arg = run.status
\* Who outdates a proof pack unlinks it too, and before that (Follows).
Unlinking(ws) == proof # None /\ (\E w \in All(ws) : w.do \in Changing) => \E w \in All(ws) : w.do = "unlink"
\* The start is told before anything else.
Starts(ws) == log = <<>> /\ (\E w \in All(ws) : w.do \in {"event", "try"}) => \E w \in All(ws) : IsEvent(w, "started")
\* No failure is told that the receipt does not count, and none is counted twice.
Counting(ws) ==
    /\ \A w \in Runs(ws) :
          /\ Count("publication_failed") + Tally(ws) <= w.arg.fails
          /\ w.arg.fails >= Noted
          /\ w.arg.fails = Noted \/ Late(ws)
    /\ Runs(ws) = {} => Count("publication_failed") + Tally(ws) <= Noted
\* A proof pack is written last, of a decided operation, and that of a recovery with every
\* failure told.
Proving(ws) == \A w \in All(ws) : w.do = "proof" =>
    /\ Started /\ ~Active
    /\ w.arg = TRUE =>
          /\ Told("interrupted") \/ \E v \in All(ws) : IsEvent(v, "interrupted")
          /\ Count("publication_failed") + Tally(ws) = run.fails
          /\ \A v \in Runs(ws) : v.arg.fails = run.fails
\* What a call still has to write when the lock is held.
Pending(ws) ==
    /\ Proper(ws) /\ Fitting(ws) /\ Sealing(ws) /\ TellingSound(ws)
    /\ Unlinking(ws) /\ Starts(ws) /\ Counting(ws) /\ Proving(ws)

\* Who holds the lock, and where the owner is.
Place == [start |-> "new", note |-> "body", finish |-> "body", exit |-> "exit", prove |-> "prove", unprove |-> "unproved"]
\* The verdicts of the owner.
Ending == {"succeeded", "failed"}
Held ==
    /\ lock \in {None, Owner} \cup Recoverers
    /\ chosen \in [Recoverers -> Receipts \cup {None}]
    /\ lock = None <=> todo = <<>>
    /\ lock # None => ~Sealed
\* The owner, while it holds the lock: its pending writes are those of its place.
OwnerCall ==
    lock = Owner =>
        /\ mode \in DOMAIN Place /\ pc = Place[mode]
        /\ mode \notin {"prove", "unprove"} => proof = None /\ \A w \in All(todo) : w.do # "proof"
        /\ mode \in {"finish", "exit"} =>
              (Started /\ run.status \in Ending) \/ (todo[1].do = "run" /\ todo[1].arg.status \in Ending)
        /\ mode = "start" => log # <<>> \/ \E w \in All(todo) : w.do = "event"
        /\ \A w \in All(todo) : w.do \notin {"publish", "verify", "seal", "try"} /\ (w.do = "proof" => w.arg = FALSE)
\* The owner, where it is between two calls.
OwnerPlace ==
    /\ pc \in {"new", "body", "exit", "prove", "unproved", "gone"}
    /\ pc = "new" /\ lock # Owner => ~Started
    /\ ~Started => pc \in {"new", "gone"} /\ lock \notin Recoverers
    /\ pc = "prove" /\ lock # Owner => proof = None
    /\ pc \in {"prove", "unproved"} => run.status \in Ending
    /\ pc \in {"body", "exit", "prove", "unproved"} => log # <<>>
\* A recoverer decides no operation but the one it chose, and publishes what is decided.
RecovererSound ==
    lock \in Recoverers =>
        /\ mode \in {"recover", "publish", "clean"}
        /\ mode # "recover" => Marked /\ log # <<>>
        /\ \/ Marked
           \/ /\ Active /\ run = chosen[lock] /\ todo[1].do = "run" /\ todo[1].arg.status = "interrupted"
              /\ \A w \in All(todo) : w.do \in {"run", "exp", "publish"}
\* The operation, between two steps.
OpInv == Files /\ Pending(todo) /\ Held /\ OwnerCall /\ OwnerPlace /\ RecovererSound

\* The domain of a list, and its first write.
LEMMA ListShape ==
    ASSUME NEW ws, IsList(ws)
    PROVE  Len(ws) \in Nat /\ DOMAIN ws = 1 .. Len(ws) /\ (ws # <<>> => Len(ws) > 0 /\ Head(ws) = ws[1])
<1>1. Len(ws) \in Nat /\ DOMAIN ws = 1 .. Len(ws)
  BY LenProperties DEF IsList
<1> QED
  BY <1>1, EmptySeq DEF IsList

\* A list of writes is a sequence over any set that holds them.
LEMMA WiderList ==
    ASSUME NEW ws, IsList(ws), NEW S, All(ws) \subseteq S
    PROVE  ws \in Seq(S)
<1>1. ws \in [1 .. Len(ws) -> All(ws)] /\ Len(ws) \in Nat
  BY LenProperties DEF IsList
<1>2. ws \in [1 .. Len(ws) -> S]
  BY <1>1
<1> QED
  BY <1>1, <1>2, SeqDef

\* A sequence is a list of its own writes.
LEMMA ListOf ==
    ASSUME NEW S, NEW ws \in Seq(S)
    PROVE  IsList(ws) /\ All(ws) \subseteq S
<1>1. ws \in [1 .. Len(ws) -> S] /\ Len(ws) \in Nat /\ DOMAIN ws = 1 .. Len(ws)
  BY LenProperties
<1>2. ws \in [1 .. Len(ws) -> All(ws)] /\ All(ws) \subseteq S
  BY <1>1 DEF All
<1> QED
  BY <1>1, <1>2, SeqDef DEF IsList

\* Positions counted from another start are as many.
LEMMA Shifted ==
    ASSUME NEW m \in Nat, NEW n \in Nat, NEW B \in SUBSET (1 .. n)
    PROVE  LET C == {m + k : k \in B} IN
           /\ IsFiniteSet(B) /\ IsFiniteSet(C) /\ Cardinality(C) = Cardinality(B) /\ Cardinality(B) \in Nat
<1> DEFINE C == {m + k : k \in B}
           f == [k \in B |-> m + k]
<1>1. IsFiniteSet(B) /\ Cardinality(B) \in Nat
  <2>1. IsFiniteSet(1 .. n)
    BY FS_Interval
  <2> QED
    BY <2>1, FS_Subset, FS_CardinalityType
<1>2. f \in Bijection(B, C)
  <2>1. f \in [B -> C]
    OBVIOUS
  <2>2. \A a, b \in B : f[a] = f[b] => a = b
    OBVIOUS
  <2>3. \A c \in C : \E b \in B : f[b] = c
    OBVIOUS
  <2> HIDE DEF f, C
  <2>4. f \in Injection(B, C) /\ f \in Surjection(B, C)
    BY <2>1, <2>2, <2>3 DEF Injection, Surjection, IsInjective
  <2> QED
    BY <2>4 DEF Bijection
<1>3. ExistsBijection(B, C)
  BY <1>2 DEF ExistsBijection
<1> QED
  BY <1>1, <1>3, FS_Bijection

\* What holds of one list after another.
LEMMA Joined ==
    ASSUME NEW x, NEW y, IsList(x), IsList(y)
    PROVE  /\ IsList(x \o y) /\ All(x \o y) = All(x) \cup All(y) /\ Len(x \o y) = Len(x) + Len(y)
           /\ (x # <<>> => x \o y # <<>> /\ (x \o y)[1] = x[1])
           /\ (y # <<>> => x \o y # <<>>)
           /\ Ordered(x \o y) <=> Ordered(x) /\ Ordered(y) /\ \A a \in All(x), b \in All(y) : Follows(a, b)
           /\ Late(x \o y) <=> /\ Late(x) /\ Late(y)
                               /\ \A a \in All(x), b \in All(y) : b.do = "run" => a.do # "event"
           /\ Tally(x \o y) = Tally(x) + Tally(y) /\ Tally(x) \in Nat /\ Tally(y) \in Nat
<1> DEFINE z == x \o y
           m == Len(x)
           n == Len(y)
           S == All(x) \cup All(y)
<1>1. m \in Nat /\ n \in Nat /\ DOMAIN x = 1 .. m /\ DOMAIN y = 1 .. n
  BY ListShape
<1>2. x \in Seq(S) /\ y \in Seq(S)
  BY WiderList
<1>3. /\ z \in Seq(S) /\ Len(z) = m + n
      /\ \A i \in 1 .. m + n : z[i] = IF i <= m THEN x[i] ELSE y[i - m]
  <2> HIDE DEF S
  <2> QED
    BY <1>2, ConcatProperties
<1>4. DOMAIN z = 1 .. m + n
  BY <1>3, LenProperties
<1>5. IsList(z)
  BY <1>3, ListOf
<1> HIDE DEF z
<1>6. (\A i \in 1 .. m : i \in 1 .. m + n /\ z[i] = x[i]) /\ \A k \in 1 .. n : m + k \in 1 .. m + n /\ z[m + k] = y[k]
  BY <1>1, <1>3
<1>7. \A i \in 1 .. m + n : i \in 1 .. m \/ \E k \in 1 .. n : i = m + k
  <2> TAKE i \in 1 .. m + n
  <2>1. i \in 1 .. m \/ (i - m \in 1 .. n /\ i = m + (i - m))
    BY <1>1
  <2> QED
    BY <2>1
<1>8. All(z) = S
  <2>1. \A w \in All(x) : w \in All(z)
    BY <1>1, <1>4, <1>6 DEF All
  <2>2. \A w \in All(y) : w \in All(z)
    BY <1>1, <1>4, <1>6 DEF All
  <2>3. ASSUME NEW i \in 1 .. m + n PROVE z[i] \in S
    <3>1. CASE i \in 1 .. m
      BY <1>1, <1>6, <3>1 DEF All
    <3>2. ASSUME NEW k \in 1 .. n, i = m + k PROVE z[i] \in S
      BY <1>1, <1>6, <3>2 DEF All
    <3> QED
      BY <1>7, <3>1, <3>2
  <2>4. \A w \in All(z) : w \in S
    BY <1>4, <2>3 DEF All
  <2> QED
    BY <2>1, <2>2, <2>4
<1>9. x # <<>> => z # <<>> /\ z[1] = x[1]
  BY <1>1, <1>3, <1>6, ListShape, EmptySeq
<1>10. y # <<>> => z # <<>>
  BY <1>1, <1>3, ListShape, EmptySeq
<1>11. Ordered(z) <=> Ordered(x) /\ Ordered(y) /\ \A a \in All(x), b \in All(y) : Follows(a, b)
  <2>1. ASSUME Ordered(z)
        PROVE  Ordered(x) /\ Ordered(y) /\ \A a \in All(x), b \in All(y) : Follows(a, b)
    <3>1. Ordered(x)
      BY <1>1, <1>4, <1>6, <2>1 DEF Ordered
    <3>2. Ordered(y)
      <4> SUFFICES ASSUME NEW i \in 1 .. n, NEW j \in 1 .. n, i < j PROVE Follows(y[i], y[j])
        BY <1>1 DEF Ordered
      <4>1. m + i \in DOMAIN z /\ m + j \in DOMAIN z /\ m + i < m + j
        BY <1>1, <1>4
      <4> QED
        BY <1>6, <2>1, <4>1 DEF Ordered
    <3>3. ASSUME NEW a \in All(x), NEW b \in All(y) PROVE Follows(a, b)
      <4>1. PICK i \in 1 .. m, k \in 1 .. n : a = x[i] /\ b = y[k]
        BY <1>1 DEF All
      <4>2. i \in DOMAIN z /\ m + k \in DOMAIN z /\ i < m + k
        BY <1>1, <1>4
      <4> QED
        BY <1>6, <2>1, <4>1, <4>2 DEF Ordered
    <3> QED
      BY <3>1, <3>2, <3>3
  <2>2. ASSUME Ordered(x), Ordered(y), \A a \in All(x), b \in All(y) : Follows(a, b)
        PROVE  Ordered(z)
    <3> SUFFICES ASSUME NEW i \in 1 .. m + n, NEW j \in 1 .. m + n, i < j PROVE Follows(z[i], z[j])
      BY <1>4 DEF Ordered
    <3>1. CASE i \in 1 .. m /\ j \in 1 .. m
      BY <1>1, <1>6, <2>2, <3>1 DEF Ordered
    <3>2. ASSUME i \in 1 .. m, NEW k \in 1 .. n, j = m + k PROVE Follows(z[i], z[j])
      <4>1. x[i] \in All(x) /\ y[k] \in All(y)
        BY <1>1, <3>2 DEF All
      <4> QED
        BY <1>6, <2>2, <3>2, <4>1
    <3>3. ASSUME NEW k \in 1 .. n, i = m + k, NEW l \in 1 .. n, j = m + l PROVE Follows(z[i], z[j])
      <4>1. k < l
        BY <1>1, <3>3
      <4> QED
        BY <1>1, <1>6, <2>2, <3>3, <4>1 DEF Ordered
    <3>4. ASSUME NEW k \in 1 .. n, i = m + k PROVE j \notin 1 .. m
      BY <1>1, <3>4
    <3> QED
      BY <1>7, <3>1, <3>2, <3>3, <3>4
  <2> QED
    BY <2>1, <2>2
<1>12. Late(z) <=> Late(x) /\ Late(y) /\ \A a \in All(x), b \in All(y) : b.do = "run" => a.do # "event"
  <2>1. ASSUME Late(z)
        PROVE  Late(x) /\ Late(y) /\ \A a \in All(x), b \in All(y) : b.do = "run" => a.do # "event"
    <3>1. Late(x)
      BY <1>1, <1>4, <1>6, <2>1 DEF Late
    <3>2. Late(y)
      <4> SUFFICES ASSUME NEW i \in 1 .. n, NEW j \in 1 .. n, i < j, y[j].do = "run" PROVE y[i].do # "event"
        BY <1>1 DEF Late
      <4>1. m + i \in DOMAIN z /\ m + j \in DOMAIN z /\ m + i < m + j
        BY <1>1, <1>4
      <4> QED
        BY <1>6, <2>1, <4>1 DEF Late
    <3>3. ASSUME NEW a \in All(x), NEW b \in All(y), b.do = "run" PROVE a.do # "event"
      <4>1. PICK i \in 1 .. m, k \in 1 .. n : a = x[i] /\ b = y[k]
        BY <1>1 DEF All
      <4>2. i \in DOMAIN z /\ m + k \in DOMAIN z /\ i < m + k
        BY <1>1, <1>4
      <4> QED
        BY <1>6, <2>1, <3>3, <4>1, <4>2 DEF Late
    <3> QED
      BY <3>1, <3>2, <3>3
  <2>2. ASSUME Late(x), Late(y), \A a \in All(x), b \in All(y) : b.do = "run" => a.do # "event"
        PROVE  Late(z)
    <3> SUFFICES ASSUME NEW i \in 1 .. m + n, NEW j \in 1 .. m + n, i < j, z[j].do = "run" PROVE z[i].do # "event"
      BY <1>4 DEF Late
    <3>1. CASE i \in 1 .. m /\ j \in 1 .. m
      BY <1>1, <1>6, <2>2, <3>1 DEF Late
    <3>2. ASSUME i \in 1 .. m, NEW k \in 1 .. n, j = m + k PROVE z[i].do # "event"
      <4>1. x[i] \in All(x) /\ y[k] \in All(y)
        BY <1>1, <3>2 DEF All
      <4> QED
        BY <1>6, <2>2, <3>2, <4>1
    <3>3. ASSUME NEW k \in 1 .. n, i = m + k, NEW l \in 1 .. n, j = m + l PROVE z[i].do # "event"
      <4>1. k < l
        BY <1>1, <3>3
      <4> QED
        BY <1>1, <1>6, <2>2, <3>3, <4>1 DEF Late
    <3>4. ASSUME NEW k \in 1 .. n, i = m + k PROVE j \notin 1 .. m
      BY <1>1, <3>4
    <3> QED
      BY <1>7, <3>1, <3>2, <3>3, <3>4
  <2> QED
    BY <2>1, <2>2
<1>13. Tally(z) = Tally(x) + Tally(y) /\ Tally(x) \in Nat /\ Tally(y) \in Nat
  <2> DEFINE E == {i \in 1 .. m : IsEvent(x[i], "publication_failed")}
             B == {i \in 1 .. n : IsEvent(y[i], "publication_failed")}
             C == {m + k : k \in B}
             D == {i \in 1 .. m + n : IsEvent(z[i], "publication_failed")}
  <2>1. Tally(x) = Cardinality(E) /\ Tally(y) = Cardinality(B) /\ Tally(z) = Cardinality(D)
    BY <1>1, <1>4 DEF Tally
  <2>2. D = E \cup C
    BY <1>6, <1>7
  <2>3. E \cap C = {}
    BY <1>1
  <2>4. B \in SUBSET (1 .. n) /\ E \in SUBSET (1 .. m)
    OBVIOUS
  <2>5. IsFiniteSet(E) /\ Cardinality(E) \in Nat
    <3>1. IsFiniteSet(1 .. m)
      BY <1>1, FS_Interval
    <3> QED
      BY <2>4, <3>1, FS_Subset, FS_CardinalityType
  <2>6. IsFiniteSet(C) /\ Cardinality(C) = Cardinality(B) /\ Cardinality(B) \in Nat
    <3> HIDE DEF B
    <3> QED
      BY <1>1, <2>4, Shifted
  <2> HIDE DEF E, B, C, D
  <2>7. Cardinality(D) = Cardinality(E) + Cardinality(C) - Cardinality({})
    BY <2>2, <2>3, <2>5, <2>6, FS_Union
  <2> QED
    BY <2>1, <2>5, <2>6, <2>7, FS_EmptySet
<1> QED
  BY <1>3, <1>5, <1>8, <1>9, <1>10, <1>11, <1>12, <1>13 DEF z

\* The list without a write.
LEMMA Nothing ==
    /\ IsList(<<>>) /\ All(<<>>) = {} /\ Ordered(<<>>) /\ Late(<<>>) /\ Tally(<<>>) = 0
<1>1. DOMAIN <<>> = {}
  OBVIOUS
<1> QED
  BY <1>1, EmptySeq, FS_EmptySet DEF IsList, All, Ordered, Late, Tally

\* A list of one write.
LEMMA One ==
    ASSUME NEW a
    PROVE  /\ IsList(<<a>>) /\ All(<<a>>) = {a} /\ Ordered(<<a>>) /\ Late(<<a>>) /\ <<a>> # <<>> /\ <<a>>[1] = a
           /\ Tally(<<a>>) = IF IsEvent(a, "publication_failed") THEN 1 ELSE 0
           /\ Len(<<a>>) = 1
<1>1. <<a>> \in Seq({a}) /\ Len(<<a>>) = 1 /\ <<a>>[1] = a /\ DOMAIN <<a>> = {1} /\ <<a>> # <<>>
  OBVIOUS
<1>2. All(<<a>>) = {a}
  BY <1>1 DEF All
<1>3. {i \in {1} : IsEvent(<<a>>[i], "publication_failed")} = IF IsEvent(a, "publication_failed") THEN {1} ELSE {}
  BY <1>1
<1>4. Tally(<<a>>) = IF IsEvent(a, "publication_failed") THEN 1 ELSE 0
  BY <1>1, <1>3, FS_Singleton, FS_EmptySet DEF Tally
<1>5. Ordered(<<a>>) /\ Late(<<a>>)
  BY <1>1 DEF Ordered, Late
<1> QED
  BY <1>1, <1>2, <1>4, <1>5 DEF IsList

\* A list of two writes.
LEMMA Two ==
    ASSUME NEW a, NEW b
    PROVE  /\ IsList(<<a, b>>) /\ All(<<a, b>>) = {a, b} /\ <<a, b>> # <<>> /\ <<a, b>>[1] = a
           /\ Ordered(<<a, b>>) <=> Follows(a, b)
           /\ Late(<<a, b>>) <=> (b.do = "run" => a.do # "event")
           /\ Tally(<<a, b>>) = Tally(<<a>>) + Tally(<<b>>)
<1>1. <<a, b>> = <<a>> \o <<b>>
  <2>1. <<a>> \in Seq({a, b}) /\ <<b>> \in Seq({a, b}) /\ <<a, b>> \in Seq({a, b})
    OBVIOUS
  <2>2. Len(<<a>>) = 1 /\ Len(<<b>>) = 1 /\ Len(<<a, b>>) = 2
    OBVIOUS
  <2>3. /\ <<a>> \o <<b>> \in Seq({a, b}) /\ Len(<<a>> \o <<b>>) = 2
        /\ (<<a>> \o <<b>>)[1] = a /\ (<<a>> \o <<b>>)[2] = b
    BY <2>1, <2>2, ConcatProperties
  <2>4. <<a, b>>[1] = a /\ <<a, b>>[2] = b
    OBVIOUS
  <2>5. \A i \in 1 .. 2 : <<a, b>>[i] = (<<a>> \o <<b>>)[i]
    BY <2>3, <2>4
  <2> QED
    BY <2>1, <2>2, <2>3, <2>5, SeqEqual
<1>2. IsList(<<a>>) /\ IsList(<<b>>) /\ <<a>> # <<>> /\ <<a>>[1] = a /\ All(<<a>>) = {a} /\ All(<<b>>) = {b}
      /\ Ordered(<<a>>) /\ Ordered(<<b>>) /\ Late(<<a>>) /\ Late(<<b>>)
  BY One
<1> DEFINE x == <<a>>
           y == <<b>>
<1>3. <<a, b>> = x \o y /\ IsList(x) /\ IsList(y) /\ x # <<>> /\ x[1] = a /\ All(x) = {a} /\ All(y) = {b}
      /\ Ordered(x) /\ Ordered(y) /\ Late(x) /\ Late(y)
  BY <1>1, <1>2
<1> HIDE DEF x, y
<1>4. /\ IsList(x \o y) /\ All(x \o y) = {a} \cup {b} /\ x \o y # <<>> /\ (x \o y)[1] = a
      /\ Tally(x \o y) = Tally(x) + Tally(y)
      /\ Ordered(x \o y) <=> Ordered(x) /\ Ordered(y) /\ \A v \in All(x), w \in All(y) : Follows(v, w)
      /\ Late(x \o y) <=> Late(x) /\ Late(y) /\ \A v \in All(x), w \in All(y) : w.do = "run" => v.do # "event"
  BY <1>3, Joined
<1>5. Ordered(x \o y) <=> Follows(a, b)
  BY <1>3, <1>4
<1>6. Late(x \o y) <=> (b.do = "run" => a.do # "event")
  BY <1>3, <1>4
<1>7. All(x \o y) = {a, b}
  BY <1>4
<1> QED
  BY <1>3, <1>4, <1>5, <1>6, <1>7 DEF x, y

\* A list of three writes.
LEMMA Three ==
    ASSUME NEW a, NEW b, NEW c
    PROVE  /\ IsList(<<a, b, c>>) /\ All(<<a, b, c>>) = {a, b, c} /\ <<a, b, c>> # <<>> /\ <<a, b, c>>[1] = a
           /\ Ordered(<<a, b, c>>) <=> Follows(a, b) /\ Follows(a, c) /\ Follows(b, c)
           /\ Tally(<<a, b, c>>) = Tally(<<a>>) + Tally(<<b, c>>)
<1> DEFINE S == {a, b, c}
           x == <<a>>
           y == <<b, c>>
<1>1. <<a, b, c>> = x \o y
  <2>1. x \in Seq(S) /\ y \in Seq(S) /\ <<a, b, c>> \in Seq(S)
    OBVIOUS
  <2>2. Len(x) = 1 /\ Len(y) = 2 /\ Len(<<a, b, c>>) = 3 /\ x[1] = a /\ y[1] = b /\ y[2] = c
    OBVIOUS
  <2>3. <<a, b, c>>[1] = a /\ <<a, b, c>>[2] = b /\ <<a, b, c>>[3] = c
    OBVIOUS
  <2> HIDE DEF S, x, y
  <2>4. /\ x \o y \in Seq(S) /\ Len(x \o y) = Len(x) + Len(y)
        /\ \A i \in 1 .. Len(x) + Len(y) : (x \o y)[i] = IF i <= Len(x) THEN x[i] ELSE y[i - Len(x)]
    BY <2>1, ConcatProperties
  <2>5. Len(x \o y) = 3 /\ (x \o y)[1] = a /\ (x \o y)[2] = b /\ (x \o y)[3] = c
    BY <2>2, <2>4
  <2>6. \A i \in 1 .. 3 : i = 1 \/ i = 2 \/ i = 3
    OBVIOUS
  <2>7. \A i \in 1 .. 3 : <<a, b, c>>[i] = (x \o y)[i]
    BY <2>3, <2>5, <2>6
  <2> QED
    BY <2>1, <2>2, <2>4, <2>5, <2>7, SeqEqual
<1>2. /\ IsList(x) /\ IsList(y) /\ x # <<>> /\ x[1] = a /\ All(x) = {a} /\ All(y) = {b, c}
      /\ Ordered(x) /\ (Ordered(y) <=> Follows(b, c))
  BY One, Two
<1> HIDE DEF x, y
<1>3. /\ IsList(x \o y) /\ All(x \o y) = {a} \cup {b, c} /\ x \o y # <<>> /\ (x \o y)[1] = a
      /\ Tally(x \o y) = Tally(x) + Tally(y)
      /\ Ordered(x \o y) <=> Ordered(x) /\ Ordered(y) /\ \A v \in All(x), w \in All(y) : Follows(v, w)
  BY <1>2, Joined
<1>4. Ordered(x \o y) <=> Follows(a, b) /\ Follows(a, c) /\ Follows(b, c)
  BY <1>2, <1>3
<1>5. All(x \o y) = {a, b, c}
  BY <1>3
<1> QED
  BY <1>1, <1>3, <1>4, <1>5 DEF x, y

\* The next write and those after it.
LEMMA Shorter ==
    ASSUME NEW ws, IsList(ws), ws # <<>>
    PROVE  /\ IsList(Tail(ws)) /\ All(ws) = {ws[1]} \cup All(Tail(ws)) /\ Head(ws) = ws[1]
           /\ Ordered(ws) => Ordered(Tail(ws)) /\ \A b \in All(Tail(ws)) : Follows(ws[1], b)
           /\ Late(ws) => Late(Tail(ws)) /\ \A b \in All(Tail(ws)) : b.do = "run" => ws[1].do # "event"
           /\ Tally(ws) = Tally(Tail(ws)) + IF IsEvent(ws[1], "publication_failed") THEN 1 ELSE 0
           /\ Tally(Tail(ws)) \in Nat
           /\ Len(Tail(ws)) = Len(ws) - 1 /\ Len(ws) \in Nat
           /\ \A i \in 1 .. Len(Tail(ws)) : Tail(ws)[i] = ws[i + 1]
<1> DEFINE t == Tail(ws)
<1>1. Len(ws) \in Nat /\ Len(ws) > 0 /\ Head(ws) = ws[1]
  BY ListShape
<1>2. t \in Seq(All(ws)) /\ Len(t) = Len(ws) - 1 /\ \A i \in 1 .. Len(t) : t[i] = ws[i + 1]
  BY HeadTailProperties DEF IsList
<1>3. ws = <<ws[1]>> \o t
  <2>1. ws[1] \in All(ws)
    BY <1>1, ListShape DEF All
  <2>2. <<ws[1]>> \in Seq(All(ws)) /\ Len(<<ws[1]>>) = 1 /\ <<ws[1]>>[1] = ws[1]
    BY <2>1
  <2> HIDE DEF t
  <2>3. /\ <<ws[1]>> \o t \in Seq(All(ws)) /\ Len(<<ws[1]>> \o t) = Len(ws)
        /\ \A i \in 1 .. Len(ws) : (<<ws[1]>> \o t)[i] = ws[i]
    BY <1>1, <1>2, <2>2, ConcatProperties
  <2>4. ws \in Seq(All(ws))
    BY DEF IsList
  <2> QED
    BY <2>3, <2>4, SeqEqual
<1>4. IsList(t)
  BY <1>2, ListOf
<1> DEFINE h == <<ws[1]>>
<1>5. /\ ws = h \o t /\ IsList(h) /\ All(h) = {ws[1]} /\ Ordered(h) /\ Late(h)
      /\ Tally(h) = IF IsEvent(ws[1], "publication_failed") THEN 1 ELSE 0
  BY <1>3, One
<1> HIDE DEF t, h
<1>6. /\ All(h \o t) = All(h) \cup All(t) /\ Tally(h \o t) = Tally(h) + Tally(t) /\ Tally(h) \in Nat /\ Tally(t) \in Nat
      /\ Ordered(h \o t) <=> Ordered(h) /\ Ordered(t) /\ \A a \in All(h), b \in All(t) : Follows(a, b)
      /\ Late(h \o t) <=> Late(h) /\ Late(t) /\ \A a \in All(h), b \in All(t) : b.do = "run" => a.do # "event"
  BY <1>4, <1>5, Joined
<1>7. Ordered(ws) => Ordered(t) /\ \A b \in All(t) : Follows(ws[1], b)
  BY <1>5, <1>6
<1>9. Late(ws) => Late(t) /\ \A b \in All(t) : b.do = "run" => ws[1].do # "event"
  BY <1>5, <1>6
<1>8. Tally(ws) = Tally(t) + IF IsEvent(ws[1], "publication_failed") THEN 1 ELSE 0
  BY <1>5, <1>6
<1> QED
  BY <1>1, <1>2, <1>4, <1>5, <1>6, <1>7, <1>8, <1>9 DEF t

\* The receipts of one list have the same verdict and the same count of failures.
LEMMA SameRuns ==
    ASSUME NEW ws, IsList(ws), Ordered(ws), NEW a \in Runs(ws), NEW b \in Runs(ws)
    PROVE  a.arg.status = b.arg.status /\ a.arg.fails = b.arg.fails
<1>1. PICK i \in DOMAIN ws, j \in DOMAIN ws : a = ws[i] /\ b = ws[j]
  BY DEF Runs, All
<1>2. i \in Int /\ j \in Int
  BY ListShape
<1>3. i < j \/ j < i \/ i = j
  BY <1>2
<1>4. a.do = "run" /\ b.do = "run"
  BY DEF Runs
<1> QED
  BY <1>1, <1>3, <1>4 DEF Ordered, Follows

\* A list that tells of no failed publication has none to count.
LEMMA NoneTold ==
    ASSUME NEW ws, \A w \in All(ws) : ~IsEvent(w, "publication_failed")
    PROVE  Tally(ws) = 0
<1>1. {i \in DOMAIN ws : IsEvent(ws[i], "publication_failed")} = {}
  BY DEF All
<1> QED
  BY <1>1, FS_EmptySet DEF Tally

\* The log after one more event.
LEMMA Grown ==
    ASSUME log \in Seq(Events), NEW e \in Events, log' = Append(log, e)
    PROVE  /\ log' \in Seq(Events) /\ log' # <<>>
           /\ (log # <<>> => log'[1] = log[1]) /\ (log = <<>> => log'[1] = e)
           /\ DOMAIN log' = DOMAIN log \cup {Len(log) + 1} /\ Len(log) + 1 \notin DOMAIN log
           /\ \A i \in DOMAIN log : log'[i] = log[i]
           /\ log'[Len(log) + 1] = e
           /\ \A x : Told(x)' <=> Told(x) \/ x = e
           /\ Count("publication_failed") \in Nat
           /\ Count("publication_failed")' =
                Count("publication_failed") + IF e = "publication_failed" THEN 1 ELSE 0
<1> DEFINE n == Len(log) + 1
<1>1. n \in Nat /\ DOMAIN log = 1 .. Len(log) /\ Len(log) \in Nat
  BY LenProperties
<1>2. /\ log' \in Seq(Events) /\ log' # <<>> /\ Len(log') = n
      /\ \A i \in 1 .. Len(log) : log'[i] = log[i]
      /\ log'[n] = e
  BY AppendProperties
<1>3. DOMAIN log' = 1 .. n
  BY <1>2, LenProperties
<1>4. DOMAIN log' = DOMAIN log \cup {n} /\ n \notin DOMAIN log
  BY <1>1, <1>3
<1>5. log # <<>> => log'[1] = log[1]
  BY <1>1, <1>2, EmptySeq
<1>6. log = <<>> => log'[1] = e
  BY <1>2, EmptySeq
<1>7. ASSUME NEW x PROVE Told(x)' <=> Told(x) \/ x = e
  BY <1>1, <1>2, <1>4 DEF Told
<1> DEFINE S == {i \in DOMAIN log : log[i] = "publication_failed"}
           T == {i \in DOMAIN log' : log'[i] = "publication_failed"}
<1>8. IsFiniteSet(S) /\ Cardinality(S) \in Nat
  <2>1. IsFiniteSet(1 .. Len(log)) /\ S \in SUBSET (1 .. Len(log))
    BY <1>1, FS_Interval
  <2> QED
    BY <2>1, FS_Subset, FS_CardinalityType
<1>9. T = IF e = "publication_failed" THEN S \cup {n} ELSE S
  BY <1>1, <1>2, <1>4
<1>10. n \notin S
  BY <1>4
<1>11. Count("publication_failed") = Cardinality(S) /\ Count("publication_failed")' = Cardinality(T)
  BY DEF Count
<1> HIDE DEF S, T, n
<1>12. Cardinality(T) = Cardinality(S) + IF e = "publication_failed" THEN 1 ELSE 0
  <2>1. Cardinality(S \cup {n}) = Cardinality(S) + 1
    BY <1>8, <1>10, FS_AddElement
  <2>2. CASE e = "publication_failed"
    BY <1>8, <1>9, <2>1, <2>2
  <2>3. CASE e # "publication_failed"
    BY <1>8, <1>9, <2>3
  <2> QED
    BY <2>2, <2>3
<1> QED
  BY <1>2, <1>4, <1>5, <1>6, <1>7, <1>8, <1>11, <1>12, <1>1 DEF n

\* How often an event is in the log is a number.
LEMMA CountIsNat ==
    ASSUME log \in Seq(Events)
    PROVE  Count("publication_failed") \in Nat
<1>1. Len(log) \in Nat /\ DOMAIN log = 1 .. Len(log)
  BY LenProperties
<1>2. IsFiniteSet(1 .. Len(log)) /\ {i \in DOMAIN log : log[i] = "publication_failed"} \in SUBSET (1 .. Len(log))
  BY <1>1, FS_Interval
<1> QED
  BY <1>2, FS_Subset, FS_CardinalityType DEF Count

\* What one write leaves behind, as far as the later ones depend on it.
LEMMA EffectFiles ==
    ASSUME Files, NEW ws, ws # <<>>, Pending(ws), ~Sealed, Effect(ws[1])
    PROVE  Files'
<1> DEFINE w == ws[1]
           t == Tail(ws)
<1>1. /\ IsList(t) /\ All(ws) = {w} \cup All(t) /\ \A b \in All(t) : Follows(w, b)
      /\ Late(ws) => \A b \in All(t) : b.do = "run" => w.do # "event"
      /\ Tally(ws) = Tally(t) + IF IsEvent(w, "publication_failed") THEN 1 ELSE 0
      /\ Tally(t) \in Nat
  BY Shorter DEF Pending, Proper
<1>2. /\ run' = IF w.do = "run" THEN w.arg ELSE run
      /\ log' = IF w.do = "event" THEN Append(log, w.arg) ELSE log
      /\ (w.do # "exp" => exp' = exp)
      /\ mirror' \in {mirror, mirror \cup {Len(log)}, mirror \cup {w.arg}}
      /\ (w.do \notin {"mirror", "copy"} => mirror' = mirror)
      /\ (w.do \notin {"md", "json"} => packet' = packet)
      /\ proof' = (IF w.do = "proof" THEN Evidence(w.arg) ELSE IF w.do = "unlink" THEN None ELSE proof)
      /\ row' = (IF w.do = "row" THEN [of |-> proof, seal |-> None] ELSE IF w.do = "drop" THEN None
                 ELSE IF w.do = "seal" THEN [row EXCEPT !.seal = SealPayload] ELSE row)
  BY DEF Effect
<1>3. /\ w \in All(ws) /\ (w.do = "run" => w.arg \in Receipts) /\ (w.do = "event" => w.arg \in Events)
      /\ (w.do = "proof" => w.arg \in BOOLEAN)
  BY <1>1 DEF Pending, Proper
<1>4. run' \in Receipts \cup {None} /\ IsFiniteSet(mirror')
  <2>1. run \in Receipts \cup {None} /\ IsFiniteSet(mirror)
    BY DEF Files
  <2>2. \A x : IsFiniteSet(mirror \cup {x})
    BY <2>1, FS_AddElement
  <2>3. IsFiniteSet(mirror')
    BY <1>2, <2>1, <2>2
  <2> QED
    BY <1>2, <1>3, <2>1, <2>3
<1>5. /\ Started' /\ (w.do = "run" => Runs(ws) # {} /\ w \in Runs(ws))
      /\ run' \in Receipts /\ (w.do # "run" => Started)
  BY <1>2, <1>3, NoneIsNothing DEF Started, Files, Pending, Fitting, Runs
<1>6. log \in Seq(Events) /\ Count("publication_failed") \in Nat /\ Noted \in Nat
  BY CountIsNat DEF Files, LogSound, Noted, Started, Receipts
<1>7. \A v \in Runs(ws) : v.arg \in Receipts /\ v.arg.fails \in Nat
  BY DEF Pending, Proper, Runs, Receipts
<1> HIDE DEF w, t
<1>8. LogSound'
  <2>1. CASE w.do = "event"
    <3>1. log' = Append(log, w.arg) /\ w.arg \in Events /\ run' = run /\ Started /\ Started'
      BY <1>2, <1>3, <1>5, <2>1
    <3>2. Noted' = Noted
      BY <3>1 DEF Noted
    <3>3. log = <<>> => w.arg = "started"
      <4> SUFFICES ASSUME log = <<>> PROVE w.arg = "started"
        OBVIOUS
      <4>1. PICK v \in All(ws) : IsEvent(v, "started")
        BY <1>3, <2>1 DEF Pending, Starts
      <4>2. v = w
        BY <1>1, <2>1, <4>1 DEF Follows
      <4> QED
        BY <4>1, <4>2 DEF IsEvent
    <3>4. w.arg = "publication_failed" => Count("publication_failed") + 1 <= Noted
      <4> SUFFICES ASSUME w.arg = "publication_failed" PROVE Count("publication_failed") + 1 <= Noted
        OBVIOUS
      <4>1. Tally(ws) = Tally(t) + 1
        BY <1>1, <2>1 DEF IsEvent
      <4>2. CASE Runs(ws) = {}
        BY <1>1, <1>6, <4>1, <4>2 DEF Pending, Counting
      <4>3. ASSUME NEW v \in Runs(ws) PROVE Count("publication_failed") + 1 <= Noted
        <5>1. v \in All(t) /\ v.do = "run"
          BY <1>1, <2>1 DEF Runs
        <5>2. v.arg.fails = Noted /\ Count("publication_failed") + Tally(ws) <= v.arg.fails
          BY <1>1, <2>1, <5>1 DEF Pending, Counting
        <5> QED
          BY <1>1, <1>6, <4>1, <5>2
      <4> QED
        BY <4>2, <4>3
    <3>5. Count("publication_failed")' <= Noted'
      BY <1>6, <3>1, <3>2, <3>4, Grown DEF Files, LogSound
    <3>6. log' \in Seq(Events) /\ log'[1] = "started"
      BY <1>6, <3>1, <3>3, Grown DEF Files, LogSound
    <3> QED
      BY <3>1, <3>5, <3>6 DEF LogSound
  <2>2. CASE w.do # "event"
    <3>1. log' = log /\ Count("publication_failed")' = Count("publication_failed")
      BY <1>2, <2>2 DEF Count
    <3>2. Noted' \in Nat /\ Noted <= Noted'
      <4>1. CASE w.do = "run"
        <5>1. Noted' = w.arg.fails
          BY <1>2, <1>5, <4>1 DEF Noted
        <5> QED
          BY <1>5, <1>6, <1>7, <4>1, <5>1 DEF Pending, Counting
      <4>2. CASE w.do # "run"
        BY <1>2, <1>6, <4>2 DEF Noted, Started
      <4> QED
        BY <4>1, <4>2
    <3> QED
      BY <1>5, <1>6, <3>1, <3>2 DEF Files, LogSound
  <2> QED
    BY <2>1, <2>2
<1>9. TellsOnce'
  <2>1. CASE w.do = "event"
    <3>1. log' = Append(log, w.arg) /\ w.arg \in Events /\ run' = run /\ Started' /\ Started
      BY <1>2, <1>3, <1>5, <2>1
    <3>2. CASE w.arg \notin Verdicts
      BY <1>6, <3>1, <3>2, Grown DEF Files, TellsOnce
    <3>3. CASE w.arg \in Verdicts
      <4>1. Telling(w)
        BY <2>1, <3>3 DEF Telling
      <4>2. /\ \A e \in Verdicts : ~Told(e)
            /\ w.arg = run.status
        BY <1>3, <2>1, <4>1 DEF Pending, TellingSound, w
      <4>3. \A i \in DOMAIN log : log[i] \notin Verdicts
        BY <4>2 DEF Told
      <4> QED
        BY <1>6, <3>1, <4>2, <4>3, Grown DEF TellsOnce
    <3> QED
      BY <3>2, <3>3
  <2>2. CASE w.do = "run"
    <3>1. log' = log /\ run' = w.arg
      BY <1>2, <2>2
    <3>2. Started /\ ~Active => w.arg.status = run.status
      BY <1>5, <2>2 DEF Pending, Fitting
    <3>3. \A i \in DOMAIN log : log[i] \in Verdicts => Started /\ ~Active /\ log[i] = run.status
      BY DEF Files, TellsOnce, Active, ACTIVE_STATUSES, Verdicts
    <3> QED
      BY <1>5, <3>1, <3>2, <3>3 DEF Files, TellsOnce
  <2>3. CASE w.do \notin {"event", "run"}
    BY <1>2, <2>3 DEF Files, TellsOnce, Started
  <2> QED
    BY <2>1, <2>2, <2>3
<1>10. PackSound'
  <2>1. CASE w.do \in Changing
    <3>1. proof = None
      <4> SUFFICES ASSUME proof # None PROVE FALSE
        OBVIOUS
      <4>1. PICK v \in All(ws) : v.do = "unlink"
        BY <1>3, <2>1 DEF Pending, Unlinking
      <4>2. v \in All(t)
        BY <1>1, <2>1, <4>1 DEF Changing
      <4> QED
        BY <1>1, <2>1, <4>1, <4>2 DEF Follows, Changing
    <3>2. proof' = None
      BY <1>2, <2>1, <3>1 DEF Changing
    <3> QED
      BY <3>2 DEF PackSound
  <2>2. CASE w.do = "unlink"
    BY <1>2, <2>2 DEF PackSound
  <2>3. CASE w.do = "proof"
    <3>1. UNCHANGED <<run, exp, log, mirror>> /\ proof' = Evidence(w.arg)
      BY <1>2, <2>3
    <3>2. proof'.recovery = w.arg /\ (proof' # None => PackIsCurrent')
      BY <3>1 DEF Evidence, PackIsCurrent
    <3>3. /\ Started /\ ~Active
          /\ w.arg = TRUE =>
                /\ Told("interrupted") \/ \E v \in All(ws) : IsEvent(v, "interrupted")
                /\ Count("publication_failed") + Tally(ws) = run.fails
      BY <1>3, <2>3 DEF Pending, Proving
    <3>4. \A v \in All(ws) : v.do # "event"
      BY <1>1, <2>3 DEF Follows, Changing
    <3>5. Tally(ws) = 0
      BY <3>4, NoneTold DEF IsEvent
    <3>6. w.arg = TRUE => Told("interrupted") /\ Count("publication_failed") = run.fails
      BY <1>6, <3>3, <3>4, <3>5 DEF IsEvent
    <3>7. Started' /\ ~Active' /\ (w.arg = TRUE => Told("interrupted")' /\ Count("publication_failed")' = run'.fails)
      BY <3>1, <3>3, <3>6 DEF Started, Active, Told, Count
    <3> QED
      BY <1>3, <2>3, <3>2, <3>7 DEF PackSound
  <2>4. CASE w.do \notin Changing \cup {"unlink", "proof"}
    <3>1. UNCHANGED <<run, exp, log, mirror, proof>>
      BY <1>2, <2>4 DEF Changing
    <3> QED
      BY <3>1 DEF Files, PackSound, PackIsCurrent, Evidence, Started, Active, Told, Count
  <2> QED
    BY <2>1, <2>2, <2>3, <2>4
<1>11. RowSound'
  <2>1. CASE w.do = "row"
    <3>1. row' = [of |-> proof, seal |-> None]
      BY <1>2, <2>1
    <3>2. row'.of = proof /\ row'.seal = None
      BY <3>1
    <3> QED
      BY <3>1, <3>2 DEF RowSound
  <2>2. CASE w.do = "drop"
    BY <1>2, <2>2 DEF RowSound
  <2>3. CASE w.do = "seal"
    <3>1. \A v \in All(ws) : v.do # "verify"
      BY <1>1, <2>3 DEF Follows
    <3>2. Marked /\ Completed
      BY <1>3, <2>3, <3>1 DEF Pending, Sealing
    <3>3. row # None /\ row.of = proof /\ row = [of |-> row.of, seal |-> row.seal]
      BY <3>2 DEF Completed, Bound, Files, RowSound
    <3>4. UNCHANGED <<run, exp, log, mirror, packet, proof>>
      BY <1>2, <2>3
    <3>5. row' = [of |-> proof, seal |-> SealPayload]
      BY <1>2, <2>3, <3>3
    <3>6. SealPayload' = SealPayload
      BY <3>4 DEF SealPayload
    <3>7. row'.of = proof' /\ row'.seal = SealPayload' /\ row' = [of |-> row'.of, seal |-> row'.seal]
      BY <3>4, <3>5, <3>6
    <3>8. Marked' /\ Material' /\ Verified'
      BY <3>2, <3>4 DEF Completed, Material, Verified, PackIsCurrent, Evidence, Marked, Started
    <3>9. row' # None => Bound'
      BY <3>7 DEF Bound
    <3>10. run'.proof /\ run'.packet
      BY <3>8 DEF Material
    <3> QED
      BY <3>7, <3>8, <3>9, <3>10 DEF RowSound, Sealed, Completed
  <2>4. CASE w.do \notin {"row", "drop", "seal"}
    <3>1. row' = row /\ (row # None => row.seal = None)
      BY <1>2, <2>4 DEF Files, RowSound
    <3> QED
      BY <3>1 DEF Files, RowSound
  <2> QED
    BY <2>1, <2>2, <2>3, <2>4
<1> QED
  BY <1>4, <1>8, <1>9, <1>10, <1>11 DEF Files

\* The later writes still fit the files that one write has changed.
LEMMA EffectPending ==
    ASSUME Files, NEW ws, ws # <<>>, Pending(ws), Effect(ws[1]), ws[1].do \notin {"publish", "verify"}
    PROVE  Pending(Tail(ws))'
<1> DEFINE w == ws[1]
           t == Tail(ws)
<1>1. /\ IsList(t) /\ All(ws) = {w} \cup All(t) /\ Ordered(t) /\ \A b \in All(t) : Follows(w, b)
      /\ Late(ws) => Late(t)
      /\ Tally(ws) = Tally(t) + IF IsEvent(w, "publication_failed") THEN 1 ELSE 0
      /\ Tally(t) \in Nat
  BY Shorter DEF Pending, Proper
<1>2. /\ run' = IF w.do = "run" THEN w.arg ELSE run
      /\ log' = IF w.do = "event" THEN Append(log, w.arg) ELSE log
      /\ (w.do # "proof" => proof' = proof \/ proof' = None)
      /\ (w.do = "unlink" => proof' = None)
  BY DEF Effect
<1>3. /\ w \in All(ws) /\ (w.do = "run" => w.arg \in Receipts) /\ (w.do = "event" => w.arg \in Events)
  BY <1>1 DEF Pending, Proper
<1>4. w.do \notin {"publish", "verify"}
  OBVIOUS
<1>5. /\ Started' /\ (w.do = "run" => w \in Runs(ws)) /\ (w.do # "run" => Started) /\ run' \in Receipts
  BY <1>2, <1>3, NoneIsNothing DEF Started, Files, Pending, Fitting, Runs
<1>6. log \in Seq(Events) /\ Count("publication_failed") \in Nat /\ Noted \in Nat
  BY CountIsNat DEF Files, LogSound, Noted, Started, Receipts
<1>7. \A v \in Runs(ws) : v.arg \in Receipts /\ v.arg.fails \in Nat /\ (w.do = "run" => v.arg.status = w.arg.status /\ v.arg.fails = w.arg.fails)
  BY <1>5, SameRuns DEF Pending, Proper, Runs, Receipts
<1>8. Runs(t) \subseteq Runs(ws) /\ (w.do # "run" => Runs(t) = Runs(ws))
  BY <1>1 DEF Runs
<1>9. Started /\ ~Active => ~Active' /\ run'.status = run.status
  <2>1. w.do = "run" /\ Started /\ ~Active => w.arg.status = run.status
    BY <1>5 DEF Pending, Fitting
  <2> QED
    BY <1>2, <1>5, <2>1 DEF Active
<1>10. Marked => Marked'
  BY <1>5, <1>9 DEF Marked, Active, ACTIVE_STATUSES
<1>10a. w = ws[1] /\ t = Tail(ws)
  OBVIOUS
<1> HIDE DEF w, t
<1>11. Proper(t)'
  BY <1>1 DEF Pending, Proper
<1>12. Fitting(t)'
  <2>1. ASSUME NEW v \in Runs(t) PROVE Started' /\ ~Active' => v.arg.status = run'.status
    <3>1. v \in Runs(ws)
      BY <1>8
    <3>2. CASE w.do = "run"
      BY <1>2, <1>7, <3>1, <3>2
    <3>3. CASE w.do # "run"
      BY <1>2, <3>1, <3>3 DEF Pending, Fitting, Active, Started
    <3> QED
      BY <3>2, <3>3
  <2>2. Runs(t)' = Runs(t)
    BY DEF Runs, All
  <2> QED
    BY <1>5, <2>1, <2>2 DEF Fitting
<1>13. Sealing(t)'
  <2>1. ASSUME NEW v \in All(t), v.do = "seal"
        PROVE  Marked' /\ \E u \in All(t) : u.do = "verify"
    <3>1. v \in All(ws) /\ Marked /\ ((\A u \in All(ws) : u.do # "verify") => w.do = "seal")
      BY <1>1, <1>10a, <2>1 DEF Pending, Sealing
    <3>2. w.do # "seal"
      BY <1>1 DEF Follows
    <3>3. PICK u \in All(ws) : u.do = "verify"
      BY <3>1, <3>2
    <3> QED
      BY <1>1, <1>4, <1>10, <3>1, <3>3
  <2> QED
    BY <2>1 DEF Sealing, All
<1>14. TellingSound(t)'
  <2>1. ASSUME NEW v \in All(t), Telling(v)
        PROVE  (\A e \in Verdicts : ~Told(e)') /\ ~Active' /\ v.arg = run'.status
    <3>1. /\ v \in All(ws) /\ Started /\ \A e \in Verdicts : ~Told(e)
          /\ IF Active THEN w.do = "run" /\ w.arg.status = v.arg ELSE v.arg = run.status
      BY <1>1, <1>10a, <2>1 DEF Pending, TellingSound
    <3>2. w.do = "event" => w.arg \notin Verdicts
      BY <1>1, <2>1 DEF Follows, Telling
    <3>3. \A e \in Verdicts : Told(e)' <=> Told(e)
      <4>1. CASE w.do = "event"
        BY <1>2, <1>3, <1>6, <3>2, <4>1, Grown
      <4>2. CASE w.do # "event"
        BY <1>2, <4>2 DEF Told
      <4> QED
        BY <4>1, <4>2
    <3>4. v.arg \in Verdicts
      BY <2>1 DEF Telling
    <3>5. v.arg = run'.status
      <4>1. CASE Active
        BY <1>2, <3>1, <4>1
      <4>2. CASE ~Active
        BY <1>9, <3>1, <4>2
      <4> QED
        BY <4>1, <4>2
    <3>6. ~Active'
      BY <3>4, <3>5 DEF Active, ACTIVE_STATUSES, Verdicts
    <3> QED
      BY <3>1, <3>3, <3>5, <3>6
  <2> QED
    BY <1>5, <2>1 DEF TellingSound, All, Telling
<1>15. Unlinking(t)'
  <2> SUFFICES ASSUME proof' # None, NEW v \in All(t), v.do \in Changing
               PROVE  \E u \in All(t) : u.do = "unlink"
    BY DEF Unlinking, All
  <2>1. w.do # "proof" /\ w.do # "unlink"
    BY <1>1, <1>2 DEF Follows
  <2>2. proof # None
    BY <1>2, <2>1
  <2>3. PICK u \in All(ws) : u.do = "unlink"
    BY <1>1, <2>2 DEF Pending, Unlinking
  <2> QED
    BY <1>1, <2>1, <2>3
<1>16. Starts(t)'
  <2> SUFFICES ASSUME log' = <<>>, NEW v \in All(t), v.do \in {"event", "try"}
               PROVE  \E u \in All(t) : IsEvent(u, "started")
    BY DEF Starts, All, IsEvent
  <2>1. w.do # "event"
    BY <1>2, <1>3, <1>6, Grown
  <2>2. log = <<>>
    BY <1>2, <2>1
  <2>3. PICK u \in All(ws) : IsEvent(u, "started")
    BY <1>1, <2>2 DEF Pending, Starts
  <2> QED
    BY <1>1, <2>1, <2>3 DEF IsEvent
<1>17. /\ Count("publication_failed")' \in Nat
       /\ Count("publication_failed")' + Tally(t) = Count("publication_failed") + Tally(ws)
  <2>1. CASE w.do = "event"
    <3>1. Count("publication_failed")' = Count("publication_failed") + IF w.arg = "publication_failed" THEN 1 ELSE 0
      BY <1>2, <1>3, <1>6, <2>1, Grown
    <3>2. Tally(ws) = Tally(t) + IF w.arg = "publication_failed" THEN 1 ELSE 0
      BY <1>1, <2>1 DEF IsEvent
    <3>3. CASE w.arg = "publication_failed"
      BY <1>1, <1>6, <3>1, <3>2, <3>3
    <3>4. CASE w.arg # "publication_failed"
      BY <1>1, <1>6, <3>1, <3>2, <3>4
    <3> QED
      BY <3>3, <3>4
  <2>2. CASE w.do # "event"
    <3>1. Count("publication_failed")' = Count("publication_failed")
      BY <1>2, <2>2 DEF Count
    <3>2. Tally(ws) = Tally(t)
      BY <1>1, <2>2 DEF IsEvent
    <3> QED
      BY <1>6, <3>1, <3>2
  <2> QED
    BY <2>1, <2>2
<1>18. Noted' = (IF w.do = "run" THEN w.arg.fails ELSE Noted)
  <2>1. CASE w.do = "run"
    BY <1>2, <1>5, <2>1 DEF Noted
  <2>2. CASE w.do # "run"
    BY <1>2, <2>2 DEF Noted, Started
  <2> QED
    BY <2>1, <2>2
<1>19. /\ Tally(t)' = Tally(t) /\ Runs(t)' = Runs(t) /\ Late(t)' = Late(t) /\ All(t)' = All(t)
  BY DEF Tally, Runs, Late, All, IsEvent
<1>20. Counting(t)'
  <2>1. ASSUME NEW v \in Runs(t)
        PROVE  /\ Count("publication_failed")' + Tally(t) <= v.arg.fails
               /\ v.arg.fails >= Noted'
               /\ v.arg.fails = Noted' \/ Late(t)
    <3>1. v \in Runs(ws) /\ v.arg.fails \in Nat
      BY <1>7, <1>8
    <3>2. /\ Count("publication_failed") + Tally(ws) <= v.arg.fails /\ v.arg.fails >= Noted
          /\ v.arg.fails = Noted \/ Late(ws)
      BY <3>1 DEF Pending, Counting
    <3>3. Count("publication_failed")' + Tally(t) <= v.arg.fails
      BY <1>17, <3>2
    <3>4. CASE w.do = "run"
      <4>1. v.arg.fails = Noted'
        BY <1>7, <1>18, <3>1, <3>4
      <4> QED
        BY <3>1, <3>3, <4>1
    <3>5. CASE w.do # "run"
      BY <1>1, <1>18, <3>2, <3>3, <3>5
    <3> QED
      BY <3>4, <3>5
  <2>2. ASSUME Runs(t) = {}
        PROVE  Count("publication_failed")' + Tally(t) <= Noted'
    <3>1. CASE w.do = "run"
      BY <1>5, <1>17, <1>18, <3>1 DEF Pending, Counting
    <3>2. CASE w.do # "run"
      <4>1. Runs(ws) = {}
        BY <1>8, <2>2, <3>2
      <4> QED
        BY <1>17, <1>18, <3>2, <4>1 DEF Pending, Counting
    <3> QED
      BY <3>1, <3>2
  <2> QED
    BY <1>19, <2>1, <2>2 DEF Counting
<1>21. Proving(t)'
  <2>1. ASSUME NEW v \in All(t), v.do = "proof"
        PROVE  /\ ~Active'
               /\ v.arg = TRUE =>
                     /\ Told("interrupted")' \/ \E u \in All(t) : IsEvent(u, "interrupted")
                     /\ Count("publication_failed")' + Tally(t) = run'.fails
                     /\ \A u \in Runs(t) : u.arg.fails = run'.fails
    <3>1. /\ v \in All(ws) /\ Started /\ ~Active
          /\ v.arg = TRUE =>
                /\ Told("interrupted") \/ \E u \in All(ws) : IsEvent(u, "interrupted")
                /\ Count("publication_failed") + Tally(ws) = run.fails
                /\ \A u \in Runs(ws) : u.arg.fails = run.fails
      BY <1>1, <2>1 DEF Pending, Proving
    <3>2. ~Active'
      BY <1>9, <3>1
    <3>3. ASSUME v.arg = TRUE PROVE Told("interrupted")' \/ \E u \in All(t) : IsEvent(u, "interrupted")
      <4>1. CASE w.do = "event"
        <5>1. Told("interrupted")' <=> Told("interrupted") \/ w.arg = "interrupted"
          BY <1>2, <1>3, <1>6, <4>1, Grown
        <5> QED
          BY <1>1, <3>1, <3>3, <5>1 DEF IsEvent
      <4>2. CASE w.do # "event"
        <5>1. Told("interrupted")' <=> Told("interrupted")
          BY <1>2, <4>2 DEF Told
        <5> QED
          BY <1>1, <3>1, <3>3, <4>2, <5>1 DEF IsEvent
      <4> QED
        BY <4>1, <4>2
    <3>4. ASSUME v.arg = TRUE
          PROVE  run'.fails = run.fails
      BY <1>2, <1>5, <3>1, <3>4
    <3> QED
      BY <1>8, <1>17, <3>1, <3>2, <3>3, <3>4
  <2> QED
    BY <1>5, <1>19, <2>1 DEF Proving, IsEvent
<1>22. Pending(t)'
  BY <1>11, <1>12, <1>13, <1>14, <1>15, <1>16, <1>20, <1>21 DEF Pending
<1> QED
  BY <1>22, <1>10a

\* A write that leaves the files alone: a ledger row that is lost, a check that passes.
LEMMA DropHead ==
    ASSUME Files, NEW ws, ws # <<>>, Pending(ws), ws[1].do \in {"row", "verify"}, ws[1].do = "verify" => Completed
    PROVE  Pending(Tail(ws))
<1> DEFINE w == ws[1]
           t == Tail(ws)
<1>1. /\ IsList(t) /\ All(ws) = {w} \cup All(t) /\ Ordered(t) /\ \A b \in All(t) : Follows(w, b)
      /\ Late(ws) => Late(t)
      /\ Tally(ws) = Tally(t) + IF IsEvent(w, "publication_failed") THEN 1 ELSE 0
      /\ Tally(t) \in Nat /\ Len(t) = Len(ws) - 1 /\ Len(ws) \in Nat
      /\ \A i \in 1 .. Len(t) : t[i] = ws[i + 1]
  BY Shorter DEF Pending, Proper
<1>2. w.do \in {"row", "verify"} /\ (w.do = "verify" => Completed) /\ w = ws[1]
  OBVIOUS
<1> HIDE DEF w, t
<1>3. t # <<>> => t[1] \in All(t)
  BY <1>1, ListShape DEF All
<1>4. Runs(t) = Runs(ws) /\ Tally(t) = Tally(ws)
  BY <1>1, <1>2 DEF Runs, IsEvent
<1>5. Started
  BY <1>2 DEF Pending, Fitting
<1>6. Proper(t) /\ Fitting(t)
  BY <1>1, <1>4, <1>5 DEF Pending, Proper, Fitting
<1>7. Sealing(t)
  <2> SUFFICES ASSUME NEW v \in All(t), v.do = "seal"
               PROVE  Marked /\ ((\A u \in All(t) : u.do # "verify") => Completed /\ t[1].do = "seal")
    BY DEF Sealing
  <2>1. /\ v \in All(ws) /\ Marked
        /\ ((\A u \in All(ws) : u.do # "verify") => Completed /\ w.do = "seal")
    BY <1>1, <1>2 DEF Pending, Sealing
  <2>2. t # <<>>
    BY Nothing
  <2>3. CASE w.do = "row"
    BY <1>1, <2>1, <2>3
  <2>4. CASE w.do = "verify"
    BY <1>1, <1>2, <1>3, <2>1, <2>2, <2>4 DEF Follows
  <2> QED
    BY <1>2, <2>3, <2>4
<1>8. TellingSound(t)
  <2> SUFFICES ASSUME NEW v \in All(t), Telling(v)
               PROVE  (\A e \in Verdicts : ~Told(e)) /\ ~Active /\ v.arg = run.status
    BY <1>5 DEF TellingSound
  <2> QED
    BY <1>1, <1>2 DEF Pending, TellingSound
<1>9. Unlinking(t) /\ Starts(t)
  BY <1>1, <1>2 DEF Pending, Unlinking, Starts, IsEvent
<1>10. Counting(t)
  BY <1>1, <1>4 DEF Pending, Counting
<1>11. Proving(t)
  BY <1>1, <1>2, <1>4 DEF Pending, Proving, IsEvent
<1> QED
  BY <1>6, <1>7, <1>8, <1>9, <1>10, <1>11 DEF Pending, t

\* A call with nothing left to write.
LEMMA NoneLeft == Files => Pending(<<>>)
<1> SUFFICES ASSUME Files PROVE Pending(<<>>)
  OBVIOUS
<1>1. Runs(<<>>) = {}
  BY Nothing DEF Runs
<1>2. Count("publication_failed") + 0 <= Noted
  BY CountIsNat DEF Files, LogSound, Noted, Receipts
<1> QED
  BY <1>1, <1>2, Nothing DEF Pending, Proper, Fitting, Sealing, TellingSound, Unlinking, Starts, Counting, Proving

\* What nobody writes stays as sound as it was.
LEMMA SameFiles ==
    ASSUME UNCHANGED durable
    PROVE  /\ (Files' <=> Files) /\ (Sealed' <=> Sealed) /\ (Completed' <=> Completed)
           /\ (Active' <=> Active) /\ (Marked' <=> Marked) /\ (Started' <=> Started)
           /\ \A ws : Pending(ws)' <=> Pending(ws)
<1>1. UNCHANGED <<run, exp, log, mirror, packet, proof, row>>
  BY DEF durable
<1>2. (Active' <=> Active) /\ (Marked' <=> Marked) /\ (Started' <=> Started)
  BY <1>1 DEF Active, Marked, Started
<1>3. SealPayload' = SealPayload /\ (PackIsCurrent' <=> PackIsCurrent) /\ (Bound' <=> Bound)
  BY <1>1 DEF SealPayload, PackIsCurrent, Evidence, Bound
<1>4. (Sealed' <=> Sealed) /\ (Completed' <=> Completed)
  BY <1>1, <1>2, <1>3 DEF Sealed, Completed, Material, Verified
<1>5. (\A e : Told(e)' <=> Told(e)) /\ Count("publication_failed")' = Count("publication_failed") /\ Noted' = Noted
  BY <1>1, <1>2 DEF Told, Count, Noted
<1>6. RowSound' <=> RowSound
  BY <1>1, <1>4 DEF RowSound
<1>7. TellsOnce' <=> TellsOnce
  BY <1>1, <1>2 DEF TellsOnce
<1>8. PackSound' <=> PackSound
  BY <1>1, <1>2, <1>3, <1>5 DEF PackSound
<1>9. LogSound' <=> LogSound
  BY <1>1, <1>2, <1>5 DEF LogSound
<1>10. Files' <=> Files
  BY <1>1, <1>6, <1>7, <1>8, <1>9 DEF Files
<1>11. ASSUME NEW ws PROVE Pending(ws)' <=> Pending(ws)
  <2>1. Proper(ws)' <=> Proper(ws)
    BY DEF Proper, IsList, Ordered, All, Follows, IsEvent, Telling
  <2>2. Fitting(ws)' <=> Fitting(ws)
    BY <1>1, <1>2 DEF Fitting, Runs, All
  <2>3. Sealing(ws)' <=> Sealing(ws)
    BY <1>2, <1>4 DEF Sealing, All
  <2>4. TellingSound(ws)' <=> TellingSound(ws)
    BY <1>1, <1>2, <1>5 DEF TellingSound, All, Telling
  <2>5. Unlinking(ws)' <=> Unlinking(ws)
    BY <1>1 DEF Unlinking, All
  <2>6. Starts(ws)' <=> Starts(ws)
    BY <1>1 DEF Starts, All, IsEvent
  <2>7. Counting(ws)' <=> Counting(ws)
    BY <1>5 DEF Counting, Runs, All, Tally, IsEvent, Late
  <2>8. Proving(ws)' <=> Proving(ws)
    BY <1>1, <1>2, <1>5 DEF Proving, Runs, All, Tally, IsEvent
  <2> QED
    BY <2>1, <2>2, <2>3, <2>4, <2>5, <2>6, <2>7, <2>8 DEF Pending
<1> QED
  BY <1>2, <1>4, <1>10, <1>11

-----------------------------------------------------------------------------
(* The writes of each call.                                                  *)

\* The two receipts, then the two logs.
LEMMA RewriteList ==
    ASSUME NEW r \in Receipts, NEW type \in Events
    PROVE  LET ws == Rewrite(r, type) IN
           /\ IsList(ws) /\ Ordered(ws) /\ Late(ws) /\ ws # <<>> /\ ws[1] = Do("run", r)
           /\ All(ws) = {Do("run", r), Do("exp", r), Do("event", type), Do("mirror", 0)}
           /\ Runs(ws) = {Do("run", r)}
           /\ Tally(ws) = IF type = "publication_failed" THEN 1 ELSE 0
<1> DEFINE x == WriteReceipt(r)
           y == AppendEvent(type)
           a == Do("run", r)
           b == Do("exp", r)
           c == Do("event", type)
           d == Do("mirror", 0)
<1>1. x = <<a, b>> /\ y = <<c, d>> /\ Rewrite(r, type) = x \o y
  BY DEF WriteReceipt, AppendEvent, Rewrite
<1>2. a.do = "run" /\ a.arg = r /\ b.do = "exp" /\ c.do = "event" /\ c.arg = type /\ d.do = "mirror"
  BY DEF Do
<1> HIDE DEF x, y, a, b, c, d
<1>3. /\ Follows(a, b) /\ Follows(c, d)
      /\ \A v \in {a, b}, w \in {c, d} : Follows(v, w)
      /\ \A v \in {a, b}, w \in {c, d} : w.do = "run" => v.do # "event"
  BY <1>2 DEF Follows, Telling, IsEvent
<1>4. /\ IsList(x) /\ IsList(y) /\ Ordered(x) /\ Ordered(y) /\ Late(x) /\ Late(y) /\ All(x) = {a, b} /\ All(y) = {c, d}
      /\ x # <<>> /\ x[1] = a
  BY <1>1, <1>2, <1>3, Two
<1>5. /\ Tally(<<a>>) = 0 /\ Tally(<<b>>) = 0 /\ Tally(<<d>>) = 0
      /\ Tally(<<c>>) = IF type = "publication_failed" THEN 1 ELSE 0
  BY <1>2, One DEF IsEvent
<1>6. Tally(x) = 0 /\ Tally(y) = IF type = "publication_failed" THEN 1 ELSE 0
  BY <1>1, <1>5, Two
<1>7. /\ IsList(x \o y) /\ All(x \o y) = {a, b, c, d} /\ Ordered(x \o y) /\ Late(x \o y)
      /\ x \o y # <<>> /\ (x \o y)[1] = a /\ Tally(x \o y) = Tally(x) + Tally(y)
  BY <1>3, <1>4, Joined
<1>8. Runs(x \o y) = {a}
  BY <1>2, <1>7 DEF Runs
<1>9. Tally(x \o y) = IF type = "publication_failed" THEN 1 ELSE 0
  BY <1>6, <1>7
<1> QED
  BY <1>1, <1>7, <1>8, <1>9 DEF a, b, c, d

\* The facts about the files that the calls start from.
LEMMA FilesNow ==
    ASSUME Files
    PROVE  /\ log \in Seq(Events) /\ Count("publication_failed") \in Nat /\ Noted \in Nat
           /\ Count("publication_failed") <= Noted
           /\ (Started => run \in Receipts /\ Noted = run.fails)
           /\ (~Started => log = <<>> /\ proof = None /\ Noted = 0)
           /\ (Active => proof = None /\ \A e \in Verdicts : ~Told(e))
           /\ (Marked => ~Active)
BY CountIsNat DEF Files, LogSound, PackSound, TellsOnce, Noted, Started, Active, Marked, Told, Receipts, Verdicts, ACTIVE_STATUSES

\* A rewrite by a call that found no pack.
LEMMA RewritePending ==
    ASSUME Files, proof = None, NEW r \in Receipts, NEW type \in Events, r.fails = Noted,
           type # "publication_failed", log = <<>> => type = "started",
           Started /\ ~Active => r.status = run.status,
           type \in Verdicts => Active /\ r.status = type
    PROVE  Pending(Rewrite(r, type))
<1> DEFINE ws == Rewrite(r, type)
           a == Do("run", r)
<1>1. /\ IsList(ws) /\ Ordered(ws) /\ Late(ws) /\ ws # <<>> /\ ws[1] = a
      /\ All(ws) = {a, Do("exp", r), Do("event", type), Do("mirror", 0)}
      /\ Runs(ws) = {a} /\ Tally(ws) = 0
  BY RewriteList
<1>2. a.do = "run" /\ a.arg = r
  BY DEF Do
<1> HIDE DEF ws, a
<1>3. \A w \in All(ws) :
         /\ w.do \in {"run", "exp", "event", "mirror"}
         /\ (w.do \in {"run", "exp"} => w.arg = r)
         /\ (w.do = "event" => w.arg = type)
  BY <1>1, <1>2 DEF Do
<1>4. \E w \in All(ws) : IsEvent(w, type)
  <2>1. Do("event", type) \in All(ws) /\ IsEvent(Do("event", type), type)
    BY <1>1 DEF Do, IsEvent
  <2> QED
    BY <2>1
<1>5. Proper(ws)
  BY <1>1, <1>3 DEF Proper
<1>6. Fitting(ws) /\ Sealing(ws) /\ Unlinking(ws) /\ Proving(ws)
  BY <1>1, <1>2, <1>3 DEF Fitting, Sealing, Unlinking, Proving
<1>7. TellingSound(ws)
  BY <1>1, <1>2, <1>3, FilesNow DEF TellingSound, Telling, Active
<1>8. Starts(ws)
  BY <1>4 DEF Starts
<1>9. Counting(ws)
  BY <1>1, <1>2, FilesNow DEF Counting
<1> QED
  BY <1>5, <1>6, <1>7, <1>8, <1>9 DEF Pending, ws

\* _unlink_quietly first, or the ledger row and then the pack: the pack goes before what it binds.
LEMMA UnlinkFirst ==
    ASSUME Files, Started, ~Active, log # <<>>, NEW r \in Receipts, NEW type \in Events \ (Verdicts \cup {"started"}),
           r.status = run.status, NEW n \in {0, 1}, r.fails = run.fails + n,
           n = IF type = "publication_failed" THEN 1 ELSE 0,
           NEW x, x = <<Do("unlink", 0)>> \/ x = <<Do("drop", 0), Do("unlink", 0)>>
    PROVE  LET ws == x \o Rewrite(r, type) IN
           /\ Pending(ws)
           /\ ws # <<>> /\ \A w \in All(ws) : w.do \in {"unlink", "drop", "run", "exp", "event", "mirror"}
<1> DEFINE y == Rewrite(r, type)
           ws == x \o y
           a == Do("run", r)
           u == Do("unlink", 0)
           d == Do("drop", 0)
<1>1. /\ IsList(y) /\ Ordered(y) /\ Late(y) /\ y # <<>>
      /\ All(y) = {a, Do("exp", r), Do("event", type), Do("mirror", 0)}
      /\ Runs(y) = {a} /\ Tally(y) = n
  BY RewriteList
<1>2. a.do = "run" /\ a.arg = r /\ u.do = "unlink" /\ d.do = "drop"
  BY DEF Do
<1>3. x = <<u>> \/ x = <<d, u>>
  OBVIOUS
<1> HIDE DEF y, a, u, d
<1>4. /\ IsList(x) /\ Ordered(x) /\ Late(x) /\ x # <<>> /\ u \in All(x) /\ All(x) \subseteq {d, u} /\ Tally(x) = 0
  <2>1. Follows(d, u) /\ ~IsEvent(d, "publication_failed") /\ ~IsEvent(u, "publication_failed")
    BY <1>2 DEF Follows, Telling, IsEvent
  <2>2. CASE x = <<u>>
    BY <2>1, <2>2, One
  <2>3. CASE x = <<d, u>>
    <3>1. /\ IsList(<<d, u>>) /\ Ordered(<<d, u>>) /\ Late(<<d, u>>) /\ <<d, u>> # <<>> /\ All(<<d, u>>) = {d, u}
          /\ Tally(<<d, u>>) = Tally(<<d>>) + Tally(<<u>>)
      BY <1>2, <2>1, Two
    <3>2. Tally(<<d>>) = 0 /\ Tally(<<u>>) = 0
      BY <2>1, One
    <3> QED
      BY <2>3, <3>1, <3>2
  <2> QED
    BY <1>3, <2>2, <2>3
<1>5. \A w \in All(y) :
         /\ w.do \in {"run", "exp", "event", "mirror"}
         /\ (w.do \in {"run", "exp"} => w.arg = r)
         /\ (w.do = "event" => w.arg = type)
  BY <1>1, <1>2 DEF Do
<1>6. \A v \in All(x), w \in All(y) : Follows(v, w) /\ (w.do = "run" => v.do # "event")
  BY <1>2, <1>4, <1>5 DEF Follows, Telling, IsEvent
<1>7. /\ IsList(ws) /\ All(ws) = All(x) \cup All(y) /\ Ordered(ws) /\ Late(ws) /\ ws # <<>>
      /\ Tally(ws) = Tally(x) + Tally(y)
  BY <1>1, <1>4, <1>6, Joined
<1> HIDE DEF ws
<1>8. \A w \in All(ws) :
         /\ w.do \in {"unlink", "drop", "run", "exp", "event", "mirror"}
         /\ (w.do \in {"run", "exp"} => w.arg = r)
         /\ (w.do = "event" => w.arg = type)
  BY <1>2, <1>4, <1>5, <1>7
<1>9. Runs(ws) = {a}
  <2>1. \A w \in All(x) : w.do # "run"
    BY <1>2, <1>4
  <2>2. \A w : w \in Runs(ws) <=> w \in Runs(y)
    BY <1>7, <2>1 DEF Runs
  <2> QED
    BY <1>1, <2>2
<1>10. Proper(ws)
  BY <1>7, <1>8 DEF Proper
<1>11. Fitting(ws) /\ Sealing(ws) /\ Proving(ws) /\ Starts(ws)
  BY <1>2, <1>8, <1>9 DEF Fitting, Sealing, Proving, Starts
<1>12. Unlinking(ws)
  BY <1>2, <1>4, <1>7 DEF Unlinking
<1>13. TellingSound(ws)
  BY <1>8 DEF TellingSound, Telling
<1>14. Counting(ws)
  <2>1. Tally(ws) = n
    BY <1>1, <1>4, <1>7
  <2> QED
    BY <1>2, <1>7, <1>9, <2>1, FilesNow DEF Counting
<1>15. Pending(ws)
  BY <1>10, <1>11, <1>12, <1>13, <1>14 DEF Pending
<1> QED
  BY <1>7, <1>8, <1>15 DEF ws, y

\* _record_proof_artifacts after the pack: nothing that it binds is written after it.
LEMMA ProofTail ==
    ASSUME NEW b \in BOOLEAN
    PROVE  LET ws == <<Do("proof", b), Do("row", 0), Do("retention", 0)>> IN
           /\ IsList(ws) /\ Ordered(ws) /\ ws # <<>> /\ Tally(ws) = 0
           /\ All(ws) = {Do("proof", b), Do("row", 0), Do("retention", 0)}
<1> DEFINE p == Do("proof", b)
           r == Do("row", 0)
           t == Do("retention", 0)
<1>1. p.do = "proof" /\ r.do = "row" /\ t.do = "retention"
  BY DEF Do
<1> HIDE DEF p, r, t
<1>2. Follows(p, r) /\ Follows(p, t) /\ Follows(r, t)
  BY <1>1 DEF Follows, Telling, IsEvent, Changing
<1>3. Tally(<<p>>) = 0 /\ Tally(<<r>>) = 0 /\ Tally(<<t>>) = 0
  BY <1>1, One DEF IsEvent
<1>4. Tally(<<p, r, t>>) = 0
  <2>1. Tally(<<r, t>>) = Tally(<<r>>) + Tally(<<t>>)
    BY Two
  <2>2. Tally(<<p, r, t>>) = Tally(<<p>>) + Tally(<<r, t>>)
    BY Three
  <2> QED
    BY <1>3, <2>1, <2>2
<1>5. /\ IsList(<<p, r, t>>) /\ Ordered(<<p, r, t>>) /\ <<p, r, t>> # <<>> /\ All(<<p, r, t>>) = {p, r, t}
  BY <1>2, Three
<1> QED
  BY <1>4, <1>5 DEF p, r, t

\* The writes of a proof pack: the receipt first, the pack after everything that outdates it.
LEMMA ProofList ==
    ASSUME NEW r \in Receipts, NEW b \in BOOLEAN
    PROVE  LET ws == ProofWrites(r, b)
               c == [r EXCEPT !.proof = TRUE] IN
           /\ IsList(ws) /\ Ordered(ws) /\ ws # <<>> /\ Tally(ws) = 0
           /\ c \in Receipts /\ c.status = r.status /\ c.fails = r.fails
           /\ All(ws) = {Do("run", c), Do("exp", c), Do("event", "proof_pack_started"), Do("mirror", 0),
                         Do("proof", b), Do("row", 0), Do("retention", 0)}
<1> DEFINE c == [r EXCEPT !.proof = TRUE]
           x == Rewrite(c, "proof_pack_started")
           y == <<Do("proof", b), Do("row", 0), Do("retention", 0)>>
<1>1. c \in Receipts /\ c.status = r.status /\ c.fails = r.fails
  BY DEF Receipts
<1> HIDE DEF c
<1>2. /\ IsList(x) /\ Ordered(x) /\ x # <<>> /\ Tally(x) = 0
      /\ All(x) = {Do("run", c), Do("exp", c), Do("event", "proof_pack_started"), Do("mirror", 0)}
  BY <1>1, RewriteList DEF Events
<1>3. /\ IsList(y) /\ Ordered(y) /\ y # <<>> /\ Tally(y) = 0
      /\ All(y) = {Do("proof", b), Do("row", 0), Do("retention", 0)}
  BY ProofTail
<1>4. \A v \in All(x) : v.do \in {"run", "exp", "event", "mirror"} /\ (v.do = "event" => v.arg = "proof_pack_started")
  BY <1>2 DEF Do
<1>5. \A w \in All(y) : w.do \in {"proof", "row", "retention"}
  BY <1>3 DEF Do
<1>6. ProofWrites(r, b) = x \o y
  BY DEF ProofWrites, c
<1> HIDE DEF x, y
<1>7. \A v \in All(x), w \in All(y) : Follows(v, w)
  BY <1>4, <1>5 DEF Follows, Telling, IsEvent
<1>8. /\ IsList(x \o y) /\ Ordered(x \o y) /\ x \o y # <<>> /\ Tally(x \o y) = 0 /\ All(x \o y) = All(x) \cup All(y)
  <2>1. Tally(x \o y) = Tally(x) + Tally(y)
    BY <1>2, <1>3, Joined
  <2>2. Tally(x \o y) = 0
    BY <1>2, <1>3, <2>1
  <2>3. /\ IsList(x \o y) /\ x \o y # <<>> /\ All(x \o y) = All(x) \cup All(y)
    BY <1>2, <1>3, Joined
  <2>4. Ordered(x \o y)
    BY <1>2, <1>3, <1>7, Joined
  <2> QED
    BY <2>2, <2>3, <2>4
<1>9. All(x \o y) = {Do("run", c), Do("exp", c), Do("event", "proof_pack_started"), Do("mirror", 0),
                     Do("proof", b), Do("row", 0), Do("retention", 0)}
  BY <1>2, <1>3, <1>8
<1> QED
  BY <1>1, <1>6, <1>8, <1>9 DEF c

\* The pack of an operation that ended by itself.
LEMMA ProvePending ==
    ASSUME Files, Started, ~Active, proof = None, log # <<>>
    PROVE  LET ws == ProofWrites(run, FALSE) IN
           /\ Pending(ws) /\ ws # <<>>
           /\ \A w \in All(ws) : /\ w.do \notin {"publish", "verify", "seal", "try"}
                                 /\ w.do = "proof" => w.arg = FALSE
<1> DEFINE ws == ProofWrites(run, FALSE)
           c == [run EXCEPT !.proof = TRUE]
<1>1. Noted \in Nat /\ run \in Receipts /\ Noted = run.fails /\ Count("publication_failed") \in Nat /\ Count("publication_failed") <= Noted
  BY FilesNow
<1>2. /\ IsList(ws) /\ Ordered(ws) /\ ws # <<>> /\ Tally(ws) = 0
      /\ c \in Receipts /\ c.status = run.status /\ c.fails = run.fails
      /\ All(ws) = {Do("run", c), Do("exp", c), Do("event", "proof_pack_started"), Do("mirror", 0),
                    Do("proof", FALSE), Do("row", 0), Do("retention", 0)}
  BY <1>1, ProofList
<1> HIDE DEF ws, c
<1>3. \A w \in All(ws) :
         /\ w.do \in {"run", "exp", "event", "mirror", "proof", "row", "retention"}
         /\ (w.do \in {"run", "exp"} => w.arg = c)
         /\ (w.do = "event" => w.arg = "proof_pack_started")
         /\ (w.do = "proof" => w.arg = FALSE)
  BY <1>2 DEF Do
<1>4. Proper(ws)
  BY <1>2, <1>3 DEF Proper, Events
<1>5. Fitting(ws) /\ Sealing(ws) /\ Unlinking(ws) /\ Starts(ws) /\ Proving(ws)
  BY <1>2, <1>3 DEF Fitting, Sealing, Unlinking, Starts, Proving, Runs
<1>6. TellingSound(ws)
  BY <1>3 DEF TellingSound, Telling, Verdicts
<1>7. Counting(ws)
  <2>1. \A w \in Runs(ws) : w.arg = c
    BY <1>3 DEF Runs
  <2>2. Do("run", c) \in Runs(ws)
    BY <1>2 DEF Runs, Do
  <2>3. \A w \in Runs(ws) : w.arg.fails = Noted
    BY <1>1, <1>2, <2>1
  <2> QED
    BY <1>1, <1>2, <2>2, <2>3 DEF Counting
<1> QED
  BY <1>2, <1>3, <1>4, <1>5, <1>6, <1>7 DEF Pending, ws

\* The locked part of recover_stale_operations up to the publication.
LEMMA RecoverPending ==
    ASSUME Files,
           NEW x, (x = <<>> /\ Marked) \/ (x = WriteReceipt([run EXCEPT !.status = "interrupted"]) /\ Active)
    PROVE  LET ws == x \o <<Do("publish", 0)>> IN
           /\ Pending(ws) /\ ws # <<>>
           /\ \A w \in All(ws) : w.do \in {"run", "exp", "publish"}
           /\ ~Marked => ws[1].do = "run" /\ ws[1].arg.status = "interrupted"
<1> DEFINE p == Do("publish", 0)
           c == [run EXCEPT !.status = "interrupted"]
           a == Do("run", c)
           b == Do("exp", c)
           ws == x \o <<p>>
<1>1. Started /\ Noted \in Nat /\ run \in Receipts /\ Noted = run.fails /\ Count("publication_failed") \in Nat /\ Count("publication_failed") <= Noted
  BY FilesNow DEF Active, Marked
<1>2. c \in Receipts /\ c.status = "interrupted" /\ c.fails = run.fails
  BY <1>1 DEF Receipts, Verdicts
<1>3. a.do = "run" /\ a.arg = c /\ b.do = "exp" /\ b.arg = c /\ p.do = "publish"
  BY DEF Do
<1>4. (x = <<>> /\ Marked) \/ (x = <<a, b>> /\ Active)
  BY DEF WriteReceipt
<1> HIDE DEF a, b, c, p
<1>5. /\ IsList(x) /\ Ordered(x) /\ Late(x) /\ All(x) \subseteq {a, b} /\ Tally(x) = 0
      /\ x # <<>> => x[1] = a
  <2>1. Follows(a, b)
    BY <1>3 DEF Follows, Telling, IsEvent
  <2>2. Tally(<<a>>) = 0 /\ Tally(<<b>>) = 0
    BY <1>3, One DEF IsEvent
  <2>3. CASE x = <<>>
    BY <2>3, Nothing
  <2>4. CASE x = <<a, b>>
    <3>1. /\ IsList(<<a, b>>) /\ Ordered(<<a, b>>) /\ Late(<<a, b>>) /\ <<a, b>>[1] = a /\ All(<<a, b>>) = {a, b}
          /\ Tally(<<a, b>>) = Tally(<<a>>) + Tally(<<b>>)
      BY <1>3, <2>1, Two
    <3> QED
      BY <2>2, <2>4, <3>1
  <2> QED
    BY <1>4, <2>3, <2>4
<1>6. /\ IsList(<<p>>) /\ Ordered(<<p>>) /\ Late(<<p>>) /\ All(<<p>>) = {p} /\ Tally(<<p>>) = 0 /\ <<p>> # <<>>
  BY <1>3, One DEF IsEvent
<1> DEFINE y == <<p>>
<1> HIDE DEF y
<1>7. \A v \in All(x), w \in All(y) : Follows(v, w) /\ (w.do = "run" => v.do # "event")
  BY <1>3, <1>5, <1>6 DEF Follows, Telling, IsEvent, y
<1>8. /\ IsList(x \o y) /\ All(x \o y) = All(x) \cup All(y) /\ Ordered(x \o y) /\ Late(x \o y) /\ x \o y # <<>>
      /\ Tally(x \o y) = 0 /\ (x # <<>> => (x \o y)[1] = x[1])
  BY <1>5, <1>6, <1>7, Joined DEF y
<1>9. ws = x \o y
  BY DEF y
<1> HIDE DEF ws
<1>10. \A w \in All(ws) : w.do \in {"run", "exp", "publish"} /\ (w.do \in {"run", "exp"} => w.arg = c)
  BY <1>3, <1>5, <1>6, <1>8, <1>9 DEF y
<1>11. Proper(ws)
  BY <1>2, <1>8, <1>9, <1>10 DEF Proper
<1>12. Fitting(ws)
  <2>1. ASSUME ~Active PROVE run.status = "interrupted"
    BY <2>1 DEF Marked
  <2> QED
    BY <1>1, <1>2, <1>10, <2>1 DEF Fitting, Runs
<1>13. Sealing(ws) /\ Unlinking(ws) /\ Starts(ws) /\ Proving(ws) /\ TellingSound(ws)
  <2>1. proof # None /\ (\E w \in All(ws) : w.do \in Changing) => FALSE
    <3> SUFFICES ASSUME proof # None, NEW w \in All(ws), w.do \in Changing PROVE FALSE
      OBVIOUS
    <3>1. x = <<>>
      BY <1>4, FilesNow
    <3>2. w = p
      BY <1>6, <1>8, <1>9, <3>1, Nothing DEF y
    <3> QED
      BY <1>3, <3>2 DEF Changing
  <2> QED
    BY <1>10, <2>1 DEF Sealing, Unlinking, Starts, Proving, TellingSound, Telling
<1>14. Counting(ws)
  <2>1. \A w \in Runs(ws) : w.arg.fails = Noted
    BY <1>1, <1>2, <1>10 DEF Runs
  <2>2. Tally(ws) = 0
    BY <1>8, <1>9
  <2> QED
    BY <1>1, <2>1, <2>2 DEF Counting
<1>15. ~Marked => ws[1].do = "run" /\ ws[1].arg.status = "interrupted"
  BY <1>2, <1>3, <1>4, <1>5, <1>8, <1>9
<1> QED
  BY <1>8, <1>9, <1>10, <1>11, <1>12, <1>13, <1>14, <1>15 DEF Pending, ws, p

\* _record_stale_recovery_publication_failure, whatever the publication left behind.
Cleaning ==
    \A ws : ws = FailureWrites =>
        Pending(ws) /\ ws # <<>> /\ \A w \in All(ws) : w.do \in {"unlink", "drop", "run", "exp", "event", "mirror"}
\* Cleaning up after a failed publication fits what it left behind.
LEMMA FailurePending == Files /\ Marked /\ log # <<>> => Cleaning
<1> SUFFICES ASSUME Files, Marked, log # <<>>
             PROVE  LET ws == FailureWrites IN
                    /\ Pending(ws) /\ ws # <<>>
                    /\ \A w \in All(ws) : w.do \in {"unlink", "drop", "run", "exp", "event", "mirror"}
  BY DEF Cleaning
<1> DEFINE c == [run EXCEPT !.proof = FALSE, !.fails = @ + 1]
           x == <<Do("drop", 0), Do("unlink", 0)>>
<1>1. Started /\ ~Active /\ run \in Receipts
  BY FilesNow DEF Marked
<1>2. c \in Receipts /\ c.status = run.status /\ c.fails = run.fails + 1
  <2>1. run.fails + 1 \in Nat
    BY <1>1 DEF Receipts
  <2>2. c.status = run.status /\ c.fails = run.fails + 1
    BY <1>1 DEF Receipts
  <2>3. c \in Receipts
    BY <1>1, <2>1 DEF Receipts
  <2> QED
    BY <2>2, <2>3
<1>3. FailureWrites = x \o Rewrite(c, "publication_failed")
  BY DEF FailureWrites
<1> HIDE DEF c
<1>4. "publication_failed" \in Events \ (Verdicts \cup {"started"})
  BY DEF Events, Verdicts
<1> QED
  BY <1>1, <1>2, <1>3, <1>4, UnlinkFirst

\* _record_proof_pack_failure: the pack that could not be published goes first.
LEMMA UnprovePending ==
    ASSUME Files, Started, ~Active, log # <<>>
    PROVE  LET ws == <<Do("unlink", 0)>> \o Rewrite([run EXCEPT !.proof = FALSE, !.steps = @ + 1], "proof_pack_failed") IN
           /\ Pending(ws) /\ ws # <<>>
           /\ \A w \in All(ws) : w.do \in {"unlink", "drop", "run", "exp", "event", "mirror"}
<1> DEFINE c == [run EXCEPT !.proof = FALSE, !.steps = @ + 1]
           x == <<Do("unlink", 0)>>
<1>1. run \in Receipts
  BY FilesNow
<1>2. c \in Receipts /\ c.status = run.status /\ c.fails = run.fails + 0
  <2>1. run.steps + 1 \in Nat /\ run.fails \in Nat /\ run.fails + 0 = run.fails
    BY <1>1 DEF Receipts
  <2>2. c.status = run.status /\ c.fails = run.fails
    BY <1>1 DEF Receipts
  <2>3. c \in Receipts
    BY <1>1, <2>1 DEF Receipts
  <2> QED
    BY <2>1, <2>2, <2>3
<1> HIDE DEF c
<1>4. "proof_pack_failed" \in Events \ (Verdicts \cup {"started"})
  BY DEF Events, Verdicts
<1> QED
  BY <1>2, <1>4, UnlinkFirst DEF c

\* A failed publication is told once for each that the receipt notes.
LEMMA RepeatList ==
    ASSUME NEW n \in Nat
    PROVE  LET ws == Repeat("publication_failed", n) IN
           /\ IsList(ws) /\ Ordered(ws) /\ Tally(ws) = n
           /\ \A w \in All(ws) : w \in {Do("event", "publication_failed"), Do("mirror", 0)}
<1> DEFINE ws == Repeat("publication_failed", n)
           a == Do("event", "publication_failed")
           b == Do("mirror", 0)
           D == {i \in DOMAIN ws : IsEvent(ws[i], "publication_failed")}
<1>1. 2 * n \in Nat /\ \A i \in 1 .. 2 * n : (i % 2 = 0 \/ i % 2 = 1) /\ (i % 2 = 1 <=> \E k \in 1 .. n : i = 2 * k - 1)
  <2>1. ASSUME NEW i \in 1 .. 2 * n
        PROVE  (i % 2 = 0 \/ i % 2 = 1) /\ (i % 2 = 1 <=> \E k \in 1 .. n : i = 2 * k - 1)
    <3>1. i % 2 \in {0, 1} /\ i = 2 * (i \div 2) + (i % 2) /\ i \div 2 \in Nat
      OBVIOUS
    <3>2. ASSUME i % 2 = 1 PROVE (i \div 2) + 1 \in 1 .. n /\ i = 2 * ((i \div 2) + 1) - 1
      BY <3>1, <3>2
    <3>3. ASSUME NEW k \in 1 .. n, i = 2 * k - 1 PROVE i % 2 = 1
      BY <3>3
    <3> QED
      BY <3>1, <3>2, <3>3
  <2> QED
    BY <2>1
<1>2. AppendEvent("publication_failed")[1] = a /\ AppendEvent("publication_failed")[2] = b
  BY DEF AppendEvent
<1>3. /\ ws = [i \in 1 .. 2 * n |-> AppendEvent("publication_failed")[2 - (i % 2)]]
      /\ DOMAIN ws = 1 .. 2 * n
  BY DEF Repeat
<1>4. a.do = "event" /\ a.arg = "publication_failed" /\ b.do = "mirror"
  BY DEF Do
<1> HIDE DEF ws, a, b
<1>5. \A i \in 1 .. 2 * n : ws[i] = IF i % 2 = 1 THEN a ELSE b
  <2> SUFFICES ASSUME NEW i \in 1 .. 2 * n PROVE ws[i] = IF i % 2 = 1 THEN a ELSE b
    OBVIOUS
  <2>1. CASE i % 2 = 1
    BY <1>2, <1>3, <2>1
  <2>2. CASE i % 2 = 0
    BY <1>2, <1>3, <2>2
  <2> QED
    BY <1>1, <2>1, <2>2
<1>6. \A w \in All(ws) : w \in {a, b}
  BY <1>3, <1>5 DEF All
<1>7. ws \in [1 .. 2 * n -> All(ws)]
  BY <1>3, <1>5 DEF All, Repeat, ws
<1>8. IsList(ws)
  BY <1>1, <1>7, SeqDef DEF IsList
<1>9. Ordered(ws)
  <2>1. \A v, w \in {a, b} : Follows(v, w)
    BY <1>4 DEF Follows, Telling, Verdicts, IsEvent
  <2> QED
    BY <1>6, <2>1 DEF Ordered, All
<1>10. D = {2 * k - 1 : k \in 1 .. n}
  <2>1. \A i \in 1 .. 2 * n : IsEvent(ws[i], "publication_failed") <=> i % 2 = 1
    BY <1>1, <1>4, <1>5 DEF IsEvent
  <2>2. \A k \in 1 .. n : 2 * k - 1 \in 1 .. 2 * n
    OBVIOUS
  <2> QED
    BY <1>1, <1>3, <2>1, <2>2
<1>11. Cardinality(D) = n
  <2> DEFINE f == [k \in 1 .. n |-> 2 * k - 1]
  <2>1. f \in Bijection(1 .. n, D)
    <3>1. \A k \in 1 .. n : f[k] \in D
      BY <1>10
    <3>2. \A j, k \in 1 .. n : f[j] = f[k] => j = k
      OBVIOUS
    <3>3. \A d \in D : \E k \in 1 .. n : f[k] = d
      BY <1>10
    <3> HIDE DEF D
    <3>4. f \in [1 .. n -> D]
      BY <3>1
    <3> HIDE DEF f
    <3> QED
      BY <3>2, <3>3, <3>4 DEF Bijection, Injection, Surjection, IsInjective
  <2>2. IsFiniteSet(1 .. n) /\ Cardinality(1 .. n) = n
    BY FS_Interval
  <2>3. ExistsBijection(1 .. n, D)
    BY <2>1 DEF ExistsBijection
  <2> QED
    BY <2>2, <2>3, FS_Bijection
<1>12. Tally(ws) = n
  BY <1>11 DEF Tally
<1> QED
  BY <1>6, <1>8, <1>9, <1>12 DEF ws, a, b

-----------------------------------------------------------------------------
(* What the publication of a recovery writes.                                *)

\* A receipt that says no more of the operation than that its recovery goes on.
Kept(w) ==
    w.do \in {"run", "exp"} => w.arg \in Receipts /\ w.arg.status = run.status /\ w.arg.fails = run.fails
\* A part of what a publication writes before it verifies the result.
Part(ws, n) ==
    /\ IsList(ws) /\ Ordered(ws) /\ Tally(ws) = n
    /\ \A w \in All(ws) :
          /\ w.do \notin {"seal", "verify", "unlink", "publish"} /\ Kept(w)
          /\ w.do = "event" => w.arg \in Events
          /\ Telling(w) => w.arg = "interrupted" /\ Count("interrupted") = 0
          /\ w.do = "proof" => w.arg = TRUE

\* One part after another.
LEMMA Chained ==
    ASSUME NEW x, NEW y, NEW m, NEW n, Part(x, m), Part(y, n),
           (\A a \in All(x) : ~Telling(a)) \/ (\A b \in All(y) : ~Telling(b)),
           \A a \in All(x) : a.do # "proof",
           \A b \in All(y) : ~IsEvent(b, "started")
    PROVE  /\ Part(x \o y, m + n) /\ All(x \o y) = All(x) \cup All(y)
           /\ (y # <<>> => x \o y # <<>>)
<1>1. IsList(x) /\ IsList(y) /\ Ordered(x) /\ Ordered(y) /\ Tally(x) = m /\ Tally(y) = n
  BY DEF Part
<1>2. \A a \in All(x), b \in All(y) : Follows(a, b)
  <2> SUFFICES ASSUME NEW a \in All(x), NEW b \in All(y) PROVE Follows(a, b)
    OBVIOUS
  <2>1. a.do \notin {"seal", "verify", "proof"} /\ b.do # "unlink" /\ ~IsEvent(b, "started") /\ ~(Telling(a) /\ Telling(b))
    BY DEF Part
  <2>2. a.do = "run" /\ b.do = "run" => a.arg.status = b.arg.status /\ a.arg.fails = b.arg.fails
    BY DEF Part, Kept
  <2> QED
    BY <2>1, <2>2 DEF Follows
<1>3. IsList(x \o y) /\ All(x \o y) = All(x) \cup All(y) /\ (y # <<>> => x \o y # <<>>)
  BY <1>1, Joined
<1>4. Ordered(x \o y)
  BY <1>1, <1>2, Joined
<1>5. Tally(x \o y) = Tally(x) + Tally(y)
  BY <1>1, Joined
<1> QED
  BY <1>1, <1>3, <1>4, <1>5 DEF Part

\* Whether a type of event was told can be counted.
LEMMA NotTold ==
    ASSUME log \in Seq(Events), NEW e
    PROVE  Count(e) = 0 <=> ~Told(e)
<1> DEFINE T == {i \in DOMAIN log : log[i] = e}
<1>1. IsFiniteSet(DOMAIN log)
  BY LenProperties, FS_Interval
<1>2. IsFiniteSet(T)
  BY <1>1, FS_Subset
<1>3. Cardinality(T) = 0 <=> T = {}
  BY <1>2, FS_EmptySet
<1> QED
  BY <1>3 DEF Count, Told

\* A record and its copy in the export.
LEMMA EventPart ==
    ASSUME NEW e \in Events, e \in Verdicts => e = "interrupted" /\ Count("interrupted") = 0
    PROVE  LET ws == AppendEvent(e) IN
           /\ Part(ws, IF e = "publication_failed" THEN 1 ELSE 0) /\ ws # <<>>
           /\ All(ws) = {Do("event", e), Do("mirror", 0)}
<1> DEFINE a == Do("event", e)
           b == Do("mirror", 0)
<1>1. a.do = "event" /\ a.arg = e /\ b.do = "mirror" /\ AppendEvent(e) = <<a, b>>
  BY DEF Do, AppendEvent
<1> HIDE DEF a, b
<1>2. Follows(a, b)
  BY <1>1 DEF Follows, Telling, IsEvent
<1>3. /\ IsList(<<a, b>>) /\ All(<<a, b>>) = {a, b} /\ <<a, b>> # <<>> /\ Ordered(<<a, b>>)
      /\ Tally(<<a, b>>) = Tally(<<a>>) + Tally(<<b>>)
  BY <1>2, Two
<1>4. Tally(<<a>>) = (IF e = "publication_failed" THEN 1 ELSE 0) /\ Tally(<<b>>) = 0
  BY <1>1, One DEF IsEvent
<1>5. Tally(<<a, b>>) = IF e = "publication_failed" THEN 1 ELSE 0
  BY <1>3, <1>4
<1>6. \A w \in {a, b} :
          /\ w.do \notin {"seal", "verify", "unlink", "publish"} /\ Kept(w)
          /\ w.do = "event" => w.arg \in Events
          /\ Telling(w) => w.arg = "interrupted" /\ Count("interrupted") = 0
          /\ w.do = "proof" => w.arg = TRUE
  BY <1>1 DEF Kept, Telling
<1>7. Part(<<a, b>>, IF e = "publication_failed" THEN 1 ELSE 0)
  BY <1>3, <1>5, <1>6 DEF Part
<1> QED
  BY <1>1, <1>3, <1>7 DEF a, b

\* Nothing to write.
LEMMA EmptyPart == Part(<<>>, 0)
BY Nothing DEF Part

\* _reconcile_operation_event_mirrors: the export is brought up to the run log.
LEMMA CopyPart ==
    ASSUME Files, NEW from
    PROVE  LET ws == CopyMissing(from) IN
           /\ Part(ws, 0)
           /\ \A w \in All(ws) : w.do # "proof" /\ ~Telling(w)
           /\ log = <<>> => \E w \in All(ws) : IsEvent(w, "started")
<1> DEFINE ws == CopyMissing(from)
<1>1. CASE log = <<>>
  <2>1. ws = AppendEvent("started")
    BY <1>1 DEF CopyMissing
  <2>2. Part(ws, 0) /\ All(ws) = {Do("event", "started"), Do("mirror", 0)}
    BY <2>1, EventPart DEF Events, Verdicts
  <2>3. IsEvent(Do("event", "started"), "started") /\ \A w \in All(ws) : w.do # "proof" /\ ~Telling(w)
    BY <2>2 DEF Do, Telling, Verdicts, IsEvent
  <2> QED
    BY <2>2, <2>3
<1>2. CASE log # <<>>
  <2> DEFINE k == Len(log) - Cardinality(mirror)
             D == 1 .. k
  <2>1. Len(log) \in Nat /\ Cardinality(mirror) \in Nat /\ k \in Int
    BY FS_CardinalityType, LenProperties DEF Files, LogSound
  <2>2. ws = [i \in D |-> Do("copy", from + i)]
    BY <1>2 DEF CopyMissing
  <2>3. \E n \in Nat : D = 1 .. n
    <3>1. CASE k \in Nat
      BY <3>1
    <3>2. CASE k \notin Nat
      <4>1. D = 1 .. 0
        BY <2>1, <3>2
      <4> QED
        BY <4>1
    <3> QED
      BY <3>1, <3>2
  <2> HIDE DEF ws, D
  <2>4. \A w \in All(ws) : w.do = "copy"
    BY <2>2 DEF All, Do
  <2>5. ws \in [D -> All(ws)]
    BY <2>2 DEF All
  <2>6. IsList(ws)
    BY <2>3, <2>5, SeqDef DEF IsList
  <2>7. Ordered(ws)
    <3>1. \A i \in DOMAIN ws : ws[i].do = "copy"
      BY <2>4 DEF All
    <3> QED
      BY <3>1 DEF Ordered, Follows, Telling, IsEvent
  <2>8. Tally(ws) = 0
    BY <2>4, NoneTold DEF IsEvent
  <2> QED
    BY <1>2, <2>4, <2>6, <2>7, <2>8 DEF Part, Kept, Telling, ws
<1> QED
  BY <1>1, <1>2

\* _ensure_stale_recovery_interrupted_event: the interruption is told once, and each failure.
LEMMA InterruptedPart ==
    ASSUME Files, Marked
    PROVE  LET ws == InterruptedEventWrites IN
           /\ Part(ws, run.fails - Count("publication_failed"))
           /\ \A w \in All(ws) : w.do # "proof"
           /\ log = <<>> => \E w \in All(ws) : IsEvent(w, "started")
           /\ Told("interrupted") \/ \E w \in All(ws) : IsEvent(w, "interrupted")
<1> DEFINE x == CopyMissing(Cardinality(mirror))
           y == IF Count("interrupted") = 0 THEN AppendEvent("interrupted") ELSE <<>>
           z == MissingFailures
           n == run.fails - Count("publication_failed")
<1>1. InterruptedEventWrites = (x \o y) \o z
  BY DEF InterruptedEventWrites
<1>2. /\ Part(x, 0) /\ \A w \in All(x) : w.do # "proof" /\ ~Telling(w)
      /\ log = <<>> => \E w \in All(x) : IsEvent(w, "started")
  BY CopyPart
<1>3. Part(y, 0) /\ \A w \in All(y) : w.do # "proof" /\ ~IsEvent(w, "started")
  <2>1. CASE Count("interrupted") = 0
    <3>1. y = AppendEvent("interrupted")
      BY <2>1
    <3>2. Part(y, 0) /\ All(y) = {Do("event", "interrupted"), Do("mirror", 0)}
      BY <2>1, <3>1, EventPart DEF Events, Verdicts
    <3> QED
      BY <3>2 DEF Do, IsEvent
  <2>2. CASE Count("interrupted") # 0
    BY <2>2, EmptyPart, Nothing
  <2> QED
    BY <2>1, <2>2
<1>4. Told("interrupted") \/ \E w \in All(y) : IsEvent(w, "interrupted")
  <2>1. CASE Count("interrupted") = 0
    <3>1. y = AppendEvent("interrupted") /\ All(y) = {Do("event", "interrupted"), Do("mirror", 0)}
      BY <2>1, EventPart DEF Events, Verdicts
    <3>2. IsEvent(Do("event", "interrupted"), "interrupted")
      BY DEF Do, IsEvent
    <3> QED
      BY <3>1, <3>2
  <2>2. CASE Count("interrupted") # 0
    BY <2>2, NotTold, FilesNow
  <2> QED
    BY <2>1, <2>2
<1>5. n \in Nat
  <2>1. /\ run.fails \in Nat /\ Count("publication_failed") \in Nat /\ Count("publication_failed") <= run.fails
    BY FilesNow DEF Marked, Receipts
  <2> QED
    BY <2>1
<1>6. Part(z, n) /\ \A w \in All(z) : w.do \notin {"proof"} /\ ~IsEvent(w, "started") /\ ~Telling(w)
  <2>1. z = Repeat("publication_failed", n)
    BY DEF MissingFailures
  <2> HIDE DEF n
  <2>2. IsList(z) /\ Ordered(z) /\ Tally(z) = n /\ \A w \in All(z) : w \in {Do("event", "publication_failed"), Do("mirror", 0)}
    BY <1>5, <2>1, RepeatList
  <2>3. \A w \in All(z) : w.do \in {"event", "mirror"} /\ (w.do = "event" => w.arg = "publication_failed")
    BY <2>2 DEF Do
  <2> QED
    BY <2>2, <2>3 DEF Part, Kept, Telling, Verdicts, Events, IsEvent
<1> HIDE DEF x, y, z, n
<1>7. Part(x \o y, 0 + 0) /\ All(x \o y) = All(x) \cup All(y)
  BY <1>2, <1>3, Chained
<1>8. Part((x \o y) \o z, (0 + 0) + n) /\ All((x \o y) \o z) = All(x \o y) \cup All(z)
  BY <1>2, <1>3, <1>6, <1>7, Chained
<1>9. (0 + 0) + n = n
  BY <1>5
<1> QED
  BY <1>1, <1>2, <1>3, <1>4, <1>6, <1>7, <1>8, <1>9 DEF n

\* A single write of a publication.
LEMMA SinglePart ==
    ASSUME NEW a, a.do \in {"drop", "try", "md", "json"}
    PROVE  Part(<<a>>, 0) /\ All(<<a>>) = {a} /\ <<a>> # <<>>
<1>1. /\ IsList(<<a>>) /\ Ordered(<<a>>) /\ All(<<a>>) = {a} /\ <<a>> # <<>>
      /\ Tally(<<a>>) = 0
  BY One DEF IsEvent
<1> QED
  BY <1>1 DEF Part, Kept, Telling

\* A rewrite of the receipt that keeps status and failures.
LEMMA ReceiptPart ==
    ASSUME NEW r \in Receipts, r.status = run.status, r.fails = run.fails
    PROVE  Part(WriteReceipt(r), 0) /\ All(WriteReceipt(r)) = {Do("run", r), Do("exp", r)} /\ WriteReceipt(r) # <<>>
<1> DEFINE a == Do("run", r)
           b == Do("exp", r)
<1>1. a.do = "run" /\ a.arg = r /\ b.do = "exp" /\ b.arg = r /\ WriteReceipt(r) = <<a, b>>
  BY DEF Do, WriteReceipt
<1> HIDE DEF a, b
<1>2. Follows(a, b)
  BY <1>1 DEF Follows, Telling, IsEvent
<1>3. /\ IsList(<<a, b>>) /\ All(<<a, b>>) = {a, b} /\ <<a, b>> # <<>> /\ Ordered(<<a, b>>)
      /\ Tally(<<a, b>>) = Tally(<<a>>) + Tally(<<b>>)
  BY <1>2, Two
<1>4. Tally(<<a>>) = 0 /\ Tally(<<b>>) = 0
  BY <1>1, One DEF IsEvent
<1>5. Tally(<<a, b>>) = 0
  BY <1>3, <1>4
<1> QED
  BY <1>1, <1>3, <1>5 DEF Part, Kept, Telling, a, b

\* _write_operation_recovery_packet.
LEMMA PacketPart ==
    ASSUME NEW r \in Receipts, r.status = run.status, r.fails = run.fails
    PROVE  /\ Part(PacketWrites(r), 0)
           /\ \A w \in All(PacketWrites(r)) : w.do \in {"md", "json", "run", "exp"}
<1> DEFINE x == <<Do("md", 0), Do("json", 0)>>
           c == [r EXCEPT !.packet = TRUE]
           y == WriteReceipt(c)
<1>1. c \in Receipts /\ c.status = run.status /\ c.fails = run.fails
  BY DEF Receipts
<1>2. PacketWrites(r) = x \o y
  BY DEF PacketWrites
<1> HIDE DEF c
<1>3. Part(y, 0) /\ All(y) = {Do("run", c), Do("exp", c)}
  BY <1>1, ReceiptPart
<1>4. Part(x, 0) /\ All(x) = {Do("md", 0), Do("json", 0)}
  <2> DEFINE a == Do("md", 0)
             b == Do("json", 0)
  <2>1. a.do = "md" /\ b.do = "json"
    BY DEF Do
  <2> HIDE DEF a, b
  <2>2. Follows(a, b)
    BY <2>1 DEF Follows, Telling, IsEvent
  <2>3. /\ IsList(<<a, b>>) /\ All(<<a, b>>) = {a, b} /\ Ordered(<<a, b>>)
        /\ Tally(<<a, b>>) = Tally(<<a>>) + Tally(<<b>>)
    BY <2>2, Two
  <2>4. Tally(<<a>>) = 0 /\ Tally(<<b>>) = 0
    BY <2>1, One DEF IsEvent
  <2>5. Tally(<<a, b>>) = 0
    BY <2>3, <2>4
  <2>6. Part(<<a, b>>, 0)
    BY <2>1, <2>3, <2>5 DEF Part, Kept, Telling
  <2> QED
    BY <2>3, <2>6 DEF a, b
<1> HIDE DEF x, y
<1>5. (\A w \in All(x) : w.do \in {"md", "json"}) /\ (\A w \in All(y) : w.do \in {"run", "exp"})
  BY <1>3, <1>4 DEF Do
<1>6. Part(x \o y, 0 + 0) /\ All(x \o y) = All(x) \cup All(y)
  BY <1>3, <1>4, <1>5, Chained DEF Telling, IsEvent
<1> QED
  BY <1>2, <1>5, <1>6

\* _create_proof_pack_unlocked, for a recovery.
LEMMA ProofPart ==
    ASSUME NEW r \in Receipts, r.status = run.status, r.fails = run.fails
    PROVE  LET ws == ProofWrites(r, TRUE) IN
           /\ Part(ws, 0) /\ ws # <<>>
           /\ \A w \in All(ws) : ~Telling(w) /\ ~IsEvent(w, "started")
<1> DEFINE ws == ProofWrites(r, TRUE)
           c == [r EXCEPT !.proof = TRUE]
<1>1. /\ IsList(ws) /\ Ordered(ws) /\ ws # <<>> /\ Tally(ws) = 0
      /\ c \in Receipts /\ c.status = r.status /\ c.fails = r.fails
      /\ All(ws) = {Do("run", c), Do("exp", c), Do("event", "proof_pack_started"), Do("mirror", 0),
                    Do("proof", TRUE), Do("row", 0), Do("retention", 0)}
  BY ProofList
<1> HIDE DEF ws, c
<1>2. \A w \in All(ws) :
         /\ w.do \in {"run", "exp", "event", "mirror", "proof", "row", "retention"}
         /\ (w.do \in {"run", "exp"} => w.arg = c)
         /\ (w.do = "event" => w.arg = "proof_pack_started")
         /\ (w.do = "proof" => w.arg = TRUE)
  BY <1>1 DEF Do
<1> QED
  BY <1>1, <1>2 DEF Part, Kept, Telling, IsEvent, Events, Verdicts, ws

\* What is verified and sealed last.
LEMMA SealTail ==
    LET ws == <<Do("verify", 0), Do("seal", 0)>> IN
    /\ IsList(ws) /\ Ordered(ws) /\ Tally(ws) = 0 /\ ws # <<>>
    /\ All(ws) = {Do("verify", 0), Do("seal", 0)}
<1> DEFINE a == Do("verify", 0)
           b == Do("seal", 0)
<1>1. a.do = "verify" /\ b.do = "seal"
  BY DEF Do
<1> HIDE DEF a, b
<1>2. Follows(a, b)
  BY <1>1 DEF Follows, Telling, IsEvent
<1>3. /\ IsList(<<a, b>>) /\ All(<<a, b>>) = {a, b} /\ Ordered(<<a, b>>) /\ <<a, b>> # <<>>
      /\ Tally(<<a, b>>) = Tally(<<a>>) + Tally(<<b>>)
  BY <1>2, Two
<1>4. Tally(<<a>>) = 0 /\ Tally(<<b>>) = 0
  BY <1>1, One DEF IsEvent
<1>5. Tally(<<a, b>>) = 0
  BY <1>3, <1>4
<1> QED
  BY <1>3, <1>5 DEF a, b

\* _publish_stale_operation_recovery, when no pack is there.
LEMMA PublicationPending ==
    ASSUME Files, Marked, proof = None
    PROVE  Pending(PublicationWrites) /\ PublicationWrites # <<>>
<1> DEFINE c == [run EXCEPT !.proof = FALSE]
           d == [c EXCEPT !.packet = TRUE]
           n == run.fails - Count("publication_failed")
           x1 == InterruptedEventWrites
           y1 == <<Do("drop", 0)>>
           y2 == IF run.proof THEN WriteReceipt(c) ELSE <<>>
           y3 == <<Do("try", 0)>>
           y4 == PacketWrites(c)
           y5 == ProofWrites(d, TRUE)
           z == <<Do("verify", 0), Do("seal", 0)>>
           x2 == x1 \o y1
           x3 == x2 \o y2
           x4 == x3 \o y3
           x5 == x4 \o y4
           x6 == x5 \o y5
           ws == x6 \o z
<1>1. /\ Started /\ ~Active /\ run \in Receipts /\ Noted = run.fails /\ run.status = "interrupted"
      /\ Noted \in Nat /\ Count("publication_failed") \in Nat /\ Count("publication_failed") <= Noted
  BY FilesNow DEF Marked
<1>2. c \in Receipts /\ c.status = run.status /\ c.fails = run.fails
  BY <1>1 DEF Receipts
<1>3. d \in Receipts /\ d.status = run.status /\ d.fails = run.fails
  <2> HIDE DEF c
  <2> QED
    BY <1>2 DEF Receipts
<1>4. PublicationWrites = ws
  BY DEF PublicationWrites
<1> HIDE DEF c, d
<1>5. /\ Part(x1, n) /\ \A w \in All(x1) : w.do # "proof"
      /\ log = <<>> => \E w \in All(x1) : IsEvent(w, "started")
      /\ Told("interrupted") \/ \E w \in All(x1) : IsEvent(w, "interrupted")
  BY InterruptedPart
<1>6. Part(y1, 0) /\ \A w \in All(y1) : w.do = "drop"
  BY SinglePart DEF Do
<1>7. Part(y2, 0) /\ \A w \in All(y2) : w.do \in {"run", "exp"}
  <2>1. CASE run.proof
    <3>1. Part(y2, 0) /\ All(y2) = {Do("run", c), Do("exp", c)}
      BY <1>2, <2>1, ReceiptPart
    <3> QED
      BY <3>1 DEF Do
  <2>2. CASE ~run.proof
    BY <2>2, EmptyPart, Nothing
  <2> QED
    BY <2>1, <2>2
<1>8. Part(y3, 0) /\ \A w \in All(y3) : w.do = "try"
  BY SinglePart DEF Do
<1>9. Part(y4, 0) /\ \A w \in All(y4) : w.do \in {"md", "json", "run", "exp"}
  BY <1>2, PacketPart
<1>10. Part(y5, 0) /\ \A w \in All(y5) : ~Telling(w) /\ ~IsEvent(w, "started")
  BY <1>3, ProofPart
<1>11. /\ IsList(z) /\ Ordered(z) /\ Tally(z) = 0 /\ z # <<>> /\ All(z) = {Do("verify", 0), Do("seal", 0)}
  BY SealTail
<1>12. n \in Nat /\ n + 0 = n
  BY <1>1
<1> HIDE DEF x1, y1, y2, y3, y4, y5, z, n
<1>13. /\ Part(x2, n) /\ All(x2) = All(x1) \cup All(y1) /\ \A w \in All(x2) : w.do # "proof"
  <2>1. Part(x2, n + 0) /\ All(x2) = All(x1) \cup All(y1)
    BY <1>5, <1>6, Chained DEF Telling, IsEvent
  <2> QED
    BY <1>5, <1>6, <1>12, <2>1
<1> HIDE DEF x2
<1>14. /\ Part(x3, n) /\ All(x3) = All(x2) \cup All(y2) /\ \A w \in All(x3) : w.do # "proof"
  <2>1. Part(x3, n + 0) /\ All(x3) = All(x2) \cup All(y2)
    BY <1>7, <1>13, Chained DEF Telling, IsEvent
  <2> QED
    BY <1>7, <1>12, <1>13, <2>1
<1> HIDE DEF x3
<1>15. /\ Part(x4, n) /\ All(x4) = All(x3) \cup All(y3) /\ \A w \in All(x4) : w.do # "proof"
  <2>1. Part(x4, n + 0) /\ All(x4) = All(x3) \cup All(y3)
    BY <1>8, <1>14, Chained DEF Telling, IsEvent
  <2> QED
    BY <1>8, <1>12, <1>14, <2>1
<1> HIDE DEF x4
<1>16. /\ Part(x5, n) /\ All(x5) = All(x4) \cup All(y4) /\ \A w \in All(x5) : w.do # "proof"
  <2>1. Part(x5, n + 0) /\ All(x5) = All(x4) \cup All(y4)
    BY <1>9, <1>15, Chained DEF Telling, IsEvent
  <2> QED
    BY <1>9, <1>12, <1>15, <2>1
<1> HIDE DEF x5
<1>17. /\ Part(x6, n) /\ All(x6) = All(x5) \cup All(y5)
  <2>1. Part(x6, n + 0) /\ All(x6) = All(x5) \cup All(y5)
    BY <1>10, <1>16, Chained
  <2> QED
    BY <1>12, <2>1
<1> HIDE DEF x6
<1>18. IsList(x6) /\ Ordered(x6) /\ Tally(x6) = n /\ All(x1) \subseteq All(x6)
  BY <1>13, <1>14, <1>15, <1>16, <1>17 DEF Part
<1>19. \A w \in All(z) : w.do \in {"verify", "seal"}
  BY <1>11 DEF Do
<1>20. \A a \in All(x6), b \in All(z) : Follows(a, b)
  BY <1>17, <1>19 DEF Part, Follows, Telling, IsEvent, Changing
<1>21. IsList(ws) /\ Ordered(ws) /\ All(ws) = All(x6) \cup All(z) /\ ws # <<>>
  BY <1>11, <1>18, <1>20, Joined
<1>22. Tally(ws) = n
  <2>1. Tally(ws) = Tally(x6) + Tally(z)
    BY <1>11, <1>18, Joined
  <2> QED
    BY <1>11, <1>12, <1>18, <2>1
<1> HIDE DEF ws
<1>23. \E w \in All(ws) : w.do = "verify"
  <2>1. Do("verify", 0).do = "verify"
    BY DEF Do
  <2> QED
    BY <1>11, <1>21, <2>1
<1>24. \A w \in All(ws) :
          /\ w.do \notin {"unlink", "publish"} /\ Kept(w)
          /\ w.do = "event" => w.arg \in Events
          /\ Telling(w) => w.arg = "interrupted" /\ Count("interrupted") = 0
          /\ w.do = "proof" => w.arg = TRUE
  BY <1>17, <1>19, <1>21 DEF Part, Kept, Telling
<1>25. Proper(ws) /\ Fitting(ws) /\ Sealing(ws)
  <2>1. Proper(ws)
    BY <1>21, <1>24 DEF Proper, Kept
  <2>2. Fitting(ws)
    BY <1>1, <1>24 DEF Fitting, Runs, Kept
  <2>3. Sealing(ws)
    BY <1>23 DEF Sealing
  <2> QED
    BY <2>1, <2>2, <2>3
<1>26. TellingSound(ws)
  <2> SUFFICES ASSUME NEW w \in All(ws), Telling(w)
               PROVE  (\A e \in Verdicts : ~Told(e)) /\ w.arg = run.status
    BY <1>1 DEF TellingSound
  <2>1. w.arg = "interrupted" /\ ~Told("interrupted")
    BY <1>24, NotTold, FilesNow
  <2>2. \A e \in Verdicts : Told(e) => e = run.status
    BY DEF Told, Files, TellsOnce
  <2> QED
    BY <1>1, <2>1, <2>2
<1>27. Unlinking(ws) /\ Starts(ws)
  BY <1>5, <1>18, <1>21 DEF Unlinking, Starts
<1>28. Count("publication_failed") + Tally(ws) = run.fails /\ \A w \in Runs(ws) : w.arg.fails = run.fails
  <2>1. Count("publication_failed") + n = run.fails
    BY <1>1 DEF n
  <2> QED
    BY <1>22, <1>24, <2>1 DEF Kept, Runs
<1>29. Counting(ws)
  BY <1>1, <1>28 DEF Counting
<1>30. Proving(ws)
  BY <1>1, <1>5, <1>18, <1>21, <1>28 DEF Proving
<1> QED
  BY <1>4, <1>21, <1>25, <1>26, <1>27, <1>29, <1>30 DEF Pending

\* _publish_stale_operation_recovery: seal, bind again and seal, or publish anew.
LEMMA PublishPending ==
    ASSUME Files, Marked, PublishWrites # None
    PROVE  Pending(PublishWrites) /\ PublishWrites # <<>>
<1>1. CASE Completed
  <2> DEFINE a == Do("seal", 0)
             ws == <<a>>
  <2>1. PublishWrites = ws /\ a.do = "seal"
    BY <1>1 DEF PublishWrites, Do
  <2> HIDE DEF a
  <2>2. /\ IsList(ws) /\ Ordered(ws) /\ All(ws) = {a} /\ ws # <<>> /\ ws[1] = a /\ Tally(ws) = 0
    BY <2>1, One DEF IsEvent
  <2> HIDE DEF ws
  <2>3. Proper(ws) /\ Fitting(ws) /\ Sealing(ws) /\ TellingSound(ws) /\ Unlinking(ws) /\ Starts(ws) /\ Proving(ws)
    BY <1>1, <2>1, <2>2 DEF Proper, Fitting, Sealing, TellingSound, Telling, Unlinking, Changing, Starts, Proving, Runs, Marked
  <2>4. Counting(ws)
    <3>1. Runs(ws) = {}
      BY <2>1, <2>2 DEF Runs
    <3> QED
      BY <2>2, <3>1, FilesNow DEF Counting
  <2> QED
    BY <2>1, <2>2, <2>3, <2>4 DEF Pending
<1>2. CASE ~Completed /\ Material /\ Verified
  <2> DEFINE a == Do("row", 0)
             b == Do("verify", 0)
             c == Do("seal", 0)
             ws == <<a, b, c>>
  <2>1. PublishWrites = ws
    BY <1>2 DEF PublishWrites, Rebind
  <2>2. a.do = "row" /\ b.do = "verify" /\ c.do = "seal"
    BY DEF Do
  <2> HIDE DEF a, b, c
  <2>3. Follows(a, b) /\ Follows(a, c) /\ Follows(b, c)
    BY <2>2 DEF Follows, Telling, IsEvent
  <2>4. /\ IsList(ws) /\ Ordered(ws) /\ All(ws) = {a, b, c} /\ ws # <<>>
        /\ Tally(ws) = Tally(<<a>>) + Tally(<<b, c>>)
    BY <2>3, Three
  <2>5. Tally(ws) = 0
    <3>1. Tally(<<b, c>>) = Tally(<<b>>) + Tally(<<c>>)
      BY Two
    <3>2. Tally(<<a>>) = 0 /\ Tally(<<b>>) = 0 /\ Tally(<<c>>) = 0
      BY <2>2, One DEF IsEvent
    <3> QED
      BY <2>4, <3>1, <3>2
  <2> HIDE DEF ws
  <2>6. Proper(ws) /\ Fitting(ws) /\ Sealing(ws) /\ TellingSound(ws) /\ Unlinking(ws) /\ Starts(ws) /\ Proving(ws)
    BY <2>2, <2>4 DEF Proper, Fitting, Sealing, TellingSound, Telling, Unlinking, Changing, Starts, Proving, Runs, Marked
  <2>7. Counting(ws)
    <3>1. Runs(ws) = {}
      BY <2>2, <2>4 DEF Runs
    <3> QED
      BY <2>5, <3>1, FilesNow DEF Counting
  <2> QED
    BY <2>1, <2>4, <2>6, <2>7 DEF Pending
<1>3. CASE ~Completed /\ ~(Material /\ Verified)
  <2>1. proof = None /\ PublishWrites = PublicationWrites
    <3>1. proof # None \/ ~CanReconcile => PublishWrites = None
      BY <1>3 DEF PublishWrites
    <3>2. ~(proof # None \/ ~CanReconcile) => PublishWrites = PublicationWrites
      BY <1>3 DEF PublishWrites
    <3> QED
      BY <3>1, <3>2
  <2> QED
    BY <2>1, PublicationPending
<1> QED
  BY <1>1, <1>2, <1>3

-----------------------------------------------------------------------------
(* The steps of the operation.                                               *)

\* What the calls rely on when one of their writes was made.
Onward(w) ==
    /\ Started' /\ (Marked => Marked')
    /\ (Started /\ run.status \in Ending => run'.status \in Ending)
    /\ (w.do = "run" => run' = w.arg)
    /\ (w.do # "run" => run' = run /\ Started)
    /\ (log # <<>> \/ w.do = "event" => log' # <<>>)
    /\ (proof = None /\ w.do # "proof" => proof' = None)

\* What one write of a sound list does to the receipt, the log and the pack.
LEMMA EffectFacts ==
    ASSUME Files, NEW ws, ws # <<>>, Pending(ws), Effect(ws[1]), ws[1].do \notin {"publish", "verify"}
    PROVE  Onward(ws[1])
<1> DEFINE w == ws[1]
<1>1. /\ run' = IF w.do = "run" THEN w.arg ELSE run
      /\ log' = IF w.do = "event" THEN Append(log, w.arg) ELSE log
      /\ (w.do # "proof" => proof' = proof \/ proof' = None)
  BY DEF Effect
<1>2. w \in All(ws) /\ (w.do = "run" => w.arg \in Receipts) /\ (w.do = "event" => w.arg \in Events)
  BY Shorter DEF Pending, Proper
<1>3. /\ (w.do = "run" => w \in Runs(ws)) /\ (w.do # "run" => Started)
  BY <1>2 DEF Pending, Fitting, Runs
<1> HIDE DEF w
<1>4. Started'
  BY <1>1, <1>2, <1>3, NoneIsNothing DEF Started
<1>5. Started /\ ~Active => run'.status = run.status
  BY <1>1, <1>3 DEF Pending, Fitting
<1>6. Marked => Marked'
  BY <1>4, <1>5 DEF Marked, Active, ACTIVE_STATUSES
<1>7. Started /\ run.status \in Ending => run'.status \in Ending
  BY <1>5 DEF Active, ACTIVE_STATUSES, Ending
<1>8. log # <<>> \/ w.do = "event" => log' # <<>>
  <2>1. log \in Seq(Events)
    BY DEF Files, LogSound
  <2> QED
    BY <1>1, <1>2, <2>1, Grown
<1> QED
  BY <1>1, <1>3, <1>4, <1>6, <1>7, <1>8 DEF Onward, w

\* Only the last write of a publication seals it.
LEMMA NotYetSealed ==
    ASSUME Files, NEW w, w.do # "seal", Effect(w), ~Sealed
    PROVE  ~Sealed'
<1>1. row # None => row.seal = None
  BY DEF Files, RowSound
<1>2. row' = row \/ row' = None \/ row' = [of |-> proof, seal |-> None]
  BY DEF Effect
<1>3. row' # None => row'.seal = None
  BY <1>1, <1>2
<1> QED
  BY <1>3 DEF Sealed, Bound

\* A call begins.
LEMMA Taken ==
    ASSUME Files, Held, ~Sealed, NEW a \in {Owner} \cup Recoverers, NEW how, NEW ws, ws # <<>>, Pending(ws),
           Take(a, how, ws), UNCHANGED chosen
    PROVE  Files' /\ Pending(todo)' /\ Held' /\ lock' = a /\ todo' = ws /\ mode' = how /\ UNCHANGED durable
<1>1. UNCHANGED durable /\ lock' = a /\ mode' = how /\ todo' = ws
  BY DEF Take
<1>2. Files' /\ ~Sealed' /\ Pending(ws)'
  BY <1>1, SameFiles
<1>3. Pending(todo)'
  BY <1>1, <1>2
<1>4. Held'
  BY <1>1, <1>2, NoneIsNothing DEF Held
<1> QED
  BY <1>1, <1>2, <1>3, <1>4

\* The lock is free, so nothing is left to write.
LEMMA Free ==
    ASSUME OpInv, lock = None
    PROVE  /\ Files /\ Held /\ todo = <<>>
           /\ (pc = "new" => ~Started) /\ (~Started => pc \in {"new", "gone"}) /\ (pc = "prove" => proof = None)
           /\ (pc \in {"prove", "unproved"} => run.status \in Ending /\ Started /\ ~Active /\ ~Sealed)
           /\ (pc \in {"body", "exit", "prove", "unproved"} => log # <<>>)
<1>1. Files /\ Held /\ OwnerPlace
  BY DEF OpInv
<1>2. todo = <<>>
  BY <1>1 DEF Held
<1>3. pc \in {"prove", "unproved"} => run.status \in Ending /\ Started
  BY <1>1 DEF OwnerPlace
<1>4. Started /\ run.status \in Ending => ~Active /\ ~Sealed
  BY DEF Active, Sealed, Marked, Ending, ACTIVE_STATUSES
<1> QED
  BY <1>1, <1>2, <1>3, <1>4, NoneIsNothing DEF OwnerPlace

\* The owner takes the lock: where it is stays as it is.
LEMMA OwnerTakes ==
    ASSUME OpInv, lock = None, lock' = Owner, UNCHANGED <<durable, pc>>
    PROVE  OwnerPlace' /\ RecovererSound' /\ Owner \notin Recoverers
<1>1. OwnerPlace
  BY DEF OpInv
<1>2. (Started' <=> Started) /\ run' = run /\ log' = log
  BY SameFiles DEF durable
<1>3. Owner \notin Recoverers
  BY BoundsAreNaturals
<1>4. OwnerPlace'
  BY <1>1, <1>2, <1>3 DEF OwnerPlace
<1> QED
  BY <1>3, <1>4 DEF RecovererSound

\* start_operation: the first receipt of an operation.
LEMMA StartStep ==
    ASSUME OpInv, Start
    PROVE  OpInv'
<1> DEFINE r == Receipt("running")
           new == Rewrite(r, "started")
<1> PICK ws : ws = new
  OBVIOUS
<1>1. pc = "new" /\ Take(Owner, "start", ws) /\ UNCHANGED <<pc, chosen>> /\ lock = None
  BY DEF Start, Take
<1>2. Files /\ Held /\ ~Started
  BY <1>1, Free
<1>3. proof = None /\ Noted = 0 /\ log = <<>> /\ ~Active /\ ~Sealed
  BY <1>2, FilesNow DEF Active, Sealed, Marked
<1>4. r \in Receipts /\ r.fails = 0
  BY DEF Receipts, Receipt, ACTIVE_STATUSES
<1>5. "started" \in Events /\ "started" \notin Verdicts
  BY DEF Events, Verdicts
<1> HIDE DEF r
<1>6. /\ Pending(ws)
  BY <1>2, <1>3, <1>4, <1>5, RewritePending
<1>7. /\ ws # <<>> /\ All(ws) = {Do("run", r), Do("exp", r), Do("event", "started"), Do("mirror", 0)}
  BY <1>4, <1>5, RewriteList
<1> HIDE DEF new
<1>8. Files' /\ Pending(todo)' /\ Held' /\ lock' = Owner /\ todo' = ws /\ mode' = "start" /\ UNCHANGED durable
  BY <1>1, <1>2, <1>3, <1>6, <1>7, Taken
<1>9. \A w \in All(ws) : w.do \in {"run", "exp", "event", "mirror"}
  BY <1>7 DEF Do
<1>10. \E w \in All(ws) : w.do = "event"
  BY <1>7 DEF Do
<1>11. OwnerCall'
  <2>1. proof' = None
    BY <1>3, <1>8 DEF durable
  <2>2. All(todo)' = All(ws)
    BY <1>8 DEF All
  <2> QED
    BY <1>1, <1>8, <1>9, <1>10, <2>1, <2>2 DEF OwnerCall, Place
<1> QED
  BY <1>1, <1>8, <1>11, OwnerTakes DEF OpInv

\* record_operation_progress, update_operation_cursor, attach_preflight_snapshot.
LEMMA NoteStep ==
    ASSUME OpInv, NEW kind \in {"progress", "cursor", "preflight_snapshot"}, Note(kind)
    PROVE  OpInv'
<1> DEFINE r == [run EXCEPT !.steps = @ + 1]
           new == Rewrite(r, kind)
<1> PICK ws : ws = new
  OBVIOUS
<1>1. pc = "body" /\ Active /\ Take(Owner, "note", ws) /\ UNCHANGED <<pc, chosen>> /\ lock = None
  BY DEF Note, Take
<1>2. Files /\ Held /\ log # <<>>
  BY <1>1, Free
<1>3. proof = None /\ run \in Receipts /\ Noted = run.fails /\ ~Sealed
  BY <1>1, <1>2, FilesNow DEF Active, Sealed, Marked, ACTIVE_STATUSES
<1>4. r \in Receipts /\ r.fails = Noted
  <2>1. run.steps + 1 \in Nat
    BY <1>3 DEF Receipts
  <2>2. r.fails = run.fails
    BY <1>3 DEF Receipts
  <2>3. r \in Receipts
    BY <1>3, <2>1 DEF Receipts
  <2> QED
    BY <1>3, <2>2, <2>3
<1>5. kind \in Events /\ kind \notin Verdicts /\ kind # "publication_failed"
  BY DEF Events, Verdicts
<1> HIDE DEF r
<1>6. Pending(ws)
  BY <1>1, <1>2, <1>3, <1>4, <1>5, RewritePending
<1>7. /\ ws # <<>> /\ All(ws) = {Do("run", r), Do("exp", r), Do("event", kind), Do("mirror", 0)}
  BY <1>4, <1>5, RewriteList
<1> HIDE DEF new
<1>8. Files' /\ Pending(todo)' /\ Held' /\ lock' = Owner /\ todo' = ws /\ mode' = "note" /\ UNCHANGED durable
  BY <1>1, <1>2, <1>3, <1>6, <1>7, Taken
<1>9. \A w \in All(ws) : w.do \in {"run", "exp", "event", "mirror"}
  BY <1>7 DEF Do
<1>10. OwnerCall'
  <2>1. proof' = None
    BY <1>3, <1>8 DEF durable
  <2>2. All(todo)' = All(ws)
    BY <1>8 DEF All
  <2> QED
    BY <1>1, <1>8, <1>9, <2>1, <2>2 DEF OwnerCall, Place
<1> QED
  BY <1>1, <1>8, <1>10, OwnerTakes DEF OpInv

\* finish_operation: a verdict for an operation that is still active.
LEMMA FinishStep ==
    ASSUME OpInv, NEW status \in {"succeeded", "failed"}, Finish(status)
    PROVE  OpInv'
<1> DEFINE r == [run EXCEPT !.status = status]
           new == Rewrite(r, status)
           name == IF pc = "exit" THEN "exit" ELSE "finish"
<1> PICK ws, how : ws = new /\ how = name
  OBVIOUS
<1>1. /\ pc \in {"body", "exit"} /\ how \in {"finish", "exit"} /\ pc = Place[how]
      /\ Active /\ Take(Owner, how, ws) /\ UNCHANGED <<pc, chosen>> /\ lock = None
  BY DEF Finish, Take, Place
<1>2. Files /\ Held /\ log # <<>>
  BY <1>1, Free
<1>3. proof = None /\ run \in Receipts /\ Noted = run.fails /\ ~Sealed
  BY <1>1, <1>2, FilesNow DEF Active, Sealed, Marked, ACTIVE_STATUSES
<1>4. r \in Receipts /\ r.fails = Noted /\ r.status = status
  BY <1>3 DEF Receipts, Verdicts
<1>5. status \in Events /\ status \in Ending /\ status # "publication_failed"
  BY DEF Events, Verdicts, Ending
<1> HIDE DEF r
<1>6. Pending(ws)
  BY <1>1, <1>2, <1>3, <1>4, <1>5, RewritePending
<1>7. /\ ws # <<>> /\ All(ws) = {Do("run", r), Do("exp", r), Do("event", status), Do("mirror", 0)}
      /\ ws[1] = Do("run", r)
  BY <1>4, <1>5, RewriteList
<1> HIDE DEF new, name
<1>8. Files' /\ Pending(todo)' /\ Held' /\ lock' = Owner /\ todo' = ws /\ mode' = how /\ UNCHANGED durable
  BY <1>1, <1>2, <1>3, <1>6, <1>7, Taken
<1>9. \A w \in All(ws) : w.do \in {"run", "exp", "event", "mirror"}
  BY <1>7 DEF Do
<1>10. ws[1].do = "run" /\ ws[1].arg.status \in Ending
  BY <1>4, <1>5, <1>7 DEF Do
<1>11. OwnerCall'
  <2>1. proof' = None
    BY <1>3, <1>8 DEF durable
  <2>2. All(todo)' = All(ws)
    BY <1>8 DEF All
  <2>3. mode' \in DOMAIN Place /\ pc' = Place[mode']
    BY <1>1, <1>8 DEF Place
  <2> QED
    BY <1>1, <1>8, <1>9, <1>10, <2>1, <2>2, <2>3 DEF OwnerCall
<1> QED
  BY <1>1, <1>8, <1>11, OwnerTakes DEF OpInv

\* create_proof_pack, of an operation that ended by itself.
LEMMA ProveStep ==
    ASSUME OpInv, Prove
    PROVE  OpInv'
<1> PICK ws : ws = ProofWrites(run, FALSE)
  OBVIOUS
<1>1. pc = "prove" /\ Take(Owner, "prove", ws) /\ UNCHANGED <<pc, chosen>> /\ lock = None
  BY DEF Prove, Take
<1>2. Files /\ Held /\ log # <<>> /\ proof = None /\ Started /\ ~Active /\ ~Sealed
  BY <1>1, Free
<1>3. Pending(ws) /\ ws # <<>> /\ \A w \in All(ws) : w.do \notin {"publish", "verify", "seal", "try"} /\ (w.do = "proof" => w.arg = FALSE)
  BY <1>2, ProvePending
<1>4. Files' /\ Pending(todo)' /\ Held' /\ lock' = Owner /\ todo' = ws /\ mode' = "prove" /\ UNCHANGED durable
  BY <1>1, <1>2, <1>3, Taken
<1>5. OwnerCall'
  <2>1. All(todo)' = All(ws)
    BY <1>4 DEF All
  <2> QED
    BY <1>1, <1>3, <1>4, <2>1 DEF OwnerCall, Place
<1> QED
  BY <1>1, <1>4, <1>5, OwnerTakes DEF OpInv

\* _record_proof_pack_failure.
LEMMA UnproveStep ==
    ASSUME OpInv, RecordProofFailure
    PROVE  OpInv'
<1> DEFINE new == <<Do("unlink", 0)>> \o Rewrite([run EXCEPT !.proof = FALSE, !.steps = @ + 1], "proof_pack_failed")
<1> PICK ws : ws = new
  OBVIOUS
<1>1. pc = "unproved" /\ Take(Owner, "unprove", ws) /\ UNCHANGED <<pc, chosen>> /\ lock = None
  BY DEF RecordProofFailure, Take
<1>2. Files /\ Held /\ log # <<>> /\ Started /\ ~Active /\ ~Sealed
  BY <1>1, Free
<1>3. Pending(ws) /\ ws # <<>> /\ \A w \in All(ws) : w.do \in {"unlink", "drop", "run", "exp", "event", "mirror"}
  BY <1>2, UnprovePending
<1> HIDE DEF new
<1>4. Files' /\ Pending(todo)' /\ Held' /\ lock' = Owner /\ todo' = ws /\ mode' = "unprove" /\ UNCHANGED durable
  BY <1>1, <1>2, <1>3, Taken
<1>5. OwnerCall'
  <2>1. All(todo)' = All(ws)
    BY <1>4 DEF All
  <2> QED
    BY <1>1, <1>3, <1>4, <2>1 DEF OwnerCall, Place
<1> QED
  BY <1>1, <1>4, <1>5, OwnerTakes DEF OpInv

\* Steps that write nothing and leave the lock.
LEMMA RestStep ==
    ASSUME OpInv, UNCHANGED <<durable, lock, todo, mode>>
    PROVE  Files' /\ Pending(todo)' /\ (lock # None => ~Sealed') /\ (Started' <=> Started)
           /\ run' = run /\ log' = log /\ proof' = proof
<1> PICK ws : ws = todo
  OBVIOUS
<1>1. Files' /\ (Sealed' <=> Sealed) /\ Pending(ws)'
  BY SameFiles DEF OpInv
<1>2. Pending(todo)'
  BY <1>1
<1>3. run' = run /\ log' = log /\ proof' = proof /\ (Started' <=> Started)
  BY SameFiles DEF durable
<1> QED
  BY <1>1, <1>2, <1>3 DEF OpInv, Held

\* OperationGuard.__exit__, of an operation that somebody else decided.
LEMMA EvictedStep ==
    ASSUME OpInv, Evicted
    PROVE  OpInv'
<1>1. pc' = "gone" /\ lock = None /\ UNCHANGED <<durable, lock, todo, mode, chosen>>
  BY DEF Evicted
<1>2. Files' /\ Pending(todo)' /\ Held'
  BY <1>1, RestStep DEF OpInv, Held
<1>3. OwnerCall' /\ OwnerPlace' /\ RecovererSound'
  BY <1>1, NoneIsNothing DEF OwnerCall, OwnerPlace, RecovererSound
<1> QED
  BY <1>2, <1>3 DEF OpInv

\* recover_stale_operations: the scan, and what it finds out under the lock.
LEMMA ChoiceStep ==
    ASSUME OpInv, NEW r \in Recoverers, Scan(r) \/ Skip(r)
    PROVE  OpInv'
<1>1. UNCHANGED <<durable, lock, todo, mode, pc>>
  BY DEF Scan, Skip
<1>2. chosen \in [Recoverers -> Receipts \cup {None}]
  BY DEF OpInv, Held
<1>3. chosen' \in [Recoverers -> Receipts \cup {None}]
  <2>1. CASE Scan(r)
    <3>1. run \in Receipts /\ chosen' = [chosen EXCEPT ![r] = run]
      BY <2>1, FilesNow DEF Scan, Active, Marked, OpInv
    <3> QED
      BY <1>2, <3>1
  <2>2. CASE Skip(r)
    BY <1>2, <2>2 DEF Skip
  <2> QED
    BY <2>1, <2>2
<1>4. /\ Files' /\ Pending(todo)' /\ (lock # None => ~Sealed') /\ (Started' <=> Started)
      /\ run' = run /\ log' = log /\ proof' = proof
  BY <1>1, RestStep
<1>5. Held'
  BY <1>1, <1>3, <1>4 DEF OpInv, Held
<1>6. OwnerCall' /\ OwnerPlace'
  <2>1. OwnerCall /\ OwnerPlace
    BY DEF OpInv
  <2>2. All(todo)' = All(todo)
    BY <1>1 DEF All
  <2>3. OwnerCall'
    BY <1>1, <1>4, <2>1, <2>2 DEF OwnerCall
  <2> QED
    BY <1>1, <1>4, <2>1, <2>3 DEF OwnerPlace
<1>7. RecovererSound'
  <2> SUFFICES ASSUME lock \in Recoverers PROVE RecovererSound'
    BY <1>1 DEF RecovererSound
  <2>1. (Marked' <=> Marked) /\ (Active' <=> Active) /\ All(todo)' = All(todo)
    BY <1>1, SameFiles DEF All
  <2>2. RecovererSound
    BY DEF OpInv
  <2>3. CASE Marked
    BY <1>1, <1>4, <2>1, <2>2, <2>3 DEF RecovererSound
  <2>4. CASE ~Marked
    <3>1. Active /\ run = chosen[lock] /\ run # None
      BY <2>2, <2>4 DEF RecovererSound, Active, Started
    <3>2. Scan(r) => r # lock
      BY <3>1 DEF Scan
    <3>3. Skip(r) => lock = None
      BY DEF Skip
    <3>4. chosen'[lock] = chosen[lock]
      BY <1>2, <3>2, <3>3, NoneIsNothing DEF Scan, Skip
    <3> QED
      BY <1>1, <1>4, <2>1, <2>2, <2>4, <3>4 DEF RecovererSound
  <2> QED
    BY <2>3, <2>4
<1> QED
  BY <1>4, <1>5, <1>6, <1>7 DEF OpInv

\* recover_stale_operations takes the lock of an operation that is still what it chose.
LEMMA RecoverStep ==
    ASSUME OpInv, NEW r \in Recoverers, Recover(r)
    PROVE  OpInv'
<1> DEFINE mark == IF Marked THEN <<>> ELSE WriteReceipt([run EXCEPT !.status = "interrupted"])
           new == mark \o <<Do("publish", 0)>>
<1> PICK x, ws : x = mark /\ ws = new
  OBVIOUS
<1>1. /\ chosen[r] # None /\ StillChosen(r) /\ lock = None
      /\ Take(r, "recover", ws) /\ UNCHANGED <<pc, chosen>>
  BY DEF Recover, Take
<1>2. Files /\ Held /\ (~Started => pc \in {"new", "gone"}) /\ (pc = "new" => ~Started) /\ (pc = "prove" => proof = None)
  BY <1>1, Free
<1>3. ~Sealed /\ (Marked \/ (Active /\ run = chosen[r]))
  <2>1. Active => ~Sealed
    BY DEF Active, Sealed, Marked, ACTIVE_STATUSES
  <2> QED
    BY <1>1, <2>1 DEF StillChosen
<1>4. (x = <<>> /\ Marked) \/ (x = WriteReceipt([run EXCEPT !.status = "interrupted"]) /\ Active)
  BY <1>3
<1>5. /\ Pending(ws) /\ ws # <<>> /\ \A w \in All(ws) : w.do \in {"run", "exp", "publish"}
      /\ ~Marked => ws[1].do = "run" /\ ws[1].arg.status = "interrupted"
  BY <1>2, <1>4, RecoverPending
<1> HIDE DEF mark, new
<1>6. Files' /\ Pending(todo)' /\ Held' /\ lock' = r /\ todo' = ws /\ mode' = "recover" /\ UNCHANGED durable
  BY <1>1, <1>2, <1>3, <1>5, Taken
<1>7. /\ (Marked' <=> Marked) /\ (Active' <=> Active) /\ (Started' <=> Started)
      /\ run' = run /\ log' = log /\ proof' = proof
  BY <1>6, SameFiles DEF durable
<1>8. Started /\ r # Owner /\ r # None
  BY <1>3, BoundsAreNaturals, NoneIsNothing DEF Marked, Active
<1>9. OwnerCall'
  BY <1>6, <1>8 DEF OwnerCall
<1>10. OwnerPlace'
  BY <1>1, <1>2, <1>6, <1>7, <1>8 DEF OwnerPlace, OpInv
<1>11. RecovererSound'
  <2>1. All(todo)' = All(ws)
    BY <1>6 DEF All
  <2>2. Marked \/ (Active /\ run' = chosen'[lock'])
    BY <1>1, <1>3, <1>6, <1>7
  <2> QED
    BY <1>5, <1>6, <1>7, <2>1, <2>2 DEF RecovererSound
<1> QED
  BY <1>6, <1>9, <1>10, <1>11 DEF OpInv

\* The lock is given back: nothing is left to write, and where the owner is has to fit.
LEMMA Returned ==
    ASSUME Held, Release, NEW a, chosen' = [r \in Recoverers |-> IF r = a THEN None ELSE chosen[r]],
           Files', OwnerPlace'
    PROVE  OpInv'
<1>1. lock' = None /\ todo' = <<>>
  BY DEF Release
<1>2. Pending(<<>>)'
  <2>1. (Files => Pending(<<>>))'
    BY NoneLeft, PTL
  <2> QED
    BY <2>1
<1>3. Pending(todo)'
  BY <1>1, <1>2
<1>4. chosen' \in [Recoverers -> Receipts \cup {None}]
  BY DEF Held
<1>5. Held'
  BY <1>1, <1>4 DEF Held
<1>6. OwnerCall' /\ RecovererSound'
  BY <1>1, NoneIsNothing DEF OwnerCall, RecovererSound
<1> QED
  BY <1>3, <1>5, <1>6 DEF OpInv

\* While a recoverer holds the lock, the owner is at work or gone.
LEMMA RecovererHolds ==
    ASSUME OpInv, lock \in Recoverers
    PROVE  /\ lock # None /\ lock # Owner /\ Started /\ pc \in {"body", "exit", "gone"}
           /\ (pc # "gone" => log # <<>>) /\ mode \in {"recover", "publish", "clean"}
           /\ (mode # "recover" => Marked /\ log # <<>>)
<1>1. OwnerPlace /\ RecovererSound
  BY DEF OpInv
<1>2. lock # None /\ lock # Owner
  BY BoundsAreNaturals, NoneIsNothing
<1>3. Marked \/ Active
  BY <1>1 DEF RecovererSound
<1>4. Started /\ run.status \notin Ending
  BY <1>3 DEF Marked, Active, Ending, ACTIVE_STATUSES
<1> QED
  BY <1>1, <1>2, <1>4 DEF OwnerPlace, RecovererSound

\* So what the owner knows stays true beside the writes of a recoverer.
LEMMA OwnerWaits ==
    ASSUME OpInv, lock \in Recoverers, UNCHANGED pc, Started', log # <<>> => log' # <<>>
    PROVE  OwnerPlace'
BY RecovererHolds DEF OwnerPlace

\* A write of the owner that the next one follows, or that ends the call.
LEMMA OwnerAdvances ==
    ASSUME OpInv, lock = Owner, NEW ws, ws = todo, ws # <<>>, Onward(ws[1]), Files', Pending(Tail(ws))',
           Tail(ws) # <<>> => ~Sealed', Advance(Owner, ws[1])
    PROVE  OpInv'
<1>1. OwnerCall /\ OwnerPlace /\ Held /\ Pending(ws)
  BY DEF OpInv
<1>2. mode \in DOMAIN Place /\ pc = Place[mode]
  BY <1>1 DEF OwnerCall
<1>3. mode \in {"start", "note", "finish", "exit", "prove", "unprove"}
  BY <1>2 DEF Place
<1>4. All(ws) = {ws[1]} \cup All(Tail(ws)) /\ IsList(Tail(ws))
  BY <1>1, Shorter DEF Pending, Proper
<1>5. /\ mode \notin {"prove", "unprove"} => proof = None /\ \A w \in All(ws) : w.do # "proof"
      /\ mode \in {"finish", "exit"} =>
            (Started /\ run.status \in Ending) \/ (ws[1].do = "run" /\ ws[1].arg.status \in Ending)
      /\ mode = "start" => log # <<>> \/ \E w \in All(ws) : w.do = "event"
      /\ \A w \in All(ws) : w.do \notin {"publish", "verify", "seal", "try"} /\ (w.do = "proof" => w.arg = FALSE)
  BY <1>1 DEF OwnerCall
<1>6. mode \notin {"prove", "unprove"} => proof' = None
  BY <1>4, <1>5 DEF Onward
<1>7. mode \in {"finish", "exit"} => run'.status \in Ending
  BY <1>5 DEF Onward
<1>8. Started' /\ (log # <<>> => log' # <<>>)
  BY DEF Onward
<1>9. CASE Tail(todo) = <<>>
  <2>1. Return(Owner, AfterCall)
    BY <1>9 DEF Advance
  <2>2. Release /\ pc' = AfterCall /\ chosen' = [r \in Recoverers |-> IF r = Owner THEN None ELSE chosen[r]]
    BY <2>1 DEF Return
  <2>3. mode = "start" => log' # <<>>
    <3>1. All(Tail(ws)) = {}
      BY <1>9, Nothing
    <3> QED
      BY <1>4, <1>5, <3>1 DEF Onward
  <2>4. OwnerPlace'
    <3>1. /\ mode \in {"start", "note"} => pc' = "body"
          /\ mode \in {"finish", "exit"} => pc' = "prove"
          /\ mode \in {"prove", "unprove"} => pc' = "gone"
      BY <2>2 DEF AfterCall
    <3>2. lock' = None
      BY <2>2 DEF Release
    <3>3. mode \in {"note", "finish", "exit"} => log # <<>>
      BY <1>1, <1>2 DEF OwnerPlace, Place
    <3>4. CASE mode \in {"start", "note"}
      BY <1>8, <2>3, <3>1, <3>2, <3>3, <3>4, NoneIsNothing DEF OwnerPlace
    <3>5. CASE mode \in {"finish", "exit"}
      BY <1>6, <1>7, <1>8, <3>1, <3>2, <3>3, <3>5, NoneIsNothing DEF OwnerPlace
    <3>6. CASE mode \in {"prove", "unprove"}
      BY <1>8, <3>1, <3>2, <3>6, NoneIsNothing DEF OwnerPlace
    <3> QED
      BY <1>3, <3>4, <3>5, <3>6
  <2> QED
    BY <1>1, <2>2, <2>4, Returned
<1>10. CASE Tail(todo) # <<>>
  <2>1. todo' = Tail(ws) /\ UNCHANGED <<lock, pc, chosen>>
    BY <1>10 DEF Advance
  <2>2. mode' = mode
    BY <1>4, <1>5, <1>10 DEF Advance
  <2>3. Pending(todo)'
    BY <2>1
  <2>4. Held'
    BY <1>1, <1>10, <2>1, NoneIsNothing DEF Held
  <2>5. OwnerPlace'
    BY <1>1, <1>8, <2>1 DEF OwnerPlace, Onward
  <2>6. OwnerCall'
    <3>1. All(todo)' = All(Tail(ws))
      BY <2>1 DEF All
    <3>2. mode = "start" => log' # <<>> \/ \E w \in All(Tail(ws)) : w.do = "event"
      BY <1>4, <1>5 DEF Onward
    <3>3. \A w \in All(Tail(ws)) : w \in All(ws)
      BY <1>4
    <3> QED
      BY <1>2, <1>5, <1>6, <1>7, <1>8, <2>1, <2>2, <3>1, <3>2, <3>3 DEF OwnerCall
  <2>7. RecovererSound'
    BY <2>1, BoundsAreNaturals DEF RecovererSound
  <2> QED
    BY <2>3, <2>4, <2>5, <2>6, <2>7 DEF OpInv
<1> QED
  BY <1>9, <1>10

\* The same of a recoverer.
LEMMA RecovererAdvances ==
    ASSUME OpInv, NEW a \in Recoverers, lock = a, NEW ws, ws = todo, ws # <<>>, Onward(ws[1]), Files',
           Pending(Tail(ws))', Tail(ws) # <<>> => ~Sealed', Advance(a, ws[1])
    PROVE  OpInv'
<1>1. RecovererSound /\ Held /\ Pending(ws)
  BY DEF OpInv
<1>2. a # Owner /\ a # None
  BY BoundsAreNaturals, NoneIsNothing
<1>3. All(ws) = {ws[1]} \cup All(Tail(ws)) /\ \A b \in All(Tail(ws)) : Follows(ws[1], b)
  BY <1>1, Shorter DEF Pending, Proper
<1>4. Started' /\ (log # <<>> => log' # <<>>)
  BY DEF Onward
<1>5. CASE Tail(todo) = <<>>
  <2>1. Return(a, AfterCall)
    BY <1>5 DEF Advance
  <2>2. Release /\ pc' = pc /\ chosen' = [r \in Recoverers |-> IF r = a THEN None ELSE chosen[r]]
    BY <1>2, <2>1 DEF Return
  <2>3. OwnerPlace'
    BY <1>4, <2>2, OwnerWaits
  <2> QED
    BY <1>1, <2>2, <2>3, Returned
<1>6. CASE Tail(todo) # <<>>
  <2>1. /\ todo' = Tail(ws) /\ UNCHANGED <<lock, pc, chosen>>
        /\ mode' = IF ws[1].do = "try" THEN "publish" ELSE mode
    BY <1>6 DEF Advance
  <2>2. Pending(todo)'
    BY <2>1
  <2>3. Held'
    BY <1>1, <1>6, <2>1, <1>2 DEF Held
  <2>4. OwnerPlace'
    BY <1>4, <2>1, OwnerWaits
  <2>5. OwnerCall'
    BY <1>2, <2>1 DEF OwnerCall
  <2>6. Marked'
    <3>1. CASE Marked
      BY <3>1 DEF Onward
    <3>2. CASE ~Marked
      <4>1. ws[1].do = "run" /\ ws[1].arg.status = "interrupted"
        BY <1>1, <3>2 DEF RecovererSound
      <4> QED
        BY <4>1 DEF Onward, Marked
    <3> QED
      BY <3>1, <3>2
  <2>7. mode' # "recover" => log' # <<>>
    <3>1. CASE ws[1].do = "try"
      <4>1. ASSUME log = <<>> PROVE FALSE
        <5>1. PICK v \in All(ws) : IsEvent(v, "started")
          BY <1>1, <1>3, <3>1, <4>1 DEF Pending, Starts
        <5>2. v # ws[1]
          BY <3>1, <5>1 DEF IsEvent
        <5> QED
          BY <1>3, <3>1, <5>1, <5>2 DEF Follows
      <4> QED
        BY <1>4, <4>1
    <3>2. CASE ws[1].do # "try"
      BY <1>1, <1>4, <2>1, <3>2 DEF RecovererSound
    <3> QED
      BY <3>1, <3>2
  <2>8. mode' \in {"recover", "publish", "clean"}
    BY <1>1, <2>1 DEF RecovererSound
  <2> QED
    BY <2>2, <2>3, <2>4, <2>5, <2>6, <2>7, <2>8 DEF OpInv, RecovererSound
<1> QED
  BY <1>5, <1>6

\* One write, whoever makes it.
LEMMA WriteMade ==
    ASSUME OpInv, NEW a \in Actors, Write(a)
    PROVE  OpInv'
<1> PICK ws : ws = todo
  OBVIOUS
<1>1. lock = a /\ ws # <<>> /\ Head(ws).do \notin {"publish", "verify"} /\ Effect(Head(ws)) /\ Advance(a, Head(ws))
  BY DEF Write
<1>2. Files /\ Pending(ws) /\ Held
  BY DEF OpInv
<1>3. /\ Head(ws) = ws[1] /\ IsList(Tail(ws)) /\ \A b \in All(Tail(ws)) : Follows(ws[1], b)
  BY <1>1, <1>2, Shorter DEF Pending, Proper
<1>4. a # None /\ ~Sealed
  BY <1>1, <1>2, NoneIsNothing DEF Actors, Held
<1>5. Files' /\ Pending(Tail(ws))' /\ Onward(ws[1])
  BY <1>1, <1>2, <1>3, <1>4, EffectFiles, EffectPending, EffectFacts
<1>6. Tail(ws) # <<>> => ~Sealed'
  <2> SUFFICES ASSUME Tail(ws) # <<>> PROVE ~Sealed'
    OBVIOUS
  <2>1. Tail(ws)[1] \in All(Tail(ws))
    BY <1>3, ListShape DEF All
  <2>2. ws[1].do # "seal"
    BY <1>3, <2>1 DEF Follows
  <2> QED
    BY <1>1, <1>2, <1>3, <1>4, <2>2, NotYetSealed
<1>7. CASE a = Owner
  BY <1>1, <1>3, <1>5, <1>6, <1>7, OwnerAdvances
<1>8. CASE a \in Recoverers
  BY <1>1, <1>3, <1>5, <1>6, <1>8, RecovererAdvances
<1> QED
  BY <1>7, <1>8 DEF Actors

\* The files rest while a call goes on.
LEMMA Resting ==
    ASSUME OpInv, UNCHANGED durable, lock # None, NEW w, w.do \notin {"run", "event"}, Started
    PROVE  Files' /\ ~Sealed' /\ Onward(w)
<1>1. Files' /\ (Sealed' <=> Sealed) /\ (Started' <=> Started) /\ (Marked' <=> Marked)
  BY SameFiles DEF OpInv
<1>2. run' = run /\ log' = log /\ proof' = proof
  BY DEF durable
<1> QED
  BY <1>1, <1>2 DEF Onward, OpInv, Held

\* _record_proof_artifacts, when the ledger raises.
LEMMA LoseRowStep ==
    ASSUME OpInv, NEW a \in Actors, LoseRow(a)
    PROVE  OpInv'
<1> PICK ws : ws = todo
  OBVIOUS
<1>1. lock = a /\ ws # <<>> /\ Head(ws).do = "row" /\ Advance(a, Head(ws)) /\ UNCHANGED durable
  BY DEF LoseRow
<1>2. Files /\ Pending(ws)
  BY DEF OpInv
<1>3. Head(ws) = ws[1]
  BY <1>1, <1>2, Shorter DEF Pending, Proper
<1>4. a # None /\ Started
  BY <1>1, <1>2, <1>3, NoneIsNothing DEF Actors, Pending, Fitting
<1>5. Files' /\ ~Sealed' /\ Onward(ws[1])
  BY <1>1, <1>3, <1>4, Resting
<1>6. Pending(Tail(ws))'
  <2>1. Pending(Tail(ws))
    BY <1>1, <1>2, <1>3, DropHead
  <2> PICK t : t = Tail(ws)
    OBVIOUS
  <2> QED
    BY <1>1, <2>1, SameFiles
<1>7. CASE a = Owner
  BY <1>1, <1>3, <1>5, <1>6, <1>7, OwnerAdvances
<1>8. CASE a \in Recoverers
  BY <1>1, <1>3, <1>5, <1>6, <1>8, RecovererAdvances
<1> QED
  BY <1>7, <1>8 DEF Actors

\* The exception handler begins to clean up after a publication that was marked.
LEMMA CleanBegins ==
    ASSUME OpInv, NEW a \in Recoverers, lock = a, Files', Marked', ~Sealed', log' # <<>>, UNCHANGED <<lock, pc, chosen>>,
           mode' = "clean", NEW ws, todo' = ws, Pending(ws)', ws # <<>>, log # <<>>
    PROVE  OpInv'
<1>1. Pending(todo)' /\ a # None /\ a # Owner
  BY BoundsAreNaturals, NoneIsNothing
<1>2. Held'
  BY <1>1 DEF OpInv, Held
<1>3. OwnerPlace'
  BY OwnerWaits DEF Marked
<1>4. OwnerCall' /\ RecovererSound'
  BY <1>1 DEF OwnerCall, RecovererSound
<1> QED
  BY <1>1, <1>2, <1>3, <1>4 DEF OpInv

\* _publish_stale_operation_recovery decides what to write.
LEMMA DecideStep ==
    ASSUME OpInv, NEW a \in Actors, Decide(a)
    PROVE  OpInv'
<1> PICK ws : ws = todo
  OBVIOUS
<1>1. lock = a /\ ws # <<>> /\ UNCHANGED durable /\ Head(ws).do \in {"publish", "verify"}
  BY DEF Decide
<1>2. Files /\ Pending(ws) /\ Held /\ RecovererSound
  BY DEF OpInv
<1>3. Head(ws) = ws[1] /\ ws[1] \in All(ws)
  BY <1>1, <1>2, Shorter DEF Pending, Proper
<1>4. a \in Recoverers
  <2>1. a # Owner
    BY <1>1, <1>3 DEF OpInv, OwnerCall
  <2> QED
    BY <2>1 DEF Actors
<1>5. a # None /\ a # Owner /\ Started /\ (mode # "recover" => Marked /\ log # <<>>)
  BY <1>1, <1>4, RecovererHolds
<1>6. Marked
  BY <1>1, <1>2, <1>3, <1>4 DEF RecovererSound
<1>7. Files' /\ ~Sealed' /\ Marked' /\ log' = log
  BY <1>1, <1>2, <1>5, <1>6, SameFiles DEF Held, durable
<1>8. ASSUME NEW where, Return(a, where) PROVE OpInv'
  <2>1. Release /\ pc' = pc /\ chosen' = [r \in Recoverers |-> IF r = a THEN None ELSE chosen[r]]
    BY <1>5, <1>8 DEF Return
  <2>2. OwnerPlace'
    BY <1>1, <1>4, <1>7, <2>1, OwnerWaits DEF Marked
  <2> QED
    BY <1>2, <1>7, <2>1, <2>2, Returned
<1>9. CASE Head(ws).do = "publish"
  <2>1. IF PublishWrites = None
        THEN Return(a, pc)
        ELSE todo' = PublishWrites /\ UNCHANGED <<lock, mode, pc, chosen>>
    BY <1>9 DEF Decide
  <2>2. CASE PublishWrites = None
    BY <1>8, <2>1, <2>2
  <2>3. CASE PublishWrites # None
    <3> PICK new : new = PublishWrites
      OBVIOUS
    <3>1. todo' = new /\ UNCHANGED <<lock, mode, pc, chosen>>
      BY <2>1, <2>3
    <3>2. Pending(new) /\ new # <<>>
      BY <1>2, <1>6, <2>3, PublishPending
    <3>3. Pending(new)'
      BY <1>1, <3>2, SameFiles
    <3>4. Pending(todo)'
      BY <3>1, <3>3
    <3>5. Held'
      BY <1>1, <1>2, <1>5, <1>7, <3>1, <3>2 DEF Held
    <3>6. OwnerPlace'
      BY <1>1, <1>4, <1>7, <3>1, OwnerWaits DEF Marked
    <3>7. OwnerCall' /\ RecovererSound'
      BY <1>1, <1>2, <1>4, <1>5, <1>7, <3>1 DEF OwnerCall, RecovererSound
    <3> QED
      BY <1>7, <3>4, <3>5, <3>6, <3>7 DEF OpInv
  <2> QED
    BY <2>2, <2>3
<1>10. CASE Head(ws).do = "verify"
  <2>1. IF Completed
        THEN Advance(a, Head(ws))
        ELSE IF mode = "publish"
             THEN /\ mode' = "clean" /\ todo' = FailureWrites
                  /\ UNCHANGED <<lock, pc, chosen>>
             ELSE Return(a, pc)
    BY <1>10 DEF Decide
  <2>2. CASE Completed
    <3>1. Advance(a, ws[1])
      BY <1>3, <2>1, <2>2
    <3>2. Onward(ws[1])
      BY <1>1, <1>3, <1>5, <1>10, Resting
    <3>3. Pending(Tail(ws))'
      <4>1. Pending(Tail(ws))
        BY <1>1, <1>2, <1>3, <1>10, <2>2, DropHead
      <4> QED
        BY <1>1, <4>1, SameFiles
    <3> QED
      BY <1>1, <1>4, <1>7, <3>1, <3>2, <3>3, RecovererAdvances
  <2>3. CASE ~Completed /\ mode = "publish"
    <3> PICK new : new = FailureWrites
      OBVIOUS
    <3>1. mode' = "clean" /\ todo' = new /\ UNCHANGED <<lock, pc, chosen>>
      BY <2>1, <2>3
    <3>2. log # <<>>
      BY <1>5, <2>3
    <3>3. Pending(new) /\ new # <<>>
      BY <1>2, <1>6, <3>2, FailurePending DEF Cleaning
    <3>4. Pending(new)'
      BY <1>1, <3>3, SameFiles
    <3> QED
      BY <1>1, <1>4, <1>7, <3>1, <3>2, <3>3, <3>4, CleanBegins
  <2>4. CASE ~Completed /\ mode # "publish"
    BY <1>8, <2>1, <2>4
  <2> QED
    BY <2>2, <2>3, <2>4
<1> QED
  BY <1>1, <1>9, <1>10

\* A write raises: the call ends, or what is left of a publication is cleaned up.
LEMMA FaultStep ==
    ASSUME OpInv, NEW a \in Actors, Fault(a)
    PROVE  OpInv'
<1> PICK ws : ws = todo
  OBVIOUS
<1>1. /\ lock = a /\ ws # <<>> /\ Head(ws).do \notin {"publish", "verify"}
      /\ Effect(Head(ws)) \/ UNCHANGED durable
      /\ Raise(a)
  BY DEF Fault
<1>2. Files /\ Pending(ws) /\ Held /\ OwnerCall /\ OwnerPlace
  BY DEF OpInv
<1>3. Head(ws) = ws[1]
  BY <1>1, <1>2, Shorter DEF Pending, Proper
<1>4. a # None /\ ~Sealed
  BY <1>1, <1>2, NoneIsNothing DEF Actors, Held
<1>5. /\ Files' /\ (Started => Started') /\ (Marked => Marked')
      /\ (Started /\ run.status \in Ending => run'.status \in Ending)
      /\ (log # <<>> => log' # <<>>)
  <2>1. CASE Effect(Head(ws))
    <3>1. Files' /\ Onward(ws[1])
      BY <1>1, <1>2, <1>3, <1>4, <2>1, EffectFiles, EffectFacts
    <3> QED
      BY <3>1 DEF Onward
  <2>2. CASE UNCHANGED durable
    BY <1>2, <2>2, SameFiles DEF durable
  <2> QED
    BY <1>1, <2>1, <2>2
<1>6. CASE a = Owner
  <2>1. mode \in {"start", "note", "finish", "exit", "prove", "unprove"} /\ pc = Place[mode]
    BY <1>1, <1>2, <1>6 DEF OwnerCall, Place
  <2>2. Return(a, AfterFault)
    BY <1>1, <2>1 DEF Raise
  <2>3. Release /\ pc' = AfterFault /\ chosen' = [r \in Recoverers |-> IF r = a THEN None ELSE chosen[r]]
    BY <1>6, <2>2 DEF Return
  <2>4. lock' = None
    BY <2>3 DEF Release
  <2>5. OwnerPlace'
    <3>1. CASE mode \in {"start", "exit", "unprove"}
      <4>1. pc' = "gone"
        BY <2>3, <3>1 DEF AfterFault
      <4> QED
        BY <2>4, <4>1, NoneIsNothing DEF OwnerPlace
    <3>2. CASE mode \in {"note", "finish"}
      <4>1. pc' \in {"body", "exit"} /\ pc = "body"
        BY <2>1, <2>3, <3>2 DEF AfterFault, Place
      <4>2. Started /\ log # <<>>
        BY <1>2, <4>1 DEF OwnerPlace
      <4> QED
        BY <1>5, <2>4, <4>1, <4>2, NoneIsNothing DEF OwnerPlace
    <3>3. CASE mode = "prove"
      <4>1. pc' = "unproved" /\ pc = "prove"
        BY <2>1, <2>3, <3>3 DEF AfterFault, Place
      <4>2. Started /\ log # <<>> /\ run.status \in Ending
        BY <1>2, <4>1 DEF OwnerPlace
      <4> QED
        BY <1>5, <2>4, <4>1, <4>2, NoneIsNothing DEF OwnerPlace
    <3> QED
      BY <2>1, <3>1, <3>2, <3>3
  <2> QED
    BY <1>2, <1>5, <2>3, <2>5, Returned
<1>7. CASE a \in Recoverers
  <2>1. a # Owner /\ Started /\ (mode # "recover" => Marked /\ log # <<>>)
    BY <1>1, <1>7, RecovererHolds
  <2>2. CASE mode = "publish" /\ ~Sealed'
    <3>1. Clean
      BY <1>1, <2>2 DEF Raise
    <3> PICK new : new = FailureWrites'
      OBVIOUS
    <3>2. mode' = "clean" /\ todo' = new /\ UNCHANGED <<lock, pc, chosen>>
      BY <3>1 DEF Clean
    <3>3. Marked' /\ log' # <<>> /\ log # <<>>
      BY <1>5, <2>1, <2>2
    <3>4. Pending(new)' /\ new # <<>>
      <4>1. (Files /\ Marked /\ log # <<>> => Cleaning)'
        BY FailurePending, PTL
      <4> QED
        BY <1>5, <3>3, <4>1 DEF Cleaning
    <3> QED
      BY <1>1, <1>5, <1>7, <2>2, <3>2, <3>3, <3>4, CleanBegins
  <2>3. CASE ~(mode = "publish" /\ ~Sealed')
    <3>1. Return(a, AfterFault)
      BY <1>1, <2>3 DEF Raise
    <3>2. Release /\ pc' = pc /\ chosen' = [r \in Recoverers |-> IF r = a THEN None ELSE chosen[r]]
      BY <2>1, <3>1 DEF Return
    <3>3. OwnerPlace'
      BY <1>1, <1>5, <1>7, <2>1, <3>2, OwnerWaits
    <3> QED
      BY <1>2, <1>5, <3>2, <3>3, Returned
  <2> QED
    BY <2>2, <2>3
<1> QED
  BY <1>6, <1>7 DEF Actors

\* A process dies, and its lock goes with it.
LEMMA CrashStep ==
    ASSUME OpInv, NEW a \in Actors, Crash(a)
    PROVE  OpInv'
<1>1. UNCHANGED durable
  BY DEF Crash
<1>2. Files' /\ Held /\ OwnerPlace /\ OwnerCall
  BY <1>1, SameFiles DEF OpInv
<1>3. CASE lock = a
  <2>1. /\ Release /\ pc' = IF a = Owner THEN "gone" ELSE pc
        /\ chosen' = [r \in Recoverers |-> IF r = a THEN None ELSE chosen[r]]
    BY <1>3 DEF Crash, Return
  <2>2. OwnerPlace'
    <3>1. CASE a = Owner
      BY <2>1, <3>1, NoneIsNothing DEF OwnerPlace, Release
    <3>2. CASE a \in Recoverers
      <4>1. a # Owner /\ Started /\ (Started' <=> Started) /\ log' = log
        BY <1>1, <1>3, <3>2, RecovererHolds, SameFiles DEF durable
      <4> QED
        BY <1>3, <2>1, <3>2, <4>1, OwnerWaits
    <3> QED
      BY <3>1, <3>2 DEF Actors
  <2> QED
    BY <1>2, <2>1, <2>2, Returned
<1>4. CASE lock # a
  <2>1. a = Owner /\ pc' = "gone" /\ UNCHANGED <<lock, todo, mode, chosen>>
    BY <1>4 DEF Crash
  <2>2. /\ Pending(todo)' /\ (lock # None => ~Sealed') /\ (Started' <=> Started)
        /\ run' = run /\ log' = log
    BY <1>1, <2>1, RestStep
  <2>3. Held'
    BY <1>2, <2>1, <2>2 DEF Held
  <2>4. OwnerCall' /\ OwnerPlace'
    BY <1>2, <1>4, <2>1, <2>2 DEF OwnerCall, OwnerPlace
  <2>5. RecovererSound'
    <3>1. (Marked' <=> Marked) /\ (Active' <=> Active) /\ All(todo)' = All(todo)
      BY <1>1, <2>1, SameFiles DEF All
    <3>2. RecovererSound
      BY DEF OpInv
    <3> QED
      BY <2>1, <2>2, <3>1, <3>2 DEF RecovererSound
  <2> QED
    BY <1>2, <2>2, <2>3, <2>4, <2>5 DEF OpInv
<1> QED
  BY <1>3, <1>4

\* No file, no call.
LEMMA OpInit == Init => OpInv
<1> SUFFICES ASSUME Init PROVE OpInv
  OBVIOUS
<1>1. /\ run = None /\ proof = None /\ row = None /\ log = <<>> /\ mirror = {} /\ lock = None /\ todo = <<>>
      /\ pc = "new" /\ chosen = [r \in Recoverers |-> None]
  BY DEF Init
<1>2. Count("publication_failed") = 0 /\ Noted = 0 /\ ~Started
  <2>1. {i \in DOMAIN log : log[i] = "publication_failed"} = {}
    BY <1>1
  <2> QED
    BY <1>1, <2>1, FS_EmptySet DEF Count, Noted, Started
<1>3. Files
  <2>1. IsFiniteSet(mirror)
    BY <1>1, FS_EmptySet
  <2>2. log \in Seq(Events) /\ DOMAIN log = {}
    BY <1>1
  <2> QED
    BY <1>1, <1>2, <2>1, <2>2 DEF Files, RowSound, TellsOnce, PackSound, LogSound
<1>4. Pending(todo)
  BY <1>1, <1>3, NoneLeft
<1>5. Held
  BY <1>1, <1>2 DEF Held, Sealed, Marked
<1>6. OwnerCall /\ OwnerPlace /\ RecovererSound
  BY <1>1, <1>2, NoneIsNothing DEF OwnerCall, OwnerPlace, RecovererSound
<1> QED
  BY <1>3, <1>4, <1>5, <1>6 DEF OpInv

\* Every step of the operation, its owner and its recoverers.
LEMMA OpStep ==
    ASSUME OpInv, Next
    PROVE  OpInv'
<1>1. CASE OwnerCalls
  <2>1. CASE Start
    BY <2>1, StartStep
  <2>2. CASE \E kind \in {"progress", "cursor", "preflight_snapshot"} : Note(kind)
    BY <2>2, NoteStep
  <2>3. CASE \E status \in {"succeeded", "failed"} : Finish(status)
    BY <2>3, FinishStep
  <2>4. CASE Evicted
    BY <2>4, EvictedStep
  <2>5. CASE Prove
    BY <2>5, ProveStep
  <2>6. CASE RecordProofFailure
    BY <2>6, UnproveStep
  <2> QED
    BY <1>1, <2>1, <2>2, <2>3, <2>4, <2>5, <2>6 DEF OwnerCalls
<1>2. CASE \E r \in Recoverers : RecoverCalls(r)
  BY <1>2, ChoiceStep, RecoverStep DEF RecoverCalls
<1>3. CASE \E a \in Actors : HolderSteps(a) \/ Fault(a) \/ LoseRow(a) \/ Crash(a)
  BY <1>3, WriteMade, DecideStep, FaultStep, LoseRowStep, CrashStep DEF HolderSteps
<1> QED
  BY <1>1, <1>2, <1>3 DEF Next

\* Nothing of the operation changes.
LEMMA RestingOperation ==
    ASSUME OpInv, UNCHANGED vars
    PROVE  OpInv'
<1>1. UNCHANGED <<durable, lock, todo, mode, pc, chosen>>
  BY DEF vars
<1>2. /\ Files' /\ Pending(todo)' /\ (lock # None => ~Sealed') /\ (Started' <=> Started)
      /\ run' = run /\ log' = log /\ proof' = proof
  BY <1>1, RestStep
<1>3. (Marked' <=> Marked) /\ (Active' <=> Active) /\ All(todo)' = All(todo)
  BY <1>1, SameFiles DEF All
<1>4. Held'
  BY <1>1, <1>2 DEF OpInv, Held
<1>5. OwnerCall'
  BY <1>1, <1>2, <1>3 DEF OpInv, OwnerCall
<1>6. OwnerPlace'
  BY <1>1, <1>2 DEF OpInv, OwnerPlace
<1>7. RecovererSound'
  BY <1>1, <1>2, <1>3 DEF OpInv, RecovererSound
<1> QED
  BY <1>2, <1>4, <1>5, <1>6, <1>7 DEF OpInv

-----------------------------------------------------------------------------
(* What the invariant says of one operation.                                 *)

\* A set whose elements are all the same is empty or a singleton.
LEMMA AtMostOne ==
    ASSUME NEW S, \A x, y \in S : x = y
    PROVE  Cardinality(S) <= 1 /\ (S # {} => Cardinality(S) = 1)
<1>1. CASE S = {}
  BY <1>1, FS_EmptySet
<1>2. CASE S # {}
  <2> PICK x \in S : TRUE
    BY <1>2
  <2>1. S = {x}
    OBVIOUS
  <2>2. Cardinality({x}) = 1
    BY FS_Singleton
  <2> QED
    BY <2>1, <2>2
<1> QED
  BY <1>1, <1>2

\* The log tells one verdict at most, the one that the receipt carries.
LEMMA VerdictOnce ==
    ASSUME Files
    PROVE  OneVerdict
<1> DEFINE told == {i \in DOMAIN log : log[i] \in Verdicts}
<1>1. \A i, j \in told : i = j
  BY DEF Files, TellsOnce
<1>2. \A i \in told : log[i] = run.status
  BY DEF Files, TellsOnce
<1>3. Cardinality(told) <= 1
  BY <1>1, AtMostOne
<1> QED
  BY <1>2, <1>3 DEF OneVerdict

\* A pack says what it is bound to, and that is so.
LEMMA PackBinds ==
    ASSUME Files
    PROVE  ProofIsCurrent
<1> SUFFICES ASSUME proof # None
             PROVE  /\ proof.receipt = run /\ proof.export = exp
                    /\ proof.events = Len(log) /\ proof.mirror = mirror
  BY DEF ProofIsCurrent
<1>1. proof = Evidence(proof.recovery)
  BY DEF Files, PackSound, PackIsCurrent
<1>2. \A b : LET e == Evidence(b) IN e.receipt = run /\ e.export = exp /\ e.events = Len(log) /\ e.mirror = mirror
  BY DEF Evidence
<1> QED
  BY <1>1, <1>2

\* The seal is put on a recovery that was complete, and nobody writes after it.
LEMMA SealHolds ==
    ASSUME Files
    PROVE  SealedIsWhole
<1> SUFFICES ASSUME Sealed
             PROVE  /\ run = exp /\ mirror = DOMAIN log
                    /\ log # <<>> /\ log[1] = "started"
                    /\ Count("interrupted") = 1
                    /\ Count("publication_failed") = run.fails
                    /\ Verified
  BY DEF SealedIsWhole
<1>1. row # None /\ row.seal # None
  BY DEF Sealed, Bound
<1>2. Material /\ Verified
  BY <1>1 DEF Files, RowSound, Completed
<1>3. run = exp /\ mirror = DOMAIN log
  BY <1>2 DEF Verified
<1>4. Told("interrupted") /\ Count("publication_failed") = run.fails
  BY <1>2 DEF Files, PackSound, Material
<1>5. log # <<>> /\ log[1] = "started"
  BY <1>4 DEF Told, Files, LogSound
<1>6. Count("interrupted") = 1
  <2> DEFINE T == {i \in DOMAIN log : log[i] = "interrupted"}
  <2>1. T # {}
    BY <1>4 DEF Told
  <2>2. \A i, j \in T : i = j
    BY DEF Files, TellsOnce, Verdicts
  <2> QED
    BY <2>1, <2>2, AtMostOne DEF Count
<1> QED
  BY <1>2, <1>3, <1>4, <1>5, <1>6

\* The files change by a write of the lock's holder, and by nothing else.
LEMMA OnlyTheHolder ==
    ASSUME Next, ~UNCHANGED durable
    PROVE  /\ lock \in Actors /\ todo # <<>> /\ Head(todo).do \notin {"publish", "verify"}
           /\ Effect(Head(todo))
<1>1. PICK a \in Actors : Write(a) \/ Fault(a)
  <2>1. OwnerCalls => UNCHANGED durable
    BY DEF OwnerCalls, Start, Note, Finish, Evicted, Prove, RecordProofFailure, Take
  <2>2. \A r \in Recoverers : RecoverCalls(r) => UNCHANGED durable
    BY DEF RecoverCalls, Scan, Recover, Skip, Take
  <2>3. \A a \in Actors : Decide(a) \/ LoseRow(a) \/ Crash(a) => UNCHANGED durable
    BY DEF Decide, LoseRow, Crash
  <2> QED
    BY <2>1, <2>2, <2>3 DEF Next, HolderSteps
<1>2. CASE Write(a)
  BY <1>2 DEF Write
<1>3. CASE Fault(a)
  BY <1>3 DEF Fault
<1> QED
  BY <1>1, <1>2, <1>3

\* finish_operation, recover_stale_operations: what is decided stays decided.
VerdictStep ==
    /\ (Started /\ ~Active => run'.status = run.status)
    /\ (Sealed => Sealed')
\* No step changes a verdict or breaks a seal.
LEMMA VerdictStays ==
    ASSUME OpInv, Next
    PROVE  VerdictStep
<1>1. CASE UNCHANGED durable
  BY <1>1, SameFiles DEF VerdictStep, durable
<1>2. CASE ~UNCHANGED durable
  <2> PICK ws : ws = todo
    OBVIOUS
  <2>1. lock \in Actors /\ ws # <<>> /\ Effect(Head(ws))
    BY <1>2, OnlyTheHolder
  <2>2. ~Sealed /\ Pending(ws)
    BY <2>1, NoneIsNothing DEF OpInv, Held, Actors
  <2>3. Head(ws) = ws[1] /\ ws[1] \in All(ws)
    BY <2>1, <2>2, Shorter DEF Pending, Proper
  <2>4. Started /\ ~Active => run'.status = run.status
    <3> SUFFICES ASSUME Started, ~Active PROVE run'.status = run.status
      OBVIOUS
    <3>1. CASE ws[1].do = "run"
      BY <2>1, <2>2, <2>3, <3>1 DEF Pending, Fitting, Runs, Effect
    <3>2. CASE ws[1].do # "run"
      BY <2>1, <2>3, <3>2 DEF Effect
    <3> QED
      BY <3>1, <3>2
  <2> QED
    BY <2>2, <2>4 DEF VerdictStep
<1> QED
  BY <1>1, <1>2

\* recover_stale_operations: what is interrupted shows no progress since the scan.
InterruptStep == \A r \in Recoverers : lock = r /\ Active /\ run' # run => run = chosen[r]
\* No recoverer interrupts an operation that moved since it was chosen.
LEMMA InterruptsTheChosen ==
    ASSUME OpInv
    PROVE  InterruptStep
BY DEF OpInv, RecovererSound, InterruptStep, Marked, Active, ACTIVE_STATUSES

-----------------------------------------------------------------------------
(* One run over the three.                                                   *)

\* The operation, the checkpoints and the archive together.
RecInv == OpInv /\ Lines /\ GoodAll /\ Archive

\* The initial states.
LEMMA RecInit == RecoveryInit => RecInv
BY OpInit, LinesInit, ArchiveInit DEF RecoveryInit, RecInv

\* What the archive says stays when the archive rests.
LEMMA RestingArchive ==
    ASSUME Archive, UNCHANGED proofVars
    PROVE  Archive'
<1>1. \A u : A!Archived(u)' = A!Archived(u)
  BY DEF A!Archived, proofVars
<1>2. UNCHANGED <<file, made, ledger, refs, owed, aside, linked, object, bound, call>>
  BY DEF proofVars
<1>3. ArchiveTyped' /\ LedgerSound'
  BY <1>1, <1>2 DEF Archive, ArchiveTyped, LedgerSound
<1>4. CallSound'
  BY <1>1, <1>2 DEF Archive, CallSound
<1>5. A!RecordedIsWhole'
  BY <1>1, <1>2 DEF Archive, A!RecordedIsWhole
<1>6. \A u, c : A!Resolves(u, c)' <=> A!Resolves(u, c)
  BY <1>2, StillResolved
<1>7. A!BytesStay'
  BY <1>2, <1>6 DEF Archive, A!BytesStay
<1> QED
  BY <1>3, <1>4, <1>5, <1>7 DEF Archive

\* What the lines say stays when the checkpoints rest.
LEMMA RestingLines ==
    ASSUME Lines, GoodAll, UNCHANGED cardVars
    PROVE  Lines' /\ GoodAll'
<1>1. UNCHANGED <<card, proofs, scan, plan, harm>>
  BY DEF cardVars
<1>2. Cards' /\ K!Ids' = K!Ids /\ K!Heads' = K!Heads
  <2>1. K!Ids' = K!Ids /\ \A c : card'[c] = card[c]
    BY <1>1 DEF K!Ids
  <2>2. \A c : K!IsHead(c)' <=> K!IsHead(c)
    BY <1>1, <2>1 DEF K!IsHead, K!Referenced
  <2> QED
    BY <1>1, <2>1, <2>2 DEF Lines, Cards, K!Heads
<1>3. Fresh'
  BY <1>1, FreshKept DEF Lines
<1>4. \A g : Good(card, g)' <=> Good(card, g)
  BY <1>1, <1>2 DEF Good
<1> QED
  BY <1>1, <1>2, <1>3, <1>4 DEF Lines, GoodAll

\* Every step of the composed system.
LEMMA RecStep ==
    ASSUME RecInv, [RecoveryNext]_allVars
    PROVE  RecInv'
<1>1. CASE OfArchive(A!Next)
  BY <1>1, ArchiveStep, RestingLines, RestingOperation DEF OfArchive, RecInv
<1>2. CASE OfCheckpoints(K!Next)
  BY <1>2, LinesStep, RestingArchive, RestingOperation DEF OfCheckpoints, RecInv
<1>3. CASE OfOperation(Next)
  BY <1>3, OpStep, RestingLines, RestingArchive DEF OfOperation, RecInv
<1>4. CASE UNCHANGED allVars
  BY <1>4, RestingLines, RestingArchive, RestingOperation DEF RecInv, allVars
<1> QED
  BY <1>1, <1>2, <1>3, <1>4 DEF RecoveryNext

\* What the files and the calls of an operation, the cards, their groups and the archive
\* always satisfy, whatever calls, deaths and failing writes, scans, records, resolutions,
\* repairs, damages, archive and restore calls come in whatever order.
THEOREM RecInvariance == RecoverySpec => []RecInv
<1>1. RecInv /\ [RecoveryNext]_allVars => RecInv'
  BY RecStep
<1> QED
  BY <1>1, RecInit, PTL DEF RecoverySpec

\* detect_project_state_conflicts, resolve_project_state_conflict, repair: a conflict group
\* whose cards are all current has two members or more, and all of them are heads.
THEOREM GroupsStayWhole == RecoverySpec => []GroupsWhole
<1>1. RecInv => GroupsWhole
  <2> SUFFICES ASSUME Cards, GoodAll, NEW g \in K!Groups, \A c \in K!InGroup(g) : card[c].current
               PROVE  Cardinality(K!InGroup(g)) > 1 /\ K!InGroup(g) \subseteq K!Heads
    BY SameCount DEF RecInv, Lines, GroupsWhole, K!GroupsWhole
  <2>1. PICK x \in K!Ids : g = card[x].group /\ g # 0
    BY DEF K!Groups, K!GroupsOf, K!Null
  <2>2. g \in Nat \ {0}
    BY <2>1, OfCard DEF CardType
  <2>3. \A c : c \in K!InGroup(g) <=> c \in K!Ids /\ card[c].group = g
    BY DEF K!InGroup
  <2>4. \A c \in K!Ids : card[c].group = g => c \in K!Heads /\ \E y \in K!Ids : y # c /\ card[y].group = g
    BY <2>2, <2>3 DEF GoodAll, Good
  <2>5. Len(card) \in Nat /\ K!InGroup(g) \in SUBSET (1 .. Len(card))
    BY OfCard DEF K!InGroup, K!Ids
  <2>6. \E y, z \in K!InGroup(g) : y # z
    BY <2>1, <2>3, <2>4
  <2> QED
    BY <2>3, <2>4, <2>5, <2>6, TwoOf
<1> QED
  BY <1>1, RecInvariance, PTL

\* detect_project_state_conflicts: a scan, however few cards its limit lets it read, parts
\* two heads of one group only when the group they are in was dismissed.
THEOREM ScansKeepDisputes == RecoverySpec => DisputesStay
<1>1. RecInv /\ [RecoveryNext]_allVars => [K!Scan => DisputesStep]_(K!vars)
  <2> SUFFICES ASSUME RecInv, K!Scan
               PROVE  DisputesStep
    OBVIOUS
  <2> QED
    BY ScanStep DEF RecInv
<1>2. (K!Scan => DisputesStep) => (K!Scan => \A c, d \in K!Heads : (c # d /\ card[c].group # K!Null /\ card[c].group = card[d].group)
          => card'[c].group = card'[d].group /\ (card'[c].group # K!Null \/ \E C \in SUBSET K!Heads : {c, d} \subseteq C /\ K!Dismissed(C)))
  BY DEF DisputesStep, K!Null
<1> QED
  BY <1>1, <1>2, RecInvariance, PTL DEF RecoverySpec, DisputesStay, K!DisputesStay

\* record_project_state, resolve, repair: an intact head stops to be one only for an intact
\* card that names it, quarantined cards stay as they are; _archive_one, restore: bytes that a
\* proof binds are under their name, in a quarantine or readable from the archive.
THEOREM AuthorityIsPassedOn == RecoverySpec => AuthorityPassesOn
<1>1. RecInv /\ [RecoveryNext]_allVars => [AuthorityStep]_(K!vars) /\ [QuarantineStep]_(K!vars)
  <2> SUFFICES ASSUME RecInv, [RecoveryNext]_allVars, ~UNCHANGED K!vars
               PROVE  AuthorityStep /\ QuarantineStep
    OBVIOUS
  <2>1. OfCheckpoints(K!Next)
    BY DEF RecoveryNext, OfOperation, OfArchive, allVars, cardVars, K!vars
  <2> QED
    BY <2>1, LinesStep DEF OfCheckpoints, RecInv
<1>2. RecInv => A!BytesStay
  BY DEF RecInv, Archive
<1> QED
  BY <1>1, <1>2, RecInvariance, PTL DEF RecoverySpec, AuthorityPassesOn, K!AuthorityPassesOn, K!QuarantineHolds,
     AuthorityStep, QuarantineStep

\* The ledger's module counts as this module does.
LEMMA SameCountOfLedger == \A S : A!Cardinality(S) = Cardinality(S)
BY DEF A!Cardinality, Cardinality

\* finish_operation, recover_stale_operations, create_proof_pack: the log tells one verdict at
\* most, the one the receipt carries; a pack binds what the files say now; a sealed recovery
\* is whole.  load_verified_ledger: the relocation ledger can be replayed, and what it records
\* can be read.
THEOREM EvidenceStaysSound == RecoverySpec => []EvidenceAgrees
<1>1. RecInv => EvidenceAgrees
  <2> SUFFICES ASSUME RecInv PROVE EvidenceAgrees
    OBVIOUS
  <2>1. Files /\ Archive
    BY DEF RecInv, OpInv
  <2>2. OneVerdict /\ ProofIsCurrent /\ SealedIsWhole
    BY <2>1, VerdictOnce, PackBinds, SealHolds
  <2>3. A!RecordedIsWhole
    BY <2>1 DEF Archive
  <2>4. DOMAIN ledger = 1 .. Len(ledger)
    BY <2>1, LenProperties DEF Archive, ArchiveTyped
  <2>5. \A u \in Uris : A!Cardinality(A!Archived(u)) <= 1
    <3> SUFFICES ASSUME NEW u \in Uris PROVE Cardinality(A!Archived(u)) <= 1
      BY SameCountOfLedger
    <3>1. \A c, d \in A!Archived(u) : c = d
      BY <2>1 DEF Archive, LedgerSound
    <3> QED
      BY <3>1, AtMostOne
  <2>6. A!LedgerReplays
    BY <2>1, <2>4, <2>5 DEF A!LedgerReplays, Archive, LedgerSound
  <2> QED
    BY <2>2, <2>3, <2>6 DEF EvidenceAgrees
<1> QED
  BY <1>1, RecInvariance, PTL

\* finish_operation, recover_stale_operations: a verdict, once in the receipt, is never replaced,
\* a sealed recovery is never undone, and an operation is interrupted only as the scan saw it.
THEOREM VerdictsStayDue == RecoverySpec => VerdictsAreDue
<1>1. RecInv /\ [RecoveryNext]_allVars => [VerdictStep]_vars /\ [InterruptStep]_vars
  <2> SUFFICES ASSUME RecInv, [RecoveryNext]_allVars, ~UNCHANGED vars
               PROVE  VerdictStep /\ InterruptStep
    OBVIOUS
  <2>1. Next
    BY DEF RecoveryNext, OfOperation, OfCheckpoints, OfArchive, allVars
  <2> QED
    BY <2>1, VerdictStays, InterruptsTheChosen DEF RecInv
<1> QED
  BY <1>1, RecInvariance, PTL DEF RecoverySpec, VerdictsAreDue, VerdictStands, NoFreshWorkInterrupted, VerdictStep, InterruptStep
=============================================================================
