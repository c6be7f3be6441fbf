----------------------- MODULE ScribeSegments_proofs ------------------------
(***************************************************************************)
(* Proofs about module ScribeSegments, for any workers, callers, security  *)
(* boundaries, thresholds and lengths of the Scroll: whoever rolls, the    *)
(* segments tile the Scroll without mixing boundaries, a plan made without *)
(* a lock can only be overtaken, and a due backlog stays announced.        *)
(***************************************************************************)
EXTENDS ScribeSegments, WellFoundedInduction, TLAPS

-----------------------------------------------------------------------------
\* Arithmetic.

\* Every set of naturals that has an element has a least one.
LEMMA LeastNatural ==
    ASSUME NEW S \in SUBSET Nat, S # {}
    PROVE  \E n \in S : \A m \in S : n <= m
<1> DEFINE R == OpToRel(<, Nat)
<1>1. IsWellFoundedOn(R, Nat)
  BY NatLessThanWellFounded, Zenon
<1>2. \A n, m \in Nat : n < m => <<n, m>> \in R
  BY DEF OpToRel
<1> HIDE DEF R
<1>3. PICK n \in S : \A m \in S : ~(<<m, n>> \in R)
  BY <1>1, WFMin
<1>4. \A m \in S : ~(m < n)
  BY <1>2, <1>3
<1> QED
  BY <1>3, <1>4

-----------------------------------------------------------------------------
\* The security runs of a range of events.

InScroll(r) == r \in Ranges /\ 1 <= r.lo /\ r.lo <= r.hi /\ r.hi <= Len(scroll)

\* What the batch loop relies on: the ranges of a plan lie in the Scroll, are of
\* one boundary each, do not overlap, and each but the first follows another.
WellPlanned(plan) ==
    /\ \A r \in plan : InScroll(r) /\ Uniform(r.lo, r.hi)
    /\ \A r, q \in plan : r # q => r.hi < q.lo \/ q.hi < r.lo
    /\ \A r \in plan : \/ \A q \in plan : r.lo <= q.lo
                       \/ \E q \in plan : q.hi + 1 = r.lo

First(plan, r) == r \in plan /\ \A q \in plan : r.lo <= q.lo

(* The range that starts where the cut starts is one of the runs.           *)
LEMMA FirstRun ==
    ASSUME scroll \in Seq(Boundaries), NEW lo \in Nat, NEW hi \in Nat,
           1 <= lo, lo <= hi, hi <= Len(scroll)
    PROVE  \E r \in Runs(lo, hi) : r.lo = lo
<1> DEFINE S == {n \in lo..hi : n = hi \/ scroll[n + 1] # scroll[n]}
<1>1. hi \in S /\ S \in SUBSET Nat
  OBVIOUS
<1>2. PICK n \in S : \A m \in S : n <= m
  <2> HIDE DEF S
  <2> QED
    BY <1>1, LeastNatural
<1>3. n \in Nat /\ lo <= n /\ n <= hi /\ (n = hi \/ scroll[n + 1] # scroll[n])
  BY <1>2
<1>4. Uniform(lo, n)
  <2> DEFINE B == {m \in lo..n : scroll[m] # scroll[lo]}
  <2>1. ASSUME B # {} PROVE FALSE
    <3>1. B \in SUBSET Nat
      BY <1>3
    <3>2. PICK m \in B : \A k \in B : m <= k
      <4> HIDE DEF B
      <4> QED
        BY <2>1, <3>1, LeastNatural
    <3>3. m \in Nat /\ lo <= m /\ m <= n /\ scroll[m] # scroll[lo]
      BY <1>3, <3>2
    <3>4. m # lo
      BY <3>3
    <3>5. m - 1 \in lo..n /\ m - 1 < m /\ m - 1 \in lo..hi /\ (m - 1) + 1 = m
      BY <1>3, <3>3, <3>4
    <3>6. scroll[m - 1] = scroll[lo]
      BY <3>2, <3>5
    <3>7. m - 1 \in S
      BY <3>3, <3>5, <3>6
    <3> QED
      BY <1>2, <1>3, <3>3, <3>5, <3>7
  <2> QED
    BY <2>1 DEF Uniform
<1>5. [lo |-> lo, hi |-> n] \in Runs(lo, hi)
  BY <1>3, <1>4 DEF Runs
<1> QED
  BY <1>5

(* A run that does not start where the cut starts follows another one.      *)
LEMMA RunBefore ==
    ASSUME scroll \in Seq(Boundaries), NEW lo \in Nat, NEW hi \in Nat,
           1 <= lo, lo <= hi, hi <= Len(scroll),
           NEW r \in Runs(lo, hi), r.lo # lo
    PROVE  \E q \in Runs(lo, hi) : q.hi + 1 = r.lo
<1> DEFINE e == r.lo - 1
           S == {n \in lo..e : Uniform(n, e)}
<1>1. /\ r.lo \in Nat /\ lo <= r.lo /\ r.lo <= hi
      /\ scroll[r.lo - 1] # scroll[r.lo]
  BY DEF Runs
<1>2. e \in Nat /\ lo <= e /\ e < hi /\ e + 1 = r.lo /\ scroll[e + 1] # scroll[e]
  BY <1>1
<1> HIDE DEF e
<1>3. e \in S /\ S \in SUBSET Nat
  BY <1>2 DEF Uniform
<1>4. PICK n \in S : \A m \in S : n <= m
  <2> HIDE DEF S
  <2> QED
    BY <1>3, LeastNatural
<1>5. n \in Nat /\ lo <= n /\ n <= e /\ Uniform(n, e)
  BY <1>2, <1>4
<1>6. n = lo \/ scroll[n - 1] # scroll[n]
  <2> SUFFICES ASSUME n # lo, scroll[n - 1] = scroll[n] PROVE FALSE
    OBVIOUS
  <2>1. n - 1 \in lo..e /\ n - 1 < n
    BY <1>2, <1>5
  <2>2. \A m \in (n - 1)..e : m = n - 1 \/ m \in n..e
    BY <1>2, <1>5
  <2>3. Uniform(n - 1, e)
    BY <1>5, <2>2 DEF Uniform
  <2>4. n - 1 \in S
    BY <2>1, <2>3
  <2> QED
    BY <1>4, <1>5, <2>1, <2>4
<1>7. [lo |-> n, hi |-> e] \in Runs(lo, hi)
  BY <1>2, <1>5, <1>6 DEF Runs
<1> QED
  BY <1>2, <1>7

(* _scroll_security_runs makes a plan the batch loop can rely on.           *)
LEMMA RunsArePlanned ==
    ASSUME scroll \in Seq(Boundaries), NEW lo \in Nat, NEW hi \in Nat,
           1 <= lo, lo <= hi, hi <= Len(scroll)
    PROVE  /\ Runs(lo, hi) \in SUBSET Ranges
           /\ WellPlanned(Runs(lo, hi))
           /\ \E r \in Runs(lo, hi) : First(Runs(lo, hi), r) /\ r.lo = lo
<1> DEFINE plan == Runs(lo, hi)
<1>1. \A r \in plan :
         /\ r = [lo |-> r.lo, hi |-> r.hi]
         /\ r.lo \in Nat /\ r.hi \in Nat /\ lo <= r.lo /\ r.lo <= r.hi /\ r.hi <= hi
         /\ Uniform(r.lo, r.hi)
         /\ r.lo = lo \/ scroll[r.lo - 1] # scroll[r.lo]
         /\ r.hi = hi \/ scroll[r.hi + 1] # scroll[r.hi]
  BY DEF Runs
<1>2. \A r \in plan : InScroll(r) /\ Uniform(r.lo, r.hi)
  <2> SUFFICES ASSUME NEW r \in plan PROVE InScroll(r) /\ Uniform(r.lo, r.hi)
    OBVIOUS
  <2>1. r.lo \in Nat /\ r.hi \in Nat /\ r = [lo |-> r.lo, hi |-> r.hi]
    BY <1>1
  <2>2. r \in Ranges
    BY <2>1 DEF Ranges
  <2>3. 1 <= r.lo /\ r.lo <= r.hi /\ r.hi <= Len(scroll)
    <3>1. Len(scroll) \in Nat
      OBVIOUS
    <3> QED
      BY <1>1, <3>1
  <2> QED
    BY <1>1, <2>2, <2>3 DEF InScroll
<1>3. ASSUME NEW r \in plan, NEW q \in plan, r.lo <= q.lo, q.lo <= r.hi PROVE r = q
  <2>0. /\ r.lo \in Nat /\ r.hi \in Nat /\ q.lo \in Nat /\ q.hi \in Nat
        /\ lo <= r.lo /\ r.lo <= r.hi /\ r.hi <= hi
        /\ lo <= q.lo /\ q.lo <= q.hi /\ q.hi <= hi
        /\ \A n \in r.lo..r.hi : scroll[n] = scroll[r.lo]
        /\ \A n \in q.lo..q.hi : scroll[n] = scroll[q.lo]
    BY <1>1 DEF Uniform
  <2>1. r.lo = q.lo
    <3> SUFFICES ASSUME r.lo < q.lo PROVE FALSE
      BY <1>3, <2>0
    <3>1. scroll[q.lo - 1] # scroll[q.lo]
      BY <1>1, <2>0
    <3>2. q.lo - 1 \in r.lo..r.hi /\ q.lo \in r.lo..r.hi
      BY <1>3, <2>0
    <3> QED
      BY <2>0, <3>1, <3>2
  <2>2. ~(r.hi < q.hi)
    <3> SUFFICES ASSUME r.hi < q.hi PROVE FALSE
      OBVIOUS
    <3>1. scroll[r.hi + 1] # scroll[r.hi]
      BY <1>1, <2>0
    <3>2. r.hi + 1 \in q.lo..q.hi /\ r.hi \in q.lo..q.hi
      BY <2>0, <2>1
    <3> QED
      BY <2>0, <3>1, <3>2
  <2>3. ~(q.hi < r.hi)
    <3> SUFFICES ASSUME q.hi < r.hi PROVE FALSE
      OBVIOUS
    <3>1. scroll[q.hi + 1] # scroll[q.hi]
      BY <1>1, <2>0
    <3>2. q.hi + 1 \in r.lo..r.hi /\ q.hi \in r.lo..r.hi
      BY <2>0, <2>1
    <3> QED
      BY <2>0, <3>1, <3>2
  <2>4. r.hi = q.hi
    BY <2>0, <2>2, <2>3
  <2> QED
    BY <1>1, <2>1, <2>4
<1>4. \A r, q \in plan : r # q => r.hi < q.lo \/ q.hi < r.lo
  <2> SUFFICES ASSUME NEW r \in plan, NEW q \in plan, ~(r.hi < q.lo), ~(q.hi < r.lo)
               PROVE  r = q
    OBVIOUS
  <2>1. r.lo \in Nat /\ r.hi \in Nat /\ q.lo \in Nat /\ q.hi \in Nat
    BY <1>1
  <2>2. CASE r.lo <= q.lo
    BY <1>3, <2>1, <2>2
  <2>3. CASE q.lo <= r.lo
    BY <1>3, <2>1, <2>3
  <2> QED
    BY <2>1, <2>2, <2>3
<1>5. PICK f \in plan : f.lo = lo
  BY FirstRun
<1>6. \A q \in plan : lo <= q.lo
  BY <1>1
<1>7. ASSUME NEW r \in plan, r.lo # lo PROVE \E q \in plan : q.hi + 1 = r.lo
  BY <1>7, RunBefore
<1>8. plan \in SUBSET Ranges
  BY <1>2 DEF InScroll
<1> HIDE DEF plan
<1>9. WellPlanned(plan)
  BY <1>2, <1>4, <1>6, <1>7 DEF WellPlanned
<1> QED
  BY <1>5, <1>6, <1>8, <1>9 DEF First, plan

-----------------------------------------------------------------------------
\* Shapes.

Notes == [pending : Rows \cup {NoRow}, running : Rows \cup {NoRow},
          owner : Workers \cup {NoOne, Gone}, lease : {"none", "live", "expired"},
          failed : BOOLEAN, merged : BOOLEAN]

Procs == [at : {"idle", "loop", "roll", "tail", "report", "finish"},
          plan : SUBSET Ranges, batches : 0..MaxBatches, forced : BOOLEAN, target : Nat]

LEMMA TypeParts ==
    TypeOK <=> /\ scroll \in Seq(Boundaries) /\ segments \subseteq Ranges
               /\ note \in Notes /\ proc \in [Processes -> Procs]
               /\ note.running = NoRow <=> note.lease = "none"
               /\ \A p \in Processes : NoteHeldBy(p) => proc[p].at # "idle"
  BY DEF TypeOK, Notes, Procs

\* A value of the notification is well formed.
NoteFits(n) == n \in Notes /\ (n.running = NoRow <=> n.lease = "none")

LEMMA NotifiedFits ==
    ASSUME NoteFits(note)
    PROVE  /\ NoteFits(Notified) /\ Notified.pending # NoRow
           /\ Notified.running = note.running /\ Notified.owner = note.owner
           /\ Notified.lease = note.lease /\ ~Notified.failed
           /\ \/ Notified.pending = FreshRow
              \/ Notified.pending = note.pending /\ Notified.merged = note.pending.reported
<1>1. FreshRow \in Rows /\ NoRow \notin Rows
  BY NoRowAssumption DEF FreshRow, Rows
<1>2. FreshRow # NoRow
  BY <1>1
<1>3. CASE note.pending = NoRow
  BY <1>1, <1>2, <1>3 DEF Notified, NoteFits, Notes
<1>4. CASE note.pending # NoRow
  <2>1. note.pending \in Rows
    BY <1>4 DEF NoteFits, Notes
  <2>2. note.pending.reported \in BOOLEAN
    BY <2>1 DEF Rows
  <2> QED
    BY <1>4, <2>2 DEF Notified, NoteFits, Notes
<1> QED
  BY <1>3, <1>4

LEMMA UnclaimedFits ==
    ASSUME NoteFits(note)
    PROVE  /\ NoteFits(Unclaimed) /\ Unclaimed.lease = "none" /\ Unclaimed.running = NoRow
           /\ Unclaimed.pending = note.pending /\ Unclaimed.owner = NoOne
           /\ Unclaimed.failed = note.failed /\ Unclaimed.merged = note.merged
  BY DEF Unclaimed, NoteFits, Notes

LEMMA ReturnedFits ==
    ASSUME NoteFits(note), note.running # NoRow, NEW retrying \in BOOLEAN
    PROVE  /\ NoteFits(Returned(retrying)) /\ Returned(retrying).lease = "none"
           /\ Returned(retrying).pending # NoRow
           /\ Returned(retrying).pending.reported =
                 IF note.pending = NoRow THEN note.running.reported ELSE note.pending.reported
           /\ Returned(retrying).failed = note.failed /\ Returned(retrying).merged = note.merged
<1> DEFINE row == IF note.pending = NoRow THEN [note.running EXCEPT !.retry = retrying]
                  ELSE [note.pending EXCEPT !.retry = note.pending.retry \/ retrying]
<1>1. row \in Rows /\ row.reported = IF note.pending = NoRow THEN note.running.reported
                                     ELSE note.pending.reported
  <2>1. CASE note.pending = NoRow
    <3>1. note.running \in Rows
      BY DEF NoteFits, Notes
    <3> QED
      BY <2>1, <3>1 DEF Rows
  <2>2. CASE note.pending # NoRow
    <3>1. note.pending \in Rows
      BY <2>2 DEF NoteFits, Notes
    <3>2. (note.pending.retry \/ retrying) \in BOOLEAN
      OBVIOUS
    <3> HIDE DEF NoteFits
    <3>3. [note.pending EXCEPT !.retry = note.pending.retry \/ retrying] \in Rows
      BY <3>1, <3>2 DEF Rows
    <3> QED
      BY <2>2, <3>1, <3>3 DEF Rows
  <2> QED
    BY <2>1, <2>2
<1>2. row # NoRow
  BY <1>1, NoRowAssumption
<1>3. Returned(retrying) = [Unclaimed EXCEPT !.pending = row]
  BY DEF Returned
<1> HIDE DEF row
<1>4. Unclaimed \in Notes /\ Unclaimed.lease = "none" /\ Unclaimed.running = NoRow
      /\ Unclaimed.failed = note.failed /\ Unclaimed.merged = note.merged
  BY UnclaimedFits DEF NoteFits
<1>5. /\ Returned(retrying) \in Notes /\ Returned(retrying).pending = row
      /\ Returned(retrying).lease = "none" /\ Returned(retrying).running = NoRow
      /\ Returned(retrying).failed = note.failed /\ Returned(retrying).merged = note.merged
  BY <1>1, <1>3, <1>4 DEF Notes
<1> QED
  BY <1>1, <1>2, <1>5 DEF NoteFits

LEMMA HeldByWorkers ==
    ASSUME NoteFits(note), NEW p \in Processes, NoteHeldBy(p)
    PROVE  p \in Workers /\ note.running \in Rows
  BY ScribeAssumption DEF NoteFits, Notes, NoteHeldBy, Processes

LEMMA IdleFits == Idle \in Procs
  BY ScribeAssumption DEF Idle, Procs

-----------------------------------------------------------------------------
\* The frontier and the segments behind it.

Top(segs) == CHOOSE n \in {0} \cup {s.hi : s \in segs} : \A s \in segs : s.hi <= n

LEMMA TopIs ==
    ASSUME NEW segs \in SUBSET Ranges, NEW n \in Nat, n \in {0} \cup {s.hi : s \in segs},
           \A s \in segs : s.hi <= n
    PROVE  Top(segs) = n
<1> DEFINE D == {0} \cup {s.hi : s \in segs}
<1>1. \A m \in D : m \in Nat /\ (m = 0 \/ \E s \in segs : m = s.hi)
  BY DEF Ranges
<1>2. \A m \in D : (\A s \in segs : s.hi <= m) => m = n
  <2> SUFFICES ASSUME NEW m \in D, \A s \in segs : s.hi <= m PROVE m = n
    OBVIOUS
  <2>1. n = 0 \/ \E s \in segs : n = s.hi
    OBVIOUS
  <2>2. m \in Nat /\ (m = 0 \/ \E s \in segs : m = s.hi)
    BY <1>1
  <2> HIDE DEF D
  <2>3. m <= n
    BY <2>2
  <2>4. n <= m
    BY <2>1, <2>2
  <2> QED
    BY <2>2, <2>3, <2>4
<1>3. Top(segs) = CHOOSE m \in D : \A s \in segs : s.hi <= m
  BY DEF Top
<1> HIDE DEF D
<1>4. n \in D
  BY DEF D
<1> QED
  BY <1>2, <1>3, <1>4

TileInv ==
    /\ Frontier \in Nat /\ Frontier <= Len(scroll)
    /\ Frontier \in {0} \cup {s.hi : s \in segments}
    /\ \A s \in segments : InScroll(s) /\ Uniform(s.lo, s.hi) /\ s.hi <= Frontier
    /\ \A n \in 1..Frontier : \E s \in segments : n \in s.lo..s.hi
    /\ \A s, t \in segments : s # t => s.hi < t.lo \/ t.hi < s.lo

(* A rolled range moves the frontier to its end and leaves no gap.          *)
LEMMA RollingTiles ==
    ASSUME TypeOK, TileInv, NEW r \in Ranges, Rollable(r),
           segments' = segments \cup {r}, scroll' = scroll
    PROVE  /\ TileInv' /\ Frontier' = r.hi /\ Frontier < Frontier'
           /\ segments' \subseteq Ranges
<1>1. /\ r.lo \in Nat /\ r.hi \in Nat /\ 1 <= r.lo /\ r.lo <= r.hi /\ r.hi <= Len(scroll)
      /\ r.lo = Frontier + 1 /\ Frontier \in Nat /\ Uniform(r.lo, r.hi)
  BY DEF Rollable, Ranges, TileInv
<1>2. segments \in SUBSET Ranges /\ segments' \in SUBSET Ranges
  BY DEF TypeOK
<1>3. \A s \in segments : s.lo \in Nat /\ s.hi \in Nat /\ s.hi <= Frontier /\ s.hi <= r.hi
                          /\ InScroll(s) /\ Uniform(s.lo, s.hi)
  BY <1>1, <1>2 DEF TileInv, Ranges
<1>4. Top(segments') = r.hi
  <2>1. r.hi \in {0} \cup {s.hi : s \in segments'} /\ \A s \in segments' : s.hi <= r.hi
    BY <1>1, <1>3
  <2> QED
    BY <1>1, <1>2, <2>1, TopIs
<1>5. Frontier' = r.hi
  BY <1>4 DEF Frontier, Top
<1>6. \A s \in segments' : InScroll(s)' /\ Uniform(s.lo, s.hi)' /\ s.hi <= r.hi
  <2> SUFFICES ASSUME NEW s \in segments' PROVE InScroll(s)' /\ Uniform(s.lo, s.hi)' /\ s.hi <= r.hi
    OBVIOUS
  <2>1. CASE s = r
    BY <1>1, <2>1 DEF InScroll, Uniform
  <2>2. CASE s \in segments
    BY <1>3, <2>2 DEF InScroll, Uniform
  <2> QED
    BY <2>1, <2>2
<1>7. \A n \in 1..r.hi : \E s \in segments' : n \in s.lo..s.hi
  <2> SUFFICES ASSUME NEW n \in 1..r.hi PROVE \E s \in segments' : n \in s.lo..s.hi
    OBVIOUS
  <2>1. CASE n <= Frontier
    <3>1. n \in 1..Frontier
      BY <1>1, <2>1
    <3>2. PICK s \in segments : n \in s.lo..s.hi
      BY <3>1 DEF TileInv
    <3> QED
      BY <3>2
  <2>2. CASE n > Frontier
    <3>1. n \in r.lo..r.hi /\ r \in segments'
      BY <1>1, <2>2
    <3> QED
      BY <3>1
  <2> QED
    BY <1>1, <2>1, <2>2
<1>8. \A s, t \in segments' : s # t => s.hi < t.lo \/ t.hi < s.lo
  <2> SUFFICES ASSUME NEW s \in segments', NEW t \in segments', s # t
               PROVE  s.hi < t.lo \/ t.hi < s.lo
    OBVIOUS
  <2>1. CASE s \in segments /\ t \in segments
    BY <2>1 DEF TileInv
  <2>2. CASE s = r /\ t \in segments
    BY <1>1, <1>3, <2>2
  <2>3. CASE s \in segments /\ t = r
    BY <1>1, <1>3, <2>3
  <2> QED
    BY <2>1, <2>2, <2>3
<1>9. r.hi \in {0} \cup {s.hi : s \in segments'}
  OBVIOUS
<1> QED
  BY <1>1, <1>2, <1>5, <1>6, <1>7, <1>8, <1>9 DEF TileInv

(* An appended event leaves what is before it alone.                        *)
LEMMA AppendingTiles ==
    ASSUME TypeOK, TileInv, NEW b \in Boundaries,
           scroll' = Append(scroll, b), segments' = segments
    PROVE  /\ TileInv' /\ Frontier' = Frontier /\ scroll' \in Seq(Boundaries)
           /\ Len(scroll') = Len(scroll) + 1
           /\ \A r : InScroll(r) /\ Uniform(r.lo, r.hi) => InScroll(r)' /\ Uniform(r.lo, r.hi)'
<1>1. /\ scroll \in Seq(Boundaries) /\ scroll' \in Seq(Boundaries)
      /\ Len(scroll) \in Nat /\ Len(scroll') = Len(scroll) + 1
      /\ \A n \in 1..Len(scroll) : scroll'[n] = scroll[n]
  BY DEF TypeOK
<1>2. Frontier' = Frontier
  BY DEF Frontier
<1>3. ASSUME NEW r, InScroll(r), Uniform(r.lo, r.hi) PROVE InScroll(r)' /\ Uniform(r.lo, r.hi)'
  <2>1. r.lo \in Nat /\ r.hi \in Nat /\ 1 <= r.lo /\ r.lo <= r.hi /\ r.hi <= Len(scroll) /\ r \in Ranges
    BY <1>3 DEF InScroll, Ranges
  <2>2. InScroll(r)'
    BY <1>1, <2>1 DEF InScroll
  <2>3. \A n \in r.lo..r.hi : n \in 1..Len(scroll)
    BY <1>1, <2>1
  <2>4. r.lo \in 1..Len(scroll)
    BY <1>1, <2>1
  <2>5. Uniform(r.lo, r.hi)'
    BY <1>1, <1>3, <2>3, <2>4 DEF Uniform
  <2> QED
    BY <2>2, <2>5
<1>4. TileInv'
  <2>1. Frontier \in Nat /\ Frontier <= Len(scroll')
    BY <1>1 DEF TileInv
  <2>2. \A s \in segments : InScroll(s)' /\ Uniform(s.lo, s.hi)' /\ s.hi <= Frontier
    BY <1>3 DEF TileInv
  <2> QED
    BY <1>2, <2>1, <2>2 DEF TileInv
<1> QED
  BY <1>1, <1>2, <1>3, <1>4

-----------------------------------------------------------------------------
\* The inductive invariant.

\* A plan is sound, and its first range starts no later than the next segment may.
PlanFits(p) ==
    proc[p].at = "roll" =>
        /\ WellPlanned(proc[p].plan)
        /\ \E r \in proc[p].plan : First(proc[p].plan, r) /\ r.lo <= Frontier + 1

PlanInv == \A p \in Processes : PlanFits(p)

\* Only unleased calls are forced.
ForcedInv == \A p \in Workers : ~proc[p].forced

Excused == note.failed \/ note.merged

\* A due backlog is announced; a row that will only be replayed announces
\* nothing, and a worker past its last look has left nothing unannounced.
AnnounceInv ==
    /\ BacklogIsAnnounced
    /\ Due /\ note.pending # NoRow => ~note.pending.reported \/ Excused
    /\ \A p \in Workers :
          NoteHeldBy(p) =>
             /\ proc[p].at = "finish" => note.running.reported
             /\ proc[p].at = "report" /\ Due => note.pending # NoRow \/ Excused

SInv == TypeOK /\ TileInv /\ PlanInv /\ ForcedInv /\ AnnounceInv

LEMMA SInitInv == Init => SInv
<1> SUFFICES ASSUME Init PROVE SInv
  OBVIOUS
<1>1. Frontier = 0 /\ Len(scroll) = 0
  <2>1. segments \in SUBSET Ranges /\ 0 \in {0} \cup {s.hi : s \in segments}
        /\ \A s \in segments : s.hi <= 0
    BY DEF Init
  <2>2. Top(segments) = 0
    BY <2>1, TopIs
  <2> QED
    BY <2>2 DEF Frontier, Top, Init
<1>2. TypeOK
  <2>1. note \in Notes /\ note.running = NoRow /\ note.lease = "none" /\ note.owner = NoOne
    BY DEF Init, Notes
  <2>2. proc \in [Processes -> Procs]
    BY IdleFits DEF Init
  <2>3. scroll \in Seq(Boundaries) /\ segments \subseteq Ranges
    BY DEF Init
  <2>4. \A p \in Processes : ~NoteHeldBy(p)
    BY <2>1 DEF NoteHeldBy
  <2> QED
    BY <2>1, <2>2, <2>3, <2>4, TypeParts
<1>3. TileInv
  BY <1>1 DEF TileInv, Init
<1>4. PlanInv /\ ForcedInv
  BY ScribeAssumption DEF PlanInv, PlanFits, ForcedInv, Init, Idle, Processes
<1>5. AnnounceInv
  <2>1. ~Due
    BY <1>1, ScribeAssumption DEF Due, Backlog
  <2>2. \A p \in Workers : ~NoteHeldBy(p)
    BY DEF Init, NoteHeldBy
  <2> QED
    BY <2>1, <2>2 DEF AnnounceInv, BacklogIsAnnounced
<1> QED
  BY <1>2, <1>3, <1>4, <1>5 DEF SInv

-----------------------------------------------------------------------------
\* What a step does to the Scroll and its segments.

(* The next range of a plan is one of its ranges, and none starts before.   *)
LEMMA NextRunIsFirst ==
    ASSUME TypeOK, PlanInv, NEW p \in Processes, proc[p].at = "roll"
    PROVE  /\ First(proc[p].plan, NextRun(p)) /\ InScroll(NextRun(p))
           /\ Uniform(NextRun(p).lo, NextRun(p).hi) /\ NextRun(p).lo <= Frontier + 1
<1> DEFINE plan == proc[p].plan
<1>1. PICK r \in plan : First(plan, r) /\ r.lo <= Frontier + 1
  BY DEF PlanInv, PlanFits
<1>2. WellPlanned(plan)
  BY DEF PlanInv, PlanFits
<1>3. NextRun(p) = CHOOSE q \in plan : \A t \in plan : q.lo <= t.lo
  BY DEF NextRun
<1> HIDE DEF plan
<1>4. NextRun(p) \in plan /\ \A t \in plan : NextRun(p).lo <= t.lo
  BY <1>1, <1>3 DEF First
<1>5. NextRun(p).lo = r.lo
  <2>1. NextRun(p).lo <= r.lo /\ r.lo <= NextRun(p).lo
    BY <1>1, <1>4 DEF First
  <2>2. NextRun(p).lo \in Nat /\ r.lo \in Nat
    BY <1>1, <1>2, <1>4 DEF WellPlanned, InScroll, Ranges
  <2> QED
    BY <2>1, <2>2
<1>6. First(plan, NextRun(p))
  BY <1>4 DEF First
<1>7. NextRun(p).lo <= Frontier + 1
  BY <1>1, <1>5
<1>8. InScroll(NextRun(p)) /\ Uniform(NextRun(p).lo, NextRun(p).hi)
  BY <1>2, <1>4 DEF WellPlanned
<1> QED
  BY <1>6, <1>7, <1>8 DEF plan

\* The Scroll and its segments stay, one segment is added, or one event is.
Rolls == \E r \in Ranges : Rollable(r) /\ segments' = segments \cup {r} /\ scroll' = scroll

Appends == /\ \E b \in Boundaries : scroll' = Append(scroll, b)
           /\ segments' = segments /\ proc' = proc /\ note' = Notified

LEMMA ScrollSteps ==
    ASSUME SInv, [Next]_vars
    PROVE  UNCHANGED <<scroll, segments>> \/ Rolls \/ Appends
<1>1. ASSUME NEW b \in Boundaries, AppendEvent(b) PROVE Appends
  BY <1>1 DEF AppendEvent, Appends
<1>2. ASSUME NEW r \in [lo : 1..Len(scroll), hi : 1..Len(scroll)], RollByHand(r) PROVE Rolls
  <2>1. r \in Ranges
    BY DEF Ranges
  <2> QED
    BY <1>2, <2>1 DEF RollByHand, Rolls
<1>3. ASSUME NEW p \in Processes, RollRun(p) PROVE Rolls
  <2>1. NextRun(p) \in Ranges
    BY <1>3, NextRunIsFirst DEF RollRun, SInv, InScroll
  <2> QED
    BY <1>3, <2>1 DEF RollRun, Rolls
<1>4. ASSUME NEW p \in Processes,
             Claim(p) \/ PlanBatch(p) \/ Overtaken(p) \/ Continue(p) \/ Report(p) \/ Settle(p)
             \/ Raise(p) \/ Crash(p) \/ \E forced \in BOOLEAN : Call(p, forced)
      PROVE  UNCHANGED <<scroll, segments>>
  BY <1>4 DEF Claim, PlanBatch, Overtaken, Continue, Report, Settle, Raise, Crash, Call
<1>5. LeaseExpires \/ Reclaim => UNCHANGED <<scroll, segments>>
  BY DEF LeaseExpires, Reclaim
<1>6. Callers \subseteq Processes
  BY DEF Processes
<1> QED
  BY <1>1, <1>2, <1>3, <1>4, <1>5, <1>6 DEF Next, Advance, vars

(* No step breaks the tiling, moves the frontier back, or disturbs a range  *)
(* of the Scroll; only an append makes a backlog due.                       *)
LEMMA ScrollGrows ==
    ASSUME SInv, [Next]_vars
    PROVE  /\ TileInv' /\ Frontier <= Frontier'
           /\ scroll' \in Seq(Boundaries) /\ segments' \subseteq Ranges
           /\ \A r : InScroll(r) /\ Uniform(r.lo, r.hi) => InScroll(r)' /\ Uniform(r.lo, r.hi)'
           /\ Appends \/ (Due' => Due)
<1>0. TypeOK /\ TileInv /\ Frontier \in Nat /\ Len(scroll) \in Nat
  BY DEF SInv, TileInv, TypeOK
<1>1. CASE UNCHANGED <<scroll, segments>>
  <2>1. Frontier' = Frontier
    BY <1>1 DEF Frontier
  <2>2. TileInv' /\ (Due' => Due)
    BY <1>0, <1>1, <2>1 DEF TileInv, InScroll, Uniform, Due, Backlog
  <2> QED
    BY <1>0, <1>1, <2>1, <2>2 DEF InScroll, Uniform, TypeOK
<1>2. CASE Rolls
  <2>1. PICK r \in Ranges : Rollable(r) /\ segments' = segments \cup {r} /\ scroll' = scroll
    BY <1>2 DEF Rolls
  <2>2. TileInv' /\ Frontier' = r.hi /\ Frontier < Frontier' /\ segments' \subseteq Ranges
    BY <1>0, <2>1, RollingTiles
  <2>3. Frontier' \in Nat
    BY <2>2 DEF TileInv
  <2>4. Due' => Due
    BY <1>0, <2>1, <2>2, <2>3, ScribeAssumption DEF Due, Backlog
  <2> QED
    BY <1>0, <2>1, <2>2, <2>3, <2>4 DEF InScroll, Uniform, TypeOK
<1>3. CASE Appends
  <2>1. PICK b \in Boundaries : scroll' = Append(scroll, b) /\ segments' = segments
    BY <1>3 DEF Appends
  <2>2. /\ TileInv' /\ Frontier' = Frontier /\ scroll' \in Seq(Boundaries)
        /\ \A r : InScroll(r) /\ Uniform(r.lo, r.hi) => InScroll(r)' /\ Uniform(r.lo, r.hi)'
    BY <1>0, <2>1, AppendingTiles
  <2> QED
    BY <1>0, <1>3, <2>1, <2>2 DEF TypeOK
<1> QED
  BY <1>1, <1>2, <1>3, ScrollSteps

-----------------------------------------------------------------------------
\* Shapes are kept.

\* What TypeOK and ForcedInv say of the notification and the processes.
Fits == /\ NoteFits(note) /\ proc \in [Processes -> Procs]
        /\ \A p \in Processes : NoteHeldBy(p) => proc[p].at # "idle"
        /\ \A p \in Workers : ~proc[p].forced

LEMMA SFits == SInv => Fits
  BY TypeParts DEF SInv, Fits, NoteFits, ForcedInv

(* A step of p that leaves the lease of the notification as it is keeps     *)
(* shapes when p goes on, or when it did not hold the lease.                *)
LEMMA StepFits ==
    ASSUME Fits, NEW p \in Processes, NEW run \in Procs,
           proc' = [proc EXCEPT ![p] = run], NoteFits(note'),
           p \in Workers => ~run.forced,
           \A q \in Processes \ {p} : NoteHeldBy(q)' => NoteHeldBy(q),
           NoteHeldBy(p)' => run.at # "idle"
    PROVE  Fits'
<1>1. proc \in [Processes -> Procs] /\ Workers \subseteq Processes
  BY DEF Fits, Processes
<1>2. proc' \in [Processes -> Procs]
  BY <1>1
<1>3. \A q \in Processes : proc'[q] = IF q = p THEN run ELSE proc[q]
  BY <1>1
<1>4. \A q \in Processes : NoteHeldBy(q)' => proc'[q].at # "idle"
  BY <1>3 DEF Fits
<1>5. \A q \in Workers : ~proc'[q].forced
  BY <1>1, <1>3 DEF Fits
<1> QED
  BY <1>2, <1>4, <1>5 DEF Fits

LEMMA PlanBatchFits == ASSUME SInv, NEW p \in Processes, PlanBatch(p) PROVE Fits'
<1> DEFINE run == proc[p]
           max == IF run.forced /\ run.target < Len(scroll) THEN run.target ELSE Len(scroll)
           last == IF run.forced \/ max < Frontier + Threshold THEN max ELSE Frontier + Threshold
           plan == Runs(Frontier + 1, last)
           next == [run EXCEPT !.at = "roll", !.plan = plan,
                               !.batches = IF run.forced THEN 0 ELSE run.batches + 1]
<1>0. Fits /\ note' = note
  BY SFits DEF PlanBatch
<1>1. run \in Procs /\ run.at = "loop" /\ run.forced \in BOOLEAN /\ run.batches \in 0..MaxBatches
  BY <1>0 DEF Fits, Procs, PlanBatch
<1>2. p \in Workers => ~run.forced
  BY <1>0 DEF Fits
<1>3. \/ /\ run.forced \/ run.batches # MaxBatches
         /\ ~(Backlog(max) <= 0)
         /\ proc' = [proc EXCEPT ![p] = next]
      \/ run.forced /\ proc' = [proc EXCEPT ![p] = Idle]
      \/ ~run.forced /\ proc' = [proc EXCEPT ![p] = [run EXCEPT !.at = "tail"]]
  BY <1>1 DEF PlanBatch
<1>4. NoteFits(note') /\ \A q \in Processes : NoteHeldBy(q)' => NoteHeldBy(q)
  BY <1>0 DEF Fits, NoteHeldBy
<1>5. CASE run.forced /\ proc' = [proc EXCEPT ![p] = Idle]
  <2>1. ~NoteHeldBy(p)
    BY <1>0, <1>2, <1>5, HeldByWorkers DEF Fits
  <2>2. Idle \in Procs /\ ~Idle.forced
    BY IdleFits DEF Idle
  <2> QED
    BY <1>0, <1>4, <1>5, <2>1, <2>2, StepFits
<1>6. CASE ~run.forced /\ proc' = [proc EXCEPT ![p] = [run EXCEPT !.at = "tail"]]
  <2> DEFINE there == [run EXCEPT !.at = "tail"]
  <2>1. there \in Procs /\ there.at = "tail" /\ there.forced = run.forced
    BY <1>1 DEF Procs
  <2> HIDE DEF there
  <2>2. proc' = [proc EXCEPT ![p] = there]
    BY <1>6 DEF there
  <2> QED
    BY <1>0, <1>2, <1>4, <2>1, <2>2, StepFits
<1>7. CASE /\ run.forced \/ run.batches # MaxBatches
           /\ ~(Backlog(max) <= 0)
           /\ proc' = [proc EXCEPT ![p] = next]
  <2>1. plan \in SUBSET Ranges
    <3>1. Frontier \in Nat
      BY DEF SInv, TileInv
    <3>2. \A n \in (Frontier + 1)..last : n \in Nat
      BY <3>1
    <3> QED
      BY <3>2 DEF Runs, Ranges
  <2>2. (IF run.forced THEN 0 ELSE run.batches + 1) \in 0..MaxBatches
    BY <1>1, <1>7, ScribeAssumption
  <2> HIDE DEF plan
  <2>3. next \in Procs /\ next.at = "roll" /\ next.forced = run.forced
    BY <1>1, <2>1, <2>2 DEF Procs
  <2> HIDE DEF next
  <2> QED
    BY <1>0, <1>2, <1>4, <1>7, <2>3, StepFits
<1> QED
  BY <1>3, <1>5, <1>6, <1>7

LEMMA RollRunFits ==
    ASSUME SInv, NEW p \in Processes, RollRun(p)
    PROVE  /\ Fits'
           /\ proc'[p].plan = proc[p].plan \ {NextRun(p)}
           /\ proc'[p].at = IF proc[p].plan = {NextRun(p)} THEN "loop" ELSE "roll"
           /\ \A q \in Processes \ {p} : proc'[q] = proc[q]
<1> DEFINE at == IF proc[p].plan = {NextRun(p)} THEN "loop" ELSE "roll"
           there == [proc[p] EXCEPT !.plan = proc[p].plan \ {NextRun(p)}, !.at = at]
<1>0. Fits /\ proc[p] \in Procs
  BY SFits DEF Fits
<1>1. proc' = [proc EXCEPT ![p] = there]
  BY <1>0 DEF RollRun, AfterRun, Fits
<1>2. there \in Procs /\ there.at = at /\ there.forced = proc[p].forced
      /\ there.plan = proc[p].plan \ {NextRun(p)}
  BY <1>0 DEF Procs
<1> HIDE DEF there
<1>3. NoteFits(note') /\ \A q \in Processes : NoteHeldBy(q)' => NoteHeldBy(q)
  <2>1. CASE p \notin Workers
    BY <1>0, <2>1 DEF RollRun, Fits, NoteHeldBy
  <2>2. CASE p \in Workers
    <3>1. NoteHeldBy(p) /\ note' = [note EXCEPT !.running.stepped = TRUE]
      BY <2>2 DEF RollRun, Fenced
    <3>2. note.running \in Rows /\ note \in Notes /\ note.lease = "live"
      BY <1>0, <3>1, HeldByWorkers DEF Fits, NoteFits, NoteHeldBy
    <3>3. [note.running EXCEPT !.stepped = TRUE] \in Rows
      BY <3>2 DEF Rows
    <3>4. note' = [note EXCEPT !.running = [note.running EXCEPT !.stepped = TRUE]]
      BY <3>1, <3>2 DEF Notes
    <3>5. note' \in Notes /\ note'.running # NoRow /\ note'.lease = note.lease /\ note'.owner = note.owner
      BY <3>2, <3>3, <3>4, NoRowAssumption DEF Notes
    <3> QED
      BY <3>1, <3>2, <3>5 DEF NoteFits, NoteHeldBy
  <2> QED
    BY <2>1, <2>2
<1>4. p \in Workers => ~proc[p].forced
  BY <1>0 DEF Fits
<1>5. Fits'
  BY <1>0, <1>1, <1>2, <1>3, <1>4, StepFits
<1> QED
  BY <1>0, <1>1, <1>2, <1>5 DEF Fits

LEMMA MoveFits ==
    ASSUME Fits, NEW p \in Processes, NEW at \in {"loop", "roll", "tail", "report", "finish"},
           proc' = [proc EXCEPT ![p].at = at], NoteFits(note'),
           \A q \in Processes : NoteHeldBy(q)' => NoteHeldBy(q)
    PROVE  /\ Fits' /\ proc'[p].at = at
           /\ \A q \in Processes \ {p} : proc'[q] = proc[q]
<1> DEFINE there == [proc[p] EXCEPT !.at = at]
<1>1. proc[p] \in Procs /\ proc' = [proc EXCEPT ![p] = there]
  BY DEF Fits
<1>2. there \in Procs /\ there.at = at /\ there.forced = proc[p].forced
  BY <1>1 DEF Procs
<1> HIDE DEF there
<1>3. p \in Workers => ~proc[p].forced
  BY DEF Fits
<1>4. Fits'
  BY <1>1, <1>2, <1>3, StepFits
<1> QED
  BY <1>1, <1>2, <1>4 DEF Fits

\* p is done; if it held the lease, the notification has been given up.
LEMMA IdleFitsToo ==
    ASSUME Fits, NEW p \in Processes, proc' = [proc EXCEPT ![p] = Idle], NoteFits(note'),
           \A q \in Processes : NoteHeldBy(q)' => NoteHeldBy(q) /\ q # p
    PROVE  /\ Fits' /\ proc'[p] = Idle
           /\ \A q \in Processes \ {p} : proc'[q] = proc[q]
<1>1. Idle \in Procs /\ ~Idle.forced
  BY IdleFits DEF Idle
<1>2. Fits'
  BY <1>1, StepFits
<1> QED
  BY <1>2 DEF Fits

-----------------------------------------------------------------------------
\* Steps.

(* The parts of the invariant together, after a step of p.                  *)
LEMMA Reassembled ==
    ASSUME SInv, [Next]_vars, Fits', AnnounceInv', NEW p,
           \A q \in Processes \ {p} : proc'[q] = proc[q],
           p \in Processes => proc'[p] = proc[p] \/ PlanFits(p)'
    PROVE  SInv'
<1>1. /\ TileInv' /\ Frontier <= Frontier' /\ Frontier \in Nat /\ Frontier' \in Nat
      /\ scroll' \in Seq(Boundaries) /\ segments' \subseteq Ranges
      /\ \A r : InScroll(r) /\ Uniform(r.lo, r.hi) => InScroll(r)' /\ Uniform(r.lo, r.hi)'
  BY ScrollGrows DEF SInv, TileInv
<1>2. TypeOK'
  <2>1. note' \in Notes /\ (note'.running = NoRow <=> note'.lease = "none")
        /\ proc' \in [Processes -> Procs]
        /\ \A q \in Processes : NoteHeldBy(q)' => proc'[q].at # "idle"
    BY DEF Fits, NoteFits
  <2> QED
    BY <1>1, <2>1 DEF TypeOK, Notes, Procs
<1>3. ForcedInv'
  BY DEF Fits, ForcedInv
<1>4. PlanInv'
  <2> SUFFICES ASSUME NEW q \in Processes, proc'[q] = proc[q] PROVE PlanFits(q)'
    BY DEF PlanInv
  <2> SUFFICES ASSUME proc[q].at = "roll" PROVE PlanFits(q)'
    BY DEF PlanFits
  <2> DEFINE plan == proc[q].plan
  <2>1. WellPlanned(plan) /\ \E r \in plan : First(plan, r) /\ r.lo <= Frontier + 1
    BY DEF SInv, PlanInv, PlanFits
  <2>2. proc'[q].plan = plan
    OBVIOUS
  <2> HIDE DEF plan
  <2>3. \A r \in plan : InScroll(r)' /\ Uniform(r.lo, r.hi)'
    BY <1>1, <2>1 DEF WellPlanned
  <2>4. /\ \A r, s \in plan : r # s => r.hi < s.lo \/ s.hi < r.lo
        /\ \A r \in plan : \/ \A s \in plan : r.lo <= s.lo
                           \/ \E s \in plan : s.hi + 1 = r.lo
    BY <2>1 DEF WellPlanned
  <2>5. PICK r \in plan : First(plan, r) /\ r.lo <= Frontier + 1
    BY <2>1
  <2>6. r.lo \in Nat
    BY <2>1, <2>5 DEF WellPlanned, InScroll, Ranges
  <2>7. r.lo <= Frontier' + 1
    BY <1>1, <2>5, <2>6
  <2> QED
    BY <2>2, <2>3, <2>4, <2>5, <2>7 DEF PlanFits, WellPlanned, First
<1> QED
  BY <1>1, <1>2, <1>3, <1>4 DEF SInv

(* Whoever holds the lease and moves on keeps announcements while the       *)
(* notification only remembers a step.                                      *)
LEMMA QuietAnnounces ==
    ASSUME SInv, Due' => Due, NEW p,
           \A q \in Processes \ {p} : proc'[q] = proc[q],
           note'.pending = note.pending, note'.failed = note.failed, note'.merged = note.merged,
           note'.running = NoRow <=> note.running = NoRow,
           note'.running.reported = note.running.reported,
           note'.owner = note.owner, note'.lease = note.lease,
           p \in Workers /\ NoteHeldBy(p) =>
              /\ proc'[p].at = "finish" => note.running.reported
              /\ proc'[p].at = "report" /\ Due' => note.pending # NoRow \/ Excused
    PROVE  AnnounceInv'
<1>1. AnnounceInv /\ Workers \subseteq Processes
  BY DEF SInv, Processes
<1>2. \A q \in Processes : NoteHeldBy(q)' <=> NoteHeldBy(q)
  BY DEF NoteHeldBy
<1>3. BacklogIsAnnounced'
  BY <1>1 DEF AnnounceInv, BacklogIsAnnounced
<1>4. (Due /\ note.pending # NoRow => ~note.pending.reported \/ Excused)'
  BY <1>1 DEF AnnounceInv, Excused
<1>5. ASSUME NEW q \in Workers, NoteHeldBy(q)'
      PROVE  /\ proc'[q].at = "finish" => note'.running.reported
             /\ proc'[q].at = "report" /\ Due' => note'.pending # NoRow \/ Excused'
  <2>1. NoteHeldBy(q)
    BY <1>1, <1>2, <1>5
  <2>2. Excused' <=> Excused
    BY DEF Excused
  <2>3. CASE q = p
    BY <2>1, <2>2, <2>3
  <2>4. CASE q # p
    BY <1>1, <2>1, <2>2, <2>4 DEF AnnounceInv
  <2> QED
    BY <2>3, <2>4
<1> QED
  BY <1>3, <1>4, <1>5 DEF AnnounceInv

\* A notice is left: nothing is unannounced.
LEMMA NotifiedAnnounces ==
    ASSUME SInv, note' = Notified, NEW p,
           \A q \in Processes \ {p} : proc'[q] = proc[q],
           p \in Workers /\ NoteHeldBy(p) /\ proc'[p].at = "finish" => note.running.reported
    PROVE  AnnounceInv'
<1>1. AnnounceInv /\ Workers \subseteq Processes /\ NoteFits(note)
  BY SFits DEF SInv, Processes, Fits
<1>2. /\ note'.pending # NoRow
      /\ note'.running = note.running /\ note'.owner = note.owner /\ note'.lease = note.lease
      /\ \/ note'.pending = FreshRow
         \/ note'.pending = note.pending /\ note'.merged = note.pending.reported
  BY <1>1, NotifiedFits
<1>3. BacklogIsAnnounced'
  BY <1>2 DEF BacklogIsAnnounced
<1>4. (Due /\ note.pending # NoRow => ~note.pending.reported \/ Excused)'
  BY <1>2 DEF Excused, FreshRow
<1>5. ASSUME NEW q \in Workers, NoteHeldBy(q)'
      PROVE  proc'[q].at = "finish" => note'.running.reported
  <2>1. NoteHeldBy(q)
    BY <1>2, <1>5 DEF NoteHeldBy
  <2>2. CASE q = p
    BY <1>2, <2>1, <2>2
  <2>3. CASE q # p
    BY <1>1, <1>2, <2>1, <2>3 DEF AnnounceInv
  <2> QED
    BY <2>2, <2>3
<1> QED
  BY <1>2, <1>3, <1>4, <1>5 DEF AnnounceInv

\* Without a holder nothing more is asked than of the rows.
LEMMA UnheldAnnounces ==
    ASSUME SInv, NEW retrying \in BOOLEAN, Due' => Due, note'.lease # "live",
           \/ note.running # NoRow /\ note' = Returned(retrying)
           \/ note.running # NoRow /\ note.running.reported /\ note' = Unclaimed
           \/ note' = [Unclaimed EXCEPT !.failed = TRUE]
           \/ note' = [note EXCEPT !.lease = "expired"]
    PROVE  AnnounceInv'
<1>1. AnnounceInv /\ NoteFits(note)
  BY SFits DEF SInv, Fits
<1>2. \A q \in Workers : ~NoteHeldBy(q)'
  BY DEF NoteHeldBy
<1>3. CASE note.running # NoRow /\ note' = Returned(retrying)
  <2>1. /\ note'.pending # NoRow
        /\ note'.pending.reported = IF note.pending = NoRow THEN note.running.reported
                                    ELSE note.pending.reported
        /\ note'.failed = note.failed /\ note'.merged = note.merged
    BY <1>1, <1>3, ReturnedFits
  <2>2. BacklogIsAnnounced'
    BY <2>1 DEF BacklogIsAnnounced
  <2>3. Due' => ~note'.pending.reported \/ Excused'
    BY <1>1, <1>3, <2>1 DEF AnnounceInv, BacklogIsAnnounced, Excused
  <2> QED
    BY <1>2, <2>2, <2>3 DEF AnnounceInv
<1>4. CASE note.running # NoRow /\ note.running.reported /\ note' = Unclaimed
  <2>1. note'.pending = note.pending /\ note'.failed = note.failed /\ note'.merged = note.merged
    BY <1>1, <1>4, UnclaimedFits
  <2>2. BacklogIsAnnounced'
    BY <1>1, <1>4, <2>1 DEF AnnounceInv, BacklogIsAnnounced
  <2>3. Due' /\ note'.pending # NoRow => ~note'.pending.reported \/ Excused'
    BY <1>1, <2>1 DEF AnnounceInv, Excused
  <2> QED
    BY <1>2, <2>2, <2>3 DEF AnnounceInv
<1>5. CASE note' = [Unclaimed EXCEPT !.failed = TRUE]
  <2>1. note'.failed
    <3>1. Unclaimed \in Notes
      BY <1>1, UnclaimedFits DEF NoteFits
    <3> QED
      BY <1>5, <3>1 DEF Notes
  <2> QED
    BY <1>2, <2>1 DEF AnnounceInv, BacklogIsAnnounced, Excused
<1>6. CASE note' = [note EXCEPT !.lease = "expired"]
  <2>1. note'.pending = note.pending /\ note'.failed = note.failed /\ note'.merged = note.merged
        /\ note'.running = note.running
    BY <1>1, <1>6 DEF NoteFits, Notes
  <2>2. BacklogIsAnnounced'
    BY <1>1, <2>1 DEF AnnounceInv, BacklogIsAnnounced
  <2>3. Due' /\ note'.pending # NoRow => ~note'.pending.reported \/ Excused'
    BY <1>1, <2>1 DEF AnnounceInv, Excused
  <2> QED
    BY <1>2, <2>2, <2>3 DEF AnnounceInv
<1> QED
  BY <1>3, <1>4, <1>5, <1>6

(* The batch loop plans ranges it can rely on.                              *)
LEMMA PlanBatchInv == ASSUME SInv, NEW p \in Processes, PlanBatch(p) PROVE SInv'
<1>0. Next /\ Fits' /\ note' = note
  BY PlanBatchFits DEF PlanBatch, Next, Advance
<1>1. proc \in [Processes -> Procs] /\ UNCHANGED <<scroll, segments>>
  BY SFits DEF PlanBatch, Fits
<1>2. \A q \in Processes \ {p} : proc'[q] = proc[q]
  BY <1>1 DEF PlanBatch
<1>3. Frontier' = Frontier /\ (Due' => Due)
  BY <1>1 DEF Frontier, Due, Backlog
<1>4. proc'[p].at \in {"idle", "tail", "roll"}
  BY <1>1 DEF PlanBatch, Idle, Procs
<1>5. AnnounceInv'
  BY <1>0, <1>2, <1>3, <1>4, QuietAnnounces
<1>6. PlanFits(p)'
  <2> SUFFICES ASSUME proc'[p].at = "roll" PROVE PlanFits(p)'
    BY DEF PlanFits
  <2> DEFINE run == proc[p]
             max == IF run.forced /\ run.target < Len(scroll) THEN run.target ELSE Len(scroll)
             last == IF run.forced \/ max < Frontier + Threshold THEN max ELSE Frontier + Threshold
             leaving == \/ ~run.forced /\ (run.batches = MaxBatches \/ Backlog(max) < Threshold)
                        \/ Backlog(max) <= 0
             lo == Frontier + 1
  <2>1. proc' = [proc EXCEPT ![p] =
                   IF ~leaving
                   THEN [run EXCEPT !.at = "roll", !.plan = Runs(lo, last),
                                    !.batches = IF run.forced THEN 0 ELSE run.batches + 1]
                   ELSE IF run.forced THEN Idle ELSE [run EXCEPT !.at = "tail"]]
    BY DEF PlanBatch
  <2>2. run \in Procs
    BY <1>1
  <2>3. ~leaving /\ proc'[p].plan = Runs(lo, last)
    <3> HIDE DEF leaving, last, lo
    <3>1. CASE ~leaving
      BY <1>1, <2>1, <2>2, <3>1 DEF Procs
    <3>2. CASE leaving
      BY <1>1, <2>1, <2>2, <3>2 DEF Procs, Idle
    <3> QED
      BY <3>1, <3>2
  <2>4. /\ scroll \in Seq(Boundaries) /\ Frontier \in Nat /\ Len(scroll) \in Nat
        /\ run.target \in Nat /\ run.forced \in BOOLEAN
    BY <2>2 DEF SInv, TypeOK, TileInv, Procs
  <2>5. lo \in Nat /\ last \in Nat /\ 1 <= lo /\ lo <= last /\ last <= Len(scroll)
    <3>1. max \in Nat /\ max <= Len(scroll) /\ ~(max - Frontier <= 0)
      BY <2>3, <2>4 DEF Backlog
    <3> HIDE DEF max
    <3>2. Threshold \in Nat \ {0}
      BY ScribeAssumption
    <3> QED
      BY <2>4, <3>1, <3>2
  <2> HIDE DEF last, lo
  <2>6. WellPlanned(Runs(lo, last))
        /\ \E r \in Runs(lo, last) : First(Runs(lo, last), r) /\ r.lo = lo
    BY <2>4, <2>5, RunsArePlanned
  <2> DEFINE plan == Runs(lo, last)
  <2>7. \A q \in plan : InScroll(q)' /\ Uniform(q.lo, q.hi)'
    <3>1. \A q \in plan : InScroll(q) /\ Uniform(q.lo, q.hi)
      BY <2>6 DEF WellPlanned
    <3> HIDE DEF plan
    <3> QED
      BY <1>1, <3>1 DEF InScroll, Uniform
  <2>8. /\ \A q, t \in plan : q # t => q.hi < t.lo \/ t.hi < q.lo
        /\ \A q \in plan : \/ \A t \in plan : q.lo <= t.lo
                           \/ \E t \in plan : t.hi + 1 = q.lo
    BY <2>6 DEF WellPlanned
  <2>9. PICK f \in plan : First(plan, f) /\ f.lo = lo
    BY <2>6
  <2>10. f.lo <= Frontier' + 1
    BY <1>3, <2>4, <2>9 DEF lo
  <2>11. proc'[p].plan = plan
    BY <2>3
  <2> HIDE DEF plan
  <2> QED
    BY <2>7, <2>8, <2>9, <2>10, <2>11 DEF PlanFits, WellPlanned, First
<1> QED
  BY <1>0, <1>2, <1>5, <1>6, Reassembled

(* After the first range has been rolled, the rest of the plan starts where *)
(* the frontier now is.                                                     *)
LEMMA RollRunInv == ASSUME SInv, NEW p \in Processes, RollRun(p) PROVE SInv'
<1> DEFINE r == NextRun(p)
           plan == proc[p].plan
           rest == plan \ {r}
<1>0. /\ Next /\ Fits' /\ Fits
      /\ proc'[p].plan = rest /\ proc'[p].at = IF plan = {r} THEN "loop" ELSE "roll"
      /\ \A q \in Processes \ {p} : proc'[q] = proc[q]
  BY SFits, RollRunFits DEF RollRun, Next, Advance
<1>1. /\ TypeOK /\ TileInv /\ proc[p].at = "roll" /\ Rollable(r)
      /\ segments' = segments \cup {r} /\ scroll' = scroll
      /\ WellPlanned(plan) /\ First(plan, r)
  BY NextRunIsFirst DEF RollRun, SInv, PlanInv, PlanFits
<1> HIDE DEF r, plan
<1>2. r \in Ranges /\ \A q \in plan : q.lo \in Nat /\ q.hi \in Nat /\ q.lo <= q.hi
  BY <1>1 DEF WellPlanned, InScroll, First, Ranges
<1>3. Frontier' = r.hi /\ (Due' => Due)
  <2>1. Frontier' = r.hi
    BY <1>1, <1>2, RollingTiles
  <2>2. Appends \/ (Due' => Due)
    BY <1>0, ScrollGrows
  <2>3. ~Appends
    <3>1. proc'[p].plan # proc[p].plan
      BY <1>0, <1>1 DEF First, plan
    <3> QED
      BY <3>1 DEF Appends
  <2> QED
    BY <2>1, <2>2, <2>3
<1>4. AnnounceInv'
  <2>1. CASE p \notin Workers
    <3>1. note' = note
      BY <2>1 DEF RollRun
    <3> QED
      BY <1>0, <1>3, <2>1, <3>1, QuietAnnounces
  <2>2. CASE p \in Workers
    <3>1. NoteHeldBy(p) /\ note' = [note EXCEPT !.running.stepped = TRUE]
      BY <2>2 DEF RollRun, Fenced
    <3>2. note.running \in Rows /\ note \in Notes
      BY <1>0, <3>1, HeldByWorkers DEF Fits, NoteFits
    <3>3. note' = [note EXCEPT !.running = [note.running EXCEPT !.stepped = TRUE]]
      BY <3>1, <3>2 DEF Notes
    <3>4. [note.running EXCEPT !.stepped = TRUE] \in Rows
          /\ [note.running EXCEPT !.stepped = TRUE].reported = note.running.reported
      BY <3>2 DEF Rows
    <3>5. /\ note'.pending = note.pending /\ note'.failed = note.failed /\ note'.merged = note.merged
          /\ note'.owner = note.owner /\ note'.lease = note.lease
          /\ note'.running = [note.running EXCEPT !.stepped = TRUE]
      BY <3>2, <3>3 DEF Notes
    <3>6. note'.running # NoRow /\ note.running # NoRow
          /\ note'.running.reported = note.running.reported
      BY <3>2, <3>4, <3>5, NoRowAssumption
    <3>7. proc'[p].at # "finish" /\ proc'[p].at # "report"
      BY <1>0
    <3> QED
      BY <1>0, <1>3, <3>5, <3>6, <3>7, QuietAnnounces
  <2> QED
    BY <2>1, <2>2
<1>5. PlanFits(p)'
  <2> SUFFICES ASSUME proc'[p].at = "roll" PROVE PlanFits(p)'
    BY DEF PlanFits
  <2>1. rest # {} /\ rest \subseteq plan
    BY <1>0, <1>1 DEF First
  <2>2. \A q \in rest : q.lo > r.hi
    BY <1>1, <1>2 DEF WellPlanned, First
  <2>3. ASSUME NEW q \in rest
        PROVE  q.lo = r.hi + 1 \/ \E t \in rest : t.hi + 1 = q.lo
    <3>1. \E t \in plan : t.hi + 1 = q.lo
      BY <1>1, <1>2, <2>2, <2>3 DEF WellPlanned, First
    <3> QED
      BY <3>1
  <2>4. \E f \in rest : First(rest, f) /\ f.lo = r.hi + 1
    <3> DEFINE S == {q.lo : q \in rest}
    <3>1. S \in SUBSET Nat /\ S # {}
      BY <1>2, <2>1
    <3>2. PICK n \in S : \A m \in S : n <= m
      <4> HIDE DEF S
      <4> QED
        BY <3>1, LeastNatural
    <3>3. PICK f \in rest : n = f.lo
      BY <3>2
    <3>4. First(rest, f)
      BY <3>2, <3>3 DEF First
    <3>5. ASSUME NEW t \in rest, t.hi + 1 = f.lo PROVE FALSE
      BY <1>2, <2>1, <3>4, <3>5 DEF First
    <3> QED
      BY <2>3, <3>4, <3>5
  <2>5. PICK f \in rest : First(rest, f) /\ f.lo = r.hi + 1
    BY <2>4
  <2>6. ASSUME NEW q \in rest
        PROVE  (\A t \in rest : q.lo <= t.lo) \/ \E t \in rest : t.hi + 1 = q.lo
    BY <2>3, <2>5 DEF First
  <2>7. \A q \in rest : InScroll(q)' /\ Uniform(q.lo, q.hi)'
    BY <1>1, <2>1 DEF WellPlanned, InScroll, Uniform
  <2>8. \A q, t \in rest : q # t => q.hi < t.lo \/ t.hi < q.lo
    BY <1>1, <2>1 DEF WellPlanned
  <2>9. f.lo <= Frontier' + 1
    BY <1>2, <1>3, <2>1, <2>5
  <2> HIDE DEF rest
  <2> QED
    BY <1>0, <2>5, <2>6, <2>7, <2>8, <2>9 DEF PlanFits, WellPlanned, First
<1> QED
  BY <1>0, <1>4, <1>5, Reassembled

\* A step that leaves the processes alone and no plan behind.
LEMMA OthersInv ==
    ASSUME SInv, [Next]_vars, NoteFits(note'), AnnounceInv', proc' = proc,
           \A q \in Processes : NoteHeldBy(q)' => NoteHeldBy(q)
    PROVE  SInv'
<1>1. Fits'
  BY SFits DEF Fits
<1> QED
  BY <1>1, Reassembled

LEMMA AppendEventInv == ASSUME SInv, NEW b \in Boundaries, AppendEvent(b) PROVE SInv'
<1>1. Next /\ note' = Notified /\ proc' = proc
  BY DEF Next, AppendEvent
<1>2. NoteFits(note') /\ note'.lease = note.lease /\ note'.owner = note.owner /\ note'.running = note.running
  BY <1>1, SFits, NotifiedFits DEF Fits
<1>3. \A q \in Processes : NoteHeldBy(q)' => NoteHeldBy(q)
  BY <1>2 DEF NoteHeldBy
<1>4. AnnounceInv'
  <2>1. \A q \in Workers : NoteHeldBy(q) /\ proc[q].at = "finish" => note.running.reported
    BY DEF SInv, AnnounceInv
  <2> QED
    BY <1>1, <2>1, NotifiedAnnounces
<1> QED
  BY <1>1, <1>2, <1>3, <1>4, OthersInv

LEMMA RollByHandInv ==
    ASSUME SInv, NEW r \in [lo : 1..Len(scroll), hi : 1..Len(scroll)], RollByHand(r) PROVE SInv'
<1>1. Next /\ note' = note /\ proc' = proc /\ scroll' = scroll
  BY DEF Next, RollByHand
<1>2. Due' => Due
  <2>1. ~Appends
    <3>1. Len(scroll) \in Nat
      BY DEF SInv, TypeOK
    <3>2. \A b \in Boundaries : Len(Append(scroll, b)) = Len(scroll) + 1
      BY DEF SInv, TypeOK
    <3> QED
      BY <1>1, <3>1, <3>2 DEF Appends
  <2> QED
    BY <1>1, <2>1, ScrollGrows
<1>3. AnnounceInv'
  <2>1. NoOne \notin Workers /\ \A q \in Processes \ {NoOne} : proc'[q] = proc[q]
    BY <1>1, ScribeAssumption
  <2> QED
    BY <1>1, <1>2, <2>1, QuietAnnounces
<1> QED
  BY <1>1, <1>3, SFits, OthersInv DEF Fits, NoteHeldBy

LEMMA LeaseExpiresInv == ASSUME SInv, LeaseExpires PROVE SInv'
<1>1. /\ Next /\ note' = [note EXCEPT !.lease = "expired"] /\ proc' = proc
      /\ note.lease = "live" /\ UNCHANGED <<scroll, segments>> /\ NoteFits(note)
  BY SFits DEF Next, LeaseExpires, Fits
<1>2. NoteFits(note') /\ note'.lease # "live"
  BY <1>1 DEF NoteFits, Notes
<1>3. Due' => Due
  BY <1>1 DEF Due, Backlog, Frontier
<1>4. AnnounceInv'
  BY <1>1, <1>2, <1>3, UnheldAnnounces
<1> QED
  BY <1>1, <1>2, <1>4, OthersInv DEF NoteHeldBy

LEMMA ReclaimInv == ASSUME SInv, Reclaim PROVE SInv'
<1>1. /\ Next /\ note' = Returned(note.running.retry) /\ proc' = proc
      /\ note.lease = "expired" /\ UNCHANGED <<scroll, segments>> /\ NoteFits(note)
  BY SFits DEF Next, Reclaim, Fits
<1>2. note.running # NoRow /\ note.running.retry \in BOOLEAN
  <2>1. note.running # NoRow
    BY <1>1 DEF NoteFits
  <2>2. note.running \in Rows
    BY <1>1, <2>1 DEF NoteFits, Notes
  <2> QED
    BY <2>1, <2>2 DEF Rows
<1>3. NoteFits(note') /\ note'.lease = "none"
  BY <1>1, <1>2, ReturnedFits
<1>4. Due' => Due
  BY <1>1 DEF Due, Backlog, Frontier
<1>5. AnnounceInv'
  BY <1>1, <1>2, <1>3, <1>4, UnheldAnnounces
<1> QED
  BY <1>1, <1>3, <1>5, OthersInv DEF NoteHeldBy

\* The end of what p does: its plan is gone.
LEMMA EndInv ==
    ASSUME SInv, Next, NEW p \in Processes, proc' = [proc EXCEPT ![p] = Idle],
           UNCHANGED <<scroll, segments>>,
           \/ note' = note /\ ~NoteHeldBy(p)
           \/ NoteHeldBy(p) /\ note' = Returned(TRUE)
           \/ NoteHeldBy(p) /\ note' = [Unclaimed EXCEPT !.failed = TRUE]
           \/ NoteHeldBy(p) /\ note.running.reported /\ note' = Unclaimed
    PROVE  SInv'
<1>0. Fits /\ NoteFits(note)
  BY SFits DEF Fits
<1>1. Due' => Due
  BY DEF Due, Backlog, Frontier
<1>2. CASE note' = note /\ ~NoteHeldBy(p)
  <2>1. \A q \in Processes : NoteHeldBy(q)' => NoteHeldBy(q) /\ q # p
    BY <1>2 DEF NoteHeldBy
  <2>2. /\ Fits' /\ proc'[p] = Idle /\ \A q \in Processes \ {p} : proc'[q] = proc[q]
    BY <1>0, <1>2, <2>1, IdleFitsToo
  <2>3. AnnounceInv'
    BY <1>1, <1>2, <2>2, QuietAnnounces
  <2> QED
    BY <2>2, <2>3, Reassembled DEF PlanFits, Idle
<1>3. CASE NoteHeldBy(p) /\ note' # note
  <2>1. note.running # NoRow
    BY <1>3 DEF NoteHeldBy
  <2>2. NoteFits(note') /\ note'.lease = "none"
    <3>1. NoteFits(Returned(TRUE)) /\ Returned(TRUE).lease = "none"
      BY <1>0, <2>1, ReturnedFits
    <3>2. NoteFits(Unclaimed) /\ Unclaimed.lease = "none"
      BY <1>0, UnclaimedFits
    <3>3. NoteFits([Unclaimed EXCEPT !.failed = TRUE]) /\ [Unclaimed EXCEPT !.failed = TRUE].lease = "none"
      BY <3>2 DEF NoteFits, Notes
    <3> QED
      BY <1>3, <3>1, <3>2, <3>3
  <2>3. \A q \in Processes : ~NoteHeldBy(q)'
    BY <2>2 DEF NoteHeldBy
  <2>4. /\ Fits' /\ proc'[p] = Idle /\ \A q \in Processes \ {p} : proc'[q] = proc[q]
    BY <1>0, <2>2, <2>3, IdleFitsToo
  <2>5. AnnounceInv'
    BY <1>1, <1>3, <2>1, <2>2, UnheldAnnounces
  <2> QED
    BY <2>4, <2>5, Reassembled DEF PlanFits, Idle
<1>4. note' = note => ~NoteHeldBy(p)
  <2> SUFFICES ASSUME note' = note, NoteHeldBy(p) PROVE FALSE
    OBVIOUS
  <2>1. note.running # NoRow /\ note.lease = "live"
    BY DEF NoteHeldBy
  <2>2. Returned(TRUE).lease = "none" /\ Unclaimed.lease = "none"
    BY <1>0, <2>1, ReturnedFits, UnclaimedFits
  <2>3. [Unclaimed EXCEPT !.failed = TRUE].lease = "none"
    BY <1>0, <2>2, UnclaimedFits DEF NoteFits, Notes
  <2> QED
    BY <2>1, <2>2, <2>3
<1> QED
  BY <1>2, <1>3, <1>4

LEMMA SettleInv == ASSUME SInv, NEW p \in Processes, Settle(p) PROVE SInv'
<1>1. Next
  BY DEF Next, Advance
<1>2. NoteHeldBy(p) => p \in Workers
  BY SFits, HeldByWorkers DEF Fits
<1>3. NoteHeldBy(p) /\ proc[p].at = "finish" => note.running.reported
  BY <1>2 DEF SInv, AnnounceInv
<1> QED
  BY <1>1, <1>3, EndInv DEF Settle

LEMMA RaiseInv == ASSUME SInv, NEW p \in Processes, Raise(p) PROVE SInv'
<1>1. Next
  BY DEF Next, Advance
<1> QED
  BY <1>1, EndInv DEF Raise

LEMMA CrashInv == ASSUME SInv, NEW p \in Processes, Crash(p) PROVE SInv'
<1>0. Next /\ Fits /\ NoteFits(note) /\ UNCHANGED <<scroll, segments>>
  BY SFits DEF Next, Crash, Fits
<1>1. proc' = [proc EXCEPT ![p] = Idle]
  BY DEF Crash
<1>2. CASE note.owner # p
  BY <1>0, <1>1, <1>2, EndInv DEF Crash, NoteHeldBy
<1>3. CASE note.owner = p
  <2>1. note' = [note EXCEPT !.owner = Gone] /\ Gone \notin Processes
    BY <1>3, ScribeAssumption DEF Crash, Processes
  <2>2. /\ NoteFits(note') /\ note'.owner = Gone
        /\ note'.pending = note.pending /\ note'.failed = note.failed /\ note'.merged = note.merged
        /\ note'.running = note.running
    BY <1>0, <2>1 DEF NoteFits, Notes
  <2>3. \A q \in Processes : ~NoteHeldBy(q)'
    BY <2>1, <2>2 DEF NoteHeldBy
  <2>4. /\ Fits' /\ proc'[p] = Idle /\ \A q \in Processes \ {p} : proc'[q] = proc[q]
    BY <1>0, <1>1, <2>2, <2>3, IdleFitsToo
  <2>5. AnnounceInv'
    <3>1. Due' => Due
      BY <1>0 DEF Due, Backlog, Frontier
    <3>2. AnnounceInv /\ Workers \subseteq Processes
      BY DEF SInv, Processes
    <3>3. BacklogIsAnnounced'
      BY <2>2, <3>1, <3>2 DEF AnnounceInv, BacklogIsAnnounced
    <3>4. (Due /\ note.pending # NoRow => ~note.pending.reported \/ Excused)'
      BY <2>2, <3>1, <3>2 DEF AnnounceInv, Excused
    <3> QED
      BY <2>3, <3>2, <3>3, <3>4 DEF AnnounceInv
  <2> QED
    BY <1>0, <2>4, <2>5, Reassembled DEF PlanFits, Idle
<1> QED
  BY <1>2, <1>3

LEMMA ClaimInv == ASSUME SInv, NEW p \in Processes, Claim(p) PROVE SInv'
<1> DEFINE there == [Idle EXCEPT !.at = IF note.pending.reported THEN "finish" ELSE "loop"]
<1>0. Next /\ Fits /\ NoteFits(note) /\ UNCHANGED <<scroll, segments>> /\ p \in Workers
  BY SFits DEF Next, Claim, Fits
<1>1. /\ note.pending \in Rows /\ note.running = NoRow /\ note.pending # NoRow
      /\ note' = [note EXCEPT !.pending = NoRow, !.running = note.pending,
                              !.owner = p, !.lease = "live"]
      /\ proc' = [proc EXCEPT ![p] = there]
  BY <1>0 DEF Claim, NoteFits, Notes
<1>2. /\ there \in Procs /\ ~there.forced
      /\ there.at = IF note.pending.reported THEN "finish" ELSE "loop"
  BY IdleFits DEF Idle, Procs
<1> HIDE DEF there
<1>3. /\ NoteFits(note') /\ note'.pending = NoRow /\ note'.running = note.pending
      /\ note'.owner = p /\ note'.failed = note.failed /\ note'.merged = note.merged
  BY <1>0, <1>1 DEF NoteFits, Notes
<1>4. \A q \in Processes \ {p} : ~NoteHeldBy(q)'
  BY <1>3 DEF NoteHeldBy
<1>5. Fits'
  BY <1>0, <1>1, <1>2, <1>3, <1>4, StepFits
<1>6. proc'[p] = there /\ \A q \in Processes \ {p} : proc'[q] = proc[q]
  BY <1>0, <1>1 DEF Fits
<1>7. AnnounceInv'
  <2>1. Due' => Due
    BY <1>0 DEF Due, Backlog, Frontier
  <2>2. AnnounceInv /\ Workers \subseteq Processes
    BY DEF SInv, Processes
  <2>3. BacklogIsAnnounced'
    BY <1>1, <1>3, <2>1, <2>2 DEF AnnounceInv, BacklogIsAnnounced, Excused
  <2>4. \A q \in Workers : NoteHeldBy(q)' =>
           /\ proc'[q].at = "finish" => note'.running.reported
           /\ proc'[q].at # "report"
    BY <1>2, <1>3, <1>4, <1>6, <2>2
  <2> QED
    BY <1>3, <2>3, <2>4 DEF AnnounceInv
<1>8. proc'[p].at # "roll"
  BY <1>2, <1>6
<1> QED
  BY <1>0, <1>5, <1>6, <1>7, <1>8, Reassembled DEF PlanFits

LEMMA CallInv == ASSUME SInv, NEW p \in Callers, NEW forced \in BOOLEAN, Call(p, forced) PROVE SInv'
<1> DEFINE there == [Idle EXCEPT !.at = "loop", !.forced = forced,
                                 !.target = IF forced THEN Len(scroll) ELSE 0]
<1>0. /\ Next /\ Fits /\ p \in Processes /\ p \notin Workers /\ NoteFits(note)
      /\ UNCHANGED <<scroll, segments, note>>
  BY SFits, ScribeAssumption DEF Next, Call, Fits, Processes
<1>1. proc' = [proc EXCEPT ![p] = there]
  BY DEF Call
<1>2. there \in Procs /\ there.at = "loop"
  <2>1. (IF forced THEN Len(scroll) ELSE 0) \in Nat
    BY DEF SInv, TypeOK
  <2> QED
    BY <2>1, IdleFits DEF Idle, Procs
<1> HIDE DEF there
<1>3. NoteFits(note') /\ \A q \in Processes : NoteHeldBy(q)' => NoteHeldBy(q)
  BY <1>0 DEF NoteHeldBy
<1>4. Fits'
  BY <1>0, <1>1, <1>2, <1>3, StepFits
<1>5. proc'[p] = there /\ \A q \in Processes \ {p} : proc'[q] = proc[q]
  BY <1>0, <1>1 DEF Fits
<1>6. AnnounceInv'
  <2>1. Due' => Due
    BY <1>0 DEF Due, Backlog, Frontier
  <2> QED
    BY <1>0, <1>5, <2>1, QuietAnnounces
<1>7. proc'[p].at # "roll"
  BY <1>2, <1>5
<1> QED
  BY <1>0, <1>4, <1>5, <1>6, <1>7, Reassembled DEF PlanFits

LEMMA OvertakenInv == ASSUME SInv, NEW p \in Processes, Overtaken(p) PROVE SInv'
<1> DEFINE there == [proc[p] EXCEPT !.at = "loop", !.plan = {}]
<1>0. /\ Next /\ Fits /\ NoteFits(note) /\ proc[p] \in Procs
      /\ UNCHANGED <<scroll, segments, note>>
  BY SFits DEF Next, Advance, Overtaken, Fits
<1>1. proc' = [proc EXCEPT ![p] = there]
  BY <1>0 DEF Overtaken, Fits
<1>2. there \in Procs /\ there.at = "loop" /\ there.forced = proc[p].forced
  BY <1>0 DEF Procs
<1> HIDE DEF there
<1>3. NoteFits(note') /\ \A q \in Processes : NoteHeldBy(q)' => NoteHeldBy(q)
  BY <1>0 DEF NoteHeldBy
<1>4. Fits'
  <2>1. p \in Workers => ~there.forced
    BY <1>0, <1>2 DEF Fits
  <2> QED
    BY <1>0, <1>1, <1>2, <1>3, <2>1, StepFits
<1>5. proc'[p] = there /\ \A q \in Processes \ {p} : proc'[q] = proc[q]
  BY <1>0, <1>1 DEF Fits
<1>6. AnnounceInv'
  <2>1. Due' => Due
    BY <1>0 DEF Due, Backlog, Frontier
  <2> QED
    BY <1>0, <1>2, <1>5, <2>1, QuietAnnounces
<1>7. proc'[p].at # "roll"
  BY <1>2, <1>5
<1> QED
  BY <1>0, <1>4, <1>5, <1>6, <1>7, Reassembled DEF PlanFits

LEMMA ContinueInv == ASSUME SInv, NEW p \in Processes, Continue(p) PROVE SInv'
<1>0. /\ Next /\ Fits /\ NoteFits(note) /\ UNCHANGED <<scroll, segments>>
      /\ note' = IF Due THEN Notified ELSE note
      /\ IF p \in Workers THEN GoTo(p, "report") ELSE proc' = [proc EXCEPT ![p] = Idle]
  BY SFits DEF Next, Advance, Continue, Fits
<1>1. /\ NoteFits(note') /\ note'.running = note.running /\ note'.owner = note.owner
      /\ note'.lease = note.lease
  BY <1>0, NotifiedFits
<1>2. \A q \in Processes : NoteHeldBy(q)' => NoteHeldBy(q)
  BY <1>1 DEF NoteHeldBy
<1>3. /\ Fits' /\ \A q \in Processes \ {p} : proc'[q] = proc[q]
      /\ proc'[p].at = IF p \in Workers THEN "report" ELSE "idle"
  <2>1. CASE p \in Workers
    BY <1>0, <1>1, <1>2, <2>1, MoveFits DEF GoTo
  <2>2. CASE p \notin Workers
    <3>1. \A q \in Processes : NoteHeldBy(q)' => NoteHeldBy(q) /\ q # p
      BY <1>0, <1>2, <2>2, HeldByWorkers
    <3>2. proc' = [proc EXCEPT ![p] = Idle]
      BY <1>0, <2>2
    <3>3. /\ Fits' /\ proc'[p] = Idle /\ \A q \in Processes \ {p} : proc'[q] = proc[q]
      BY <1>0, <1>1, <3>1, <3>2, IdleFitsToo
    <3> QED
      BY <2>2, <3>3 DEF Idle
  <2> QED
    BY <2>1, <2>2
<1>4. Due' <=> Due
  BY <1>0 DEF Due, Backlog, Frontier
<1>5. AnnounceInv'
  <2>1. CASE Due
    BY <1>0, <1>3, <2>1, NotifiedAnnounces
  <2>2. CASE ~Due
    BY <1>0, <1>3, <1>4, <2>2, QuietAnnounces
  <2> QED
    BY <2>1, <2>2
<1> QED
  BY <1>0, <1>3, <1>5, Reassembled DEF PlanFits

LEMMA ReportInv == ASSUME SInv, NEW p \in Processes, Report(p) PROVE SInv'
<1>0. /\ Next /\ Fits /\ NoteFits(note) /\ UNCHANGED <<scroll, segments>>
      /\ NoteHeldBy(p) /\ proc[p].at = "report"
  BY SFits DEF Next, Advance, Report, Fits
<1>1. p \in Workers /\ note.running \in Rows /\ note \in Notes
  BY <1>0, HeldByWorkers DEF NoteFits
<1>2. note' = [note EXCEPT !.running = [note.running EXCEPT !.reported = TRUE]]
  BY <1>1 DEF Report, Notes
<1>3. [note.running EXCEPT !.reported = TRUE] \in Rows
      /\ [note.running EXCEPT !.reported = TRUE].reported
  BY <1>1 DEF Rows
<1>4. /\ NoteFits(note') /\ note'.pending = note.pending /\ note'.owner = note.owner
      /\ note'.lease = note.lease /\ note'.failed = note.failed /\ note'.merged = note.merged
      /\ note'.running.reported
  <2>1. note' \in Notes /\ note'.running = [note.running EXCEPT !.reported = TRUE]
        /\ note'.pending = note.pending /\ note'.owner = note.owner
        /\ note'.lease = note.lease /\ note'.failed = note.failed /\ note'.merged = note.merged
    BY <1>1, <1>2, <1>3 DEF Notes
  <2>2. note'.running # NoRow /\ note.lease = "live"
    BY <1>0, <1>3, <2>1, NoRowAssumption DEF NoteHeldBy
  <2> QED
    BY <1>3, <2>1, <2>2 DEF NoteFits
<1>5. \A q \in Processes : NoteHeldBy(q)' => NoteHeldBy(q)
  BY <1>0, <1>4 DEF NoteHeldBy
<1>6. /\ Fits' /\ proc'[p].at = "finish" /\ \A q \in Processes \ {p} : proc'[q] = proc[q]
  BY <1>0, <1>4, <1>5, MoveFits DEF Report, GoTo
<1>7. AnnounceInv'
  <2>1. Due' <=> Due
    BY <1>0 DEF Due, Backlog, Frontier
  <2>2. AnnounceInv
    BY DEF SInv
  <2>3. Due' => note'.pending # NoRow \/ Excused'
    BY <1>0, <1>1, <1>4, <2>1, <2>2 DEF AnnounceInv, Excused
  <2>4. BacklogIsAnnounced'
    BY <2>3 DEF BacklogIsAnnounced, Excused
  <2>5. (Due /\ note.pending # NoRow => ~note.pending.reported \/ Excused)'
    BY <1>4, <2>1, <2>2 DEF AnnounceInv, Excused
  <2> QED
    BY <1>4, <2>3, <2>4, <2>5 DEF AnnounceInv
<1> QED
  BY <1>0, <1>6, <1>7, Reassembled DEF PlanFits

LEMMA StutterInv == ASSUME SInv, UNCHANGED vars PROVE SInv'
<1>1. note' = note /\ proc' = proc /\ UNCHANGED <<scroll, segments>> /\ NoteFits(note)
  BY SFits DEF vars, Fits
<1>2. AnnounceInv'
  <2>1. NoOne \notin Workers /\ \A q \in Processes \ {NoOne} : proc'[q] = proc[q]
    BY <1>1, ScribeAssumption
  <2>2. Due' => Due
    BY <1>1 DEF Due, Backlog, Frontier
  <2> QED
    BY <1>1, <2>1, <2>2, QuietAnnounces
<1> QED
  BY <1>1, <1>2, OthersInv DEF NoteHeldBy

LEMMA SNextInv == SInv /\ [Next]_vars => SInv'
  BY AppendEventInv, RollByHandInv, LeaseExpiresInv, ReclaimInv, ClaimInv, CallInv,
     PlanBatchInv, RollRunInv, OvertakenInv, ContinueInv, ReportInv, SettleInv, RaiseInv,
     CrashInv, StutterInv DEF Next, Advance

-----------------------------------------------------------------------------
\* What follows.

(* The inductive invariant: segments tile the Scroll up to the frontier,    *)
(* plans are sound and start no later than the next segment may, and the    *)
(* rows of the notification remember what is unannounced.                   *)
THEOREM ScribeInvariance == Spec => []SInv
  BY SInitInv, SNextInv, PTL DEF Spec

\* The Scribe's state keeps its declared shape (TypeOK).
THEOREM ScribeTypeCorrect == Spec => []TypeOK
<1>1. SInv => TypeOK
  BY DEF SInv
<1> QED
  BY <1>1, ScribeInvariance, PTL

(* Every event up to the frontier is in exactly one segment of one security *)
(* boundary, and no run of roll_due_scroll_segments fails because others    *)
(* rolled beside it (SegmentsAreExact).                                     *)
THEOREM SegmentsStayExact == Spec => []SegmentsAreExact
<1>1. SInv => SegmentsAreExact
  <2> SUFFICES ASSUME SInv PROVE SegmentsAreExact
    OBVIOUS
  <2>0. TypeOK /\ TileInv /\ PlanInv
    BY DEF SInv
  <2>1. SegmentsTile
    <3>1. ASSUME NEW s \in segments, NEW t \in segments, s # t
          PROVE  s.lo..s.hi \cap t.lo..t.hi = {}
      <4>1. s.hi < t.lo \/ t.hi < s.lo
        BY <2>0, <3>1 DEF TileInv
      <4>2. s.lo \in Nat /\ s.hi \in Nat /\ t.lo \in Nat /\ t.hi \in Nat
        BY <2>0 DEF TileInv, InScroll, Ranges
      <4> QED
        BY <4>1, <4>2
    <3> QED
      BY <2>0, <3>1 DEF TileInv, SegmentsTile
  <2>2. BoundariesKept
    BY <2>0 DEF TileInv, BoundariesKept
  <2>3. PlansOnlyOvertaken
    <3> SUFFICES ASSUME NEW p \in Processes, proc[p].at = "roll"
                 PROVE  Rollable(NextRun(p)) \/ Frontier >= NextRun(p).lo
      BY DEF PlansOnlyOvertaken
    <3> DEFINE r == NextRun(p)
    <3>1. InScroll(r) /\ Uniform(r.lo, r.hi) /\ r.lo <= Frontier + 1
      BY <2>0, NextRunIsFirst
    <3> HIDE DEF r
    <3>2. r.lo \in Nat /\ Frontier \in Nat
      BY <2>0, <3>1 DEF InScroll, Ranges, TileInv
    <3>3. CASE r.lo = Frontier + 1
      <4>1. \A s \in segments : s.hi < r.lo
        BY <2>0, <3>2, <3>3 DEF TileInv, InScroll, Ranges
      <4> QED
        BY <3>1, <3>3, <4>1 DEF Rollable, InScroll, r
    <3>4. CASE r.lo <= Frontier
      BY <3>2, <3>4 DEF r
    <3> QED
      BY <3>1, <3>2, <3>3, <3>4
  <2> QED
    BY <2>1, <2>2, <2>3 DEF SegmentsAreExact
<1> QED
  BY <1>1, ScribeInvariance, PTL

(* A due backlog is announced, or its last notice failed or was merged into *)
(* a row that had reported (BacklogIsAnnounced).                            *)
THEOREM BacklogStaysAnnounced == Spec => []BacklogIsAnnounced
<1>1. SInv => BacklogIsAnnounced
  BY DEF SInv, AnnounceInv
<1> QED
  BY <1>1, ScribeInvariance, PTL
=============================================================================
