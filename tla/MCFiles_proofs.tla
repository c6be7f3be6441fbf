---------------------------- MODULE MCFiles_proofs ----------------------------
(***************************************************************************)
(* Proofs about what a call leaves in a root when it dies: that no two     *)
(* runtimes write a root (WriterClaim), and that what MCFiles calls        *)
(* committed is whole and nothing owed is lost, for every number of jobs,  *)
(* snapshots, items, imports, ingestions, artifacts and faults.  Each part *)
(* has an inductive invariant of its own (ClaimInv, PrepInv, SnInv, BkInv, *)
(* PalInv); the last part puts them together.                              *)
(***************************************************************************)
EXTENDS MCFiles, FiniteSetTheorems, WellFoundedInduction, TLAPS

-----------------------------------------------------------------------------
(* The claim on a root.                                                     *)

(* A process that may claim a root without having been told to looked for  *)
(* state when there was none; what made state since was claimed.           *)
ImplicitIsNew ==
    \A p \in Processes :
        pc[p] \in {"new", "claim", "create"} /\ p \notin explicit /\ marker = Absent => ~state

ClaimInv == TypeOK /\ OneRuntimeWrites /\ ImplicitIsNew

-----------------------------------------------------------------------------
\* A new root with idle processes satisfies the invariant.
LEMMA ClaimInit == Init => ClaimInv
  BY ClaimConstants
     DEF Init, ClaimInv, TypeOK, OneRuntimeWrites, ImplicitIsNew, Places, Claims

\* Every step of a process keeps it; only Link, OpenExclusive, Fill and Transfer
\* write the marker, only Connect makes state.
LEMMA ClaimNext == ASSUME ClaimInv, Next PROVE ClaimInv'
<1> PICK p \in Processes :
        \/ Ensure(p) \/ Command(p) \/ LookForState(p) \/ ReadMarker(p) \/ NoMarker(p)
        \/ Link(p) \/ OpenExclusive(p) \/ Fill(p)
        \/ Connect(p) \/ Close(p) \/ Transfer(p) \/ Crash(p)
  BY DEF Next
<1> USE ClaimConstants
    DEF ClaimInv, TypeOK, OneRuntimeWrites, ImplicitIsNew, Places, Claims, Move
<1>1. CASE Ensure(p)
  BY <1>1 DEF Ensure
<1>2. CASE Command(p)
  BY <1>2 DEF Command
<1>3. CASE LookForState(p)
  BY <1>3 DEF LookForState
<1>4. CASE ReadMarker(p)
  BY <1>4 DEF ReadMarker, Grant, Refuse
<1>5. CASE NoMarker(p)
  BY <1>5 DEF NoMarker, Refuse
<1>6. CASE Link(p)
  BY <1>6 DEF Link, Grant
<1>7. CASE OpenExclusive(p)
  BY <1>7 DEF OpenExclusive
<1>8. CASE Fill(p)
  BY <1>8 DEF Fill, Grant
<1>9. CASE Connect(p)
  BY <1>9 DEF Connect
<1>10. CASE Close(p)
  BY <1>10 DEF Close
<1>11. CASE Transfer(p)
  BY <1>11 DEF Transfer, Quiet
<1>12. CASE Crash(p)
  BY <1>12 DEF Crash, Refuse
<1> QED
  BY <1>1, <1>2, <1>3, <1>4, <1>5, <1>6, <1>7, <1>8, <1>9, <1>10, <1>11, <1>12

\* The three facts together: the invariant holds in every reachable state.
THEOREM ClaimInvariance == Spec => []ClaimInv
<1>1. ClaimInv /\ UNCHANGED vars => ClaimInv'
  BY DEF ClaimInv, TypeOK, OneRuntimeWrites, ImplicitIsNew, vars
<1> QED
  BY ClaimInit, ClaimNext, <1>1, PTL DEF Spec

\* Whatever processes claim, read half-written markers or die, a process that may
\* write has its own runtime's claim on disk: no two runtimes write at once.
THEOREM OneRuntime == Spec => []OneRuntimeWrites
<1>1. ClaimInv => OneRuntimeWrites
  BY DEF ClaimInv
<1> QED
  BY ClaimInvariance, <1>1, PTL

-----------------------------------------------------------------------------
(* What a step that changes the marker may do: the step of ClaimIsChosen.   *)
Chosen ==
    marker' # marker =>
        /\ marker \in Runtimes => Quiet
        /\ marker = Absent /\ state =>
              \E p \in explicit : pc[p] = "create" /\ pc'[p] # "create"

\* Of the actions that write the marker, the two that create it find none, which
\* an implicit claimer meets only in a root without state; Fill replaces an empty
\* one; Transfer waits for quiet and finds one.
LEMMA StepIsChosen == ASSUME ClaimInv, Next PROVE Chosen
<1> PICK p \in Processes :
        \/ Ensure(p) \/ Command(p) \/ LookForState(p) \/ ReadMarker(p) \/ NoMarker(p)
        \/ Link(p) \/ OpenExclusive(p) \/ Fill(p)
        \/ Connect(p) \/ Close(p) \/ Transfer(p) \/ Crash(p)
  BY DEF Next
<1>1. CASE Link(p) \/ OpenExclusive(p)
  <2> SUFFICES ASSUME marker' # marker PROVE Chosen
    BY DEF Chosen
  <2>1. marker = Absent /\ pc[p] = "create" /\ pc'[p] # "create"
    BY <1>1, ClaimConstants DEF Link, OpenExclusive, Grant, Move, ClaimInv, TypeOK
  <2>2. state => p \in explicit
    BY <2>1 DEF ClaimInv, ImplicitIsNew
  <2> QED
    BY <2>1, <2>2, ClaimConstants DEF Chosen
<1>2. CASE Fill(p)
  BY <1>2, ClaimConstants DEF Fill, Grant, Move, Chosen, ClaimInv, TypeOK
<1>3. CASE Transfer(p)
  BY <1>3 DEF Transfer, Chosen
<1>4. CASE \/ Ensure(p) \/ Command(p) \/ LookForState(p) \/ ReadMarker(p) \/ NoMarker(p)
           \/ Connect(p) \/ Close(p) \/ Crash(p)
  BY <1>4 DEF Ensure, Command, LookForState, ReadMarker, NoMarker, Connect, Close, Crash, Chosen
<1> QED
  BY <1>1, <1>2, <1>3, <1>4

\* No claim is taken over while a process runs, and a root with state but no claim
\* is claimed by nothing but the explicit command.
THEOREM ClaimsAreChosen == Spec => ClaimIsChosen
<1>1. ClaimInv /\ [Next]_vars => [Chosen]_vars
  BY StepIsChosen
<1> QED
  BY ClaimInvariance, <1>1, PTL DEF Spec, ClaimIsChosen, Chosen

-----------------------------------------------------------------------------
(* Numbers.                                                                 *)

\* Every set of naturals that has an element has a smallest one.
LEMMA LeastNatural ==
    ASSUME NEW T \in SUBSET Nat, T # {}
    PROVE  \E k \in T : \A j \in T : k <= j
<1> DEFINE R == OpToRel(<, Nat)
<1>1. IsWellFoundedOn(R, Nat)
  BY NatLessThanWellFounded, Zenon
<1>2. \A n, m \in Nat : n < m => <<n, m>> \in R
  BY DEF OpToRel
<1> HIDE DEF R
<1>3. PICK k \in T : \A j \in T : ~(<<j, k>> \in R)
  BY <1>1, WFMin
<1>4. SUFFICES ASSUME NEW j \in T PROVE k <= j
  BY <1>3
<1>5. ~(j < k)
  BY <1>2, <1>3
<1> QED
  BY <1>5

\* Every set of numbers below a bound that has an element has a greatest one.
LEMMA GreatestNatural ==
    ASSUME NEW N \in Nat, NEW V \in SUBSET (0 .. N), V # {}
    PROVE  \E n \in V : \A m \in V : m <= n
<1> DEFINE R == OpToRel(<, Nat)
           T == {k \in Nat : N - k \in V}
<1>1. IsWellFoundedOn(R, Nat)
  BY NatLessThanWellFounded, Zenon
<1>2. \A n, m \in Nat : n < m => <<n, m>> \in R
  BY DEF OpToRel
<1>3. T \in SUBSET Nat /\ T # {}
  <2>1. PICK n \in V : TRUE
    OBVIOUS
  <2>2. N - n \in Nat /\ N - (N - n) = n
    BY <2>1
  <2> QED
    BY <2>1, <2>2
<1>4. \A k \in T : N - k \in V
  OBVIOUS
<1>5. \A m \in V : N - m \in T
  <2> TAKE m \in V
  <2>1. N - m \in Nat /\ N - (N - m) = m
    OBVIOUS
  <2> QED
    BY <2>1
<1> HIDE DEF R, T
<1>6. PICK k \in T : \A j \in T : ~(<<j, k>> \in R)
  BY <1>1, <1>3, WFMin
<1>7. \A m \in V : m <= N - k
  <2> TAKE m \in V
  <2>1. N - m \in T /\ N - m \in Nat /\ k \in Nat
    BY <1>3, <1>5
  <2>2. ~(N - m < k)
    BY <1>2, <1>6, <2>1
  <2> QED
    BY <2>1, <2>2
<1> QED
  BY <1>4, <1>6, <1>7

-----------------------------------------------------------------------------
(* Prepared review jobs.                                                    *)

PrepJobs ==
    [staged : P!Trees, tree : P!Trees, mark : BOOLEAN, row : BOOLEAN, rows : BOOLEAN]
PrepPlaces ==
    {"idle", "reconcile", "remove", "build", "write", "mark", "bind", "rename", "finalize",
     "unlink", "reverse", "cleanup", "untree", "unstage", "discard"}
PrepCalls ==
    [pc : PrepPlaces, job : 0 .. MaxJobs, own : BOOLEAN, moved : BOOLEAN, keep : BOOLEAN,
     known : BOOLEAN, left : BOOLEAN, seen : SUBSET P!Jobs]

\* A job with rows is complete, and a published tree has rows or a marker's row.
PrepComplete(d) ==
        /\ d.rows => d.tree = "full" /\ d.staged = "none" /\ ~d.row
        /\ d.tree # "none" => d.row \/ d.rows

PrepUntouched(d) == d.staged = "none" /\ d.tree = "none" /\ ~d.mark /\ ~d.row /\ ~d.rows

\* A call works on a job that has an id, and takes away from it only what has no rows.
PrepWorking == {"remove", "build", "write", "mark", "bind", "rename", "finalize", "unlink",
                "reverse", "cleanup", "untree", "unstage", "discard"}
PrepFits(c, d) ==
        /\ c.pc \in {"build", "write", "mark", "bind", "untree", "unstage", "discard"} => ~d.rows
        /\ c.pc \in {"bind", "rename", "finalize"} /\ c.own => c.known
        /\ c.pc = "rename" => d.row
        /\ c.pc = "finalize" => d.staged = "none"
        /\ c.pc = "cleanup" /\ ~c.keep /\ ~c.known => ~d.rows
        /\ c.pc = "unstage" /\ ~c.left => d.tree = "none"
        /\ c.pc = "discard" => d.tree = "none"

PrepTyped ==
    /\ pJob \in [P!Jobs -> PrepJobs] /\ pMade \in 0 .. MaxJobs /\ pCall \in PrepCalls
PrepCallFits ==
    /\ pCall.pc \in {"idle", "reconcile", "remove"} => ~pCall.own
    /\ pCall.pc \in PrepWorking => pCall.job \in 1 .. pMade /\ PrepFits(pCall, pJob[pCall.job])
PrepInv ==
    /\ PrepTyped
    /\ \A j \in P!Jobs : PrepComplete(pJob[j]) /\ (j > pMade => PrepUntouched(pJob[j]))
    /\ PrepCallFits

LEMMA PrepIdle == P!Idle \in PrepCalls /\ P!Idle.pc = "idle" /\ ~P!Idle.own
  BY BoundsAreNumbers DEF P!Idle, PrepCalls, PrepPlaces

LEMMA PrepInit == P!Init => PrepInv
<1> SUFFICES ASSUME P!Init PROVE PrepInv
  OBVIOUS
<1>1. P!NoTree \in PrepJobs /\ PrepComplete(P!NoTree) /\ PrepUntouched(P!NoTree)
  BY DEF P!NoTree, PrepJobs, PrepComplete, PrepUntouched, P!Trees
<1>3. PrepTyped
  BY <1>1, PrepIdle, BoundsAreNumbers DEF PrepTyped, P!Init
<1>4. PrepCallFits
  BY PrepIdle DEF PrepCallFits, P!Init, PrepWorking
<1> QED
  BY <1>1, <1>3, <1>4 DEF PrepInv, P!Init

\* A committed job is as it was after the step.
PrepStay == \A j \in P!Jobs : pJob[j].rows => pJob'[j].rows /\ pJob'[j].tree = pJob[j].tree

\* The job at hand becomes `new` and the call c.
LEMMA PrepJobChanges ==
    ASSUME PrepInv, NEW k \in 1 .. pMade', pMade' \in 0 .. MaxJobs, pMade <= pMade',
           NEW new \in PrepJobs, pJob' = [pJob EXCEPT ![k] = new], PrepComplete(new),
           pJob[k].rows => new.rows /\ new.tree = pJob[k].tree,
           NEW c \in PrepCalls, pCall' = c,
           c.pc \in {"idle", "reconcile", "remove"} => ~c.own,
           c.pc \in PrepWorking => c.job = k /\ PrepFits(c, new)
    PROVE  PrepInv' /\ PrepStay
<1>1. k \in P!Jobs /\ pJob \in [P!Jobs -> PrepJobs]
  BY BoundsAreNumbers DEF P!Jobs, PrepInv, PrepTyped
<1>2. /\ pJob' \in [P!Jobs -> PrepJobs]
      /\ \A j \in P!Jobs : pJob'[j] = IF j = k THEN new ELSE pJob[j]
  BY <1>1
<1>3. PrepTyped'
  BY <1>2 DEF PrepTyped
<1>4. PrepCallFits'
  BY <1>1, <1>2 DEF PrepCallFits
<1>5. \A j \in P!Jobs : PrepComplete(pJob'[j]) /\ (j > pMade' => PrepUntouched(pJob'[j]))
  <2> TAKE j \in P!Jobs
  <2>1. CASE j = k
    BY <1>2, <2>1, BoundsAreNumbers DEF P!Jobs
  <2>2. CASE j # k
    <3>1. pJob'[j] = pJob[j]
      BY <1>2, <2>2
    <3>2. j > pMade' => j > pMade
      BY BoundsAreNumbers DEF P!Jobs, PrepInv, PrepTyped
    <3> QED
      BY <3>1, <3>2 DEF PrepInv
  <2> QED
    BY <2>1, <2>2
<1>6. PrepStay
  BY <1>2 DEF PrepStay
<1> QED
  BY <1>3, <1>4, <1>5, <1>6 DEF PrepInv

\* Only the call changes.
LEMMA PrepCallChanges ==
    ASSUME PrepInv, pJob' = pJob, pMade' = pMade, NEW c \in PrepCalls, pCall' = c,
           c.pc \in {"idle", "reconcile", "remove"} => ~c.own,
           c.pc \in PrepWorking => c.job \in 1 .. pMade /\ PrepFits(c, pJob[c.job])
    PROVE  PrepInv' /\ PrepStay
<1>1. PrepTyped'
  BY DEF PrepInv, PrepTyped
<1>2. PrepCallFits'
  BY DEF PrepCallFits
<1>3. PrepStay
  BY DEF PrepStay
<1> QED
  BY <1>1, <1>2, <1>3 DEF PrepInv

\* Reconciliation looks at a job that has an id.
LEMMA PrepNextHasId ==
    ASSUME PrepInv, P!Leftover # {}
    PROVE  P!Next1 \in P!Leftover /\ P!Next1 \in 1 .. pMade /\ P!Next1 \in P!Jobs
<1>1. P!Leftover \in SUBSET P!Jobs
  BY DEF P!Leftover, P!Marked, P!Staged, P!Rowed
<1>2. P!Jobs \in SUBSET Nat
  BY BoundsAreNumbers DEF P!Jobs
<1>3. PICK k \in P!Leftover : \A j \in P!Leftover : k <= j
  BY <1>1, <1>2, LeastNatural
<1>4. P!Next1 \in P!Leftover
  BY <1>3 DEF P!Next1, P!Min
<1>5. \A j \in P!Leftover : ~PrepUntouched(pJob[j])
  BY DEF P!Leftover, P!Marked, P!Staged, P!Rowed, PrepUntouched
<1>6. \A j \in P!Leftover : j <= pMade
  BY <1>1, <1>5, BoundsAreNumbers DEF PrepInv, PrepTyped, P!Jobs
<1> QED
  BY <1>1, <1>4, <1>6, BoundsAreNumbers DEF P!Jobs, PrepInv, PrepTyped

\* What a working call has at hand.
LEMMA PrepAtHand ==
    ASSUME PrepInv, pCall.pc \in PrepWorking
    PROVE  \E c \in PrepCalls, d \in PrepJobs :
               /\ c = pCall /\ d = pJob[c.job] /\ d = P!This
               /\ c.job \in 1 .. pMade /\ c.job \in P!Jobs
               /\ PrepComplete(d) /\ PrepFits(c, d) /\ pMade \in 0 .. MaxJobs /\ pMade <= pMade
<1>1. pCall.job \in 1 .. pMade /\ PrepFits(pCall, pJob[pCall.job])
  BY DEF PrepInv, PrepCallFits
<1>2. pCall.job \in P!Jobs
  BY <1>1, BoundsAreNumbers DEF PrepInv, PrepTyped, P!Jobs
<1>3. pJob[pCall.job] \in PrepJobs /\ PrepComplete(pJob[pCall.job]) /\ pMade \in 0 .. MaxJobs
  BY <1>2 DEF PrepInv, PrepTyped
<1>4. pMade <= pMade
  BY <1>3
<1> QED
  BY <1>1, <1>2, <1>3, <1>4 DEF PrepInv, PrepTyped, P!This

(* Steps of a call that has a job at hand: the call becomes e, its job new. *)

\* A job is staged, marked and bound, and has no rows as yet.
LEMMA PrepBuilds ==
    ASSUME PrepInv, P!Capture \/ P!Blocked \/ P!Build \/ P!Mark \/ P!Bind
    PROVE  PrepInv' /\ PrepStay
<1>1. pCall.pc \in PrepWorking
  BY DEF P!Capture, P!Blocked, P!Build, P!Mark, P!Bind, P!In, PrepWorking
<1>2. PICK c \in PrepCalls, d \in PrepJobs :
         /\ c = pCall /\ d = pJob[c.job] /\ d = P!This
         /\ c.job \in 1 .. pMade /\ c.job \in P!Jobs
         /\ PrepComplete(d) /\ PrepFits(c, d) /\ pMade \in 0 .. MaxJobs /\ pMade <= pMade
  BY <1>1, PrepAtHand
<1>3. CASE P!Capture
  <2> DEFINE e == [c EXCEPT !.pc = "write"]
  <2>1. pMade' = pMade /\ pCall' = e /\ pJob' = pJob
    BY <1>2, <1>3 DEF P!Capture, P!In, P!Goto, P!With, P!Set, P!Return
  <2>2. e \in PrepCalls /\ (e.pc \in {"idle", "reconcile", "remove"} => ~e.own)
    BY <1>2, <1>3, PrepIdle DEF P!Capture, P!In, PrepCalls, PrepPlaces, PrepInv, PrepCallFits
  <2>4. e.pc \in PrepWorking => e.job = c.job /\ PrepFits(e, d)
    BY <1>2, <1>3 DEF P!Capture, P!In, PrepCalls, PrepJobs, PrepComplete, PrepFits, PrepWorking,
           P!Idle
  <2> HIDE DEF e
  <2> QED
    BY <1>2, <2>1, <2>2, <2>4, PrepCallChanges
<1>4. CASE P!Blocked
  <2> DEFINE e == [c EXCEPT !.pc = "cleanup"]
  <2>1. pMade' = pMade /\ pCall' = e /\ pJob' = pJob
    BY <1>2, <1>4 DEF P!Blocked, P!In, P!Goto, P!With, P!Set, P!Return
  <2>2. e \in PrepCalls /\ (e.pc \in {"idle", "reconcile", "remove"} => ~e.own)
    BY <1>2, <1>4, PrepIdle DEF P!Blocked, P!In, PrepCalls, PrepPlaces, PrepInv, PrepCallFits
  <2>4. e.pc \in PrepWorking => e.job = c.job /\ PrepFits(e, d)
    BY <1>2, <1>4 DEF P!Blocked, P!In, PrepCalls, PrepJobs, PrepComplete, PrepFits, PrepWorking,
           P!Idle
  <2> HIDE DEF e
  <2> QED
    BY <1>2, <2>1, <2>2, <2>4, PrepCallChanges
<1>5. CASE P!Build
  <2> DEFINE e == [c EXCEPT !.pc = "mark"]
             new == [d EXCEPT !.staged = "full"]
  <2>1. pMade' = pMade /\ pCall' = e /\ pJob' = [pJob EXCEPT ![c.job] = new]
    BY <1>2, <1>5 DEF P!Build, P!In, P!Goto, P!With, P!Set, P!Return
  <2>2. e \in PrepCalls /\ (e.pc \in {"idle", "reconcile", "remove"} => ~e.own)
    BY <1>2, <1>5, PrepIdle DEF P!Build, P!In, PrepCalls, PrepPlaces, PrepInv, PrepCallFits
  <2>3. /\ new \in PrepJobs /\ PrepComplete(new)
        /\ d.rows => new.rows /\ new.tree = d.tree
    BY <1>2, <1>5 DEF P!Build, P!In, PrepJobs, PrepComplete, PrepFits, P!Trees
  <2>4. e.pc \in PrepWorking => e.job = c.job /\ PrepFits(e, new)
    BY <1>2, <1>5 DEF P!Build, P!In, PrepCalls, PrepJobs, PrepComplete, PrepFits, PrepWorking,
           P!Idle
  <2> HIDE DEF e, new
  <2> QED
    BY <1>2, <2>1, <2>2, <2>3, <2>4, PrepJobChanges
<1>6. CASE P!Mark
  <2> DEFINE e == [c EXCEPT !.pc = "bind", !.known = TRUE]
             new == [d EXCEPT !.mark = TRUE]
  <2>1. pMade' = pMade /\ pCall' = e /\ pJob' = [pJob EXCEPT ![c.job] = new]
    BY <1>2, <1>6 DEF P!Mark, P!In, P!Goto, P!With, P!Set, P!Return
  <2>2. e \in PrepCalls /\ (e.pc \in {"idle", "reconcile", "remove"} => ~e.own)
    BY <1>2, <1>6, PrepIdle DEF P!Mark, P!In, PrepCalls, PrepPlaces, PrepInv, PrepCallFits
  <2>3. /\ new \in PrepJobs /\ PrepComplete(new)
        /\ d.rows => new.rows /\ new.tree = d.tree
    BY <1>2, <1>6 DEF P!Mark, P!In, PrepJobs, PrepComplete, PrepFits, P!Trees
  <2>4. e.pc \in PrepWorking => e.job = c.job /\ PrepFits(e, new)
    BY <1>2, <1>6 DEF P!Mark, P!In, PrepCalls, PrepJobs, PrepComplete, PrepFits, PrepWorking, P!Idle
  <2> HIDE DEF e, new
  <2> QED
    BY <1>2, <2>1, <2>2, <2>3, <2>4, PrepJobChanges
<1>7. CASE P!Bind
  <2> DEFINE e == [c EXCEPT !.pc = "rename"]
             new == [d EXCEPT !.row = TRUE]
  <2>1. pMade' = pMade /\ pCall' = e /\ pJob' = [pJob EXCEPT ![c.job] = new]
    BY <1>2, <1>7 DEF P!Bind, P!In, P!Goto, P!With, P!Set, P!Return
  <2>2. e \in PrepCalls /\ (e.pc \in {"idle", "reconcile", "remove"} => ~e.own)
    BY <1>2, <1>7, PrepIdle DEF P!Bind, P!In, PrepCalls, PrepPlaces, PrepInv, PrepCallFits
  <2>3. /\ new \in PrepJobs /\ PrepComplete(new)
        /\ d.rows => new.rows /\ new.tree = d.tree
    BY <1>2, <1>7 DEF P!Bind, P!In, PrepJobs, PrepComplete, PrepFits, P!Trees
  <2>4. e.pc \in PrepWorking => e.job = c.job /\ PrepFits(e, new)
    BY <1>2, <1>7 DEF P!Bind, P!In, PrepCalls, PrepJobs, PrepComplete, PrepFits, PrepWorking, P!Idle
  <2> HIDE DEF e, new
  <2> QED
    BY <1>2, <2>1, <2>2, <2>3, <2>4, PrepJobChanges
<1> QED
  BY <1>3, <1>4, <1>5, <1>6, <1>7

\* Publication: the tree is renamed, then the rows are written in one transaction.
LEMMA PrepPublishes ==
    ASSUME PrepInv, P!Rename \/ P!Finalize \/ P!Drifted \/ P!Unlink \/ P!Reverse
    PROVE  PrepInv' /\ PrepStay
<1>1. pCall.pc \in PrepWorking
  BY DEF P!Rename, P!Finalize, P!Drifted, P!Unlink, P!Reverse, P!In, PrepWorking
<1>2. PICK c \in PrepCalls, d \in PrepJobs :
         /\ c = pCall /\ d = pJob[c.job] /\ d = P!This
         /\ c.job \in 1 .. pMade /\ c.job \in P!Jobs
         /\ PrepComplete(d) /\ PrepFits(c, d) /\ pMade \in 0 .. MaxJobs /\ pMade <= pMade
  BY <1>1, PrepAtHand
<1>3. CASE P!Rename
  <2> DEFINE e == [c EXCEPT !.pc = "finalize", !.moved = TRUE]
             new == [d EXCEPT !.tree = d.staged, !.staged = "none"]
  <2>1. pMade' = pMade /\ pCall' = e /\ pJob' = [pJob EXCEPT ![c.job] = new]
    BY <1>2, <1>3 DEF P!Rename, P!In, P!Goto, P!With, P!Set, P!Return
  <2>2. e \in PrepCalls /\ (e.pc \in {"idle", "reconcile", "remove"} => ~e.own)
    BY <1>2, <1>3, PrepIdle DEF P!Rename, P!In, PrepCalls, PrepPlaces, PrepInv, PrepCallFits
  <2>3. /\ new \in PrepJobs /\ PrepComplete(new)
        /\ d.rows => new.rows /\ new.tree = d.tree
    BY <1>2, <1>3 DEF P!Rename, P!In, PrepJobs, PrepComplete, PrepFits, P!Trees
  <2>4. e.pc \in PrepWorking => e.job = c.job /\ PrepFits(e, new)
    BY <1>2, <1>3 DEF P!Rename, P!In, PrepCalls, PrepJobs, PrepComplete, PrepFits, PrepWorking,
           P!Idle
  <2> HIDE DEF e, new
  <2> QED
    BY <1>2, <2>1, <2>2, <2>3, <2>4, PrepJobChanges
<1>4. CASE P!Finalize
  <2> DEFINE e == [c EXCEPT !.pc = "unlink", !.keep = TRUE]
             new == [d EXCEPT !.rows = TRUE, !.row = FALSE]
  <2>1. pMade' = pMade /\ pCall' = e /\ pJob' = [pJob EXCEPT ![c.job] = new]
    BY <1>2, <1>4 DEF P!Finalize, P!In, P!Goto, P!With, P!Set, P!Return, P!Bound, P!Published
  <2>2. e \in PrepCalls /\ (e.pc \in {"idle", "reconcile", "remove"} => ~e.own)
    BY <1>2, <1>4, PrepIdle DEF P!Finalize, P!In, PrepCalls, PrepPlaces, PrepInv, PrepCallFits
  <2>3. /\ new \in PrepJobs /\ PrepComplete(new)
        /\ d.rows => new.rows /\ new.tree = d.tree
    BY <1>2, <1>4 DEF P!Finalize, P!In, PrepJobs, PrepComplete, PrepFits, P!Trees, P!Bound,
           P!Published
  <2>4. e.pc \in PrepWorking => e.job = c.job /\ PrepFits(e, new)
    BY <1>2, <1>4 DEF P!Finalize, P!In, PrepCalls, PrepJobs, PrepComplete, PrepFits, PrepWorking,
           P!Idle, P!Bound, P!Published
  <2> HIDE DEF e, new
  <2> QED
    BY <1>2, <2>1, <2>2, <2>3, <2>4, PrepJobChanges
<1>5. CASE P!Drifted
  <2> DEFINE e == IF P!Raised = "idle" THEN P!Idle ELSE [c EXCEPT !.pc = P!Raised]
  <2>1. pMade' = pMade /\ pCall' = e /\ pJob' = pJob
    BY <1>2, <1>5 DEF P!Drifted, P!In, P!Goto, P!With, P!Set, P!Return, P!Raised, P!Bound
  <2>2. e \in PrepCalls /\ (e.pc \in {"idle", "reconcile", "remove"} => ~e.own)
    BY <1>2, <1>5, PrepIdle DEF P!Drifted, P!In, PrepCalls, PrepPlaces, PrepInv, PrepCallFits,
           P!Raised, P!Bound
  <2>4. e.pc \in PrepWorking => e.job = c.job /\ PrepFits(e, d)
    BY <1>2, <1>5 DEF P!Drifted, P!In, PrepCalls, PrepJobs, PrepComplete, PrepFits, PrepWorking,
           P!Idle, P!Raised, P!Bound
  <2> HIDE DEF e
  <2> QED
    BY <1>2, <2>1, <2>2, <2>4, PrepCallChanges
<1>6. CASE P!Unlink
  <2> DEFINE e == IF c.own THEN P!Idle ELSE [P!Idle EXCEPT !.pc = "reconcile", !.seen = c.seen]
             new == [d EXCEPT !.mark = FALSE]
  <2>1. pMade' = pMade /\ pCall' = e /\ pJob' = [pJob EXCEPT ![c.job] = new]
    BY <1>2, <1>6 DEF P!Unlink, P!In, P!Goto, P!With, P!Set, P!Return
  <2>2. e \in PrepCalls /\ (e.pc \in {"idle", "reconcile", "remove"} => ~e.own)
    BY <1>2, <1>6, PrepIdle DEF P!Unlink, P!In, PrepCalls, PrepPlaces, PrepInv, PrepCallFits
  <2>3. /\ new \in PrepJobs /\ PrepComplete(new)
        /\ d.rows => new.rows /\ new.tree = d.tree
    BY <1>2, <1>6 DEF P!Unlink, P!In, PrepJobs, PrepComplete, PrepFits, P!Trees
  <2>4. e.pc \in PrepWorking => e.job = c.job /\ PrepFits(e, new)
    BY <1>2, <1>6 DEF P!Unlink, P!In, PrepCalls, PrepJobs, PrepComplete, PrepFits, PrepWorking,
           P!Idle
  <2> HIDE DEF e, new
  <2> QED
    BY <1>2, <2>1, <2>2, <2>3, <2>4, PrepJobChanges
<1>7. CASE P!Reverse
  <2> DEFINE e == P!Idle
             new == IF P!Bound /\ d.tree # "none" /\ d.staged = "none"
                    THEN [d EXCEPT !.staged = d.tree, !.tree = "none"]
                    ELSE d
  <2>1. pMade' = pMade /\ pCall' = e /\ pJob' = [pJob EXCEPT ![c.job] = new]
    BY <1>2, <1>7 DEF P!Reverse, P!In, P!Goto, P!With, P!Set, P!Return, P!Bound, PrepInv, PrepTyped
  <2>2. e \in PrepCalls /\ (e.pc \in {"idle", "reconcile", "remove"} => ~e.own)
    BY <1>2, <1>7, PrepIdle DEF P!Reverse, P!In, PrepCalls, PrepPlaces, PrepInv, PrepCallFits
  <2>3. /\ new \in PrepJobs /\ PrepComplete(new)
        /\ d.rows => new.rows /\ new.tree = d.tree
    BY <1>2, <1>7 DEF P!Reverse, P!In, PrepJobs, PrepComplete, PrepFits, P!Trees, P!Bound, PrepInv,
           PrepTyped
  <2>4. e.pc \in PrepWorking => e.job = c.job /\ PrepFits(e, new)
    BY <1>2, <1>7 DEF P!Reverse, P!In, PrepCalls, PrepJobs, PrepComplete, PrepFits, PrepWorking,
           P!Idle, P!Bound, PrepInv, PrepTyped
  <2> HIDE DEF e, new
  <2> QED
    BY <1>2, <2>1, <2>2, <2>3, <2>4, PrepJobChanges
<1> QED
  BY <1>3, <1>4, <1>5, <1>6, <1>7

\* What is rolled back or cleaned up has no rows.
LEMMA PrepRemoves ==
    ASSUME PrepInv, P!Remove \/ P!Removed \/ P!RemoveTree \/ P!TreeRemoved \/ P!RemoveStaged
           \/ P!StagedRemoved \/ P!Discard \/ P!RemoveFails
    PROVE  PrepInv' /\ PrepStay
<1>1. pCall.pc \in PrepWorking
  BY DEF P!Remove, P!Removed, P!RemoveTree, P!TreeRemoved, P!RemoveStaged, P!StagedRemoved,
         P!Discard, P!RemoveFails, P!In, PrepWorking
<1>2. PICK c \in PrepCalls, d \in PrepJobs :
         /\ c = pCall /\ d = pJob[c.job] /\ d = P!This
         /\ c.job \in 1 .. pMade /\ c.job \in P!Jobs
         /\ PrepComplete(d) /\ PrepFits(c, d) /\ pMade \in 0 .. MaxJobs /\ pMade <= pMade
  BY <1>1, PrepAtHand
<1>3. CASE P!Remove
  <2> DEFINE e == c
             new == [d EXCEPT !.staged = IF d.staged = "full" THEN "part" ELSE "none"]
  <2>1. pMade' = pMade /\ pCall' = e /\ pJob' = [pJob EXCEPT ![c.job] = new]
    BY <1>2, <1>3 DEF P!Remove, P!In, P!Goto, P!With, P!Set, P!Return
  <2>2. e \in PrepCalls /\ (e.pc \in {"idle", "reconcile", "remove"} => ~e.own)
    BY <1>2, <1>3, PrepIdle DEF P!Remove, P!In, PrepCalls, PrepPlaces, PrepInv, PrepCallFits
  <2>3. /\ new \in PrepJobs /\ PrepComplete(new)
        /\ d.rows => new.rows /\ new.tree = d.tree
    BY <1>2, <1>3 DEF P!Remove, P!In, PrepJobs, PrepComplete, PrepFits, P!Trees
  <2>4. e.pc \in PrepWorking => e.job = c.job /\ PrepFits(e, new)
    BY <1>2, <1>3 DEF P!Remove, P!In, PrepCalls, PrepJobs, PrepComplete, PrepFits, PrepWorking,
           P!Idle
  <2> HIDE DEF e, new
  <2> QED
    BY <1>2, <2>1, <2>2, <2>3, <2>4, PrepJobChanges
<1>4. CASE P!Removed
  <2> DEFINE e == [c EXCEPT !.pc = IF d.mark THEN "unlink" ELSE "reconcile"]
  <2>1. pMade' = pMade /\ pCall' = e /\ pJob' = pJob
    BY <1>2, <1>4 DEF P!Removed, P!In, P!Goto, P!With, P!Set, P!Return
  <2>2. e \in PrepCalls /\ (e.pc \in {"idle", "reconcile", "remove"} => ~e.own)
    BY <1>2, <1>4, PrepIdle DEF P!Removed, P!In, PrepCalls, PrepPlaces, PrepInv, PrepCallFits
  <2>4. e.pc \in PrepWorking => e.job = c.job /\ PrepFits(e, d)
    BY <1>2, <1>4 DEF P!Removed, P!In, PrepCalls, PrepJobs, PrepComplete, PrepFits, PrepWorking,
           P!Idle
  <2> HIDE DEF e
  <2> QED
    BY <1>2, <2>1, <2>2, <2>4, PrepCallChanges
<1>5. CASE P!RemoveTree
  <2> DEFINE e == c
             new == [d EXCEPT !.tree = P!Shrink(d.tree)]
  <2>1. pMade' = pMade /\ pCall' = e /\ pJob' = [pJob EXCEPT ![c.job] = new]
    BY <1>2, <1>5 DEF P!RemoveTree, P!In, P!Goto, P!With, P!Set, P!Return, P!Shrink
  <2>2. e \in PrepCalls /\ (e.pc \in {"idle", "reconcile", "remove"} => ~e.own)
    BY <1>2, <1>5, PrepIdle DEF P!RemoveTree, P!In, PrepCalls, PrepPlaces, PrepInv, PrepCallFits
  <2>3. /\ new \in PrepJobs /\ PrepComplete(new)
        /\ d.rows => new.rows /\ new.tree = d.tree
    BY <1>2, <1>5 DEF P!RemoveTree, P!In, PrepJobs, PrepComplete, PrepFits, P!Trees, P!Shrink
  <2>4. e.pc \in PrepWorking => e.job = c.job /\ PrepFits(e, new)
    BY <1>2, <1>5 DEF P!RemoveTree, P!In, PrepCalls, PrepJobs, PrepComplete, PrepFits, PrepWorking,
           P!Idle, P!Shrink
  <2> HIDE DEF e, new
  <2> QED
    BY <1>2, <2>1, <2>2, <2>3, <2>4, PrepJobChanges
<1>6. CASE P!TreeRemoved
  <2> DEFINE e == [c EXCEPT !.pc = "unstage"]
  <2>1. pMade' = pMade /\ pCall' = e /\ pJob' = pJob
    BY <1>2, <1>6 DEF P!TreeRemoved, P!In, P!Goto, P!With, P!Set, P!Return
  <2>2. e \in PrepCalls /\ (e.pc \in {"idle", "reconcile", "remove"} => ~e.own)
    BY <1>2, <1>6, PrepIdle DEF P!TreeRemoved, P!In, PrepCalls, PrepPlaces, PrepInv, PrepCallFits
  <2>4. e.pc \in PrepWorking => e.job = c.job /\ PrepFits(e, d)
    BY <1>2, <1>6 DEF P!TreeRemoved, P!In, PrepCalls, PrepJobs, PrepComplete, PrepFits,
           PrepWorking, P!Idle
  <2> HIDE DEF e
  <2> QED
    BY <1>2, <2>1, <2>2, <2>4, PrepCallChanges
<1>7. CASE P!RemoveStaged
  <2> DEFINE e == c
             new == [d EXCEPT !.staged = P!Shrink(d.staged)]
  <2>1. pMade' = pMade /\ pCall' = e /\ pJob' = [pJob EXCEPT ![c.job] = new]
    BY <1>2, <1>7 DEF P!RemoveStaged, P!In, P!Goto, P!With, P!Set, P!Return, P!Shrink
  <2>2. e \in PrepCalls /\ (e.pc \in {"idle", "reconcile", "remove"} => ~e.own)
    BY <1>2, <1>7, PrepIdle DEF P!RemoveStaged, P!In, PrepCalls, PrepPlaces, PrepInv, PrepCallFits
  <2>3. /\ new \in PrepJobs /\ PrepComplete(new)
        /\ d.rows => new.rows /\ new.tree = d.tree
    BY <1>2, <1>7 DEF P!RemoveStaged, P!In, PrepJobs, PrepComplete, PrepFits, P!Trees, P!Shrink
  <2>4. e.pc \in PrepWorking => e.job = c.job /\ PrepFits(e, new)
    BY <1>2, <1>7 DEF P!RemoveStaged, P!In, PrepCalls, PrepJobs, PrepComplete, PrepFits,
           PrepWorking, P!Idle, P!Shrink
  <2> HIDE DEF e, new
  <2> QED
    BY <1>2, <2>1, <2>2, <2>3, <2>4, PrepJobChanges
<1>8. CASE P!StagedRemoved
  <2> DEFINE e == IF c.known /\ ~c.left /\ P!CatalogState(d) = "uncommitted"
                  THEN [c EXCEPT !.pc = "discard"] ELSE P!Idle
  <2>1. pMade' = pMade /\ pCall' = e /\ pJob' = pJob
    BY <1>2, <1>8 DEF P!StagedRemoved, P!In, P!Goto, P!With, P!Set, P!Return
  <2>2. e \in PrepCalls /\ (e.pc \in {"idle", "reconcile", "remove"} => ~e.own)
    BY <1>2, <1>8, PrepIdle DEF P!StagedRemoved, P!In, PrepCalls, PrepPlaces, PrepInv, PrepCallFits
  <2>4. e.pc \in PrepWorking => e.job = c.job /\ PrepFits(e, d)
    BY <1>2, <1>8 DEF P!StagedRemoved, P!In, PrepCalls, PrepJobs, PrepComplete, PrepFits,
           PrepWorking, P!Idle
  <2> HIDE DEF e
  <2> QED
    BY <1>2, <2>1, <2>2, <2>4, PrepCallChanges
<1>9. CASE P!Discard
  <2> DEFINE e == [c EXCEPT !.pc = "unlink"]
             new == [d EXCEPT !.row = FALSE]
  <2>1. pMade' = pMade /\ pCall' = e /\ pJob' = [pJob EXCEPT ![c.job] = new]
    BY <1>2, <1>9 DEF P!Discard, P!In, P!Goto, P!With, P!Set, P!Return
  <2>2. e \in PrepCalls /\ (e.pc \in {"idle", "reconcile", "remove"} => ~e.own)
    BY <1>2, <1>9, PrepIdle DEF P!Discard, P!In, PrepCalls, PrepPlaces, PrepInv, PrepCallFits
  <2>3. /\ new \in PrepJobs /\ PrepComplete(new)
        /\ d.rows => new.rows /\ new.tree = d.tree
    BY <1>2, <1>9 DEF P!Discard, P!In, PrepJobs, PrepComplete, PrepFits, P!Trees
  <2>4. e.pc \in PrepWorking => e.job = c.job /\ PrepFits(e, new)
    BY <1>2, <1>9 DEF P!Discard, P!In, PrepCalls, PrepJobs, PrepComplete, PrepFits, PrepWorking,
           P!Idle
  <2> HIDE DEF e, new
  <2> QED
    BY <1>2, <2>1, <2>2, <2>3, <2>4, PrepJobChanges
<1>10. CASE P!RemoveFails
  <2> DEFINE e == IF c.pc = "untree" THEN [c EXCEPT !.pc = "unstage", !.left = TRUE] ELSE P!Idle
  <2>1. pMade' = pMade /\ pCall' = e /\ pJob' = pJob
    BY <1>2, <1>10 DEF P!RemoveFails, P!In, P!Goto, P!With, P!Set, P!Return
  <2>2. e \in PrepCalls /\ (e.pc \in {"idle", "reconcile", "remove"} => ~e.own)
    BY <1>2, <1>10, PrepIdle DEF P!RemoveFails, P!In, PrepCalls, PrepPlaces, PrepInv, PrepCallFits
  <2>4. e.pc \in PrepWorking => e.job = c.job /\ PrepFits(e, d)
    BY <1>2, <1>10 DEF P!RemoveFails, P!In, PrepCalls, PrepJobs, PrepComplete, PrepFits,
           PrepWorking, P!Idle
  <2> HIDE DEF e
  <2> QED
    BY <1>2, <2>1, <2>2, <2>4, PrepCallChanges
<1> QED
  BY <1>3, <1>4, <1>5, <1>6, <1>7, <1>8, <1>9, <1>10

\* The call that failed asks the catalog, unless it knows that nothing is committed.
LEMMA PrepLooksBack ==
    ASSUME PrepInv, P!Raise \/ P!Preserve \/ P!Unanswered \/ P!CleanUp \/ P!UnlinkFails
    PROVE  PrepInv' /\ PrepStay
<1>1. pCall.pc \in PrepWorking
  BY DEF P!Raise, P!Preserve, P!Unanswered, P!CleanUp, P!UnlinkFails, P!In, PrepWorking
<1>2. PICK c \in PrepCalls, d \in PrepJobs :
         /\ c = pCall /\ d = pJob[c.job] /\ d = P!This
         /\ c.job \in 1 .. pMade /\ c.job \in P!Jobs
         /\ PrepComplete(d) /\ PrepFits(c, d) /\ pMade \in 0 .. MaxJobs /\ pMade <= pMade
  BY <1>1, PrepAtHand
<1>3. CASE P!Raise
  <2> DEFINE e == [c EXCEPT !.pc = "cleanup"]
  <2>1. pMade' = pMade /\ pCall' = e /\ pJob' = pJob
    BY <1>2, <1>3 DEF P!Raise, P!In, P!Goto, P!With, P!Set, P!Return
  <2>2. e \in PrepCalls /\ (e.pc \in {"idle", "reconcile", "remove"} => ~e.own)
    BY <1>2, <1>3, PrepIdle DEF P!Raise, P!In, PrepCalls, PrepPlaces, PrepInv, PrepCallFits
  <2>4. e.pc \in PrepWorking => e.job = c.job /\ PrepFits(e, d)
    BY <1>2, <1>3 DEF P!Raise, P!In, PrepCalls, PrepJobs, PrepComplete, PrepFits, PrepWorking,
           P!Idle
  <2> HIDE DEF e
  <2> QED
    BY <1>2, <2>1, <2>2, <2>4, PrepCallChanges
<1>4. CASE P!Preserve
  <2> DEFINE e == P!Idle
  <2>1. pMade' = pMade /\ pCall' = e /\ pJob' = pJob
    BY <1>2, <1>4 DEF P!Preserve, P!In, P!Goto, P!With, P!Set, P!Return
  <2>2. e \in PrepCalls /\ (e.pc \in {"idle", "reconcile", "remove"} => ~e.own)
    BY <1>2, <1>4, PrepIdle DEF P!Preserve, P!In, PrepCalls, PrepPlaces, PrepInv, PrepCallFits
  <2>4. e.pc \in PrepWorking => e.job = c.job /\ PrepFits(e, d)
    BY <1>2, <1>4 DEF P!Preserve, P!In, PrepCalls, PrepJobs, PrepComplete, PrepFits, PrepWorking,
           P!Idle
  <2> HIDE DEF e
  <2> QED
    BY <1>2, <2>1, <2>2, <2>4, PrepCallChanges
<1>5. CASE P!Unanswered
  <2> DEFINE e == P!Idle
  <2>1. pMade' = pMade /\ pCall' = e /\ pJob' = pJob
    BY <1>2, <1>5 DEF P!Unanswered, P!In, P!Goto, P!With, P!Set, P!Return
  <2>2. e \in PrepCalls /\ (e.pc \in {"idle", "reconcile", "remove"} => ~e.own)
    BY <1>2, <1>5, PrepIdle DEF P!Unanswered, P!In, PrepCalls, PrepPlaces, PrepInv, PrepCallFits
  <2>4. e.pc \in PrepWorking => e.job = c.job /\ PrepFits(e, d)
    BY <1>2, <1>5 DEF P!Unanswered, P!In, PrepCalls, PrepJobs, PrepComplete, PrepFits, PrepWorking,
           P!Idle
  <2> HIDE DEF e
  <2> QED
    BY <1>2, <2>1, <2>2, <2>4, PrepCallChanges
<1>6. CASE P!CleanUp
  <2> DEFINE e == [c EXCEPT !.pc = "untree"]
  <2>1. pMade' = pMade /\ pCall' = e /\ pJob' = pJob
    BY <1>2, <1>6 DEF P!CleanUp, P!In, P!Goto, P!With, P!Set, P!Return, P!CatalogState
  <2>2. e \in PrepCalls /\ (e.pc \in {"idle", "reconcile", "remove"} => ~e.own)
    BY <1>2, <1>6, PrepIdle DEF P!CleanUp, P!In, PrepCalls, PrepPlaces, PrepInv, PrepCallFits
  <2>4. e.pc \in PrepWorking => e.job = c.job /\ PrepFits(e, d)
    BY <1>2, <1>6 DEF P!CleanUp, P!In, PrepCalls, PrepJobs, PrepComplete, PrepFits, PrepWorking,
           P!Idle, P!CatalogState
  <2> HIDE DEF e
  <2> QED
    BY <1>2, <2>1, <2>2, <2>4, PrepCallChanges
<1>7. CASE P!UnlinkFails
  <2> DEFINE e == IF c.keep /\ ~c.own
                  THEN [P!Idle EXCEPT !.pc = "reconcile", !.seen = c.seen \cup {c.job}]
                  ELSE P!Idle
  <2>1. pMade' = pMade /\ pCall' = e /\ pJob' = pJob
    BY <1>2, <1>7 DEF P!UnlinkFails, P!In, P!Goto, P!With, P!Set, P!Return
  <2>2. e \in PrepCalls /\ (e.pc \in {"idle", "reconcile", "remove"} => ~e.own)
    BY <1>2, <1>7, PrepIdle DEF P!UnlinkFails, P!In, PrepCalls, PrepPlaces, PrepInv, PrepCallFits
  <2>4. e.pc \in PrepWorking => e.job = c.job /\ PrepFits(e, d)
    BY <1>2, <1>7 DEF P!UnlinkFails, P!In, PrepCalls, PrepJobs, PrepComplete, PrepFits,
           PrepWorking, P!Idle
  <2> HIDE DEF e
  <2> QED
    BY <1>2, <2>1, <2>2, <2>4, PrepCallChanges
<1> QED
  BY <1>3, <1>4, <1>5, <1>6, <1>7

\* The next call reconciles what it finds: it picks up a marked job, rolls back a
\* staging tree, or retires the row of a marker; none of it has rows that are taken away.
LEMMA PrepReconciles ==
    ASSUME PrepInv, P!Begin \/ P!Recover \/ P!RollBack \/ P!RetireRow \/ P!Refuse \/ P!Enough
    PROVE  PrepInv' /\ PrepStay
<1>1. PICK c \in PrepCalls : c = pCall
  BY DEF PrepInv, PrepTyped
<1>2. c.pc \in {"idle", "reconcile"} /\ ~c.own
  BY <1>1 DEF P!Begin, P!Recover, P!RollBack, P!RetireRow, P!Refuse, P!Enough, P!In, PrepInv,
              PrepCallFits
<1>3. pMade' = pMade /\ pMade \in 0 .. MaxJobs /\ pMade <= pMade
  BY DEF P!Begin, P!Recover, P!RollBack, P!RetireRow, P!Refuse, P!Enough, PrepInv, PrepTyped
<1>4. CASE P!Begin
  <2> DEFINE e == [c EXCEPT !.pc = "reconcile"]
  <2>1. pJob' = pJob /\ pCall' = e
    BY <1>1, <1>4 DEF P!Begin, P!Goto
  <2>2. e \in PrepCalls /\ ~e.own /\ e.pc \notin PrepWorking
    BY <1>1, <1>2 DEF PrepCalls, PrepPlaces, PrepWorking
  <2> HIDE DEF e
  <2> QED
    BY <1>3, <2>1, <2>2, PrepCallChanges
<1>5. CASE P!Refuse \/ P!Enough
  <2>1. pJob' = pJob /\ pCall' = P!Idle
    BY <1>5 DEF P!Refuse, P!Enough, P!Return
  <2> QED
    BY <1>3, <2>1, PrepIdle, PrepCallChanges DEF PrepWorking
<1>6. ASSUME P!Recover \/ P!RollBack \/ P!RetireRow PROVE P!Leftover # {}
  BY <1>6 DEF P!Recover, P!RollBack, P!RetireRow, P!Leftover
<1>7. ASSUME P!Leftover # {}
      PROVE  \E d \in PrepJobs : /\ d = pJob[P!Next1] /\ PrepComplete(d)
                                 /\ P!Next1 \in P!Leftover /\ P!Next1 \in P!Jobs
                                 /\ P!Next1 \in 1 .. pMade /\ P!Next1 \in 0 .. MaxJobs
  BY <1>3, <1>7, PrepNextHasId, BoundsAreNumbers DEF PrepInv, PrepTyped
<1>8. CASE P!Recover
  <2>1. PICK d \in PrepJobs : /\ d = pJob[P!Next1] /\ PrepComplete(d)
                              /\ P!Next1 \in P!Leftover /\ P!Next1 \in P!Jobs
                              /\ P!Next1 \in 1 .. pMade /\ P!Next1 \in 0 .. MaxJobs
    BY <1>6, <1>7, <1>8
  <2>2. d.mark /\ ~P!Contradicts(P!Next1)
    BY <1>8, <2>1 DEF P!Recover, P!Leftover, P!Marked
  <2>3. CASE d.row /\ d.staged = "none" /\ d.tree = "none"
    <3> DEFINE e == [c EXCEPT !.pc = "unlink", !.job = P!Next1]
               new == [d EXCEPT !.row = FALSE]
    <3>1. pJob' = [pJob EXCEPT ![P!Next1] = new] /\ pCall' = e
      BY <1>1, <1>8, <2>1, <2>3 DEF P!Recover, P!Take, P!Set
    <3>2. e \in PrepCalls /\ e.pc = "unlink" /\ e.job = P!Next1
      BY <2>1 DEF PrepCalls, PrepPlaces
    <3>3. PrepFits(e, new) /\ new \in PrepJobs /\ PrepComplete(new)
      BY <2>1, <2>3, <3>2 DEF PrepFits, PrepJobs, PrepComplete
    <3>4. d.rows => new.rows /\ new.tree = d.tree
      BY DEF PrepJobs
    <3> HIDE DEF e, new
    <3> QED
      BY <1>3, <2>1, <3>1, <3>2, <3>3, <3>4, PrepJobChanges
  <2>4. CASE ~(d.row /\ d.staged = "none" /\ d.tree = "none")
    <3>1. PICK at \in {"rename", "finalize", "unlink", "remove"} :
             /\ pJob' = pJob /\ pCall' = [c EXCEPT !.pc = at, !.job = P!Next1]
             /\ at = "rename" => d.row
             /\ at = "finalize" => d.staged = "none"
      BY <1>1, <1>8, <2>1, <2>4 DEF P!Recover, P!Take, PrepJobs
    <3> DEFINE e == [c EXCEPT !.pc = at, !.job = P!Next1]
    <3>2. e \in PrepCalls /\ e.pc = at /\ e.job = P!Next1 /\ ~e.own
      BY <1>2, <2>1 DEF PrepCalls, PrepPlaces
    <3>3. PrepFits(e, d)
      BY <3>1, <3>2 DEF PrepFits
    <3> HIDE DEF e
    <3>4. pCall' = e /\ pJob' = pJob
      BY <3>1 DEF e
    <3> QED
      BY <1>3, <2>1, <3>2, <3>3, <3>4, PrepCallChanges
  <2> QED
    BY <2>3, <2>4
<1>9. CASE P!RollBack
  <2>1. PICK d \in PrepJobs : /\ d = pJob[P!Next1] /\ PrepComplete(d)
                              /\ P!Next1 \in P!Leftover /\ P!Next1 \in P!Jobs
                              /\ P!Next1 \in 1 .. pMade /\ P!Next1 \in 0 .. MaxJobs
    BY <1>6, <1>7, <1>9
  <2> DEFINE e == [c EXCEPT !.pc = "remove", !.job = P!Next1]
  <2>2. e \in PrepCalls /\ e.pc = "remove" /\ e.job = P!Next1 /\ ~e.own
    BY <1>2, <2>1 DEF PrepCalls, PrepPlaces
  <2>3. PrepFits(e, d)
    BY <2>2 DEF PrepFits
  <2>4. pCall' = e /\ pJob' = pJob
    BY <1>1, <1>9 DEF P!RollBack, P!Take
  <2> HIDE DEF e
  <2> QED
    BY <1>3, <2>1, <2>2, <2>3, <2>4, PrepCallChanges
<1>10. CASE P!RetireRow
  <2>1. PICK d \in PrepJobs : /\ d = pJob[P!Next1] /\ PrepComplete(d)
                              /\ P!Next1 \in P!Leftover /\ P!Next1 \in P!Jobs
                              /\ P!Next1 \in 1 .. pMade /\ P!Next1 \in 0 .. MaxJobs
    BY <1>6, <1>7, <1>10
  <2> DEFINE new == [d EXCEPT !.row = FALSE]
  <2>2. ~d.mark /\ d.row /\ ~P!Contradicts(P!Next1)
    BY <1>10, <2>1 DEF P!RetireRow, P!Leftover, P!Rowed
  <2>3. d.tree = "none"
    BY <2>1, <2>2 DEF P!Contradicts
  <2>4. new \in PrepJobs /\ PrepComplete(new) /\ (d.rows => new.rows /\ new.tree = d.tree)
    BY <2>1, <2>3 DEF PrepJobs, PrepComplete
  <2>5. pJob' = [pJob EXCEPT ![P!Next1] = new] /\ pCall' = c
    BY <1>1, <1>10, <2>1 DEF P!RetireRow, P!Set
  <2>6. c.pc \notin PrepWorking
    BY <1>2 DEF PrepWorking
  <2> HIDE DEF new
  <2> QED
    BY <1>1, <1>2, <1>3, <2>1, <2>4, <2>5, <2>6, PrepJobChanges
<1> QED
  BY <1>4, <1>5, <1>8, <1>9, <1>10

\* A new job has the next id.
LEMMA PrepStages == ASSUME PrepInv, P!Stage PROVE PrepInv' /\ PrepStay
<1> DEFINE k == pMade + 1
           new == [P!NoTree EXCEPT !.staged = "part"]
           e == [P!Idle EXCEPT !.pc = "build", !.job = k, !.own = TRUE]
<1>1. /\ pMade' = k /\ pMade \in 0 .. MaxJobs /\ pMade < MaxJobs
      /\ pJob' = [pJob EXCEPT ![k] = new] /\ pCall' = e
  BY DEF P!Stage, P!Set, PrepInv, PrepTyped
<1>2. k \in 1 .. k /\ k \in 0 .. MaxJobs /\ pMade <= k /\ k \in P!Jobs /\ k > pMade
  BY <1>1, BoundsAreNumbers DEF P!Jobs
<1>3. new \in PrepJobs /\ PrepComplete(new) /\ ~new.rows
  BY DEF P!NoTree, PrepJobs, PrepComplete, P!Trees
<1>4. ~pJob[k].rows
  BY <1>2 DEF PrepInv, PrepUntouched
<1>5. e \in PrepCalls /\ e.pc = "build" /\ e.job = k /\ e.own
  BY <1>2, PrepIdle DEF PrepCalls, PrepPlaces
<1>6. PrepFits(e, new)
  BY <1>3, <1>5 DEF PrepFits
<1> HIDE DEF k, new, e
<1> QED
  BY <1>1, <1>2, <1>3, <1>4, <1>5, <1>6, PrepJobChanges

\* A commit that raises leaves the job as it was, or with all its rows.
LEMMA PrepCommitFails == ASSUME PrepInv, P!CommitFails PROVE PrepInv' /\ PrepStay
<1>1. pCall.pc \in PrepWorking
  BY DEF P!CommitFails, P!In, PrepWorking
<1>2. PICK c \in PrepCalls, d \in PrepJobs :
         /\ c = pCall /\ d = pJob[c.job] /\ d = P!This
         /\ c.job \in 1 .. pMade /\ c.job \in P!Jobs
         /\ PrepComplete(d) /\ PrepFits(c, d) /\ pMade \in 0 .. MaxJobs /\ pMade <= pMade
  BY <1>1, PrepAtHand
<1>3. PICK new \in {d, [d EXCEPT !.rows = TRUE, !.row = FALSE]}, answers \in BOOLEAN :
         /\ pJob' = [pJob EXCEPT ![c.job] = new] /\ pMade' = pMade
         /\ pCall' = IF P!Raised = "idle" THEN P!Idle
                     ELSE [c EXCEPT !.pc = P!Raised,
                              !.keep = ~answers \/ P!CatalogState(new) # "uncommitted"]
         /\ c.pc = "finalize" /\ d.tree = "full"
  BY <1>2 DEF P!CommitFails, P!With, P!Set, P!In, P!Published
<1>4. new \in PrepJobs /\ PrepComplete(new) /\ (d.rows => new.rows /\ new.tree = d.tree)
  BY <1>2, <1>3 DEF PrepJobs, PrepComplete, PrepFits
<1>5. PICK e \in PrepCalls :
         /\ pCall' = e
         /\ e.pc \in {"idle", "reverse", "cleanup"} /\ (e.pc = "idle" => ~e.own)
         /\ e.pc \in PrepWorking => e.job = c.job
         /\ e.pc = "cleanup" => c.own /\ e.known = c.known
  <2>1. CASE P!Raised = "idle"
    BY <1>3, <2>1, PrepIdle DEF PrepWorking
  <2>2. CASE P!Raised # "idle"
    <3>1. P!Raised \in {"reverse", "cleanup"} /\ (P!Raised = "cleanup" => c.own)
      BY <1>2, <2>2 DEF P!Raised
    <3>2. PICK at \in {"reverse", "cleanup"} : at = P!Raised
      BY <3>1
    <3>3. PICK b \in BOOLEAN : b = (~answers \/ P!CatalogState(new) # "uncommitted")
      OBVIOUS
    <3>4. pCall' = [c EXCEPT !.pc = at, !.keep = b]
      BY <1>3, <2>2, <3>2, <3>3
    <3> DEFINE e == [c EXCEPT !.pc = at, !.keep = b]
    <3>5. e \in PrepCalls /\ e.pc = at /\ e.job = c.job /\ e.own = c.own /\ e.known = c.known
      BY DEF PrepCalls, PrepPlaces
    <3> HIDE DEF e
    <3>6. pCall' = e
      BY <3>4 DEF e
    <3> QED
      BY <3>1, <3>2, <3>5, <3>6
  <2> QED
    BY <2>1, <2>2
<1>6. e.pc \in PrepWorking => e.job = c.job /\ PrepFits(e, new)
  BY <1>2, <1>3, <1>5 DEF PrepFits
<1> QED
  BY <1>2, <1>3, <1>4, <1>5, <1>6, PrepJobChanges

\* A death leaves everything as it is; what is cleared away by hand has no rows.
LEMMA PrepDies == ASSUME PrepInv, P!Die \/ P!LoseTmp PROVE PrepInv' /\ PrepStay
<1>1. CASE P!Die
  <2>1. pJob' = pJob /\ pMade' = pMade /\ pCall' = P!Idle
    BY <1>1 DEF P!Die, P!Return
  <2> QED
    BY <2>1, PrepIdle, PrepCallChanges DEF PrepWorking
<1>2. CASE P!LoseTmp
  <2>1. /\ pJob' = [j \in P!Jobs |-> [pJob[j] EXCEPT !.staged = "none", !.mark = FALSE]]
        /\ pMade' = pMade /\ pCall' = pCall /\ pCall.pc = "idle"
    BY <1>2 DEF P!LoseTmp, P!In
  <2>2. ASSUME NEW j \in P!Jobs
        PROVE  /\ pJob'[j] \in PrepJobs /\ PrepComplete(pJob'[j])
               /\ j > pMade => PrepUntouched(pJob'[j])
               /\ pJob[j].rows => pJob'[j].rows /\ pJob'[j].tree = pJob[j].tree
    <3>1. PICK d \in PrepJobs : d = pJob[j] /\ PrepComplete(d) /\ (j > pMade => PrepUntouched(d))
      BY DEF PrepInv, PrepTyped
    <3>2. pJob'[j] = [d EXCEPT !.staged = "none", !.mark = FALSE]
      BY <2>1, <3>1
    <3> QED
      BY <3>1, <3>2 DEF PrepJobs, PrepComplete, PrepUntouched, P!Trees
  <2>3. PrepTyped'
    <3>1. pJob' \in [P!Jobs -> PrepJobs]
      BY <2>1, <2>2
    <3> QED
      BY <2>1, <3>1 DEF PrepInv, PrepTyped
  <2>4. PrepCallFits'
    BY <2>1 DEF PrepInv, PrepCallFits, PrepWorking
  <2> QED
    BY <2>1, <2>2, <2>3, <2>4 DEF PrepInv, PrepStay
<1> QED
  BY <1>1, <1>2

LEMMA PrepNext == ASSUME PrepInv, P!Next PROVE PrepInv' /\ PrepStay
  BY PrepBuilds, PrepPublishes, PrepRemoves, PrepLooksBack, PrepReconciles, PrepStages,
     PrepCommitFails, PrepDies
     DEF P!Next, P!Step, P!Failure, P!Reconcile, P!Publish, P!Cleanup

LEMMA PrepStutters == ASSUME PrepInv, UNCHANGED pVars PROVE PrepInv' /\ PrepStay
  BY DEF PrepInv, PrepTyped, PrepCallFits, PrepStay, pVars

LEMMA PrepOpen == PrepInv => P!OpenIsWhole
  BY DEF PrepInv, P!OpenIsWhole, PrepComplete

-----------------------------------------------------------------------------
(* Snapshots and their retention.                                           *)

SnFiles == {"catalog", "cards", "receipts", "jobs", "key", "manifest", "staging"}
SnAside == {"intent"} \cup {S!QuarantineOrder[i] : i \in 1 .. 7}
SnRecords ==
    [used : BOOLEAN, out : SUBSET SnFiles, aside : SUBSET SnAside, intent : BOOLEAN,
     row : BOOLEAN, catalog : Nat, cards : Nat]
SnTaking == {"copy", "verify", "intend", "publish", "commit"}
SnSteps ==
    SnTaking \cup {"idle", "reconcile", "sync", "check", "unintend", "cleanup", "unstage",
                   "look", "retire", "forget"}
SnTaken == 0 .. MaxSnapshots
SnPlaces == 1 .. 6
SnCalls ==
    [pc : SnSteps, id : SnTaken, step : SnPlaces, todo : SUBSET S!Ids,
     retired : SUBSET S!Ids]

SnTyped ==
    /\ sSnap \in [S!Ids -> SnRecords] /\ sLive \in [catalog : Nat, cards : Nat]
    /\ sCall \in SnCalls /\ sPinned \in SUBSET S!Ids /\ sLate \in SUBSET S!Ids
    /\ sTorn \in SUBSET S!Ids

\* Snapshots are numbered as they are made; what has a row or is cited was made.
SnMade(sn, pin) ==
    /\ \E n \in 0 .. MaxSnapshots : \A k \in S!Ids : sn[k].used <=> k <= n
    /\ \A k \in S!Ids : sn[k].row \/ k \in pin => sn[k].used

\* The snapshot a call is taking has no row; one it cleans up has none unless the
\* commit raised, and retention is at work only in its own steps.
SnCall(sn, pin, tn, c) ==
    /\ c.pc \in SnTaking \cup {"cleanup", "unintend", "unstage", "look"} => c.id \in S!Ids
    /\ c.pc \in SnTaking => sn[c.id].used /\ ~sn[c.id].row /\ c.id \notin pin
    /\ c.pc \in {"intend", "publish", "commit"} => sn[c.id].catalog = sn[c.id].cards
    /\ c.pc \in {"publish", "commit"} =>
          \A i \in 1 .. 6 : i < c.step \/ c.pc = "commit" => S!PublishOrder[i] \in sn[c.id].out
    /\ c.pc = "cleanup" => (sn[c.id].row \/ c.id \in pin => c.id \in tn)
    /\ c.todo \subseteq c.retired
    /\ c.retired # {} => c.pc \in {"retire", "forget", "unstage"}
    /\ c.pc \in {"retire", "forget"} => c.id \in S!Ids

SnBound(sn) == {k \in S!Ids : sn[k].row /\ "catalog" \in sn[k].out}
SnGoing(c) == c.retired \cup (IF c.pc = "cleanup" THEN {c.id} ELSE {})
SnStaying(sn, c) == SnBound(sn) \ SnGoing(c)
SnNewer(ks, k) == {j \in ks : j > k}
SnWhole(d) == S!Parts \subseteq d.out /\ d.catalog = d.cards
SnBroken(sn, tn, k) == sn[k].row /\ k \notin tn /\ ~SnWhole(sn[k])

\* What is broken or being retired has newer ones enough that stay.
SnKept(sn, tn, c) ==
    \A k \in S!Ids : SnBroken(sn, tn, k) \/ k \in c.retired =>
        Cardinality(SnNewer(SnStaying(sn, c), k)) >= Keep

\* Retention does not touch what was cited before it chose, and a cited catalog has its row.
SnCited(sn, pin, lt, tn, c) ==
    \A k \in pin : /\ k \in c.retired => k \in lt
                   /\ k \notin lt \cup tn /\ "catalog" \in sn[k].out => sn[k].row

SnFacts(sn, pin, lt, tn, c) ==
    /\ SnMade(sn, pin) /\ SnCall(sn, pin, tn, c) /\ SnKept(sn, tn, c)
    /\ SnCited(sn, pin, lt, tn, c)
SnInv == SnTyped /\ SnFacts(sSnap, sPinned, sLate, sTorn, sCall)

\* The catalog of a cited snapshot stays.
SnStay ==
    \A k \in sPinned \ (sLate \cup sTorn) : S!HasCatalog(k) => "catalog" \in sSnap'[k].out

LEMMA SnOrders ==
    /\ \A i \in 1 .. 6 : S!PublishOrder[i] \in SnFiles
    /\ "staging" \notin S!Parts /\ "staging" # "catalog"
<1>1. \A i \in 1 .. 6 : i = 1 \/ i = 2 \/ i = 3 \/ i = 4 \/ i = 5 \/ i = 6
  OBVIOUS
<1>2. /\ S!PublishOrder[1] = "catalog" /\ S!PublishOrder[2] = "cards"
      /\ S!PublishOrder[3] = "receipts" /\ S!PublishOrder[4] = "jobs"
      /\ S!PublishOrder[5] = "key" /\ S!PublishOrder[6] = "manifest"
  BY DEF S!PublishOrder
<1>3. \A i \in 1 .. 6 : S!PublishOrder[i] \in SnFiles \ {"staging"}
  BY <1>1, <1>2 DEF SnFiles
<1> QED
  BY <1>3 DEF S!Parts

LEMMA SnInit == S!Init => SnInv
<1> SUFFICES ASSUME S!Init PROVE SnInv
  OBVIOUS
<1>1. MaxSnapshots \in Nat /\ 0 \in 0 .. MaxSnapshots /\ \A k \in S!Ids : k \in Nat /\ k > 0
  BY BoundsAreNumbers DEF S!Ids
<1>2. S!NoSnapshot \in SnRecords /\ ~S!NoSnapshot.used /\ ~S!NoSnapshot.row
  BY DEF S!NoSnapshot, SnRecords
<1>3. S!Idle \in SnCalls /\ S!Idle.pc = "idle" /\ S!Idle.todo = {} /\ S!Idle.retired = {}
  BY <1>1 DEF S!Idle, SnCalls, SnSteps, SnTaken, SnPlaces
<1>4. /\ sSnap \in [S!Ids -> SnRecords] /\ \A k \in S!Ids : sSnap[k] = S!NoSnapshot
      /\ sLive \in [catalog : Nat, cards : Nat]
      /\ sCall = S!Idle /\ sPinned = {} /\ sLate = {} /\ sTorn = {}
  BY <1>2 DEF S!Init
<1>5. SnTyped
  BY <1>3, <1>4 DEF SnTyped
<1>6. SnMade(sSnap, sPinned)
  BY <1>1, <1>2, <1>4 DEF SnMade
<1>7. SnCall(sSnap, sPinned, sTorn, sCall)
  BY <1>3, <1>4 DEF SnCall, SnTaking
<1>8. SnKept(sSnap, sTorn, sCall)
  BY <1>2, <1>3, <1>4 DEF SnKept, SnBroken
<1>9. SnCited(sSnap, sPinned, sLate, sTorn, sCall)
  BY <1>4 DEF SnCited
<1> QED
  BY <1>5, <1>6, <1>7, <1>8, <1>9 DEF SnInv, SnFacts

\* What is known before a step.
LEMMA SnAt ==
    ASSUME SnInv
    PROVE  \E sn \in [S!Ids -> SnRecords], c \in SnCalls, pin \in SUBSET S!Ids,
              lt \in SUBSET S!Ids, tn \in SUBSET S!Ids :
               /\ sn = sSnap /\ c = sCall /\ pin = sPinned /\ lt = sLate /\ tn = sTorn
               /\ SnMade(sn, pin) /\ SnCall(sn, pin, tn, c) /\ SnKept(sn, tn, c)
               /\ SnCited(sn, pin, lt, tn, c) /\ SnTyped
  BY DEF SnInv, SnTyped, SnFacts

\* What is known after it.
LEMMA SnAfter ==
    ASSUME NEW sn \in [S!Ids -> SnRecords], sSnap' = sn, NEW c \in SnCalls, sCall' = c,
           NEW pin \in SUBSET S!Ids, sPinned' = pin, NEW lt \in SUBSET S!Ids, sLate' = lt,
           NEW tn \in SUBSET S!Ids, sTorn' = tn, sLive' \in [catalog : Nat, cards : Nat],
           SnMade(sn, pin), SnCall(sn, pin, tn, c), SnKept(sn, tn, c),
           SnCited(sn, pin, lt, tn, c)
    PROVE  SnInv'
  BY DEF SnInv, SnTyped, SnFacts

\* Of fewer there are fewer newer ones.
LEMMA SnMoreAreNewer ==
    ASSUME NEW ks \in SUBSET S!Ids, NEW js \in SUBSET ks, NEW k \in S!Ids
    PROVE  /\ Cardinality(SnNewer(js, k)) \in Nat /\ Cardinality(SnNewer(ks, k)) \in Nat
           /\ Cardinality(SnNewer(js, k)) <= Cardinality(SnNewer(ks, k))
<1>1. IsFiniteSet(S!Ids)
  <2>1. MaxSnapshots \in Nat
    BY BoundsAreNumbers
  <2> QED
    BY <2>1, FS_Interval DEF S!Ids
<1>2. SnNewer(ks, k) \in SUBSET S!Ids /\ SnNewer(js, k) \in SUBSET SnNewer(ks, k)
  BY DEF SnNewer
<1>3. IsFiniteSet(SnNewer(ks, k))
  BY <1>1, <1>2, FS_Subset
<1> QED
  BY <1>2, <1>3, FS_Subset, FS_CardinalityType

\* The newest ones of a set are as many as it has beside an older one.
LEMMA SnNewest ==
    ASSUME NEW ks \in SUBSET S!Ids, NEW js \in SUBSET ks, NEW k \in ks,
           Cardinality(SnNewer(ks, k)) >= Keep,
           \A j \in ks : Cardinality(SnNewer(ks, j)) < Keep => j \in js
    PROVE  Cardinality(SnNewer(js, k)) >= Keep
<1>1. MaxSnapshots \in Nat /\ Keep \in Nat
  BY BoundsAreNumbers
<1> DEFINE old == {j \in ks : Cardinality(SnNewer(ks, j)) >= Keep}
<1>2. old \in SUBSET (0 .. MaxSnapshots) /\ old # {}
  <2>1. \A j \in S!Ids : j \in 0 .. MaxSnapshots
    BY <1>1 DEF S!Ids
  <2> QED
    BY <2>1
<1>3. PICK m \in old : \A j \in old : j <= m
  <2> HIDE DEF old
  <2> QED
    BY <1>1, <1>2, GreatestNatural
<1>4. m \in S!Ids /\ k \in S!Ids /\ k <= m /\ \A j \in ks : j \in Int
  BY <1>1, <1>3 DEF S!Ids
<1>5. SnNewer(ks, m) \subseteq SnNewer(js, k)
  <2> SUFFICES ASSUME NEW j \in ks, j > m PROVE j \in js /\ j > k
    BY DEF SnNewer
  <2>1. ~(j <= m) /\ j > k
    BY <1>1, <1>4 DEF S!Ids
  <2>2. ~(Cardinality(SnNewer(ks, j)) >= Keep)
    BY <1>3, <2>1
  <2>3. Cardinality(SnNewer(ks, j)) \in Nat
    BY SnMoreAreNewer
  <2> QED
    BY <1>1, <2>1, <2>2, <2>3
<1>6. IsFiniteSet(SnNewer(js, k))
  <2>1. IsFiniteSet(S!Ids)
    BY <1>1, FS_Interval DEF S!Ids
  <2> QED
    BY <2>1, FS_Subset DEF SnNewer
<1>7. Cardinality(SnNewer(ks, m)) <= Cardinality(SnNewer(js, k))
  BY <1>5, <1>6, FS_Subset
<1>8. Cardinality(SnNewer(ks, m)) \in Nat /\ Cardinality(SnNewer(js, k)) \in Nat
  BY <1>4, SnMoreAreNewer
<1> QED
  BY <1>1, <1>3, <1>7, <1>8

\* So it is beside one that need not be of the set.
LEMMA SnNewestOf ==
    ASSUME NEW ks \in SUBSET S!Ids, NEW js \in SUBSET ks, NEW k \in S!Ids,
           Cardinality(SnNewer(ks, k)) >= Keep,
           \A j \in ks : Cardinality(SnNewer(ks, j)) < Keep => j \in js
    PROVE  Cardinality(SnNewer(js, k)) >= Keep
<1>1. MaxSnapshots \in Nat /\ Keep \in Nat
  BY BoundsAreNumbers
<1>2. IsFiniteSet(SnNewer(js, k))
  <2>1. IsFiniteSet(S!Ids)
    BY <1>1, FS_Interval DEF S!Ids
  <2> QED
    BY <2>1, FS_Subset DEF SnNewer
<1>3. \A j \in ks : Cardinality(SnNewer(ks, j)) \in Nat /\ Cardinality(SnNewer(js, j)) \in Nat
  BY SnMoreAreNewer
<1>4. Cardinality(SnNewer(ks, k)) \in Nat /\ Cardinality(SnNewer(js, k)) \in Nat
  BY SnMoreAreNewer
<1>5. CASE \A j \in SnNewer(ks, k) : j \in js
  <2>1. SnNewer(ks, k) \subseteq SnNewer(js, k)
    BY <1>5 DEF SnNewer
  <2>2. Cardinality(SnNewer(ks, k)) <= Cardinality(SnNewer(js, k))
    BY <1>2, <2>1, FS_Subset
  <2> QED
    BY <1>1, <1>4, <2>2
<1>6. CASE \E j \in SnNewer(ks, k) : j \notin js
  <2>1. PICK j \in ks : j > k /\ j \notin js
    BY <1>6 DEF SnNewer
  <2>2. Cardinality(SnNewer(ks, j)) >= Keep
    BY <1>1, <1>3, <2>1
  <2>3. Cardinality(SnNewer(js, j)) >= Keep
    BY <2>2, SnNewest
  <2>4. SnNewer(js, j) \subseteq SnNewer(js, k)
    <3>1. j \in Int /\ k \in Int /\ \A i \in js : i \in Int
      BY <1>1 DEF S!Ids
    <3>2. \A i \in js : i > j => i > k
      BY <2>1, <3>1
    <3> QED
      BY <3>2 DEF SnNewer
  <2>5. Cardinality(SnNewer(js, j)) <= Cardinality(SnNewer(js, k))
    BY <1>2, <2>4, FS_Subset
  <2> QED
    BY <1>1, <1>3, <1>4, <2>3, <2>5
<1> QED
  BY <1>5, <1>6

\* While what stays goes on to stay, nothing else may break.
LEMMA SnStillKept ==
    ASSUME NEW sn, NEW n, NEW tn, NEW tm, NEW c, NEW e, SnKept(sn, tn, c),
           SnStaying(sn, c) \subseteq SnStaying(n, e),
           \A k \in S!Ids : SnBroken(n, tm, k) \/ k \in e.retired =>
                                SnBroken(sn, tn, k) \/ k \in c.retired
    PROVE  SnKept(n, tm, e)
<1> SUFFICES ASSUME NEW k \in S!Ids, SnBroken(n, tm, k) \/ k \in e.retired
             PROVE  Cardinality(SnNewer(SnStaying(n, e), k)) >= Keep
  BY DEF SnKept
<1>1. Cardinality(SnNewer(SnStaying(sn, c), k)) >= Keep
  BY DEF SnKept
<1>2. SnStaying(n, e) \in SUBSET S!Ids /\ SnStaying(sn, c) \in SUBSET SnStaying(n, e)
  BY DEF SnStaying, SnBound
<1>3. /\ Cardinality(SnNewer(SnStaying(sn, c), k)) \in Nat
      /\ Cardinality(SnNewer(SnStaying(n, e), k)) \in Nat
      /\ Cardinality(SnNewer(SnStaying(sn, c), k)) <= Cardinality(SnNewer(SnStaying(n, e), k))
  BY <1>2, SnMoreAreNewer
<1>4. Keep \in Nat
  BY BoundsAreNumbers
<1> QED
  BY <1>1, <1>3, <1>4

\* A step of a call, or its death, that touches no snapshot.
LEMMA SnGoesOn ==
    ASSUME SnInv, NEW e \in SnCalls, sCall' = e,
           UNCHANGED <<sSnap, sPinned, sLate, sTorn>>,
           sLive' \in [catalog : Nat, cards : Nat],
           SnCall(sSnap, sPinned, sTorn, e), e.retired \subseteq sCall.retired,
           e.pc = "cleanup" => (sCall.pc = "cleanup" /\ e.id = sCall.id) \/ ~sSnap[e.id].row
    PROVE  SnInv' /\ SnStay
<1>1. PICK sn \in [S!Ids -> SnRecords], c \in SnCalls, pin \in SUBSET S!Ids,
           lt \in SUBSET S!Ids, tn \in SUBSET S!Ids :
          /\ sn = sSnap /\ c = sCall /\ pin = sPinned /\ lt = sLate /\ tn = sTorn
          /\ SnMade(sn, pin) /\ SnCall(sn, pin, tn, c) /\ SnKept(sn, tn, c)
          /\ SnCited(sn, pin, lt, tn, c) /\ SnTyped
  BY SnAt
<1>2. SnStaying(sn, c) \subseteq SnStaying(sn, e)
  BY <1>1 DEF SnStaying, SnGoing, SnBound
<1>3. SnKept(sn, tn, e)
  <2>1. \A k \in S!Ids : SnBroken(sn, tn, k) \/ k \in e.retired =>
                             SnBroken(sn, tn, k) \/ k \in c.retired
    BY <1>1
  <2> QED
    BY <1>1, <1>2, <2>1, SnStillKept
<1>4. SnCited(sn, pin, lt, tn, e)
  BY <1>1 DEF SnCited
<1>5. SnStay
  BY <1>1 DEF SnStay, S!HasCatalog
<1>6. SnCall(sn, pin, tn, e)
  BY <1>1
<1>7. sSnap' = sn /\ sPinned' = pin /\ sLate' = lt /\ sTorn' = tn
  BY <1>1
<1> QED
  BY <1>1, <1>3, <1>4, <1>5, <1>6, <1>7, SnAfter

\* The steps of a call that touch no snapshot, its failures and its death.
LEMMA SnPasses ==
    ASSUME SnInv, S!Begin \/ S!Unavailable \/ S!Reconciled \/ S!Verify \/ S!Fail
                    \/ S!UnintendFails \/ S!Die \/ S!Sync
    PROVE  SnInv' /\ SnStay
<1>1. PICK c \in SnCalls : c = sCall
  BY DEF SnInv, SnTyped
<1>2. SnCall(sSnap, sPinned, sTorn, c)
  BY <1>1 DEF SnInv, SnFacts
<1>3. UNCHANGED <<sSnap, sPinned, sLate, sTorn>>
  BY DEF S!Begin, S!Unavailable, S!Reconciled, S!Verify, S!Fail, S!UnintendFails, S!Die, S!Sync,
         S!outside, S!NoFault
<1>4. sLive' \in [catalog : Nat, cards : Nat]
  BY DEF SnInv, SnTyped, S!Begin, S!Unavailable, S!Reconciled, S!Verify, S!Fail, S!UnintendFails,
         S!Die, S!Sync, S!outside
<1>5. /\ S!Idle \in SnCalls /\ S!Idle.pc = "idle" /\ S!Idle.todo = {} /\ S!Idle.retired = {}
  BY BoundsAreNumbers DEF S!Idle, SnCalls, SnSteps, SnTaken, SnPlaces
<1>6. CASE sCall' = S!Idle
  <2>1. SnCall(sSnap, sPinned, sTorn, S!Idle)
    BY <1>5 DEF SnCall, SnTaking
  <2> QED
    BY <1>3, <1>4, <1>5, <1>6, <2>1, SnGoesOn
<1>7. CASE sCall' # S!Idle
  <2>1. PICK at \in SnSteps :
           /\ sCall' = [c EXCEPT !.pc = at, !.step = 1]
           /\ \/ at = "reconcile" /\ c.pc = "idle"
              \/ at = "unstage" /\ c.pc = "reconcile" /\ c.id # 0
              \/ at = "unstage" /\ c.pc = "unintend"
              \/ at = "sync" /\ c.pc = "reconcile"
              \/ at = "look" /\ c.pc = "reconcile" /\ c.id # 0
              \/ at = "intend" /\ c.pc = "verify" /\ S!Agrees(sSnap[c.id])
              \/ at = "cleanup" /\ c.pc \in {"copy", "verify", "intend", "publish"}
              \/ at = "check" /\ c.pc = "sync"
    BY <1>1, <1>7 DEF SnSteps, SnTaking, S!Begin, S!Unavailable, S!Reconciled, S!Verify, S!Fail,
         S!UnintendFails, S!Die, S!Sync, S!In, S!Goto, S!Leave, S!This
  <2> DEFINE e == [c EXCEPT !.pc = at, !.step = 1]
  <2>2. /\ e \in SnCalls /\ e.pc = at /\ e.step = 1 /\ e.id = c.id /\ e.todo = c.todo
        /\ e.retired = c.retired
    <3>1. 1 \in SnPlaces
      BY DEF SnPlaces
    <3> QED
      BY <3>1 DEF SnCalls
  <2>3. sCall' = e
    BY <2>1
  <2> HIDE DEF e
  <2>4. c.id # 0 => c.id \in S!Ids
    BY BoundsAreNumbers DEF SnCalls, S!Ids, SnTaken
  <2>5. c.retired = {}
    BY <1>2, <2>1 DEF SnCall
  <2>6. SnCall(sSnap, sPinned, sTorn, e)
    BY <1>2, <2>1, <2>2, <2>4, <2>5 DEF SnCall, SnTaking, S!Agrees
  <2>7. e.pc = "cleanup" => ~sSnap[e.id].row
    BY <1>2, <2>1, <2>2 DEF SnCall, SnTaking
  <2>8. e.retired \subseteq sCall.retired
    BY <1>1, <2>2
  <2> QED
    BY <1>3, <1>4, <2>2, <2>3, <2>6, <2>7, <2>8, SnGoesOn
<1> QED
  BY <1>6, <1>7

LEMMA SnSameCount == \A ks : S!Cardinality(ks) = Cardinality(ks)
  BY DEF S!Cardinality, Cardinality

\* Retention chooses among what is bound, and keeps the newest.
LEMMA SnLooks == ASSUME SnInv, S!Look PROVE SnInv' /\ SnStay
<1>1. PICK sn \in [S!Ids -> SnRecords], c \in SnCalls, pin \in SUBSET S!Ids,
           lt \in SUBSET S!Ids, tn \in SUBSET S!Ids :
          /\ sn = sSnap /\ c = sCall /\ pin = sPinned /\ lt = sLate /\ tn = sTorn
          /\ SnMade(sn, pin) /\ SnCall(sn, pin, tn, c) /\ SnKept(sn, tn, c)
          /\ SnCited(sn, pin, lt, tn, c) /\ SnTyped
  BY SnAt
<1>2. PICK doomed \in {{}, S!Doomed} :
         /\ sCall' = [c EXCEPT !.pc = "retire", !.step = 1, !.todo = doomed, !.retired = doomed]
         /\ c.pc = "look"
         /\ sSnap' = sn /\ sPinned' = pin /\ sLate' = lt /\ sTorn' = tn /\ sLive' = sLive
  BY <1>1 DEF S!Look, S!In, S!outside, S!NoFault
<1> DEFINE ks == SnBound(sn)
<1>3. /\ \A k \in doomed : /\ k \in ks /\ k \notin pin
                           /\ Cardinality(SnNewer(ks, k)) >= Keep
  <2>1. S!Doomed = {k \in ks : Cardinality(SnNewer(ks, k)) >= Keep} \ pin
    <3>1. S!Doomed = {k \in ks : S!Cardinality(SnNewer(ks, k)) >= Keep} \ pin
      BY <1>1 DEF S!Doomed, S!HasCatalog, SnBound, SnNewer
    <3>2. \A k \in ks : S!Cardinality(SnNewer(ks, k)) = Cardinality(SnNewer(ks, k))
      BY SnSameCount
    <3> HIDE DEF ks
    <3> QED
      BY <3>1, <3>2
  <2> QED
    BY <1>2, <2>1
<1> DEFINE e == [c EXCEPT !.pc = "retire", !.step = 1, !.todo = doomed, !.retired = doomed]
<1>4. doomed \in SUBSET S!Ids
  BY <1>3 DEF SnBound
<1>5. /\ e \in SnCalls /\ e.pc = "retire" /\ e.id = c.id /\ e.todo = doomed
      /\ e.retired = doomed
  <2>1. 1 \in SnPlaces /\ "retire" \in SnSteps
    BY DEF SnPlaces, SnSteps
  <2> QED
    BY <1>4, <2>1 DEF SnCalls
<1>6. sCall' = e
  BY <1>2
<1> HIDE DEF e
<1>7. SnStaying(sn, c) = ks /\ SnStaying(sn, e) = ks \ doomed
  BY <1>1, <1>2, <1>5 DEF SnStaying, SnGoing, SnCall
<1>8. SnKept(sn, tn, e)
  <2> SUFFICES ASSUME NEW k \in S!Ids, SnBroken(sn, tn, k) \/ k \in doomed
               PROVE  Cardinality(SnNewer(ks \ doomed, k)) >= Keep
    BY <1>5, <1>7 DEF SnKept
  <2>1. Cardinality(SnNewer(ks, k)) >= Keep
    BY <1>1, <1>3, <1>7 DEF SnKept
  <2>2. ks \in SUBSET S!Ids /\ ks \ doomed \in SUBSET ks
    BY DEF SnBound
  <2>3. \A j \in ks : Cardinality(SnNewer(ks, j)) < Keep => j \in ks \ doomed
    <3> SUFFICES ASSUME NEW j \in ks, Cardinality(SnNewer(ks, j)) < Keep, j \in doomed
                 PROVE  FALSE
      OBVIOUS
    <3>1. Cardinality(SnNewer(ks, j)) \in Nat /\ Keep \in Nat
      BY <2>2, SnMoreAreNewer, BoundsAreNumbers
    <3>2. Cardinality(SnNewer(ks, j)) >= Keep
      BY <1>3
    <3> QED
      BY <3>1, <3>2
  <2> HIDE DEF ks
  <2> QED
    BY <2>1, <2>2, <2>3, SnNewestOf
<1>9. SnCited(sn, pin, lt, tn, e)
  BY <1>1, <1>3, <1>5 DEF SnCited
<1>10. SnCall(sn, pin, tn, e)
  BY <1>1, <1>2, <1>5 DEF SnCall, SnTaking
<1>11. SnStay
  BY <1>1, <1>2 DEF SnStay, S!HasCatalog
<1> QED
  BY <1>1, <1>2, <1>5, <1>6, <1>8, <1>9, <1>10, <1>11, SnAfter DEF SnTyped

\* One snapshot is written, and what stays goes on to stay.
SnFits(k, d, c, e, tm) ==
    /\ e.retired \subseteq c.retired
    /\ k \in SnStaying(sSnap, c) => d.row /\ "catalog" \in d.out
    /\ e.pc = "cleanup" => e.id \notin SnStaying(sSnap, c)
    /\ d.row /\ k \notin tm /\ ~SnWhole(d) => SnBroken(sSnap, sTorn, k) \/ k \in c.retired
    /\ k \in sPinned /\ k \notin sLate \cup sTorn =>
          /\ "catalog" \in sSnap[k].out => "catalog" \in d.out
          /\ "catalog" \in d.out => d.row

LEMMA SnSets ==
    ASSUME SnInv, NEW k \in S!Ids, NEW d \in SnRecords, sSnap' = [sSnap EXCEPT ![k] = d],
           NEW e \in SnCalls, sCall' = e, UNCHANGED <<sPinned, sLate>>,
           sLive' \in [catalog : Nat, cards : Nat],
           NEW tm \in SUBSET S!Ids, sTorn' = tm, sTorn \subseteq tm,
           SnFits(k, d, sCall, e, tm),
           SnMade(sSnap', sPinned), SnCall(sSnap', sPinned, tm, e)
    PROVE  SnInv' /\ SnStay
<1>1. PICK sn \in [S!Ids -> SnRecords], c \in SnCalls, pin \in SUBSET S!Ids,
           lt \in SUBSET S!Ids, tn \in SUBSET S!Ids :
          /\ sn = sSnap /\ c = sCall /\ pin = sPinned /\ lt = sLate /\ tn = sTorn
          /\ SnMade(sn, pin) /\ SnCall(sn, pin, tn, c) /\ SnKept(sn, tn, c)
          /\ SnCited(sn, pin, lt, tn, c) /\ SnTyped
  BY SnAt
<1>2. /\ e.retired \subseteq c.retired
      /\ k \in SnStaying(sn, c) => d.row /\ "catalog" \in d.out
      /\ e.pc = "cleanup" => e.id \notin SnStaying(sn, c)
      /\ d.row /\ k \notin tm /\ ~SnWhole(d) => SnBroken(sn, tn, k) \/ k \in c.retired
      /\ k \in pin /\ k \notin lt \cup tn =>
            /\ "catalog" \in sn[k].out => "catalog" \in d.out
            /\ "catalog" \in d.out => d.row
  BY <1>1 DEF SnFits
<1> DEFINE n == [sn EXCEPT ![k] = d]
<1>3. /\ n \in [S!Ids -> SnRecords]
      /\ \A j \in S!Ids : n[j] = IF j = k THEN d ELSE sn[j]
  OBVIOUS
<1>4. sSnap' = n
  BY <1>1
<1> HIDE DEF n
<1>5. SnStaying(sn, c) \subseteq SnStaying(n, e)
  BY <1>2, <1>3 DEF SnStaying, SnGoing, SnBound
<1>6. SnKept(n, tm, e)
  <2>1. \A j \in S!Ids : SnBroken(n, tm, j) \/ j \in e.retired =>
                             SnBroken(sn, tn, j) \/ j \in c.retired
    BY <1>1, <1>2, <1>3 DEF SnBroken
  <2> QED
    BY <1>1, <1>5, <2>1, SnStillKept
<1>7. SnCited(n, pin, lt, tm, e)
  BY <1>1, <1>2, <1>3 DEF SnCited
<1>8. SnStay
  BY <1>1, <1>2, <1>3, <1>4 DEF SnStay, S!HasCatalog
<1>9. SnMade(n, pin) /\ SnCall(n, pin, tm, e)
  BY <1>1, <1>4
<1>10. sPinned' = pin /\ sLate' = lt
  BY <1>1
<1> QED
  BY <1>3, <1>4, <1>6, <1>7, <1>8, <1>9, <1>10, SnAfter

\* A snapshot that is written stays made.
LEMMA SnStillMade ==
    ASSUME NEW sn \in [S!Ids -> SnRecords], NEW pin, SnMade(sn, pin), NEW k \in S!Ids,
           NEW d \in SnRecords, d.used = sn[k].used, d.row => sn[k].used
    PROVE  SnMade([sn EXCEPT ![k] = d], pin)
<1> DEFINE n == [sn EXCEPT ![k] = d]
<1>1. \A j \in S!Ids : n[j] = IF j = k THEN d ELSE sn[j]
  OBVIOUS
<1> HIDE DEF n
<1>2. \A j \in S!Ids : n[j].used = sn[j].used /\ (n[j].row => sn[j].row \/ sn[j].used)
  BY <1>1
<1>3. SnMade(n, pin)
  BY <1>2 DEF SnMade
<1> QED
  BY <1>3 DEF n

\* The first intent that is found is of a snapshot.
LEMMA SnInterrupted ==
    ASSUME S!Intents # {}
    PROVE  S!Interrupted \in S!Ids
<1>1. S!Intents \in SUBSET S!Ids /\ S!Intents \in SUBSET Nat
  BY BoundsAreNumbers DEF S!Intents, S!Ids
<1>2. PICK k \in S!Intents : \A j \in S!Intents : k <= j
  BY <1>1, LeastNatural
<1>3. S!Interrupted \in S!Intents
  BY <1>2 DEF S!Interrupted, S!Min
<1> QED
  BY <1>1, <1>3

\* What is retired next is one of what is to be retired.
LEMMA SnGreatest ==
    ASSUME NEW ks \in SUBSET S!Ids, ks # {}
    PROVE  S!Max(ks) \in ks
<1>1. MaxSnapshots \in Nat /\ \A k \in S!Ids : k \in 0 .. MaxSnapshots
  BY BoundsAreNumbers DEF S!Ids
<1>2. PICK k \in ks : \A j \in ks : j <= k
  BY <1>1, GreatestNatural
<1>3. k \in ks /\ \A j \in ks : k >= j
  BY <1>1, <1>2
<1> QED
  BY <1>3 DEF S!Max

\* An intent is retired beside its row, or what it left behind is moved aside.
LEMMA SnReconciles ==
    ASSUME SnInv, S!RetireIntent \/ S!Quarantine
    PROVE  SnInv' /\ SnStay
<1>1. PICK sn \in [S!Ids -> SnRecords], c \in SnCalls, pin \in SUBSET S!Ids,
           lt \in SUBSET S!Ids, tn \in SUBSET S!Ids :
          /\ sn = sSnap /\ c = sCall /\ pin = sPinned /\ lt = sLate /\ tn = sTorn
          /\ SnMade(sn, pin) /\ SnCall(sn, pin, tn, c) /\ SnKept(sn, tn, c)
          /\ SnCited(sn, pin, lt, tn, c) /\ SnTyped
  BY SnAt
<1>2. PICK k \in S!Ids : k = S!Interrupted
  BY SnInterrupted DEF S!RetireIntent, S!Quarantine
<1>3. /\ c.pc = "reconcile" /\ sCall' = c /\ sPinned' = pin /\ sLate' = lt /\ sTorn' = tn
      /\ sLive' = sLive
  BY <1>1 DEF S!RetireIntent, S!Quarantine, S!In, S!outside, S!NoFault
<1>4. PICK d \in SnRecords :
         /\ sSnap' = [sn EXCEPT ![k] = d]
         /\ d.used = sn[k].used /\ d.row = sn[k].row /\ d.catalog = sn[k].catalog
         /\ d.cards = sn[k].cards
         /\ d.out = sn[k].out \/ (~sn[k].row /\ d.out \subseteq sn[k].out)
  <2>1. PICK b \in SnRecords : b = sn[k]
    OBVIOUS
  <2>2. CASE S!RetireIntent
    <3> DEFINE d == [b EXCEPT !.intent = FALSE]
    <3>1. /\ d \in SnRecords /\ d.used = b.used /\ d.row = b.row /\ d.catalog = b.catalog
          /\ d.cards = b.cards /\ d.out = b.out
      BY DEF SnRecords
    <3>2. sSnap' = [sn EXCEPT ![k] = d]
      BY <1>1, <1>2, <2>1, <2>2 DEF S!RetireIntent, S!Set
    <3> HIDE DEF d
    <3> QED
      BY <2>1, <3>1, <3>2
  <2>3. CASE S!Quarantine
    <3>1. ~b.row
      BY <1>1, <1>2, <2>1, <2>3 DEF S!Quarantine, S!Uncommitted
    <3> DEFINE left == {i \in 1 .. 7 : S!QuarantineOrder[i] \in b.out}
               p == S!QuarantineOrder[S!Min(left)]
               d1 == [b EXCEPT !.intent = FALSE, !.aside = b.aside \cup {"intent"}]
               d2 == [b EXCEPT !.out = b.out \ {p}, !.aside = b.aside \cup {p}]
    <3>2. sSnap' = [sn EXCEPT ![k] = IF left = {} THEN d1 ELSE d2]
      BY <1>1, <1>2, <2>1, <2>3 DEF S!Quarantine, S!Set
    <3>3. CASE left = {}
      <4>1. "intent" \in SnAside
        BY DEF SnAside
      <4>2. /\ d1 \in SnRecords /\ d1.used = b.used /\ d1.row = b.row /\ d1.catalog = b.catalog
            /\ d1.cards = b.cards /\ d1.out = b.out
        BY <4>1 DEF SnRecords
      <4>3. sSnap' = [sn EXCEPT ![k] = d1]
        BY <3>2, <3>3
      <4> HIDE DEF d1
      <4> QED
        BY <2>1, <4>2, <4>3
    <3>4. CASE left # {}
      <4>1. left \in SUBSET Nat
        OBVIOUS
      <4>2. PICK i \in left : \A j \in left : i <= j
        <5> HIDE DEF left
        <5> QED
          BY <3>4, <4>1, LeastNatural
      <4>3. S!Min(left) \in left
        BY <4>2 DEF S!Min
      <4>4. p \in SnAside
        BY <4>3 DEF SnAside
      <4>5. sSnap' = [sn EXCEPT ![k] = d2]
        BY <3>2, <3>4
      <4> HIDE DEF p
      <4>6. /\ d2 \in SnRecords /\ d2.used = b.used /\ d2.row = b.row /\ d2.catalog = b.catalog
            /\ d2.cards = b.cards /\ d2.out = b.out \ {p}
        BY <4>4 DEF SnRecords
      <4> HIDE DEF d2
      <4> QED
        BY <2>1, <3>1, <4>5, <4>6
    <3> QED
      BY <3>3, <3>4
  <2> QED
    BY <2>2, <2>3
<1>5. SnMade(sSnap', pin)
  <2>1. d.row => sn[k].used
    BY <1>1, <1>4 DEF SnMade
  <2>2. SnMade([sn EXCEPT ![k] = d], pin)
    BY <1>1, <1>4, <2>1, SnStillMade
  <2> QED
    BY <1>4, <2>2
<1>6. SnCall(sSnap', pin, tn, c)
  BY <1>1, <1>3, <1>4 DEF SnCall, SnTaking
<1>7. SnFits(k, d, c, c, tn)
  BY <1>1, <1>3, <1>4 DEF SnFits, SnStaying, SnBound, SnBroken, SnWhole, SnCited
<1> QED
  BY <1>1, <1>3, <1>4, <1>5, <1>6, <1>7, SnSets DEF SnTyped

\* The steps of a call that write the snapshot it takes.
LEMMA SnTakes ==
    ASSUME SnInv, S!Copy \/ S!Intend \/ S!Publish \/ S!Commit \/ S!Unintend \/ S!Unstage
    PROVE  SnInv' /\ SnStay
<1>1. PICK sn \in [S!Ids -> SnRecords], c \in SnCalls, pin \in SUBSET S!Ids,
           lt \in SUBSET S!Ids, tn \in SUBSET S!Ids :
          /\ sn = sSnap /\ c = sCall /\ pin = sPinned /\ lt = sLate /\ tn = sTorn
          /\ SnMade(sn, pin) /\ SnCall(sn, pin, tn, c) /\ SnKept(sn, tn, c)
          /\ SnCited(sn, pin, lt, tn, c) /\ SnTyped
  BY SnAt
<1>2. PICK k \in S!Ids : k = c.id
  BY <1>1 DEF S!Copy, S!Intend, S!Publish, S!Commit, S!Unintend, S!Unstage, S!In, SnCall, SnTaking
<1>3. PICK b \in SnRecords : b = sn[k] /\ b = S!This
  BY <1>1, <1>2 DEF S!This
<1>4. sPinned' = pin /\ sLate' = lt /\ sTorn' = tn /\ sLive' = sLive
  BY <1>1 DEF S!Copy, S!Intend, S!Publish, S!Commit, S!Unintend, S!Unstage, S!outside, S!NoFault
<1>5. 1 \in SnPlaces /\ c.id = k /\ \A i \in SnPlaces : i # 6 => i + 1 \in SnPlaces
  BY <1>2 DEF SnPlaces
<1>6. (b.row => b.used) /\ (c.pc \in SnTaking => b.used)
  BY <1>1, <1>3, <1>5 DEF SnMade, SnCall
<1>7. /\ c.pc \in SnTaking => ~b.row /\ k \notin pin
      /\ c.pc \in {"intend", "publish", "commit"} => b.catalog = b.cards
      /\ c.todo \subseteq c.retired
      /\ c.pc \in SnTaking \cup {"unintend"} => c.retired = {}
  BY <1>1, <1>3, <1>5 DEF SnCall, SnTaking
<1>8. CASE S!Copy
  <2> DEFINE d == [b EXCEPT !.cards = sLive.cards]
             e == [c EXCEPT !.pc = "verify", !.step = 1]
  <2>1. /\ d \in SnRecords /\ d.used = b.used /\ d.row = b.row /\ d.out = b.out
        /\ d.catalog = b.catalog
    BY <1>1 DEF SnTyped, SnRecords
  <2>2. /\ e \in SnCalls /\ e.pc = "verify" /\ e.step = 1 /\ e.id = k /\ e.todo = c.todo
        /\ e.retired = c.retired
    BY <1>5 DEF SnCalls, SnSteps, SnTaking
  <2>3. c.pc = "copy" /\ sSnap' = [sn EXCEPT ![k] = d] /\ sCall' = e
    BY <1>1, <1>2, <1>3, <1>8 DEF S!Copy, S!In, S!Goto, S!Set, S!Without
  <2> HIDE DEF d, e
  <2>4. SnMade([sn EXCEPT ![k] = d], pin)
    <3>1. "commit" \in SnTaking
      BY DEF SnTaking
    <3>2. d.row => sn[k].used
      BY <1>3, <1>6, <2>1, <2>3, <3>1
    <3> QED
      BY <1>1, <1>3, <2>1, <3>2, SnStillMade
  <2>5. SnCall([sn EXCEPT ![k] = d], pin, tn, e)
    <3> DEFINE n == [sn EXCEPT ![k] = d]
    <3>1. n[k] = d
      OBVIOUS
    <3> HIDE DEF n
    <3>2. SnCall(n, pin, tn, e)
      BY <1>6, <1>7, <2>1, <2>2, <2>3, <3>1 DEF SnCall, SnTaking
    <3> QED
      BY <3>2 DEF n
  <2>6. SnFits(k, d, c, e, tn)
    <3>1. SnWhole(d) \/ ~SnWhole(b) \/ ~b.row
      BY <1>7, <2>1, <2>3 DEF SnWhole, SnTaking
    <3>2. k \in pin /\ k \notin lt \cup tn /\ "catalog" \in b.out => b.row
      BY <1>1, <1>3 DEF SnCited
    <3> QED
      BY <1>1, <1>3, <2>1, <2>2, <3>1, <3>2 DEF SnFits, SnStaying, SnBound, SnBroken
  <2> QED
    BY <1>1, <1>4, <2>1, <2>2, <2>3, <2>4, <2>5, <2>6, SnSets DEF SnTyped
<1>9. CASE S!Intend
  <2> DEFINE d == [b EXCEPT !.intent = TRUE]
             e == [c EXCEPT !.pc = "publish", !.step = 1]
  <2>1. /\ d \in SnRecords /\ d.used = b.used /\ d.row = b.row /\ d.out = b.out
        /\ d.catalog = b.catalog /\ d.cards = b.cards
    BY <1>1 DEF SnTyped, SnRecords
  <2>2. /\ e \in SnCalls /\ e.pc = "publish" /\ e.step = 1 /\ e.id = k /\ e.todo = c.todo
        /\ e.retired = c.retired
    BY <1>5 DEF SnCalls, SnSteps, SnTaking
  <2>3. c.pc = "intend" /\ sSnap' = [sn EXCEPT ![k] = d] /\ sCall' = e
    BY <1>1, <1>2, <1>3, <1>9 DEF S!Intend, S!In, S!Goto, S!Set, S!Without
  <2> HIDE DEF d, e
  <2>4. SnMade([sn EXCEPT ![k] = d], pin)
    <3>1. "commit" \in SnTaking
      BY DEF SnTaking
    <3>2. d.row => sn[k].used
      BY <1>3, <1>6, <2>1, <2>3, <3>1
    <3> QED
      BY <1>1, <1>3, <2>1, <3>2, SnStillMade
  <2>5. SnCall([sn EXCEPT ![k] = d], pin, tn, e)
    <3> DEFINE n == [sn EXCEPT ![k] = d]
    <3>1. n[k] = d
      OBVIOUS
    <3> HIDE DEF n
    <3>2. SnCall(n, pin, tn, e)
      BY <1>6, <1>7, <2>1, <2>2, <2>3, <3>1 DEF SnCall, SnTaking
    <3> QED
      BY <3>2 DEF n
  <2>6. SnFits(k, d, c, e, tn)
    <3>1. SnWhole(d) \/ ~SnWhole(b) \/ ~b.row
      BY <1>7, <2>1, <2>3 DEF SnWhole, SnTaking
    <3>2. k \in pin /\ k \notin lt \cup tn /\ "catalog" \in b.out => b.row
      BY <1>1, <1>3 DEF SnCited
    <3> QED
      BY <1>1, <1>3, <2>1, <2>2, <3>1, <3>2 DEF SnFits, SnStaying, SnBound, SnBroken
  <2> QED
    BY <1>1, <1>4, <2>1, <2>2, <2>3, <2>4, <2>5, <2>6, SnSets DEF SnTyped
<1>10. CASE S!Commit
  <2> DEFINE d == [b EXCEPT !.row = TRUE]
             e == [c EXCEPT !.pc = "unintend", !.step = 1]
  <2>1. /\ d \in SnRecords /\ d.used = b.used /\ d.row /\ d.out = b.out
        /\ d.catalog = b.catalog /\ d.cards = b.cards
    BY <1>1 DEF SnTyped, SnRecords
  <2>2. /\ e \in SnCalls /\ e.pc = "unintend" /\ e.step = 1 /\ e.id = k /\ e.todo = c.todo
        /\ e.retired = c.retired
    BY <1>5 DEF SnCalls, SnSteps, SnTaking
  <2>3. c.pc = "commit" /\ sSnap' = [sn EXCEPT ![k] = d] /\ sCall' = e
    BY <1>1, <1>2, <1>3, <1>10 DEF S!Commit, S!In, S!Goto, S!Set, S!Without
  <2> HIDE DEF d, e
  <2>7. SnWhole(d)
    <3>1. b.catalog = b.cards /\ \A i \in 1 .. 6 : S!PublishOrder[i] \in b.out
      BY <1>1, <1>3, <1>5, <2>3 DEF SnCall
    <3> QED
      BY <2>1, <3>1 DEF SnWhole, S!Parts
  <2>4. SnMade([sn EXCEPT ![k] = d], pin)
    <3>1. "commit" \in SnTaking
      BY DEF SnTaking
    <3>2. d.row => sn[k].used
      BY <1>3, <1>6, <2>1, <2>3, <3>1
    <3> QED
      BY <1>1, <1>3, <2>1, <3>2, SnStillMade
  <2>5. SnCall([sn EXCEPT ![k] = d], pin, tn, e)
    <3> DEFINE n == [sn EXCEPT ![k] = d]
    <3>1. n[k] = d
      OBVIOUS
    <3> HIDE DEF n
    <3>2. SnCall(n, pin, tn, e)
      BY <1>6, <1>7, <2>1, <2>2, <2>3, <3>1 DEF SnCall, SnTaking
    <3> QED
      BY <3>2 DEF n
  <2>6. SnFits(k, d, c, e, tn)
    BY <1>1, <1>3, <1>5, <2>1, <2>2, <2>3, <2>7
       DEF SnFits, SnStaying, SnBound, SnCall, SnTaking
  <2> QED
    BY <1>1, <1>4, <2>1, <2>2, <2>3, <2>4, <2>5, <2>6, SnSets DEF SnTyped
<1>11. CASE S!Unintend
  <2> DEFINE d == [b EXCEPT !.intent = FALSE]
             e == [c EXCEPT !.pc = "reconcile", !.step = 1]
  <2>1. /\ d \in SnRecords /\ d.used = b.used /\ d.row = b.row /\ d.out = b.out
        /\ d.catalog = b.catalog /\ d.cards = b.cards
    BY <1>1 DEF SnTyped, SnRecords
  <2>2. /\ e \in SnCalls /\ e.pc = "reconcile" /\ e.step = 1 /\ e.id = k /\ e.todo = c.todo
        /\ e.retired = c.retired
    BY <1>5 DEF SnCalls, SnSteps, SnTaking
  <2>3. c.pc = "unintend" /\ sSnap' = [sn EXCEPT ![k] = d] /\ sCall' = e
    BY <1>1, <1>2, <1>3, <1>11 DEF S!Unintend, S!In, S!Goto, S!Set, S!Without
  <2> HIDE DEF d, e
  <2>4. SnMade([sn EXCEPT ![k] = d], pin)
    <3>1. "commit" \in SnTaking
      BY DEF SnTaking
    <3>2. d.row => sn[k].used
      BY <1>3, <1>6, <2>1, <2>3, <3>1
    <3> QED
      BY <1>1, <1>3, <2>1, <3>2, SnStillMade
  <2>5. SnCall([sn EXCEPT ![k] = d], pin, tn, e)
    <3> DEFINE n == [sn EXCEPT ![k] = d]
    <3>1. n[k] = d
      OBVIOUS
    <3> HIDE DEF n
    <3>2. SnCall(n, pin, tn, e)
      BY <1>6, <1>7, <2>1, <2>2, <2>3, <3>1 DEF SnCall, SnTaking
    <3> QED
      BY <3>2 DEF n
  <2>6. SnFits(k, d, c, e, tn)
    <3>1. SnWhole(d) \/ ~SnWhole(b) \/ ~b.row
      BY <1>7, <2>1, <2>3 DEF SnWhole, SnTaking
    <3>2. k \in pin /\ k \notin lt \cup tn /\ "catalog" \in b.out => b.row
      BY <1>1, <1>3 DEF SnCited
    <3> QED
      BY <1>1, <1>3, <2>1, <2>2, <3>1, <3>2 DEF SnFits, SnStaying, SnBound, SnBroken
  <2> QED
    BY <1>1, <1>4, <2>1, <2>2, <2>3, <2>4, <2>5, <2>6, SnSets DEF SnTyped
<1>12. CASE S!Unstage
  <2> DEFINE d == [b EXCEPT !.out = b.out \ {"staging"}]
  <2>1. /\ d \in SnRecords /\ d.used = b.used /\ d.row = b.row /\ d.out = b.out \ {"staging"}
        /\ d.catalog = b.catalog /\ d.cards = b.cards
    BY DEF SnRecords
  <2>2. /\ S!Idle \in SnCalls /\ S!Idle.pc = "idle" /\ S!Idle.todo = {} /\ S!Idle.retired = {}
    BY BoundsAreNumbers DEF S!Idle, SnCalls, SnSteps, SnTaken, SnPlaces
  <2>3. sSnap' = [sn EXCEPT ![k] = d] /\ sCall' = S!Idle
    BY <1>1, <1>2, <1>3, <1>12 DEF S!Unstage, S!Set, S!Without
  <2> HIDE DEF d
  <2>4. SnMade([sn EXCEPT ![k] = d], pin)
    <3>1. d.row => sn[k].used
      BY <1>3, <1>6, <2>1
    <3> QED
      BY <1>1, <1>3, <2>1, <3>1, SnStillMade
  <2>5. SnCall([sn EXCEPT ![k] = d], pin, tn, S!Idle)
    BY <2>2 DEF SnCall, SnTaking
  <2>6. S!Parts \subseteq b.out => S!Parts \subseteq d.out
    BY <2>1, SnOrders
  <2>7. "catalog" \in d.out <=> "catalog" \in b.out
    BY <2>1
  <2>8. SnFits(k, d, c, S!Idle, tn)
    BY <1>1, <1>3, <2>1, <2>2, <2>6, <2>7
       DEF SnFits, SnStaying, SnBound, SnBroken, SnWhole, SnCited
  <2> QED
    BY <1>1, <1>4, <2>1, <2>2, <2>3, <2>4, <2>5, <2>8, SnSets DEF SnTyped
<1>13. CASE S!Publish
  <2> DEFINE p == S!PublishOrder[c.step]
             d == [b EXCEPT !.out = b.out \cup {p}]
             e == IF c.step = 6 THEN [c EXCEPT !.pc = "commit", !.step = 1]
                                ELSE [c EXCEPT !.step = c.step + 1]
  <2>1. /\ d \in SnRecords /\ d.used = b.used /\ d.row = b.row /\ d.out = b.out \cup {p}
        /\ d.catalog = b.catalog /\ d.cards = b.cards
    <3>1. p \in SnFiles
      BY SnOrders DEF SnCalls, SnPlaces
    <3> HIDE DEF p
    <3> QED
      BY <3>1 DEF SnRecords
  <2>2. /\ e \in SnCalls /\ e.id = k /\ e.todo = c.todo /\ e.retired = c.retired
        /\ IF c.step = 6 THEN e.pc = "commit" ELSE e.pc = c.pc /\ e.step = c.step + 1
    <3>1. CASE c.step = 6
      BY <1>5, <3>1 DEF SnCalls, SnSteps, SnTaking
    <3>2. CASE c.step # 6
      <4>1. c.step + 1 \in SnPlaces
        BY <1>5, <3>2 DEF SnCalls
      <4> QED
        BY <1>5, <3>2, <4>1 DEF SnCalls
    <3> QED
      BY <3>1, <3>2
  <2>3. c.pc = "publish" /\ sSnap' = [sn EXCEPT ![k] = d] /\ sCall' = e
    BY <1>1, <1>2, <1>3, <1>13 DEF S!Publish, S!In, S!Goto, S!Advance, S!Set
  <2> HIDE DEF d, e
  <2>4. SnMade([sn EXCEPT ![k] = d], pin)
    <3>1. d.row => sn[k].used
      BY <1>3, <1>6, <2>1
    <3> QED
      BY <1>1, <1>3, <2>1, <3>1, SnStillMade
  <2>5. \A i \in 1 .. 6 : i < c.step \/ i = c.step => S!PublishOrder[i] \in d.out
    BY <1>1, <1>3, <1>5, <2>1, <2>3 DEF SnCall
  <2>6. \A i \in 1 .. 6 : i < e.step \/ e.pc = "commit" => S!PublishOrder[i] \in d.out
    BY <2>2, <2>3, <2>5 DEF SnCalls, SnPlaces
  <2>7. SnCall([sn EXCEPT ![k] = d], pin, tn, e)
    <3> DEFINE n == [sn EXCEPT ![k] = d]
    <3>1. n[k] = d
      OBVIOUS
    <3> HIDE DEF n
    <3>2. SnCall(n, pin, tn, e)
      BY <1>6, <1>7, <2>1, <2>2, <2>3, <2>6, <3>1 DEF SnCall, SnTaking
    <3> QED
      BY <3>2 DEF n
  <2>8. ~b.row /\ k \notin pin /\ e.pc \in {"publish", "commit"}
    BY <1>1, <1>3, <1>5, <2>2, <2>3 DEF SnCall, SnTaking
  <2>9. SnFits(k, d, c, e, tn)
    BY <1>1, <1>3, <2>1, <2>2, <2>8 DEF SnFits, SnStaying, SnBound
  <2> QED
    BY <1>1, <1>4, <2>1, <2>2, <2>3, <2>4, <2>7, <2>9, SnSets DEF SnTyped
<1> QED
  BY <1>8, <1>9, <1>10, <1>11, <1>12, <1>13

\* A snapshot is begun under the next number, or the call ends.
LEMMA SnChecks == ASSUME SnInv, S!Check PROVE SnInv' /\ SnStay
<1>1. PICK sn \in [S!Ids -> SnRecords], c \in SnCalls, pin \in SUBSET S!Ids,
           lt \in SUBSET S!Ids, tn \in SUBSET S!Ids :
          /\ sn = sSnap /\ c = sCall /\ pin = sPinned /\ lt = sLate /\ tn = sTorn
          /\ SnMade(sn, pin) /\ SnCall(sn, pin, tn, c) /\ SnKept(sn, tn, c)
          /\ SnCited(sn, pin, lt, tn, c) /\ SnTyped
  BY SnAt
<1>2. /\ c.pc = "check" /\ sPinned' = pin /\ sLate' = lt /\ sTorn' = tn /\ sLive' = sLive
  BY <1>1 DEF S!Check, S!In, S!outside, S!NoFault
<1>3. MaxSnapshots \in Nat /\ S!Ids = 1 .. MaxSnapshots
  BY BoundsAreNumbers DEF S!Ids
<1>4. CASE S!Clean /\ S!Made # S!Ids
  <2>1. PICK m \in 0 .. MaxSnapshots : \A j \in S!Ids : sn[j].used <=> j <= m
    BY <1>1 DEF SnMade
  <2>2. S!Made = 1 .. m
    BY <1>1, <1>3, <2>1 DEF S!Made
  <2>3. S!Cardinality(S!Made) = m
    <3>1. 1 \in Int /\ m \in Int
      BY <1>3
    <3>2. Cardinality(1 .. m) = IF 1 > m THEN 0 ELSE m - 1 + 1
      BY <3>1, FS_Interval
    <3>3. Cardinality(1 .. m) = m
      BY <1>3, <3>1, <3>2
    <3> QED
      BY <2>2, <3>3, SnSameCount
  <2>4. PICK k \in S!Ids : k = m + 1
    BY <1>3, <1>4, <2>2
  <2> DEFINE d == [S!NoSnapshot EXCEPT !.used = TRUE, !.out = {"staging"},
                                       !.catalog = sLive.catalog]
             e == [c EXCEPT !.pc = "copy", !.id = k]
  <2>5. d \in SnRecords /\ d.used /\ ~d.row
    <3>1. S!NoSnapshot \in SnRecords /\ ~S!NoSnapshot.row
      BY DEF S!NoSnapshot, SnRecords
    <3>2. "staging" \in SnFiles /\ sLive.catalog \in Nat
      BY <1>1 DEF SnFiles, SnTyped
    <3> QED
      BY <3>1, <3>2 DEF SnRecords
  <2>6. /\ e \in SnCalls /\ e.pc = "copy" /\ e.id = k /\ e.todo = c.todo
        /\ e.retired = c.retired
    <3>1. k \in SnTaken /\ "copy" \in SnSteps
      BY <1>3 DEF SnTaken, SnSteps, SnTaking
    <3> QED
      BY <3>1 DEF SnCalls
  <2>7. sSnap' = [sn EXCEPT ![k] = d] /\ sCall' = e
    BY <1>1, <1>4, <2>3, <2>4 DEF S!Check, S!Set
  <2> DEFINE n == [sn EXCEPT ![k] = d]
  <2> HIDE DEF d, e
  <2>8. \A j \in S!Ids : n[j] = IF j = k THEN d ELSE sn[j]
    OBVIOUS
  <2>9. sSnap' = n
    BY <2>7
  <2> HIDE DEF n
  <2>10. ~sn[k].used /\ ~sn[k].row /\ k \notin pin
    BY <1>1, <1>3, <2>1, <2>4 DEF SnMade
  <2>11. SnMade(n, pin)
    <3>1. \A j \in S!Ids : n[j].used <=> j <= m + 1
      BY <1>3, <2>1, <2>4, <2>5, <2>8
    <3>2. m + 1 \in 0 .. MaxSnapshots
      BY <1>3, <2>4
    <3>3. \A j \in S!Ids : n[j].row \/ j \in pin => n[j].used
      BY <1>1, <2>5, <2>8 DEF SnMade
    <3> QED
      BY <3>1, <3>2, <3>3 DEF SnMade
  <2>12. c.retired = {} /\ c.todo = {}
    BY <1>1, <1>2 DEF SnCall
  <2>13. n[k] = d
    BY <2>8
  <2>14. SnCall(n, pin, tn, e)
    BY <2>5, <2>6, <2>10, <2>12, <2>13 DEF SnCall
  <2>15. SnFits(k, d, c, e, tn)
    BY <1>1, <2>5, <2>6, <2>10 DEF SnFits, SnStaying, SnBound
  <2> QED
    <3>1. SnMade(sSnap', sPinned) /\ SnCall(sSnap', sPinned, tn, e)
      BY <1>1, <2>9, <2>11, <2>14
    <3>2. SnFits(k, d, sCall, e, tn) /\ sTorn' = tn /\ sTorn \subseteq tn
      BY <1>1, <1>2, <2>15
    <3>3. sSnap' = [sSnap EXCEPT ![k] = d] /\ UNCHANGED <<sPinned, sLate>>
      BY <1>1, <1>2, <2>7
    <3>4. sLive' \in [catalog : Nat, cards : Nat]
      BY <1>1, <1>2 DEF SnTyped
    <3> QED
      BY <2>5, <2>6, <2>7, <3>1, <3>2, <3>3, <3>4, SnSets
<1>5. CASE ~(S!Clean /\ S!Made # S!Ids)
  <2>1. /\ sSnap' = sn
        /\ \/ sCall' = S!Idle
           \/ sCall' = [c EXCEPT !.pc = "unstage", !.step = 1] /\ c.id # 0
    BY <1>1, <1>5 DEF S!Check, S!Leave, S!Goto
  <2>2. PICK e \in SnCalls : /\ sCall' = e /\ e.retired \subseteq c.retired /\ e.todo \subseteq c.todo
                             /\ e.pc = "idle" \/ (e.pc = "unstage" /\ e.id \in S!Ids)
    <3>1. CASE sCall' = S!Idle
      <4>1. /\ S!Idle \in SnCalls /\ S!Idle.pc = "idle" /\ S!Idle.todo = {}
            /\ S!Idle.retired = {}
        BY <1>3 DEF S!Idle, SnCalls, SnSteps, SnTaken, SnPlaces
      <4> QED
        BY <3>1, <4>1
    <3>2. CASE sCall' = [c EXCEPT !.pc = "unstage", !.step = 1] /\ c.id # 0
      <4> DEFINE e == [c EXCEPT !.pc = "unstage", !.step = 1]
      <4>1. /\ e \in SnCalls /\ e.pc = "unstage" /\ e.id = c.id /\ e.todo = c.todo
            /\ e.retired = c.retired
        <5>1. 1 \in SnPlaces /\ "unstage" \in SnSteps
          BY DEF SnPlaces, SnSteps
        <5> QED
          BY <5>1 DEF SnCalls
      <4>2. c.id \in S!Ids
        BY <1>3, <3>2 DEF SnCalls, SnTaken
      <4>3. sCall' = e
        BY <3>2
      <4> HIDE DEF e
      <4> QED
        BY <4>1, <4>2, <4>3
    <3> QED
      BY <2>1, <3>1, <3>2
  <2>3. c.retired = {} /\ c.todo = {}
    BY <1>1, <1>2 DEF SnCall
  <2>4. SnCall(sn, pin, tn, e)
    BY <2>2, <2>3 DEF SnCall, SnTaking
  <2> QED
    BY <1>1, <1>2, <2>1, <2>2, <2>4, SnGoesOn DEF SnTyped
<1> QED
  BY <1>4, <1>5

\* A commit that raises is cleaned up, durable or not.
LEMMA SnCommitFails == ASSUME SnInv, S!CommitFails PROVE SnInv' /\ SnStay
<1>1. PICK sn \in [S!Ids -> SnRecords], c \in SnCalls, pin \in SUBSET S!Ids,
           lt \in SUBSET S!Ids, tn \in SUBSET S!Ids :
          /\ sn = sSnap /\ c = sCall /\ pin = sPinned /\ lt = sLate /\ tn = sTorn
          /\ SnMade(sn, pin) /\ SnCall(sn, pin, tn, c) /\ SnKept(sn, tn, c)
          /\ SnCited(sn, pin, lt, tn, c) /\ SnTyped
  BY SnAt
<1>2. PICK t \in BOOLEAN :
         /\ c.pc = "commit" /\ sPinned' = pin /\ sLate' = lt /\ sLive' = sLive
         /\ sSnap' = [sn EXCEPT ![c.id] = [sn[c.id] EXCEPT !.row = t]]
         /\ sTorn' = IF t THEN tn \cup {c.id} ELSE tn
         /\ sCall' = [c EXCEPT !.pc = "cleanup", !.step = 1]
  BY <1>1 DEF S!CommitFails, S!In, S!Goto, S!Set, S!This, S!outside
<1>3. PICK k \in S!Ids : k = c.id
  BY <1>1, <1>2 DEF SnCall, SnTaking
<1>4. PICK b \in SnRecords : b = sn[k]
  OBVIOUS
<1>5. b.used /\ ~b.row /\ k \notin pin /\ c.retired = {} /\ c.todo = {}
  BY <1>1, <1>2, <1>3, <1>4 DEF SnCall, SnTaking
<1> DEFINE d == [b EXCEPT !.row = t]
           e == [c EXCEPT !.pc = "cleanup", !.step = 1]
<1>6. d \in SnRecords /\ d.used = b.used /\ d.row = t
  BY DEF SnRecords
<1>7. /\ e \in SnCalls /\ e.pc = "cleanup" /\ e.id = k /\ e.todo = c.todo
      /\ e.retired = c.retired
  <2>1. 1 \in SnPlaces /\ "cleanup" \in SnSteps
    BY DEF SnPlaces, SnSteps
  <2> QED
    BY <1>3, <2>1 DEF SnCalls
<1>8. sSnap' = [sn EXCEPT ![k] = d] /\ sCall' = e
  BY <1>2, <1>3, <1>4
<1> HIDE DEF d, e
<1>9. PICK tm \in SUBSET S!Ids : sTorn' = tm /\ tn \subseteq tm /\ (t => k \in tm)
  BY <1>2, <1>3
<1>10. SnMade([sn EXCEPT ![k] = d], pin)
  <2>1. d.row => sn[k].used
    BY <1>4, <1>5
  <2> QED
    BY <1>1, <1>4, <1>6, <2>1, SnStillMade
<1>11. SnCall([sn EXCEPT ![k] = d], pin, tm, e)
  <2> DEFINE n == [sn EXCEPT ![k] = d]
  <2>1. n[k] = d
    OBVIOUS
  <2> HIDE DEF n
  <2>2. SnCall(n, pin, tm, e)
    BY <1>5, <1>6, <1>7, <1>9, <2>1 DEF SnCall, SnTaking
  <2> QED
    BY <2>2 DEF n
<1>12. SnFits(k, d, c, e, tm)
  BY <1>1, <1>4, <1>5, <1>6, <1>7, <1>9 DEF SnFits, SnStaying, SnBound
<1> QED
  <2>1. SnMade(sSnap', sPinned) /\ SnCall(sSnap', sPinned, tm, e)
    BY <1>1, <1>8, <1>10, <1>11
  <2>2. SnFits(k, d, sCall, e, tm) /\ sTorn' = tm /\ sTorn \subseteq tm
    BY <1>1, <1>9, <1>12
  <2>3. sSnap' = [sSnap EXCEPT ![k] = d] /\ UNCHANGED <<sPinned, sLate>>
    BY <1>1, <1>2, <1>8
  <2>4. sLive' \in [catalog : Nat, cards : Nat]
    BY <1>1, <1>2 DEF SnTyped
  <2> QED
    BY <1>6, <1>7, <1>8, <2>1, <2>2, <2>3, <2>4, SnSets

\* What cannot be removed stays: a part of an uncommitted or of a retired snapshot goes.
LEMMA SnRemoves ==
    ASSUME SnInv, NEW k \in S!Ids, NEW p, NEW e \in SnCalls, sCall' = e,
           UNCHANGED <<sPinned, sLate, sTorn, sLive>>,
           sSnap' = sSnap \/ sSnap' = [sSnap EXCEPT ![k] = [sSnap[k] EXCEPT !.out = @ \ {p}]],
           k \in sCall.retired \/ (sCall.pc = "cleanup" /\ sCall.id = k),
           e.retired \subseteq sCall.retired, e.todo \subseteq e.retired,
           e.pc \in {"cleanup", "unstage", "retire"}, e.id = sCall.id,
           e.pc \in {"cleanup", "unstage"} => sCall.pc = "cleanup",
           e.pc = "retire" => sCall.pc = "retire"
    PROVE  SnInv' /\ SnStay
<1>1. PICK sn \in [S!Ids -> SnRecords], c \in SnCalls, pin \in SUBSET S!Ids,
           lt \in SUBSET S!Ids, tn \in SUBSET S!Ids :
          /\ sn = sSnap /\ c = sCall /\ pin = sPinned /\ lt = sLate /\ tn = sTorn
          /\ SnMade(sn, pin) /\ SnCall(sn, pin, tn, c) /\ SnKept(sn, tn, c)
          /\ SnCited(sn, pin, lt, tn, c) /\ SnTyped
  BY SnAt
<1>2. PICK b \in SnRecords : b = sn[k]
  OBVIOUS
<1>3. \A n : (\A j \in S!Ids : n[j].row = sn[j].row) => SnCall(n, pin, tn, e)
  BY <1>1 DEF SnCall, SnTaking
<1>4. CASE sSnap' = sSnap
  BY <1>1, <1>3, <1>4, SnGoesOn DEF SnTyped
<1>5. CASE sSnap' = [sSnap EXCEPT ![k] = [sSnap[k] EXCEPT !.out = @ \ {p}]]
  <2> DEFINE d == [b EXCEPT !.out = b.out \ {p}]
  <2>1. /\ d \in SnRecords /\ d.used = b.used /\ d.row = b.row /\ d.out = b.out \ {p}
    BY DEF SnRecords
  <2>2. sSnap' = [sn EXCEPT ![k] = d]
    BY <1>1, <1>2, <1>5
  <2> HIDE DEF d
  <2>3. SnMade([sn EXCEPT ![k] = d], pin)
    <3>1. d.row => sn[k].used
      BY <1>1, <1>2, <2>1 DEF SnMade
    <3> QED
      BY <1>1, <1>2, <2>1, <3>1, SnStillMade
  <2>4. SnCall([sn EXCEPT ![k] = d], pin, tn, e)
    <3> DEFINE n == [sn EXCEPT ![k] = d]
    <3>1. \A j \in S!Ids : n[j].row = sn[j].row
      BY <1>2, <2>1
    <3> HIDE DEF n
    <3>2. SnCall(n, pin, tn, e)
      BY <1>3, <3>1
    <3> QED
      BY <3>2 DEF n
  <2>5. SnFits(k, d, c, e, tn)
    <3>1. k \notin SnStaying(sn, c)
      BY <1>1 DEF SnStaying, SnGoing
    <3>2. e.pc = "cleanup" => e.id \notin SnStaying(sn, c)
      BY <1>1 DEF SnStaying, SnGoing
    <3>3. d.row => k \in tn \/ k \in c.retired
      BY <1>1, <1>2, <2>1 DEF SnCall
    <3>4. k \in pin => k \in tn \/ k \in lt
      BY <1>1 DEF SnCall, SnCited
    <3> QED
      BY <1>1, <3>1, <3>2, <3>3, <3>4 DEF SnFits
  <2> QED
    BY <1>1, <2>1, <2>2, <2>3, <2>4, <2>5, SnSets DEF SnTyped
<1> QED
  BY <1>4, <1>5

LEMMA SnCleans == ASSUME SnInv, S!CleanUp \/ S!Retire PROVE SnInv' /\ SnStay
<1>1. PICK sn \in [S!Ids -> SnRecords], c \in SnCalls, pin \in SUBSET S!Ids,
           lt \in SUBSET S!Ids, tn \in SUBSET S!Ids :
          /\ sn = sSnap /\ c = sCall /\ pin = sPinned /\ lt = sLate /\ tn = sTorn
          /\ SnMade(sn, pin) /\ SnCall(sn, pin, tn, c) /\ SnKept(sn, tn, c)
          /\ SnCited(sn, pin, lt, tn, c) /\ SnTyped
  BY SnAt
<1>2. UNCHANGED <<sPinned, sLate, sTorn, sLive>>
  BY DEF S!CleanUp, S!Retire, S!outside, S!NoFault
<1>3. \A i \in SnPlaces : i # 6 => i + 1 \in SnPlaces
  BY DEF SnPlaces
<1>4. 1 \in SnPlaces /\ "unstage" \in SnSteps
  BY DEF SnPlaces, SnSteps
<1>5. CASE S!CleanUp
  <2>1. PICK k \in S!Ids : k = c.id
    BY <1>1, <1>5 DEF S!CleanUp, S!In, SnCall
  <2>2. /\ c.pc = "cleanup"
        /\ \/ sSnap' = sSnap
           \/ sSnap' = [sSnap EXCEPT ![k] = [sSnap[k] EXCEPT !.out = @ \ {S!CleanupOrder[c.step]}]]
        /\ \/ sCall' = [c EXCEPT !.pc = "unstage", !.step = 1]
           \/ sCall' = [c EXCEPT !.step = c.step + 1] /\ c.step # 6
    BY <1>1, <1>5, <2>1 DEF S!CleanUp, S!In, S!Without, S!Set, S!Goto, S!Advance
  <2>3. PICK e \in SnCalls : /\ sCall' = e /\ e.retired = c.retired /\ e.todo = c.todo
                             /\ e.pc \in {"cleanup", "unstage"} /\ e.id = c.id
    <3>1. CASE sCall' = [c EXCEPT !.pc = "unstage", !.step = 1]
      <4> DEFINE e == [c EXCEPT !.pc = "unstage", !.step = 1]
      <4>1. /\ e \in SnCalls /\ e.pc = "unstage" /\ e.id = c.id /\ e.todo = c.todo
            /\ e.retired = c.retired
        BY <1>4 DEF SnCalls
      <4>2. sCall' = e
        BY <3>1
      <4> HIDE DEF e
      <4> QED
        BY <4>1, <4>2
    <3>2. CASE sCall' = [c EXCEPT !.step = c.step + 1] /\ c.step # 6
      <4> DEFINE e == [c EXCEPT !.step = c.step + 1]
      <4>1. c.step + 1 \in SnPlaces
        BY <1>3, <3>2 DEF SnCalls
      <4>2. /\ e \in SnCalls /\ e.pc = c.pc /\ e.id = c.id /\ e.todo = c.todo
            /\ e.retired = c.retired
        BY <4>1 DEF SnCalls
      <4>3. sCall' = e
        BY <3>2
      <4> HIDE DEF e
      <4> QED
        BY <2>2, <4>2, <4>3
    <3> QED
      BY <2>2, <3>1, <3>2
  <2>4. c.todo \subseteq c.retired
    BY <1>1 DEF SnCall
  <2>5. e.retired \subseteq sCall.retired /\ e.todo \subseteq e.retired /\ e.id = sCall.id
    BY <1>1, <2>3, <2>4
  <2>6. sCall.pc = "cleanup" /\ sCall.id = k /\ e.pc # "retire"
    BY <1>1, <2>1, <2>2, <2>3
  <2> QED
    BY <1>2, <2>2, <2>3, <2>5, <2>6, SnRemoves
<1>6. CASE S!Retire
  <2>1. c.pc = "retire" /\ c.todo # {} /\ c.todo \in SUBSET S!Ids /\ c.todo \subseteq c.retired
    BY <1>1, <1>6 DEF S!Retire, S!In, SnCall, SnCalls
  <2>2. PICK k \in S!Ids : k = S!Max(c.todo) /\ k \in c.todo
    BY <2>1, SnGreatest
  <2>3. /\ \/ sSnap' = sSnap
           \/ sSnap' = [sSnap EXCEPT ![k] = [sSnap[k] EXCEPT !.out = @ \ {S!RetireOrder[c.step]}]]
        /\ \/ sCall' = [c EXCEPT !.step = 1, !.todo = c.todo \ {k}]
           \/ sCall' = [c EXCEPT !.step = c.step + 1] /\ c.step # 6
    BY <1>1, <1>6, <2>2 DEF S!Retire, S!Without, S!Set, S!Advance
  <2>4. PICK e \in SnCalls : /\ sCall' = e /\ e.retired = c.retired /\ e.todo \subseteq c.todo
                             /\ e.pc = "retire" /\ e.id = c.id
    <3>1. CASE sCall' = [c EXCEPT !.step = 1, !.todo = c.todo \ {k}]
      <4> DEFINE e == [c EXCEPT !.step = 1, !.todo = c.todo \ {k}]
      <4>1. /\ e \in SnCalls /\ e.pc = c.pc /\ e.id = c.id /\ e.todo \subseteq c.todo
            /\ e.retired = c.retired
        BY <1>4 DEF SnCalls
      <4>2. sCall' = e
        BY <3>1
      <4> HIDE DEF e
      <4> QED
        BY <2>1, <4>1, <4>2
    <3>2. CASE sCall' = [c EXCEPT !.step = c.step + 1] /\ c.step # 6
      <4> DEFINE e == [c EXCEPT !.step = c.step + 1]
      <4>1. c.step + 1 \in SnPlaces
        BY <1>3, <3>2 DEF SnCalls
      <4>2. /\ e \in SnCalls /\ e.pc = c.pc /\ e.id = c.id /\ e.todo = c.todo
            /\ e.retired = c.retired
        BY <4>1 DEF SnCalls
      <4>3. sCall' = e
        BY <3>2
      <4> HIDE DEF e
      <4> QED
        BY <2>1, <4>2, <4>3
    <3> QED
      BY <2>3, <3>1, <3>2
  <2>5. /\ e.retired \subseteq sCall.retired /\ e.todo \subseteq e.retired /\ e.id = sCall.id
        /\ k \in sCall.retired
    BY <1>1, <2>1, <2>2, <2>4
  <2>6. sCall.pc = "retire"
    BY <1>1, <2>1
  <2> QED
    BY <1>2, <2>3, <2>4, <2>5, <2>6, SnRemoves
<1> QED
  BY <1>5, <1>6

\* Rows whose catalog is gone are forgotten, and the rows of what was retired.
LEMMA SnForgets == ASSUME SnInv, S!RetireMissing \/ S!Forget PROVE SnInv' /\ SnStay
<1>1. PICK sn \in [S!Ids -> SnRecords], c \in SnCalls, pin \in SUBSET S!Ids,
           lt \in SUBSET S!Ids, tn \in SUBSET S!Ids :
          /\ sn = sSnap /\ c = sCall /\ pin = sPinned /\ lt = sLate /\ tn = sTorn
          /\ SnMade(sn, pin) /\ SnCall(sn, pin, tn, c) /\ SnKept(sn, tn, c)
          /\ SnCited(sn, pin, lt, tn, c) /\ SnTyped
  BY SnAt
<1>2. PICK n \in [S!Ids -> SnRecords] :
         /\ sSnap' = n
         /\ \A k \in S!Ids :
               /\ n[k].used = sn[k].used /\ n[k].out = sn[k].out
               /\ n[k].catalog = sn[k].catalog /\ n[k].cards = sn[k].cards
               /\ n[k].row => sn[k].row
               /\ sn[k].row /\ "catalog" \in sn[k].out /\ k \notin c.retired => n[k].row
  <2>1. CASE S!RetireMissing
    <3> DEFINE row(k) == sn[k].row /\ "catalog" \in sn[k].out
               n == [k \in S!Ids |-> [sn[k] EXCEPT !.row = row(k)]]
    <3>1. sSnap' = n
      BY <1>1, <2>1 DEF S!RetireMissing, S!HasCatalog
    <3>2. \A k \in S!Ids : row(k) \in BOOLEAN
      OBVIOUS
    <3>3. \A k \in S!Ids : (row(k) => sn[k].row)
             /\ (sn[k].row /\ "catalog" \in sn[k].out /\ k \notin c.retired => row(k))
      OBVIOUS
    <3> HIDE DEF row
    <3>4. \A k \in S!Ids :
             /\ n[k] \in SnRecords /\ n[k].used = sn[k].used /\ n[k].out = sn[k].out
             /\ n[k].catalog = sn[k].catalog /\ n[k].cards = sn[k].cards
             /\ n[k].row = row(k)
      BY <3>2 DEF SnRecords
    <3> HIDE DEF n
    <3>5. n \in [S!Ids -> SnRecords]
      BY <3>4 DEF n
    <3> QED
      BY <3>1, <3>3, <3>4, <3>5
  <2>2. CASE S!Forget
    <3> DEFINE row(k) == sn[k].row /\ k \notin c.retired
               n == [k \in S!Ids |-> [sn[k] EXCEPT !.row = row(k)]]
    <3>1. sSnap' = n
      BY <1>1, <2>2 DEF S!Forget
    <3>2. \A k \in S!Ids : row(k) \in BOOLEAN
      OBVIOUS
    <3>3. \A k \in S!Ids : (row(k) => sn[k].row)
             /\ (sn[k].row /\ "catalog" \in sn[k].out /\ k \notin c.retired => row(k))
      OBVIOUS
    <3> HIDE DEF row
    <3>4. \A k \in S!Ids :
             /\ n[k] \in SnRecords /\ n[k].used = sn[k].used /\ n[k].out = sn[k].out
             /\ n[k].catalog = sn[k].catalog /\ n[k].cards = sn[k].cards
             /\ n[k].row = row(k)
      BY <3>2 DEF SnRecords
    <3> HIDE DEF n
    <3>5. n \in [S!Ids -> SnRecords]
      BY <3>4 DEF n
    <3> QED
      BY <3>1, <3>3, <3>4, <3>5
  <2> QED
    BY <2>1, <2>2
<1>3. PICK e \in SnCalls :
         /\ sCall' = e /\ e.id = c.id /\ e.todo = c.todo /\ e.retired = c.retired
         /\ e.pc \in {"forget", "unstage"} /\ c.pc \in {"retire", "forget"}
  <2>1. PICK at \in {"forget", "unstage"} : /\ sCall' = [c EXCEPT !.pc = at, !.step = 1]
                                            /\ c.pc \in {"retire", "forget"}
    BY <1>1 DEF S!RetireMissing, S!Forget, S!Goto, S!In
  <2> DEFINE e == [c EXCEPT !.pc = at, !.step = 1]
  <2>2. 1 \in SnPlaces /\ at \in SnSteps
    BY DEF SnPlaces, SnSteps
  <2>3. /\ e \in SnCalls /\ e.pc = at /\ e.id = c.id /\ e.todo = c.todo
        /\ e.retired = c.retired
    BY <2>2 DEF SnCalls
  <2>4. sCall' = e
    BY <2>1
  <2> HIDE DEF e
  <2> QED
    BY <2>1, <2>3, <2>4
<1>4. sPinned' = pin /\ sLate' = lt /\ sTorn' = tn /\ sLive' = sLive
  BY <1>1 DEF S!RetireMissing, S!Forget, S!outside, S!NoFault
<1>5. SnMade(n, pin)
  BY <1>1, <1>2 DEF SnMade
<1>6. SnCall(n, pin, tn, e)
  BY <1>1, <1>3 DEF SnCall, SnTaking
<1>7. SnKept(n, tn, e)
  <2>1. SnStaying(sn, c) \subseteq SnStaying(n, e)
    BY <1>2, <1>3 DEF SnStaying, SnGoing, SnBound
  <2>2. \A k \in S!Ids : SnBroken(n, tn, k) \/ k \in e.retired =>
                             SnBroken(sn, tn, k) \/ k \in c.retired
    BY <1>2, <1>3 DEF SnBroken, SnWhole
  <2> QED
    BY <1>1, <2>1, <2>2, SnStillKept
<1>8. SnCited(n, pin, lt, tn, e)
  BY <1>1, <1>2, <1>3 DEF SnCited
<1>9. SnStay
  BY <1>1, <1>2 DEF SnStay, S!HasCatalog
<1> QED
  BY <1>1, <1>2, <1>3, <1>4, <1>5, <1>6, <1>7, <1>8, <1>9, SnAfter DEF SnTyped

\* A proof makes a snapshot an immutable artifact.
LEMMA SnPins == ASSUME SnInv, S!Pin PROVE SnInv' /\ SnStay
<1>1. PICK sn \in [S!Ids -> SnRecords], c \in SnCalls, pin \in SUBSET S!Ids,
           lt \in SUBSET S!Ids, tn \in SUBSET S!Ids :
          /\ sn = sSnap /\ c = sCall /\ pin = sPinned /\ lt = sLate /\ tn = sTorn
          /\ SnMade(sn, pin) /\ SnCall(sn, pin, tn, c) /\ SnKept(sn, tn, c)
          /\ SnCited(sn, pin, lt, tn, c) /\ SnTyped
  BY SnAt
<1>2. PICK k \in S!Ids :
         /\ sn[k].row /\ sPinned' = pin \cup {k}
         /\ sLate' = IF k \in c.retired THEN lt \cup {k} ELSE lt
         /\ sSnap' = sn /\ sCall' = c /\ sTorn' = tn /\ sLive' = sLive
  BY <1>1 DEF S!Pin, S!NoFault
<1>3. PICK lm \in SUBSET S!Ids : /\ sLate' = lm /\ lt \subseteq lm
                                 /\ k \in c.retired => k \in lm
  BY <1>2
<1> DEFINE pins == pin \cup {k}
<1>4. SnMade(sn, pins)
  BY <1>1, <1>2 DEF SnMade
<1>5. SnCall(sn, pins, tn, c)
  BY <1>1, <1>2 DEF SnCall, SnTaking
<1>6. SnCited(sn, pins, lm, tn, c)
  BY <1>1, <1>2, <1>3 DEF SnCited
<1>7. SnStay
  BY <1>1, <1>2 DEF SnStay, S!HasCatalog
<1>8. pins \in SUBSET S!Ids /\ sPinned' = pins
  BY <1>2
<1> HIDE DEF pins
<1> QED
  BY <1>1, <1>2, <1>3, <1>4, <1>5, <1>6, <1>7, <1>8, SnAfter DEF SnTyped

\* A writer commits a card or writes its file.
LEMMA SnWrites == ASSUME SnInv, S!Write \/ S!WriteCard PROVE SnInv' /\ SnStay
<1>1. PICK sn \in [S!Ids -> SnRecords], c \in SnCalls, pin \in SUBSET S!Ids,
           lt \in SUBSET S!Ids, tn \in SUBSET S!Ids :
          /\ sn = sSnap /\ c = sCall /\ pin = sPinned /\ lt = sLate /\ tn = sTorn
          /\ SnMade(sn, pin) /\ SnCall(sn, pin, tn, c) /\ SnKept(sn, tn, c)
          /\ SnCited(sn, pin, lt, tn, c) /\ SnTyped
  BY SnAt
<1>2. sSnap' = sn /\ sCall' = c /\ sPinned' = pin /\ sLate' = lt /\ sTorn' = tn
  BY <1>1 DEF S!Write, S!WriteCard, S!NoFault
<1>3. sLive' \in [catalog : Nat, cards : Nat]
  <2>1. PICK v \in [catalog : Nat, cards : Nat] : v = sLive
    BY <1>1 DEF SnTyped
  <2>2. sLive' = [v EXCEPT !.catalog = v.catalog + 1] \/ sLive' = [v EXCEPT !.cards = v.catalog]
    BY <2>1 DEF S!Write, S!WriteCard
  <2> QED
    BY <2>2
<1> QED
  BY <1>1, <1>2, <1>3, SnGoesOn

LEMMA SnNext == ASSUME SnInv, S!Next PROVE SnInv' /\ SnStay
  BY SnPasses, SnLooks, SnReconciles, SnTakes, SnChecks, SnCommitFails, SnCleans, SnForgets,
     SnPins, SnWrites
     DEF S!Next, S!Step, S!Take, S!Trim, S!Failure, S!Others

LEMMA SnStutters == ASSUME SnInv, UNCHANGED sVars PROVE SnInv'
  BY DEF sVars, SnInv, SnTyped

\* What retention keeps is whole: what is broken has newer ones enough.
LEMMA SnKeptIsWhole == SnInv => S!KeptIsWhole
<1> SUFFICES ASSUME SnInv PROVE S!KeptIsWhole
  OBVIOUS
<1>1. PICK sn \in [S!Ids -> SnRecords], c \in SnCalls, pin \in SUBSET S!Ids,
           lt \in SUBSET S!Ids, tn \in SUBSET S!Ids :
          /\ sn = sSnap /\ c = sCall /\ pin = sPinned /\ lt = sLate /\ tn = sTorn
          /\ SnMade(sn, pin) /\ SnCall(sn, pin, tn, c) /\ SnKept(sn, tn, c)
          /\ SnCited(sn, pin, lt, tn, c) /\ SnTyped
  BY SnAt
<1>2. SnBound(sn) = {k \in S!Ids : sSnap[k].row /\ S!HasCatalog(k)}
  BY <1>1 DEF SnBound, S!HasCatalog
<1> SUFFICES ASSUME NEW k \in S!Ids, sn[k].row, k \notin tn,
                    S!Cardinality(SnNewer(SnBound(sn), k)) < Keep
             PROVE  SnWhole(sn[k])
  BY <1>1, <1>2 DEF S!KeptIsWhole, SnNewer, SnWhole
<1>3. SUFFICES ASSUME ~SnWhole(sn[k]) PROVE FALSE
  OBVIOUS
<1>4. Cardinality(SnNewer(SnStaying(sn, c), k)) >= Keep
  BY <1>1, <1>3 DEF SnKept, SnBroken
<1>5. SnBound(sn) \in SUBSET S!Ids /\ SnStaying(sn, c) \in SUBSET SnBound(sn)
  BY DEF SnStaying, SnBound
<1>6. /\ Cardinality(SnNewer(SnStaying(sn, c), k)) \in Nat
      /\ Cardinality(SnNewer(SnBound(sn), k)) \in Nat
      /\ Cardinality(SnNewer(SnStaying(sn, c), k)) <= Cardinality(SnNewer(SnBound(sn), k))
  BY <1>5, SnMoreAreNewer
<1>7. Cardinality(SnNewer(SnBound(sn), k)) < Keep /\ Keep \in Nat
  BY SnSameCount, BoundsAreNumbers
<1> QED
  BY <1>4, <1>6, <1>7

-----------------------------------------------------------------------------
(* The files of a book.                                                     *)

BkBytes == {"none", "part", "whole"}
BkFiles == [B!Fields -> [B!Tiers -> BkBytes]]
BkDetails ==
    [field : B!Fields, from : B!Tiers, to : B!Tiers, bytes : {"part", "whole"}, kept : BOOLEAN]
BkPlaces == [B!Fields -> B!Tiers]
BkRows ==
    [here : BOOLEAN, tier : B!Tiers, at : BkPlaces, loc : B!Tiers, aged : BOOLEAN,
     plan : SUBSET BkDetails]
BkSteps ==
    {"idle", "preflight", "retire", "fence", "detach", "remove", "original", "reader", "commit"}
BkPasses ==
    [pc : BkSteps, row : BkRows, fresh : BOOLEAN, kept : SUBSET B!Fields, at : BkPlaces,
     staged : SUBSET BkDetails, todo : SUBSET BkDetails, done : SUBSET BkDetails,
     then : {"original", "end"}]
BkIngests == [pc : {"idle", "copy", "copying", "reader", "commit"}, tier : B!Tiers]
BkCites == [path : B!Paths, bytes : BkBytes]

BkTyped ==
    /\ bFile \in BkFiles /\ bRow \in BkRows /\ bPass \in BkPasses /\ bIng \in BkIngests
    /\ bPinned \in SUBSET BkCites /\ bCite \in BkCites
    /\ bMet \in BOOLEAN /\ bCut \in BOOLEAN

BkOriginal(fl, t) == fl["original"][t]
BkReader(fl, t) == fl["reader"][t]

\* What a pass still has to retire is not where the row is.
BkRetires(r, d, m) ==
    /\ d.from # d.to
    /\ d.field = "original" \/ ~m => d.to = r.at[d.field]
    /\ d.field = "original" /\ ~m => d.from # r.loc \/ r.loc = r.at["original"]

BkBook(fl, r, m, x) ==
    r.here =>
        /\ BkOriginal(fl, r.at["original"]) # "none"
        /\ BkOriginal(fl, r.loc) # "none" \/ m
        /\ BkOriginal(fl, r.at["original"]) = "whole" \/ x \/ m
        /\ BkReader(fl, r.at["reader"]) = "whole" \/ m
BkPlan(r, m) ==
    \A d \in r.plan :
        /\ d.from # d.to
        /\ d.field = "original" /\ ~m => d.from # r.loc \/ r.loc = r.at["original"]

\* A pass that has not committed knows where the row's original is; the copies it has
\* staged stay, and what it has read of the row is so while nobody wrote it.
BkRead(fl, r, p, m) ==
    /\ p.row.at["original"] = r.at["original"]
    /\ p.fresh \/ ~m => p.row.at = r.at
    /\ p.fresh => p.row.plan = r.plan
    /\ p.pc \notin {"reader", "commit"} => p.staged = {} /\ p.at = p.row.at
    /\ p.pc = "reader" =>
          p.at["reader"] = p.row.at["reader"] /\ \A d \in p.staged : d.field = "original"
    /\ p.pc \in {"reader", "commit"} => BkOriginal(fl, p.at["original"]) # "none"
    /\ p.pc = "commit" /\ ~m => BkReader(fl, p.at["reader"]) = "whole"
    /\ \A d \in p.staged :
          d.from # d.to /\ d.to = p.at[d.field] /\ d.from = p.row.at[d.field]
BkPass(fl, r, pin, p, m) ==
    /\ p.pc = "idle" => p.todo = {}
    /\ p.pc # "idle" => r.here
    /\ \A d \in p.todo : BkRetires(r, d, m)
    /\ p.pc \in {"fence", "detach", "remove"} => p.todo # {}
    /\ p.pc = "detach" => \A a \in pin : a.path # B!Source(B!First(p.todo))
    /\ p.pc \in {"preflight", "original", "reader", "commit"} => p.then = "original"
    /\ p.pc \in {"original", "reader", "commit"} => p.row.tier < 3 /\ p.todo = {}
    /\ p.pc # "idle" /\ p.then = "original" => BkRead(fl, r, p, m)
    /\ p.then = "end" => p.staged = {}

\* While an ingestion and a pass have not met, what is ingested stays.
BkIngest(fl, r, p, g, m) ==
    /\ m \/ p.pc = "idle" \/ g.pc = "idle"
    /\ g.pc \in {"copying", "reader", "commit"} /\ (~m \/ ~r.here) =>
          BkOriginal(fl, g.tier) # "none"
    /\ g.pc \in {"copy", "copying"} /\ ~m /\ r.here => r.at["original"] # g.tier
    /\ g.pc = "commit" /\ ~m => BkReader(fl, B!ReaderTier(g.tier)) = "whole"

\* Only an original that is being copied is there in part.
BkKnown(r, p) == r.plan \cup p.todo \cup p.staged
BkParts(fl, r, p, g, m, x) ==
    /\ \A t \in B!Tiers : BkReader(fl, t) # "part"
    /\ \A d \in BkKnown(r, p) : d.field = "reader" => d.bytes = "whole"
    /\ ~m /\ ~x =>
          /\ \A t \in B!Tiers : BkOriginal(fl, t) = "part" => g.pc = "copying" /\ t = g.tier
          /\ \A d \in BkKnown(r, p) : d.bytes = "whole"

BkFacts(fl, r, pin, p, g, m, x) ==
    /\ BkBook(fl, r, m, x) /\ BkPlan(r, m) /\ BkPass(fl, r, pin, p, m)
    /\ BkIngest(fl, r, p, g, m) /\ BkParts(fl, r, p, g, m, x)
BkInv == BkTyped /\ BkFacts(bFile, bRow, bPinned, bPass, bIng, bMet, bCut)

\* No file that an artifact names is taken away.
BkStay ==
    \A a \in bPinned :
        bFile[a.path[1]][a.path[2]] # "none" => bFile'[a.path[1]][a.path[2]] # "none"

LEMMA BkInit == B!Init => BkInv
<1> SUFFICES ASSUME B!Init PROVE BkInv
  OBVIOUS
<1>1. "original" \in B!Fields /\ "reader" \in B!Fields /\ 1 \in B!Tiers
  BY DEF B!Fields, B!Tiers
<1>2. B!NoRow \in BkRows /\ B!NoRow.here = FALSE /\ B!NoRow.plan = {} /\ B!NoRow.at \in BkPlaces
  BY <1>1 DEF B!NoRow, BkRows, BkPlaces
<1>3. /\ B!NoPass \in BkPasses /\ B!NoPass.pc = "idle" /\ B!NoPass.todo = {}
      /\ B!NoPass.staged = {} /\ B!NoPass.then = "end"
  BY <1>2 DEF B!NoPass, BkPasses, BkSteps
<1>4. B!NoIngest \in BkIngests /\ B!NoIngest.pc = "idle"
  BY <1>1 DEF B!NoIngest, BkIngests
<1>5. B!NoCite \in BkCites
  BY <1>1 DEF B!NoCite, BkCites, B!Paths, BkBytes
<1>6. /\ bFile \in BkFiles
      /\ \A f \in B!Fields, t \in B!Tiers : bFile[f][t] = "none"
  BY DEF B!Init, BkFiles, BkBytes
<1>7. bMet = FALSE /\ bCut = FALSE /\ bPinned = {} /\ bRow = B!NoRow /\ bPass = B!NoPass
      /\ bIng = B!NoIngest /\ bCite = B!NoCite
  BY DEF B!Init
<1>8. bMet \in BOOLEAN /\ bCut \in BOOLEAN
  BY <1>7, Zenon
<1>9. BkTyped
  BY <1>2, <1>3, <1>4, <1>5, <1>6, <1>7, <1>8 DEF BkTyped
<1>10. BkBook(bFile, bRow, bMet, bCut) /\ BkPlan(bRow, bMet)
  BY <1>2, <1>7 DEF BkBook, BkPlan
<1>11. BkPass(bFile, bRow, bPinned, bPass, bMet)
  BY <1>3, <1>7 DEF BkPass
<1>12. BkIngest(bFile, bRow, bPass, bIng, bMet)
  BY <1>3, <1>4, <1>7 DEF BkIngest
<1>13. BkParts(bFile, bRow, bPass, bIng, bMet, bCut)
  BY <1>1, <1>2, <1>3, <1>4, <1>6, <1>7 DEF BkParts, BkKnown, BkOriginal, BkReader
<1> QED
  BY <1>9, <1>10, <1>11, <1>12, <1>13 DEF BkInv, BkFacts

\* One file is written.
LEMMA BkPut ==
    ASSUME NEW fl \in BkFiles, NEW f \in B!Fields, NEW t \in B!Tiers, NEW w \in BkBytes
    PROVE  LET n == [fl EXCEPT ![f][t] = w] IN
           /\ n \in BkFiles
           /\ \A h \in B!Fields, u \in B!Tiers : n[h][u] = IF h = f /\ u = t THEN w ELSE fl[h][u]
<1>1. fl[f] \in [B!Tiers -> BkBytes]
  BY DEF BkFiles
<1> DEFINE one == [fl[f] EXCEPT ![t] = w]
           n == [fl EXCEPT ![f] = one]
<1>2. one \in [B!Tiers -> BkBytes] /\ \A u \in B!Tiers : one[u] = IF u = t THEN w ELSE fl[f][u]
  BY <1>1
<1>3. [fl EXCEPT ![f][t] = w] = n
  OBVIOUS
<1> HIDE DEF one
<1>4. n \in BkFiles /\ \A h \in B!Fields : n[h] = IF h = f THEN one ELSE fl[h]
  BY <1>2 DEF BkFiles
<1> QED
  BY <1>2, <1>3, <1>4

LEMMA BkNames ==
    /\ "original" \in B!Fields /\ "reader" \in B!Fields
    /\ \A f \in B!Fields : f = "original" \/ f = "reader"
    /\ B!Tiers = 1 .. 4
    /\ \A t \in B!Tiers : B!ReaderTier(t) \in B!Tiers
    /\ B!NoPass \in BkPasses /\ B!NoPass.pc = "idle" /\ B!NoPass.todo = {}
    /\ B!NoPass.staged = {} /\ B!NoPass.then = "end"
    /\ B!NoIngest \in BkIngests /\ B!NoIngest.pc = "idle"
<1>1. "original" \in B!Fields /\ "reader" \in B!Fields /\ 1 \in B!Tiers
  BY DEF B!Fields, B!Tiers
<1>2. B!NoRow \in BkRows /\ B!NoRow.at \in BkPlaces
  BY <1>1 DEF B!NoRow, BkRows, BkPlaces
<1>3. /\ B!NoPass \in BkPasses /\ B!NoPass.pc = "idle" /\ B!NoPass.todo = {}
      /\ B!NoPass.staged = {} /\ B!NoPass.then = "end"
  BY <1>2 DEF B!NoPass, BkPasses, BkSteps
<1>4. B!NoIngest \in BkIngests /\ B!NoIngest.pc = "idle"
  BY <1>1 DEF B!NoIngest, BkIngests
<1>5. \A t \in B!Tiers : B!ReaderTier(t) \in B!Tiers
  BY DEF B!Tiers, B!ReaderTier
<1> QED
  BY <1>1, <1>3, <1>4, <1>5 DEF B!Fields, B!Tiers

\* What is known before a step.
LEMMA BkAt ==
    ASSUME BkInv
    PROVE  \E fl \in BkFiles, r \in BkRows, p \in BkPasses, g \in BkIngests, m \in BOOLEAN,
              x \in BOOLEAN, pin \in SUBSET BkCites :
               /\ fl = bFile /\ r = bRow /\ p = bPass /\ g = bIng /\ m = bMet /\ x = bCut
               /\ pin = bPinned
               /\ BkBook(fl, r, m, x) /\ BkPlan(r, m) /\ BkPass(fl, r, pin, p, m)
               /\ BkIngest(fl, r, p, g, m) /\ BkParts(fl, r, p, g, m, x) /\ BkTyped
  BY DEF BkInv, BkTyped, BkFacts

\* What is known after it.
LEMMA BkAfter ==
    ASSUME NEW fl \in BkFiles, bFile' = fl, NEW r \in BkRows, bRow' = r,
           NEW p \in BkPasses, bPass' = p, NEW g \in BkIngests, bIng' = g,
           bPinned' \in SUBSET BkCites, bCite' \in BkCites,
           NEW m \in BOOLEAN, bMet' = m, NEW x \in BOOLEAN, bCut' = x,
           BkBook(fl, r, m, x), BkPlan(r, m), BkPass(fl, r, bPinned', p, m),
           BkIngest(fl, r, p, g, m), BkParts(fl, r, p, g, m, x)
    PROVE  BkInv'
  BY DEF BkInv, BkTyped, BkFacts

\* What is known stays so when more has been met or cut.
LEMMA BkMore ==
    ASSUME NEW fl \in BkFiles, NEW r \in BkRows, NEW p \in BkPasses, NEW g \in BkIngests,
           NEW pin \in SUBSET BkCites,
           NEW m \in BOOLEAN, NEW n \in BOOLEAN, NEW x \in BOOLEAN, NEW y \in BOOLEAN,
           m => n, x => y,
           BkBook(fl, r, m, x), BkPlan(r, m), BkPass(fl, r, pin, p, m),
           BkIngest(fl, r, p, g, m), BkParts(fl, r, p, g, m, x)
    PROVE  /\ BkBook(fl, r, n, y) /\ BkPlan(r, n) /\ BkPass(fl, r, pin, p, n)
           /\ BkIngest(fl, r, p, g, n) /\ BkParts(fl, r, p, g, n, y)
<1>1. BkBook(fl, r, n, y)
  BY DEF BkBook
<1>2. BkPlan(r, n)
  BY DEF BkPlan
<1>3. \A d \in p.todo : BkRetires(r, d, n)
  BY DEF BkPass, BkRetires
<1>4. BkRead(fl, r, p, m) => BkRead(fl, r, p, n)
  BY DEF BkRead
<1>5. BkPass(fl, r, pin, p, n)
  BY <1>3, <1>4 DEF BkPass
<1>6. BkIngest(fl, r, p, g, n)
  BY DEF BkIngest
<1>7. BkParts(fl, r, p, g, n, y)
  BY DEF BkParts
<1> QED
  BY <1>1, <1>2, <1>5, <1>6, <1>7

\* A pass that ends leaves nothing behind but the row.
LEMMA BkEnds ==
    ASSUME NEW fl \in BkFiles, NEW r \in BkRows, NEW p \in BkPasses, NEW g \in BkIngests,
           NEW pin \in SUBSET BkCites, NEW m \in BOOLEAN, NEW x \in BOOLEAN,
           BkIngest(fl, r, p, g, m), BkParts(fl, r, p, g, m, x)
    PROVE  /\ BkPass(fl, r, pin, B!NoPass, m) /\ BkIngest(fl, r, B!NoPass, g, m)
           /\ BkParts(fl, r, B!NoPass, g, m, x)
<1>1. BkPass(fl, r, pin, B!NoPass, m)
  BY BkNames DEF BkPass
<1>2. BkIngest(fl, r, B!NoPass, g, m)
  BY BkNames DEF BkIngest
<1>3. BkParts(fl, r, B!NoPass, g, m, x)
  BY BkNames DEF BkParts, BkKnown
<1> QED
  BY <1>1, <1>2, <1>3

\* What a pass that retires turns into while it goes on.
BkOn(p, q, pin) ==
    /\ p.pc \in {"preflight", "retire", "fence", "detach", "remove"} /\ q \in BkPasses
    /\ q.pc \in {"retire", "fence", "detach", "remove"} /\ q.row = p.row /\ q.fresh = p.fresh
    /\ q.at = p.at /\ q.staged = p.staged /\ q.then = p.then /\ q.todo \subseteq p.todo
    /\ q.pc \in {"fence", "detach", "remove"} => q.todo # {}
    /\ q.pc = "detach" => \A a \in pin : a.path # B!Source(B!First(q.todo))

\* A pass that retires goes on with what it has still to retire.
LEMMA BkGoesOn ==
    ASSUME NEW fl \in BkFiles, NEW r \in BkRows, NEW p \in BkPasses, NEW g \in BkIngests,
           NEW pin \in SUBSET BkCites, NEW m \in BOOLEAN, NEW x \in BOOLEAN,
           BkPass(fl, r, pin, p, m), BkIngest(fl, r, p, g, m), BkParts(fl, r, p, g, m, x),
           NEW q, BkOn(p, q, pin)
    PROVE  /\ BkPass(fl, r, pin, q, m) /\ BkIngest(fl, r, q, g, m)
           /\ BkParts(fl, r, q, g, m, x)
<1>1. p.then = "original" => BkRead(fl, r, q, m)
  <2> SUFFICES ASSUME p.then = "original" PROVE BkRead(fl, r, q, m)
    OBVIOUS
  <2>1. BkRead(fl, r, p, m)
    BY DEF BkPass, BkOn
  <2> QED
    BY <2>1 DEF BkRead, BkOn
<1>2. BkPass(fl, r, pin, q, m)
  BY <1>1 DEF BkPass, BkOn
<1>3. BkIngest(fl, r, q, g, m)
  BY DEF BkIngest, BkOn
<1>4. BkParts(fl, r, q, g, m, x)
  BY DEF BkParts, BkKnown, BkOn
<1> QED
  BY <1>2, <1>3, <1>4

\* A file appears where there was none.
BkGrown(fl, n, m, x) ==
    \E f \in B!Fields, t \in B!Tiers, w \in {"part", "whole"} :
        /\ fl[f][t] \in {"none", w}
        /\ f = "reader" => w = "whole"
        /\ ~m /\ ~x => w = "whole"
        /\ \A h \in B!Fields, u \in B!Tiers :
               n[h][u] = IF h = f /\ u = t THEN w ELSE fl[h][u]

LEMMA BkAppears ==
    ASSUME NEW fl \in BkFiles, NEW r \in BkRows, NEW p \in BkPasses, NEW g \in BkIngests,
           NEW pin \in SUBSET BkCites, NEW m \in BOOLEAN, NEW x \in BOOLEAN,
           BkBook(fl, r, m, x), BkPass(fl, r, pin, p, m), BkIngest(fl, r, p, g, m),
           BkParts(fl, r, p, g, m, x),
           NEW n \in BkFiles, BkGrown(fl, n, m, x)
    PROVE  /\ BkBook(n, r, m, x) /\ BkPass(n, r, pin, p, m) /\ BkIngest(n, r, p, g, m)
           /\ BkParts(n, r, p, g, m, x)
<1> PICK f \in B!Fields, t \in B!Tiers, w \in {"part", "whole"} :
       /\ fl[f][t] \in {"none", w}
       /\ f = "reader" => w = "whole"
       /\ ~m /\ ~x => w = "whole"
       /\ \A h \in B!Fields, u \in B!Tiers : n[h][u] = IF h = f /\ u = t THEN w ELSE fl[h][u]
  BY DEF BkGrown
<1>1. /\ \A u \in B!Tiers : BkOriginal(fl, u) # "none" => BkOriginal(n, u) = BkOriginal(fl, u)
      /\ \A u \in B!Tiers : BkReader(fl, u) # "none" => BkReader(n, u) = BkReader(fl, u)
  BY BkNames DEF BkOriginal, BkReader
<1>2. r.at["original"] \in B!Tiers /\ r.at["reader"] \in B!Tiers /\ r.loc \in B!Tiers
  BY BkNames DEF BkRows, BkPlaces
<1>3. p.at["original"] \in B!Tiers /\ p.at["reader"] \in B!Tiers
  BY BkNames DEF BkPasses, BkPlaces
<1>4. g.tier \in B!Tiers /\ B!ReaderTier(g.tier) \in B!Tiers
  BY BkNames DEF BkIngests
<1>5. BkBook(n, r, m, x)
  BY <1>1, <1>2 DEF BkBook
<1>6. BkRead(fl, r, p, m) => BkRead(n, r, p, m)
  BY <1>1, <1>3 DEF BkRead
<1>7. BkPass(n, r, pin, p, m)
  BY <1>6 DEF BkPass
<1>8. BkIngest(n, r, p, g, m)
  BY <1>1, <1>4 DEF BkIngest
<1>9. BkParts(n, r, p, g, m, x)
  <2>1. \A u \in B!Tiers : BkReader(n, u) # "part"
    BY BkNames DEF BkReader, BkParts
  <2>2. ~m /\ ~x => \A u \in B!Tiers : BkOriginal(n, u) = "part" => BkOriginal(fl, u) = "part"
    BY BkNames DEF BkOriginal
  <2> QED
    BY <2>1, <2>2 DEF BkParts
<1> QED
  BY <1>5, <1>7, <1>8, <1>9

\* The first of what is to be retired is one of it.
LEMMA BkFirst == ASSUME NEW ds, ds # {} PROVE B!First(ds) \in ds
  BY DEF B!First

\* An ingestion begins, dies, or a verification or a proof goes on beside it.
LEMMA BkOutside ==
    ASSUME BkInv, B!IngestBegins \/ B!IngestDies \/ B!Age \/ B!Verify \/ B!Describe \/ B!Pin
    PROVE  BkInv' /\ BkStay
<1>1. PICK fl \in BkFiles, r \in BkRows, p \in BkPasses, g \in BkIngests, m \in BOOLEAN,
           x \in BOOLEAN, pin \in SUBSET BkCites :
          /\ fl = bFile /\ r = bRow /\ p = bPass /\ g = bIng /\ m = bMet /\ x = bCut
          /\ pin = bPinned
          /\ BkBook(fl, r, m, x) /\ BkPlan(r, m) /\ BkPass(fl, r, pin, p, m)
          /\ BkIngest(fl, r, p, g, m) /\ BkParts(fl, r, p, g, m, x) /\ BkTyped
  BY BkAt
<1>2. bFile' = fl
  BY <1>1 DEF B!IngestBegins, B!IngestDies, B!Age, B!Verify, B!Describe, B!Pin
<1>3. BkStay
  BY <1>1, <1>2 DEF BkStay
<1>4. CASE B!IngestBegins
  <2>1. PICK t \in B!Tiers :
           /\ g.pc = "idle"
           /\ bIng' = [pc |-> IF fl["original"][t] = "none" THEN "copy" ELSE "reader", tier |-> t]
           /\ bMet' = (m \/ p.pc # "idle")
           /\ bRow' = r /\ bPass' = p /\ bCut' = x /\ bPinned' = pin /\ bCite' = bCite
    BY <1>1, <1>4 DEF B!IngestBegins, B!In, B!At, B!proofs
  <2>2. PICK h \in BkIngests : /\ bIng' = h /\ h.tier = t
                               /\ h.pc = IF BkOriginal(fl, t) = "none" THEN "copy" ELSE "reader"
    BY <2>1 DEF BkIngests, BkOriginal
  <2>3. PICK n \in BOOLEAN : (m => n) /\ (p.pc # "idle" => n) /\ bMet' = n
    BY <1>1, <2>1
  <2>4. /\ BkBook(fl, r, n, x) /\ BkPlan(r, n) /\ BkPass(fl, r, pin, p, n)
        /\ BkIngest(fl, r, p, g, n) /\ BkParts(fl, r, p, g, n, x)
    <3>1. (m => n) /\ (x => x)
      BY <2>3
    <3> QED
      BY <1>1, <3>1, BkMore
  <2>5. BkIngest(fl, r, p, h, n)
    BY <2>2, <2>3, <2>4 DEF BkIngest, BkBook
  <2>6. BkParts(fl, r, p, h, n, x)
    BY <2>1, <2>4 DEF BkParts
  <2> QED
    BY <1>1, <1>2, <1>3, <2>1, <2>2, <2>3, <2>4, <2>5, <2>6, BkAfter DEF BkTyped
<1>5. CASE B!IngestDies
  <2>1. /\ bIng' = B!NoIngest /\ bCut' = (x \/ g.pc = "copying")
        /\ bRow' = r /\ bPass' = p /\ bMet' = m /\ bPinned' = pin /\ bCite' = bCite
    BY <1>1, <1>5 DEF B!IngestDies, B!proofs
  <2>2. PICK y \in BOOLEAN : (x => y) /\ (g.pc = "copying" => y) /\ bCut' = y
    BY <1>1, <2>1
  <2>3. /\ BkBook(fl, r, m, y) /\ BkPlan(r, m) /\ BkPass(fl, r, pin, p, m)
        /\ BkIngest(fl, r, p, g, m) /\ BkParts(fl, r, p, g, m, y)
    <3>1. (m => m) /\ (x => y)
      BY <2>2
    <3> QED
      BY <1>1, <3>1, BkMore
  <2>4. BkIngest(fl, r, p, B!NoIngest, m) /\ BkParts(fl, r, p, B!NoIngest, m, y)
    BY <2>2, <2>3, BkNames DEF BkIngest, BkParts
  <2> QED
    BY <1>1, <1>2, <1>3, <2>1, <2>2, <2>3, <2>4, BkNames, BkAfter DEF BkTyped
<1>6. CASE B!Age \/ B!Verify
  <2>1. PICK b \in BOOLEAN, q \in BkPasses :
           /\ bRow' = [r EXCEPT !.aged = b] /\ bPass' = q
           /\ q.pc = p.pc /\ q.row = p.row /\ q.at = p.at /\ q.staged = p.staged
           /\ q.todo = p.todo /\ q.then = p.then
           /\ q.fresh => p.fresh \/ p.then = "end"
    <3>1. CASE B!Age
      BY <1>1, <3>1 DEF B!Age
    <3>2. CASE B!Verify
      <4>1. PICK b \in BOOLEAN : b = (p.then = "end")
        OBVIOUS
      <4> DEFINE q == [p EXCEPT !.fresh = b]
      <4>2. /\ q \in BkPasses /\ q.fresh = b
            /\ q.pc = p.pc /\ q.row = p.row /\ q.at = p.at /\ q.staged = p.staged
            /\ q.todo = p.todo /\ q.then = p.then
        BY DEF BkPasses
      <4>3. bPass' = q /\ bRow' = [r EXCEPT !.aged = FALSE]
        BY <1>1, <3>2, <4>1 DEF B!Verify, B!Stale
      <4> HIDE DEF q
      <4> QED
        BY <4>1, <4>2, <4>3
    <3> QED
      BY <1>6, <3>1, <3>2
  <2> DEFINE s == [r EXCEPT !.aged = b]
  <2>2. /\ s \in BkRows /\ s.here = r.here /\ s.at = r.at /\ s.loc = r.loc /\ s.plan = r.plan
    BY DEF BkRows
  <2>3. bRow' = s
    BY <2>1
  <2> HIDE DEF s
  <2>4. BkBook(fl, s, m, x) /\ BkPlan(s, m)
    BY <1>1, <2>2 DEF BkBook, BkPlan
  <2>5. \A d \in q.todo : BkRetires(s, d, m)
    BY <1>1, <2>1, <2>2 DEF BkPass, BkRetires
  <2>6. p.pc # "idle" /\ p.then = "original" => BkRead(fl, s, q, m)
    BY <1>1, <2>1, <2>2 DEF BkPass, BkRead
  <2>7. BkPass(fl, s, pin, q, m)
    BY <1>1, <2>1, <2>2, <2>5, <2>6 DEF BkPass
  <2>8. BkIngest(fl, s, q, g, m) /\ BkParts(fl, s, q, g, m, x)
    BY <1>1, <2>1, <2>2 DEF BkIngest, BkParts, BkKnown
  <2>9. bIng' = g /\ bMet' = m /\ bCut' = x /\ bPinned' = pin /\ bCite' = bCite
    BY <1>1, <1>6 DEF B!Age, B!Verify, B!quiet, B!proofs, B!counters
  <2> QED
    BY <1>1, <1>2, <1>3, <2>1, <2>2, <2>3, <2>4, <2>7, <2>8, <2>9, BkAfter DEF BkTyped
<1>7. CASE B!Describe
  <2>1. bCite' \in BkCites
    <3>1. PICK c \in {<<"original", 2>>} :
              bCite' = [path |-> c, bytes |-> bFile[c[1]][c[2]]]
      BY <1>7 DEF B!Describe
    <3>2. c \in B!Paths /\ c[1] \in B!Fields /\ c[2] \in B!Tiers
      BY <3>1, BkNames DEF B!Paths
    <3>3. bFile[c[1]][c[2]] \in BkBytes
      BY <1>1, <3>2 DEF BkFiles
    <3> QED
      BY <3>1, <3>2, <3>3 DEF BkCites
  <2>2. /\ bRow' = r /\ bPass' = p /\ bIng' = g /\ bMet' = m /\ bCut' = x /\ bPinned' = pin
    BY <1>1, <1>7 DEF B!Describe, B!counters
  <2> QED
    BY <1>1, <1>2, <1>3, <2>1, <2>2, BkAfter
<1>8. CASE B!Pin
  <2>1. /\ bPinned' = pin \cup {bCite} /\ bCite' = B!NoCite /\ p.pc \notin {"detach", "remove"}
        /\ bRow' = r /\ bPass' = p /\ bIng' = g /\ bMet' = m /\ bCut' = x
    BY <1>1, <1>8 DEF B!Pin, B!Fenced, B!counters
  <2>2. B!NoCite \in BkCites
    BY BkNames DEF B!NoCite, BkCites, B!Paths, BkBytes
  <2>3. bPinned' \in SUBSET BkCites
    BY <1>1, <2>1 DEF BkTyped
  <2>4. BkPass(fl, r, bPinned', p, m)
    BY <1>1, <2>1 DEF BkPass
  <2> QED
    BY <1>1, <1>2, <1>3, <2>1, <2>2, <2>3, <2>4, BkAfter
<1> QED
  BY <1>4, <1>5, <1>6, <1>7, <1>8

\* An ingestion writes the original and the reader edition, then the row.
LEMMA BkCopies ==
    ASSUME BkInv, B!CopyOriginal \/ B!WriteReader
    PROVE  BkInv' /\ BkStay
<1>1. PICK fl \in BkFiles, r \in BkRows, p \in BkPasses, g \in BkIngests, m \in BOOLEAN,
           x \in BOOLEAN, pin \in SUBSET BkCites :
          /\ fl = bFile /\ r = bRow /\ p = bPass /\ g = bIng /\ m = bMet /\ x = bCut
          /\ pin = bPinned
          /\ BkBook(fl, r, m, x) /\ BkPlan(r, m) /\ BkPass(fl, r, pin, p, m)
          /\ BkIngest(fl, r, p, g, m) /\ BkParts(fl, r, p, g, m, x) /\ BkTyped
  BY BkAt
<1>2. PICK f \in B!Fields, t \in B!Tiers, w \in {"part", "whole"}, h \in BkIngests :
          /\ bFile' = [fl EXCEPT ![f][t] = w] /\ bIng' = h /\ h.tier = g.tier
          /\ \/ g.pc = "copy" /\ f = "original" /\ t = g.tier /\ w = "part" /\ h.pc = "copying"
             \/ g.pc = "copying" /\ f = "original" /\ t = g.tier /\ w = "whole" /\ h.pc = "reader"
             \/ g.pc = "reader" /\ f = "reader" /\ t = B!ReaderTier(g.tier) /\ w = "whole"
                  /\ h.pc = "commit"
  <2>1. g.tier \in B!Tiers
    BY DEF BkIngests
  <2>2. CASE B!CopyOriginal
    <3> DEFINE h == [g EXCEPT !.pc = IF g.pc = "copy" THEN "copying" ELSE "reader"]
    <3>1. /\ h \in BkIngests /\ h.tier = g.tier
          /\ h.pc = IF g.pc = "copy" THEN "copying" ELSE "reader"
      BY DEF BkIngests
    <3>2. /\ g.pc \in {"copy", "copying"} /\ bIng' = h
          /\ bFile' = [fl EXCEPT !["original"][g.tier] = IF g.pc = "copy" THEN "part" ELSE "whole"]
      BY <1>1, <2>2 DEF B!CopyOriginal, B!Put
    <3> HIDE DEF h
    <3>3. CASE g.pc = "copy"
      BY <2>1, <3>1, <3>2, <3>3, BkNames
    <3>4. CASE g.pc = "copying"
      BY <2>1, <3>1, <3>2, <3>4, BkNames
    <3> QED
      BY <3>2, <3>3, <3>4
  <2>3. CASE B!WriteReader
    <3> DEFINE h == [g EXCEPT !.pc = "commit"]
    <3>1. h \in BkIngests /\ h.tier = g.tier /\ h.pc = "commit"
      BY DEF BkIngests
    <3>2. /\ g.pc = "reader" /\ bIng' = h
          /\ bFile' = [fl EXCEPT !["reader"][B!ReaderTier(g.tier)] = "whole"]
      BY <1>1, <2>3 DEF B!WriteReader, B!Put
    <3> HIDE DEF h
    <3> QED
      BY <2>1, <3>1, <3>2, BkNames
  <2> QED
    BY <2>2, <2>3
<1>3. /\ bRow' = r /\ bPass' = p /\ bMet' = m /\ bCut' = x /\ bPinned' = pin /\ bCite' = bCite
  BY <1>1 DEF B!CopyOriginal, B!WriteReader, B!proofs, B!counters
<1> DEFINE n == [fl EXCEPT ![f][t] = w]
<1>4. /\ n \in BkFiles
      /\ \A k \in B!Fields, u \in B!Tiers : n[k][u] = IF k = f /\ u = t THEN w ELSE fl[k][u]
  <2>1. w \in BkBytes
    BY DEF BkBytes
  <2> QED
    BY <2>1, BkPut
<1>5. bFile' = n
  BY <1>2
<1> HIDE DEF n
<1>6. /\ \A u \in B!Tiers : BkOriginal(fl, u) # "none" => BkOriginal(n, u) # "none"
      /\ \A u \in B!Tiers : BkReader(fl, u) = "whole" => BkReader(n, u) = "whole"
      /\ \A u \in B!Tiers : BkOriginal(fl, u) = "whole" =>
             BkOriginal(n, u) = "whole" \/ (g.pc = "copy" /\ u = g.tier)
      /\ f = "original" => BkOriginal(n, t) = w
      /\ f = "reader" => BkReader(n, t) = w
      /\ \A u \in B!Tiers : BkReader(n, u) = "part" => BkReader(fl, u) = "part"
      /\ \A u \in B!Tiers : BkOriginal(n, u) = "part" =>
             (BkOriginal(fl, u) = "part" /\ g.pc # "copying") \/ (w = "part" /\ u = t)
               \/ (BkOriginal(fl, u) = "part" /\ u # g.tier)
  BY <1>2, <1>4, BkNames DEF BkOriginal, BkReader
<1>7. r.at["original"] \in B!Tiers /\ r.at["reader"] \in B!Tiers /\ r.loc \in B!Tiers
  BY BkNames DEF BkRows, BkPlaces
<1>8. p.at["original"] \in B!Tiers /\ p.at["reader"] \in B!Tiers
  BY BkNames DEF BkPasses, BkPlaces
<1>9. g.tier \in B!Tiers /\ B!ReaderTier(g.tier) \in B!Tiers
  BY BkNames DEF BkIngests
<1>10. BkBook(n, r, m, x)
  BY <1>1, <1>6, <1>7 DEF BkBook, BkIngest
<1>11. BkRead(fl, r, p, m) => BkRead(n, r, p, m)
  BY <1>6, <1>8 DEF BkRead
<1>12. BkPass(n, r, pin, p, m)
  BY <1>1, <1>11 DEF BkPass
<1>13. BkIngest(n, r, p, h, m)
  BY <1>1, <1>2, <1>6, <1>9 DEF BkIngest
<1>14. BkParts(n, r, p, h, m, x)
  BY <1>1, <1>2, <1>6, <1>9 DEF BkParts
<1>15. BkStay
  <2> SUFFICES ASSUME NEW a \in bPinned, bFile[a.path[1]][a.path[2]] # "none"
               PROVE  bFile'[a.path[1]][a.path[2]] # "none"
    BY DEF BkStay
  <2>1. a.path[1] \in B!Fields /\ a.path[2] \in B!Tiers
    BY <1>1 DEF BkCites, B!Paths
  <2> QED
    BY <1>1, <1>4, <1>5, <2>1
<1> QED
  BY <1>1, <1>2, <1>3, <1>4, <1>5, <1>10, <1>12, <1>13, <1>14, <1>15, BkAfter DEF BkTyped

\* The row of what was ingested is written: a pass that reads it will find it changed.
LEMMA BkIngestCommits ==
    ASSUME BkInv, B!IngestCommits
    PROVE  BkInv' /\ BkStay
<1>1. PICK fl \in BkFiles, r \in BkRows, p \in BkPasses, g \in BkIngests, m \in BOOLEAN,
           x \in BOOLEAN, pin \in SUBSET BkCites :
          /\ fl = bFile /\ r = bRow /\ p = bPass /\ g = bIng /\ m = bMet /\ x = bCut
          /\ pin = bPinned
          /\ BkBook(fl, r, m, x) /\ BkPlan(r, m) /\ BkPass(fl, r, pin, p, m)
          /\ BkIngest(fl, r, p, g, m) /\ BkParts(fl, r, p, g, m, x) /\ BkTyped
  BY BkAt
<1>2. g.tier \in B!Tiers /\ B!ReaderTier(g.tier) \in B!Tiers /\ r.at["original"] \in B!Tiers
  BY BkNames DEF BkIngests, BkRows, BkPlaces
<1> DEFINE o == IF r.here THEN r.at["original"] ELSE g.tier
           at == [original |-> o, reader |-> B!ReaderTier(g.tier)]
           s == [here |-> TRUE, tier |-> g.tier, loc |-> g.tier, aged |-> FALSE, plan |-> {},
                 at |-> at]
<1>3. o \in B!Tiers
  BY <1>2
<1>4. at["original"] = o /\ at["reader"] = B!ReaderTier(g.tier) /\ at \in BkPlaces
  BY <1>2, <1>3 DEF BkPlaces, B!Fields
<1>5. bRow' = s /\ g.pc = "commit" /\ bFile' = fl
  BY <1>1 DEF B!IngestCommits
<1> HIDE DEF at
<1>6. /\ s \in BkRows /\ s.here = TRUE /\ s.at = at /\ s.loc = g.tier /\ s.plan = {}
  BY <1>2, <1>4 DEF BkRows
<1> HIDE DEF o, s
<1>7. PICK b \in BOOLEAN : b = (p.then = "end")
  OBVIOUS
<1> DEFINE q == [p EXCEPT !.fresh = b]
<1>8. /\ q \in BkPasses /\ q.fresh = b
      /\ q.pc = p.pc /\ q.row = p.row /\ q.at = p.at /\ q.staged = p.staged
      /\ q.todo = p.todo /\ q.then = p.then
  BY DEF BkPasses
<1>9. /\ bPass' = q /\ bIng' = B!NoIngest
      /\ bMet' = m /\ bCut' = x /\ bPinned' = pin /\ bCite' = bCite
  BY <1>1, <1>7 DEF B!IngestCommits, B!Stale, B!proofs, B!counters
<1> HIDE DEF q
<1>10. (r.here => o = r.at["original"]) /\ (~r.here => o = g.tier)
  BY DEF o
<1>11. \A t \in B!Tiers : BkOriginal(fl, t) \in BkBytes
  BY BkNames DEF BkFiles, BkOriginal
<1>12. BkBook(fl, s, m, x)
  <2>1. BkOriginal(fl, o) # "none"
    BY <1>1, <1>5, <1>10 DEF BkBook, BkIngest
  <2>2. BkOriginal(fl, o) = "whole" \/ x \/ m
    BY <1>1, <1>3, <1>5, <1>10, <1>11, <2>1 DEF BkBook, BkParts, BkBytes
  <2>3. BkOriginal(fl, g.tier) # "none" \/ m
    BY <1>1, <1>5 DEF BkIngest
  <2>4. BkReader(fl, B!ReaderTier(g.tier)) = "whole" \/ m
    BY <1>1, <1>5 DEF BkIngest
  <2> QED
    BY <1>4, <1>6, <2>1, <2>2, <2>3, <2>4 DEF BkBook
<1>13. BkPlan(s, m)
  BY <1>6 DEF BkPlan
<1>14. p.pc # "idle" => m /\ r.here /\ s.at["original"] = r.at["original"]
  BY <1>1, <1>4, <1>5, <1>6, <1>10 DEF BkPass, BkIngest
<1>15. \A d \in q.todo : BkRetires(s, d, m)
  BY <1>1, <1>8, <1>14 DEF BkPass, BkRetires
<1>16. p.pc # "idle" /\ p.then = "original" => BkRead(fl, s, q, m)
  <2> SUFFICES ASSUME p.pc # "idle", p.then = "original" PROVE BkRead(fl, s, q, m)
    OBVIOUS
  <2>1. BkRead(fl, r, p, m) /\ m /\ s.at["original"] = r.at["original"] /\ ~q.fresh
    BY <1>1, <1>7, <1>8, <1>14 DEF BkPass
  <2> QED
    BY <1>8, <2>1 DEF BkRead
<1>17. BkPass(fl, s, pin, q, m)
  BY <1>1, <1>6, <1>8, <1>15, <1>16 DEF BkPass
<1>18. BkIngest(fl, s, q, B!NoIngest, m)
  BY BkNames DEF BkIngest
<1>19. BkParts(fl, s, q, B!NoIngest, m, x)
  BY <1>1, <1>5, <1>6, <1>8 DEF BkParts, BkKnown
<1>20. BkStay
  BY <1>1, <1>5 DEF BkStay
<1> QED
  BY <1>1, <1>5, <1>6, <1>8, <1>9, <1>12, <1>13, <1>17, <1>18, <1>19, <1>20, BkNames, BkAfter
     DEF BkTyped

\* A step of a pass that touches neither a file nor the row.
LEMMA BkPassGoesOn ==
    ASSUME BkInv, NEW q, bPass' = q, q = B!NoPass \/ BkOn(bPass, q, bPinned),
           UNCHANGED <<bFile, bRow, bIng, bPinned, bCite, bMet, bCut>>
    PROVE  BkInv' /\ BkStay
<1>1. PICK fl \in BkFiles, r \in BkRows, p \in BkPasses, g \in BkIngests, m \in BOOLEAN,
           x \in BOOLEAN, pin \in SUBSET BkCites :
          /\ fl = bFile /\ r = bRow /\ p = bPass /\ g = bIng /\ m = bMet /\ x = bCut
          /\ pin = bPinned
          /\ BkBook(fl, r, m, x) /\ BkPlan(r, m) /\ BkPass(fl, r, pin, p, m)
          /\ BkIngest(fl, r, p, g, m) /\ BkParts(fl, r, p, g, m, x) /\ BkTyped
  BY BkAt
<1>2. /\ bFile' = fl /\ bRow' = r /\ bIng' = g /\ bMet' = m /\ bCut' = x /\ bPinned' = pin
      /\ bCite' \in BkCites
  BY <1>1 DEF BkTyped
<1>3. /\ q \in BkPasses /\ BkPass(fl, r, pin, q, m) /\ BkIngest(fl, r, q, g, m)
      /\ BkParts(fl, r, q, g, m, x)
  <2>1. CASE q = B!NoPass
    BY <1>1, <2>1, BkEnds, BkNames
  <2>2. CASE BkOn(bPass, q, bPinned)
    <3>1. BkOn(p, q, pin)
      BY <1>1, <2>2
    <3> QED
      BY <1>1, <3>1, BkGoesOn DEF BkOn
  <2> QED
    BY <2>1, <2>2
<1>4. BkStay
  BY <1>2, <1>1 DEF BkStay
<1> QED
  BY <1>1, <1>2, <1>3, <1>4, BkAfter

\* What has just been retired.
LEMMA BkDone ==
    ASSUME NEW p \in BkPasses, p = bPass, NEW pin,
           p.pc \in {"fence", "detach", "remove"}, p.todo # {}
    PROVE  BkOn(p, B!Done, pin)
<1> DEFINE d == B!First(p.todo)
           q == [p EXCEPT !.pc = "retire", !.todo = p.todo \ {d}, !.done = p.done \cup {d}]
<1>1. B!Done = [p EXCEPT !.pc = "retire", !.todo = p.todo \ {B!This},
                         !.done = p.done \cup {B!This}]
  BY DEF B!Done
<1>2. B!This = d
  BY DEF B!This
<1>3. B!Done = q
  BY <1>1, <1>2
<1>4. d \in p.todo
  BY BkFirst
<1> HIDE DEF d
<1>5. /\ q \in BkPasses /\ q.pc = "retire" /\ q.row = p.row /\ q.fresh = p.fresh
      /\ q.at = p.at /\ q.staged = p.staged /\ q.then = p.then /\ q.todo = p.todo \ {d}
  BY <1>4 DEF BkPasses, BkSteps
<1> HIDE DEF q
<1> QED
  BY <1>3, <1>5 DEF BkOn

\* The checks of a pass, its removals and its death leave the files in place.
LEMMA BkChecks ==
    ASSUME BkInv, B!Preflight \/ B!Fence \/ B!Remove \/ B!PassDies
    PROVE  BkInv' /\ BkStay
<1>1. PICK p \in BkPasses : p = bPass
  BY DEF BkInv, BkTyped
<1>2. BkPass(bFile, bRow, bPinned, p, bMet)
  BY <1>1 DEF BkInv, BkFacts
<1>3. UNCHANGED <<bFile, bRow, bIng, bPinned, bCite, bMet, bCut>>
  BY DEF B!Preflight, B!Fence, B!Remove, B!PassDies, B!quiet, B!proofs, B!counters
<1>4. bPass' = B!NoPass \/ BkOn(p, bPass', bPinned)
  <2>1. CASE B!Preflight
    <3> DEFINE k == {f \in B!Moving(p.row) : B!Bound(B!From(p.row, f)) \/ B!Bound(B!To(p.row, f))}
               q == [p EXCEPT !.pc = "retire", !.kept = k]
    <3>1. bPass' = B!NoPass \/ bPass' = q
      BY <1>1, <2>1 DEF B!Preflight, B!Raise
    <3>2. k \in SUBSET B!Fields
      BY DEF B!Moving
    <3>3. p.pc = "preflight"
      BY <1>1, <2>1 DEF B!Preflight, B!In
    <3> HIDE DEF k
    <3>4. /\ q \in BkPasses /\ q.pc = "retire" /\ q.row = p.row /\ q.fresh = p.fresh
          /\ q.at = p.at /\ q.staged = p.staged /\ q.then = p.then /\ q.todo = p.todo
      BY <3>2 DEF BkPasses, BkSteps
    <3> HIDE DEF q
    <3> QED
      BY <3>1, <3>3, <3>4 DEF BkOn
  <2>2. CASE B!Fence
    <3>1. p.pc = "fence" /\ p.todo # {}
      BY <1>1, <1>2, <2>2 DEF B!Fence, B!In, BkPass
    <3>2. \/ bPass' = B!NoPass
          \/ bPass' = B!Done
          \/ bPass' = [p EXCEPT !.pc = "detach"] /\ ~B!Bound(B!Source(B!This))
      BY <1>1, <2>2 DEF B!Fence, B!Raise, B!Kept
    <3>3. CASE bPass' = [p EXCEPT !.pc = "detach"] /\ ~B!Bound(B!Source(B!This))
      <4>1. \A a \in bPinned : a.path # B!Source(B!First(p.todo))
        BY <1>1, <3>3 DEF B!Bound, B!This
      <4> DEFINE q == [p EXCEPT !.pc = "detach"]
      <4>2. /\ q \in BkPasses /\ q.pc = "detach" /\ q.row = p.row /\ q.fresh = p.fresh
            /\ q.at = p.at /\ q.staged = p.staged /\ q.then = p.then /\ q.todo = p.todo
        BY DEF BkPasses, BkSteps
      <4>3. bPass' = q
        BY <3>3
      <4> HIDE DEF q
      <4> QED
        BY <3>1, <4>1, <4>2, <4>3 DEF BkOn
    <3> QED
      BY <1>1, <3>1, <3>2, <3>3, BkDone
  <2>3. CASE B!Remove
    <3>1. p.pc = "remove" /\ p.todo # {}
      BY <1>1, <1>2, <2>3 DEF B!Remove, B!In, BkPass
    <3>2. bPass' = B!NoPass \/ bPass' = B!Done
      BY <2>3 DEF B!Remove, B!Raise
    <3> QED
      BY <1>1, <3>1, <3>2, BkDone
  <2>4. CASE B!PassDies
    BY <2>4 DEF B!PassDies, B!Raise
  <2> QED
    BY <2>1, <2>2, <2>3, <2>4
<1> QED
  BY <1>1, <1>3, <1>4, BkPassGoesOn

\* A pass reads the row and what is open in its history.
LEMMA BkBegins == ASSUME BkInv, B!Begin PROVE BkInv' /\ BkStay
<1>1. PICK fl \in BkFiles, r \in BkRows, p \in BkPasses, g \in BkIngests, m \in BOOLEAN,
           x \in BOOLEAN, pin \in SUBSET BkCites :
          /\ fl = bFile /\ r = bRow /\ p = bPass /\ g = bIng /\ m = bMet /\ x = bCut
          /\ pin = bPinned
          /\ BkBook(fl, r, m, x) /\ BkPlan(r, m) /\ BkPass(fl, r, pin, p, m)
          /\ BkIngest(fl, r, p, g, m) /\ BkParts(fl, r, p, g, m, x) /\ BkTyped
  BY BkAt
<1> DEFINE q == [B!NoPass EXCEPT !.pc = "preflight", !.row = r, !.at = r.at,
                                 !.todo = B!Open(r), !.then = "original"]
<1>2. /\ r.here /\ bPass' = q /\ bMet' = (m \/ g.pc # "idle") /\ bFile' = fl /\ bRow' = r
      /\ bIng' = g /\ bCut' = x /\ bPinned' = pin /\ bCite' = bCite
  BY <1>1 DEF B!Begin, B!proofs
<1>3. B!Open(r) \subseteq r.plan /\ \A d \in B!Open(r) : r.at[d.field] = d.to
  BY DEF B!Open
<1>4. r.plan \in SUBSET BkDetails /\ r.at \in BkPlaces
  BY DEF BkRows
<1>5. /\ q \in BkPasses /\ q.pc = "preflight" /\ q.row = r /\ q.at = r.at /\ q.todo = B!Open(r)
      /\ q.then = "original" /\ q.staged = {}
  BY <1>3, <1>4, BkNames DEF BkPasses, BkSteps
<1> HIDE DEF q
<1>6. PICK n \in BOOLEAN : (m => n) /\ (g.pc # "idle" => n) /\ bMet' = n
  BY <1>2
<1>7. (m => n) /\ (x => x)
  BY <1>6
<1>8. /\ BkBook(fl, r, n, x) /\ BkPlan(r, n) /\ BkPass(fl, r, pin, p, n)
      /\ BkIngest(fl, r, p, g, n) /\ BkParts(fl, r, p, g, n, x)
  BY <1>1, <1>7, BkMore
<1>9. \A d \in q.todo : BkRetires(r, d, n)
  BY <1>3, <1>5, <1>8 DEF BkPlan, BkRetires
<1>10. BkRead(fl, r, q, n)
  BY <1>5 DEF BkRead
<1>11. BkPass(fl, r, pin, q, n)
  BY <1>2, <1>5, <1>9, <1>10 DEF BkPass
<1>12. BkIngest(fl, r, q, g, n)
  BY <1>6, <1>8 DEF BkIngest
<1>13. BkParts(fl, r, q, g, n, x)
  BY <1>3, <1>5, <1>8 DEF BkParts, BkKnown
<1>14. BkStay
  BY <1>1, <1>2 DEF BkStay
<1> QED
  BY <1>1, <1>2, <1>5, <1>6, <1>8, <1>11, <1>12, <1>13, <1>14, BkAfter DEF BkTyped

\* A copy that is gone is restored from its source.
LEMMA BkRestores == ASSUME BkInv, B!Restore PROVE BkInv' /\ BkStay
<1>1. PICK fl \in BkFiles, r \in BkRows, p \in BkPasses, g \in BkIngests, m \in BOOLEAN,
           x \in BOOLEAN, pin \in SUBSET BkCites :
          /\ fl = bFile /\ r = bRow /\ p = bPass /\ g = bIng /\ m = bMet /\ x = bCut
          /\ pin = bPinned
          /\ BkBook(fl, r, m, x) /\ BkPlan(r, m) /\ BkPass(fl, r, pin, p, m)
          /\ BkIngest(fl, r, p, g, m) /\ BkParts(fl, r, p, g, m, x) /\ BkTyped
  BY BkAt
<1>2. /\ p.pc = "retire" /\ p.todo # {} /\ bRow' = r /\ bIng' = g /\ bMet' = m /\ bCut' = x
      /\ bPinned' = pin /\ bCite' = bCite
  BY <1>1 DEF B!Restore, B!In, B!quiet, B!proofs, B!counters
<1> DEFINE q == [p EXCEPT !.pc = "fence"]
<1>3. BkOn(p, q, pin)
  <2>1. /\ q \in BkPasses /\ q.pc = "fence" /\ q.row = p.row /\ q.fresh = p.fresh
        /\ q.at = p.at /\ q.staged = p.staged /\ q.then = p.then /\ q.todo = p.todo
    BY DEF BkPasses, BkSteps
  <2> HIDE DEF q
  <2> QED
    BY <1>2, <2>1 DEF BkOn
<1>4. CASE bFile' = fl
  <2>1. bPass' = q \/ bPass' = B!NoPass
    BY <1>1 DEF B!Restore, B!Raise
  <2> HIDE DEF q
  <2> QED
    BY <1>1, <1>2, <1>3, <1>4, <2>1, BkPassGoesOn
<1>5. CASE bFile' # fl
  <2>1. PICK d \in BkDetails : d \in p.todo /\ d = B!This
    BY <1>1, <1>2, BkFirst DEF B!This, BkPasses
  <2>2. PICK f \in B!Fields, t \in B!Tiers, w \in {"part", "whole"} :
           d.field = f /\ d.to = t /\ d.bytes = w
    BY DEF BkDetails
  <2>3. fl[f][t] = "none" /\ bFile' = [fl EXCEPT ![f][t] = w] /\ bPass' = q
    BY <1>1, <1>5, <2>1, <2>2 DEF B!Restore, B!Holds, B!Copy, B!Put
  <2>4. (f = "reader" => w = "whole") /\ (~m /\ ~x => w = "whole")
    BY <1>1, <2>1, <2>2 DEF BkParts, BkKnown
  <2> DEFINE n == [fl EXCEPT ![f][t] = w]
  <2>5. /\ n \in BkFiles
        /\ \A h \in B!Fields, u \in B!Tiers : n[h][u] = IF h = f /\ u = t THEN w ELSE fl[h][u]
    <3>1. w \in BkBytes
      BY DEF BkBytes
    <3> QED
      BY <3>1, BkPut
  <2> HIDE DEF n
  <2>6. /\ BkBook(n, r, m, x) /\ BkPass(n, r, pin, p, m) /\ BkIngest(n, r, p, g, m)
        /\ BkParts(n, r, p, g, m, x)
    <3>1. BkGrown(fl, n, m, x)
      BY <2>3, <2>4, <2>5 DEF BkGrown
    <3>2. /\ BkBook(fl, r, m, x) /\ BkPass(fl, r, pin, p, m) /\ BkIngest(fl, r, p, g, m)
          /\ BkParts(fl, r, p, g, m, x)
      BY <1>1
    <3> QED
      BY <2>5, <3>1, <3>2, BkAppears
  <2> HIDE DEF q
  <2>7. /\ q \in BkPasses /\ BkPass(n, r, pin, q, m) /\ BkIngest(n, r, q, g, m)
        /\ BkParts(n, r, q, g, m, x)
    <3>1. n \in BkFiles
      BY <2>5
    <3>2. q \in BkPasses
      BY <1>3 DEF BkOn
    <3> QED
      BY <1>3, <2>6, <3>1, <3>2, BkGoesOn
  <2>8. bFile' = n
    BY <2>3 DEF n
  <2>9. BkStay
    <3> SUFFICES ASSUME NEW a \in bPinned, bFile[a.path[1]][a.path[2]] # "none"
                 PROVE  bFile'[a.path[1]][a.path[2]] # "none"
      BY DEF BkStay
    <3>1. a.path[1] \in B!Fields /\ a.path[2] \in B!Tiers
      BY <1>1 DEF BkCites, B!Paths
    <3> QED
      BY <1>1, <2>3, <2>5, <2>8, <3>1
  <2> QED
    BY <1>1, <1>2, <2>3, <2>5, <2>6, <2>7, <2>8, <2>9, BkAfter DEF BkTyped
<1> QED
  BY <1>4, <1>5

\* A source is put away: it is neither where the row is nor what an artifact names.
LEMMA BkDetaches == ASSUME BkInv, B!Detach PROVE BkInv' /\ BkStay
<1>1. PICK fl \in BkFiles, r \in BkRows, p \in BkPasses, g \in BkIngests, m \in BOOLEAN,
           x \in BOOLEAN, pin \in SUBSET BkCites :
          /\ fl = bFile /\ r = bRow /\ p = bPass /\ g = bIng /\ m = bMet /\ x = bCut
          /\ pin = bPinned
          /\ BkBook(fl, r, m, x) /\ BkPlan(r, m) /\ BkPass(fl, r, pin, p, m)
          /\ BkIngest(fl, r, p, g, m) /\ BkParts(fl, r, p, g, m, x) /\ BkTyped
  BY BkAt
<1>2. /\ p.pc = "detach" /\ p.todo # {} /\ r.here /\ bRow' = r /\ bIng' = g /\ bMet' = m
      /\ bCut' = x /\ bPinned' = pin /\ bCite' = bCite
  BY <1>1 DEF B!Detach, B!In, B!quiet, B!proofs, B!counters, BkPass
<1> DEFINE q == [p EXCEPT !.pc = "remove"]
<1>3. BkOn(p, q, pin)
  <2>1. /\ q \in BkPasses /\ q.pc = "remove" /\ q.row = p.row /\ q.fresh = p.fresh
        /\ q.at = p.at /\ q.staged = p.staged /\ q.then = p.then /\ q.todo = p.todo
    BY DEF BkPasses, BkSteps
  <2> HIDE DEF q
  <2> QED
    BY <1>2, <2>1 DEF BkOn
<1>4. BkOn(p, B!Done, pin)
  BY <1>1, <1>2, BkDone
<1>5. PICK d \in BkDetails : d \in p.todo /\ d = B!This /\ d = B!First(p.todo)
  BY <1>1, <1>2, BkFirst DEF B!This, BkPasses
<1>6. \/ bFile' = fl /\ (bPass' = q \/ bPass' = B!NoPass \/ bPass' = B!Done)
      \/ bFile' = [fl EXCEPT ![d.field][d.from] = "none"] /\ bPass' = q
  BY <1>1, <1>5 DEF B!Detach, B!Raise, B!Put
<1> HIDE DEF q
<1>7. CASE bFile' = fl /\ (bPass' = q \/ bPass' = B!NoPass \/ bPass' = B!Done)
  BY <1>1, <1>2, <1>3, <1>4, <1>7, BkPassGoesOn
<1>8. CASE bFile' = [fl EXCEPT ![d.field][d.from] = "none"] /\ bPass' = q
  <2>1. PICK f \in B!Fields, t \in B!Tiers : d.field = f /\ d.from = t
    BY DEF BkDetails
  <2> DEFINE n == [fl EXCEPT ![f][t] = "none"]
  <2>2. /\ n \in BkFiles
        /\ \A h \in B!Fields, u \in B!Tiers : n[h][u] = IF h = f /\ u = t THEN "none" ELSE fl[h][u]
    <3>1. "none" \in BkBytes
      BY DEF BkBytes
    <3> QED
      BY <3>1, BkPut
  <2>3. bFile' = n
    BY <1>8, <2>1
  <2> HIDE DEF n
  <2>4. BkRetires(r, d, m)
    BY <1>1, <1>5 DEF BkPass
  <2>5. r.at["original"] \in B!Tiers /\ r.at["reader"] \in B!Tiers /\ r.loc \in B!Tiers
    BY BkNames DEF BkRows, BkPlaces
  <2>6. BkBook(n, r, m, x)
    <3>1. f = "original" => t # r.at["original"] /\ (t # r.loc \/ m)
      BY <2>1, <2>4 DEF BkRetires
    <3>2. f = "reader" => t # r.at["reader"] \/ m
      BY <2>1, <2>4 DEF BkRetires
    <3>3. /\ BkOriginal(n, r.at["original"]) = BkOriginal(fl, r.at["original"])
          /\ BkOriginal(n, r.loc) = BkOriginal(fl, r.loc) \/ m
          /\ BkReader(n, r.at["reader"]) = BkReader(fl, r.at["reader"]) \/ m
      BY <2>2, <2>5, <3>1, <3>2, BkNames DEF BkOriginal, BkReader
    <3> QED
      BY <1>1, <3>3 DEF BkBook
  <2>7. BkRead(fl, r, p, m) => BkRead(n, r, p, m)
    BY <1>2 DEF BkRead
  <2>8. BkPass(n, r, pin, p, m)
    BY <1>1, <2>7 DEF BkPass
  <2>9. BkIngest(n, r, p, g, m)
    BY <1>1, <1>2 DEF BkIngest
  <2>10. BkParts(n, r, p, g, m, x)
    <3>1. /\ \A u \in B!Tiers : BkReader(n, u) # "part"
          /\ \A u \in B!Tiers : BkOriginal(n, u) = "part" => BkOriginal(fl, u) = "part"
      BY <1>1, <2>2, BkNames DEF BkReader, BkOriginal, BkParts
    <3> QED
      BY <1>1, <3>1 DEF BkParts
  <2>11. q \in BkPasses
    BY <1>3 DEF BkOn
  <2>12. /\ BkPass(n, r, pin, q, m) /\ BkIngest(n, r, q, g, m) /\ BkParts(n, r, q, g, m, x)
    <3>1. n \in BkFiles
      BY <2>2
    <3> QED
      BY <1>3, <2>8, <2>9, <2>10, <2>11, <3>1, BkGoesOn
  <2>13. BkStay
    <3> SUFFICES ASSUME NEW a \in bPinned, bFile[a.path[1]][a.path[2]] # "none"
                 PROVE  bFile'[a.path[1]][a.path[2]] # "none"
      BY DEF BkStay
    <3>1. /\ a.path[1] \in B!Fields /\ a.path[2] \in B!Tiers
          /\ a.path = <<a.path[1], a.path[2]>>
      BY <1>1 DEF BkCites, B!Paths
    <3>2. a.path # <<f, t>>
      BY <1>1, <1>2, <1>5, <2>1 DEF BkPass, B!Source
    <3>3. a.path[1] # f \/ a.path[2] # t
      BY <3>1, <3>2
    <3> QED
      BY <1>1, <2>2, <2>3, <3>1, <3>3
  <2> QED
    BY <1>1, <1>2, <1>8, <2>2, <2>3, <2>6, <2>11, <2>12, <2>13, BkAfter DEF BkTyped
<1> QED
  BY <1>6, <1>7, <1>8

\* What was retired is marked in the row as it is now.
LEMMA BkMarks == ASSUME BkInv, B!Mark PROVE BkInv' /\ BkStay
<1>1. PICK fl \in BkFiles, r \in BkRows, p \in BkPasses, g \in BkIngests, m \in BOOLEAN,
           x \in BOOLEAN, pin \in SUBSET BkCites :
          /\ fl = bFile /\ r = bRow /\ p = bPass /\ g = bIng /\ m = bMet /\ x = bCut
          /\ pin = bPinned
          /\ BkBook(fl, r, m, x) /\ BkPlan(r, m) /\ BkPass(fl, r, pin, p, m)
          /\ BkIngest(fl, r, p, g, m) /\ BkParts(fl, r, p, g, m, x) /\ BkTyped
  BY BkAt
<1>2. /\ p.pc = "retire" /\ p.todo = {} /\ bFile' = fl /\ bIng' = g /\ bMet' = m
      /\ bCut' = x /\ bPinned' = pin /\ bCite' = bCite
  BY <1>1 DEF B!Mark, B!In, B!quiet, B!proofs, B!counters
<1> DEFINE k == p.done \cap B!Open(r)
           s == [r EXCEPT !.plan = r.plan \ k]
<1>3. PICK b \in BOOLEAN : b <=> (p.fresh /\ k = {})
  OBVIOUS
<1> DEFINE q == [p EXCEPT !.pc = "original", !.done = {}, !.fresh = b]
<1>4. /\ bRow' = s
      /\ \/ bPass' = B!NoPass
         \/ bPass' = q /\ p.then = "original" /\ B!Due(p.row)
  BY <1>1, <1>3 DEF B!Mark
<1> HIDE DEF k
<1>5. /\ s \in BkRows /\ s.here = r.here /\ s.at = r.at /\ s.loc = r.loc /\ s.plan = r.plan \ k
  BY DEF BkRows
<1>6. /\ q \in BkPasses /\ q.pc = "original" /\ q.row = p.row /\ q.at = p.at /\ q.fresh = b
      /\ q.staged = p.staged /\ q.todo = p.todo /\ q.then = p.then
  BY DEF BkPasses, BkSteps
<1> HIDE DEF s, q
<1>7. BkBook(fl, s, m, x) /\ BkPlan(s, m)
  BY <1>1, <1>5 DEF BkBook, BkPlan
<1>8. BkIngest(fl, s, p, g, m) /\ BkParts(fl, s, p, g, m, x)
  BY <1>1, <1>5 DEF BkIngest, BkParts, BkKnown
<1>9. PICK v \in BkPasses : /\ bPass' = v /\ BkPass(fl, s, pin, v, m) /\ BkIngest(fl, s, v, g, m)
                            /\ BkParts(fl, s, v, g, m, x)
  <2>1. CASE bPass' = B!NoPass
    BY <1>5, <1>8, <2>1, BkEnds, BkNames
  <2>2. CASE bPass' = q /\ p.then = "original" /\ B!Due(p.row)
    <3>1. BkRead(fl, r, p, m) /\ p.row.tier < 3 /\ r.here
      BY <1>1, <1>2, <2>2 DEF BkPass, B!Due
    <3>2. BkRead(fl, s, q, m)
      BY <1>2, <1>3, <1>5, <1>6, <3>1 DEF BkRead
    <3>3. BkPass(fl, s, pin, q, m)
      BY <1>2, <1>5, <1>6, <2>2, <3>1, <3>2 DEF BkPass
    <3>4. BkIngest(fl, s, q, g, m)
      BY <1>2, <1>6, <1>8 DEF BkIngest
    <3>5. BkParts(fl, s, q, g, m, x)
      BY <1>6, <1>8 DEF BkParts, BkKnown
    <3> QED
      BY <1>6, <2>2, <3>3, <3>4, <3>5
  <2> QED
    BY <1>4, <2>1, <2>2
<1>10. BkStay
  BY <1>1, <1>2 DEF BkStay
<1> QED
  BY <1>1, <1>2, <1>4, <1>5, <1>7, <1>9, <1>10, BkAfter DEF BkTyped

\* A file is staged to the next tier.
LEMMA BkStages == ASSUME BkInv, B!Stage PROVE BkInv' /\ BkStay
<1>1. PICK fl \in BkFiles, r \in BkRows, p \in BkPasses, g \in BkIngests, m \in BOOLEAN,
           x \in BOOLEAN, pin \in SUBSET BkCites :
          /\ fl = bFile /\ r = bRow /\ p = bPass /\ g = bIng /\ m = bMet /\ x = bCut
          /\ pin = bPinned
          /\ BkBook(fl, r, m, x) /\ BkPlan(r, m) /\ BkPass(fl, r, pin, p, m)
          /\ BkIngest(fl, r, p, g, m) /\ BkParts(fl, r, p, g, m, x) /\ BkTyped
  BY BkAt
<1>2. PICK f \in B!Fields : f = p.pc
  BY <1>1 DEF B!Stage
<1>3. /\ p.todo = {} /\ p.then = "original" /\ r.here /\ bRow' = r /\ bIng' = g /\ bMet' = m
      /\ bCut' = x /\ bPinned' = pin /\ bCite' = bCite /\ (m \/ g.pc = "idle")
  BY <1>1, <1>2, BkNames DEF B!Stage, B!quiet, B!proofs, B!counters, BkPass, BkIngest
<1>4. BkRead(fl, r, p, m)
  BY <1>1, <1>2, <1>3, BkNames DEF BkPass
<1>5. p.at \in BkPlaces /\ p.row.at \in BkPlaces /\ r.at \in BkPlaces
  BY DEF BkPasses, BkRows
<1>6. PICK from \in B!Tiers, to \in B!Tiers : from = p.row.at[f] /\ to = p.row.tier + 1
  <2>1. p.row.tier \in B!Tiers /\ p.row.tier < 3
    BY <1>1, <1>2, BkNames DEF BkPass, BkPasses, BkRows
  <2>2. p.row.tier + 1 \in B!Tiers
    BY <2>1, BkNames
  <2>3. p.row.at[f] \in B!Tiers
    BY <1>5 DEF BkPlaces
  <2> QED
    BY <2>2, <2>3
<1>7. p.at[f] = from
  BY <1>2, <1>4, <1>6, BkNames DEF BkRead
<1>8. PICK next \in {"reader", "commit"} :
         next = (IF f = "original" THEN "reader" ELSE "commit")
  OBVIOUS
<1>9. PICK w \in BkBytes : w = fl[f][from]
  BY DEF BkFiles
<1> DEFINE q1 == [p EXCEPT !.pc = next, !.at[f] = IF from = to THEN to ELSE @]
           e == [field |-> f, from |-> from, to |-> to, bytes |-> w, kept |-> f \in p.kept]
           q2 == [p EXCEPT !.pc = next, !.at[f] = to, !.staged = @ \cup {e}]
<1>10. \/ bPass' = q1 /\ bFile' = fl /\ (from = to \/ w = "none")
       \/ bPass' = B!NoPass /\ bFile' = fl
       \/ /\ bPass' = q2 /\ bFile' = [fl EXCEPT ![f][to] = w] /\ from # to /\ w # "none"
          /\ fl[f][to] \in {"none", w}
  BY <1>1, <1>2, <1>6, <1>8, <1>9 DEF B!Stage, B!At, B!Raise, B!Put
<1>11. CASE bPass' = q1 /\ bFile' = fl /\ (from = to \/ w = "none")
  <2>1. PICK at \in BkPlaces : at = [p.at EXCEPT ![f] = IF from = to THEN to ELSE @]
    BY <1>5 DEF BkPlaces
  <2>2. at["original"] = p.at["original"] /\ at["reader"] = p.at["reader"]
    BY <1>5, <1>7, <2>1 DEF BkPlaces, B!Fields
  <2> DEFINE q == [p EXCEPT !.pc = next, !.at = at]
  <2>3. /\ q \in BkPasses /\ q.pc = next /\ q.row = p.row /\ q.at = at /\ q.fresh = p.fresh
        /\ q.staged = p.staged /\ q.todo = p.todo /\ q.then = p.then
    BY DEF BkPasses, BkSteps
  <2>4. bPass' = q
    BY <1>11, <2>1
  <2> HIDE DEF q
  <2>5. BkOriginal(fl, p.at["original"]) # "none"
    BY <1>1, <1>2, <1>3, <1>4, BkNames DEF BkRead, BkBook
  <2>6. f = "reader" /\ ~m => BkReader(fl, p.at["reader"]) = "whole"
    BY <1>1, <1>2, <1>3, <1>4 DEF BkRead, BkBook
  <2>7. BkRead(fl, r, q, m)
    BY <1>2, <1>4, <1>8, <2>2, <2>3, <2>5, <2>6, BkNames DEF BkRead
  <2>8. BkPass(fl, r, pin, q, m)
    BY <1>1, <1>2, <1>3, <2>3, <2>7, BkNames DEF BkPass
  <2>9. BkIngest(fl, r, q, g, m)
    BY <1>1, <1>3 DEF BkIngest
  <2>10. BkParts(fl, r, q, g, m, x)
    BY <1>1, <2>3 DEF BkParts, BkKnown
  <2>11. BkStay
    BY <1>1, <1>11 DEF BkStay
  <2> QED
    BY <1>1, <1>3, <1>11, <2>3, <2>4, <2>8, <2>9, <2>10, <2>11, BkAfter DEF BkTyped
<1>12. CASE bPass' = B!NoPass /\ bFile' = fl
  BY <1>1, <1>3, <1>12, BkPassGoesOn
<1>13. CASE /\ bPass' = q2 /\ bFile' = [fl EXCEPT ![f][to] = w] /\ from # to /\ w # "none"
            /\ fl[f][to] \in {"none", w}
  <2>1. PICK v \in {"part", "whole"} : v = w
    BY <1>13 DEF BkBytes
  <2>2. (f = "reader" => v = "whole") /\ (~m /\ ~x => v = "whole")
    <3>1. f = "reader" => BkReader(fl, from) = v
      BY <1>9, <2>1 DEF BkReader
    <3>2. f = "original" => BkOriginal(fl, from) = v
      BY <1>9, <2>1 DEF BkOriginal
    <3> QED
      BY <1>1, <1>3, <3>1, <3>2, BkNames DEF BkParts
  <2> DEFINE n == [fl EXCEPT ![f][to] = w]
  <2>3. /\ n \in BkFiles
        /\ \A h \in B!Fields, u \in B!Tiers : n[h][u] = IF h = f /\ u = to THEN w ELSE fl[h][u]
    BY BkPut
  <2>4. bFile' = n
    BY <1>13
  <2> HIDE DEF n
  <2>5. BkGrown(fl, n, m, x)
    <3>1. fl[f][to] \in {"none", v}
      BY <1>13, <2>1
    <3> QED
      BY <2>1, <2>2, <2>3, <3>1 DEF BkGrown
  <2>6. /\ BkBook(n, r, m, x) /\ BkPass(n, r, pin, p, m) /\ BkIngest(n, r, p, g, m)
        /\ BkParts(n, r, p, g, m, x)
    <3>1. /\ BkBook(fl, r, m, x) /\ BkPass(fl, r, pin, p, m) /\ BkIngest(fl, r, p, g, m)
          /\ BkParts(fl, r, p, g, m, x)
      BY <1>1
    <3> QED
      BY <2>3, <2>5, <3>1, BkAppears
  <2>7. PICK at \in BkPlaces : at = [p.at EXCEPT ![f] = to]
    BY <1>5 DEF BkPlaces
  <2>8. \A h \in B!Fields : at[h] = IF h = f THEN to ELSE p.at[h]
    BY <1>5, <2>7 DEF BkPlaces
  <2>9. PICK b \in BOOLEAN : b = (f \in p.kept)
    <3>1. (f \in p.kept) \in BOOLEAN
      OBVIOUS
    <3> QED
      BY <3>1, Zenon
  <2> DEFINE c == [field |-> f, from |-> from, to |-> to, bytes |-> v, kept |-> b]
  <2>10. c \in BkDetails /\ c.field = f /\ c.from = from /\ c.to = to /\ c.bytes = v
    BY <2>9 DEF BkDetails
  <2>11. c = e
    BY <2>1, <2>9
  <2> HIDE DEF c, e
  <2> DEFINE q == [p EXCEPT !.pc = next, !.at = at, !.staged = p.staged \cup {c}]
  <2>12. /\ q \in BkPasses /\ q.pc = next /\ q.row = p.row /\ q.at = at /\ q.fresh = p.fresh
         /\ q.staged = p.staged \cup {c} /\ q.todo = p.todo /\ q.then = p.then
    BY <2>10 DEF BkPasses, BkSteps
  <2>13. bPass' = q
    BY <1>13, <2>7, <2>11
  <2> HIDE DEF q
  <2>14. BkRead(n, r, p, m)
    BY <1>2, <1>3, <2>6, BkNames DEF BkPass
  <2>15. f = "original" => BkOriginal(n, to) # "none"
    BY <1>13, <2>3, BkNames DEF BkOriginal
  <2>16. f = "reader" => BkReader(n, to) = "whole"
    BY <2>1, <2>2, <2>3, BkNames DEF BkReader
  <2>17. \A d \in q.staged :
            d.from # d.to /\ d.to = q.at[d.field] /\ d.from = q.row.at[d.field]
    <3> SUFFICES ASSUME NEW d \in q.staged
                 PROVE  d.from # d.to /\ d.to = q.at[d.field] /\ d.from = q.row.at[d.field]
      OBVIOUS
    <3>1. CASE d = c
      BY <1>6, <1>13, <2>8, <2>10, <2>12, <3>1
    <3>2. CASE d \in p.staged
      <4>1. d.field \in B!Fields
        BY <3>2 DEF BkPasses, BkDetails
      <4>2. d.field # f
        BY <1>2, <2>14, <3>2, BkNames DEF BkRead
      <4> QED
        BY <2>8, <2>12, <2>14, <3>2, <4>1, <4>2 DEF BkRead
    <3> QED
      BY <2>12, <3>1, <3>2
  <2>18. next = "reader" => /\ q.at["reader"] = q.row.at["reader"]
                            /\ \A d \in q.staged : d.field = "original"
    BY <1>2, <1>8, <2>8, <2>10, <2>12, <2>14, BkNames DEF BkRead
  <2>19. BkOriginal(n, q.at["original"]) # "none"
    BY <1>2, <2>8, <2>12, <2>14, <2>15, BkNames DEF BkRead
  <2>20. next = "commit" => BkReader(n, q.at["reader"]) = "whole"
    BY <1>2, <1>8, <2>8, <2>12, <2>16, BkNames
  <2>21. BkRead(n, r, q, m)
    <3>1. /\ q.row.at["original"] = r.at["original"]
          /\ q.fresh \/ ~m => q.row.at = r.at
          /\ q.fresh => q.row.plan = r.plan
      BY <2>12, <2>14 DEF BkRead
    <3> QED
      BY <2>12, <2>17, <2>18, <2>19, <2>20, <3>1 DEF BkRead
  <2>22. BkPass(n, r, pin, q, m)
    BY <1>1, <1>2, <1>3, <2>12, <2>21, BkNames DEF BkPass
  <2>23. BkIngest(n, r, q, g, m)
    BY <1>3, <2>6 DEF BkIngest
  <2>24. BkParts(n, r, q, g, m, x)
    BY <2>2, <2>6, <2>10, <2>12 DEF BkParts, BkKnown
  <2>25. BkStay
    <3> SUFFICES ASSUME NEW a \in bPinned, bFile[a.path[1]][a.path[2]] # "none"
                 PROVE  bFile'[a.path[1]][a.path[2]] # "none"
      BY DEF BkStay
    <3>1. a.path[1] \in B!Fields /\ a.path[2] \in B!Tiers
      BY <1>1 DEF BkCites, B!Paths
    <3> QED
      BY <1>1, <1>13, <2>3, <2>4, <3>1
  <2> QED
    BY <1>1, <1>3, <2>3, <2>4, <2>6, <2>12, <2>13, <2>22, <2>23, <2>24, <2>25, BkAfter
       DEF BkTyped
<1> HIDE DEF q1, q2
<1> QED
  BY <1>10, <1>11, <1>12, <1>13

\* The row is pointed at the copies, and their sources are to be retired.
LEMMA BkCommits == ASSUME BkInv, B!Commit PROVE BkInv' /\ BkStay
<1>1. PICK fl \in BkFiles, r \in BkRows, p \in BkPasses, g \in BkIngests, m \in BOOLEAN,
           x \in BOOLEAN, pin \in SUBSET BkCites :
          /\ fl = bFile /\ r = bRow /\ p = bPass /\ g = bIng /\ m = bMet /\ x = bCut
          /\ pin = bPinned
          /\ BkBook(fl, r, m, x) /\ BkPlan(r, m) /\ BkPass(fl, r, pin, p, m)
          /\ BkIngest(fl, r, p, g, m) /\ BkParts(fl, r, p, g, m, x) /\ BkTyped
  BY BkAt
<1>2. /\ p.pc = "commit" /\ bFile' = fl /\ bIng' = g /\ bMet' = m
      /\ bCut' = x /\ bPinned' = pin /\ bCite' = bCite
  BY <1>1 DEF B!Commit, B!In, B!quiet, B!proofs, B!counters
<1>3. p.then = "original" /\ r.here /\ (m \/ g.pc = "idle") /\ BkRead(fl, r, p, m)
      /\ p.row.tier < 3
  BY <1>1, <1>2 DEF BkPass, BkIngest
<1>4. CASE ~p.fresh
  BY <1>1, <1>2, <1>4, BkPassGoesOn DEF B!Commit, B!Raise
<1>5. CASE p.fresh
  <2>1. p.at \in BkPlaces /\ p.row \in BkRows /\ p.staged \in SUBSET BkDetails
    BY DEF BkPasses
  <2>2. PICK l \in B!Tiers : l = IF r.loc = r.at["original"] THEN p.at["original"] ELSE r.loc
    BY <2>1, BkNames DEF BkPlaces, BkRows
  <2>3. PICK t \in B!Tiers : t = p.row.tier + 1
    BY <1>3, <2>1, BkNames DEF BkRows
  <2> DEFINE s == [r EXCEPT !.tier = t, !.at = p.at, !.loc = l, !.aged = FALSE,
                            !.plan = p.row.plan \cup p.staged]
             q == [B!NoPass EXCEPT !.pc = "retire", !.todo = p.staged]
  <2>4. bRow' = s /\ bPass' = q
    BY <1>1, <1>5, <2>2, <2>3 DEF B!Commit, B!Located
  <2>5. p.row.plan \in SUBSET BkDetails
    BY <2>1 DEF BkRows
  <2>6. /\ s \in BkRows /\ s.here = r.here /\ s.at = p.at /\ s.loc = l
        /\ s.plan = p.row.plan \cup p.staged
    BY <2>1, <2>5 DEF BkRows
  <2>7. /\ q \in BkPasses /\ q.pc = "retire" /\ q.todo = p.staged /\ q.then = "end"
        /\ q.staged = {}
    BY <2>1, BkNames DEF BkPasses, BkSteps
  <2> HIDE DEF s, q
  <2>8. p.row.at = r.at /\ p.row.plan = r.plan
    BY <1>3, <1>5 DEF BkRead
  <2>9. \A u \in B!Tiers : BkOriginal(fl, u) \in BkBytes
    BY BkNames DEF BkFiles, BkOriginal
  <2>10. BkBook(fl, s, m, x)
    <3>1. BkOriginal(fl, p.at["original"]) # "none" /\ p.at["original"] \in B!Tiers
      BY <1>2, <1>3, <2>1, BkNames DEF BkRead, BkPlaces
    <3>2. BkOriginal(fl, p.at["original"]) = "whole" \/ x \/ m
      BY <1>1, <1>3, <2>9, <3>1 DEF BkParts, BkBytes
    <3>3. BkReader(fl, p.at["reader"]) = "whole" \/ m
      BY <1>2, <1>3 DEF BkRead
    <3>4. BkOriginal(fl, l) # "none" \/ m
      BY <1>1, <1>3, <2>2, <3>1 DEF BkBook
    <3> QED
      BY <2>6, <3>1, <3>2, <3>3, <3>4 DEF BkBook
  <2>11. BkPlan(s, m)
    <3> SUFFICES ASSUME NEW d \in s.plan
                 PROVE  /\ d.from # d.to
                        /\ d.field = "original" /\ ~m => d.from # s.loc \/ s.loc = s.at["original"]
      BY DEF BkPlan
    <3>1. CASE d \in r.plan
      BY <1>1, <2>2, <2>6, <3>1 DEF BkPlan
    <3>2. CASE d \in p.staged
      BY <1>3, <2>2, <2>6, <2>8, <3>2 DEF BkRead
    <3> QED
      BY <2>6, <2>8, <3>1, <3>2
  <2>12. \A d \in q.todo : BkRetires(s, d, m)
    BY <1>3, <2>6, <2>7, <2>11 DEF BkRead, BkRetires, BkPlan
  <2>13. BkPass(fl, s, pin, q, m)
    BY <1>3, <2>6, <2>7, <2>12 DEF BkPass
  <2>14. BkIngest(fl, s, q, g, m)
    BY <1>1, <1>3, <2>6 DEF BkIngest
  <2>15. BkParts(fl, s, q, g, m, x)
    BY <1>1, <2>6, <2>7, <2>8 DEF BkParts, BkKnown
  <2>16. BkStay
    BY <1>1, <1>2 DEF BkStay
  <2> QED
    BY <1>1, <1>2, <2>4, <2>6, <2>7, <2>10, <2>11, <2>13, <2>14, <2>15, <2>16, BkAfter
       DEF BkTyped
<1> QED
  BY <1>4, <1>5

LEMMA BkNext == ASSUME BkInv, B!Next PROVE BkInv' /\ BkStay
  BY BkOutside, BkCopies, BkIngestCommits, BkChecks, BkBegins, BkRestores, BkDetaches, BkMarks,
     BkStages, BkCommits DEF B!Next, B!Ingest, B!Step

LEMMA BkStutters == ASSUME BkInv, UNCHANGED bVars PROVE BkInv'
  BY DEF bVars, B!vars, BkInv, BkTyped

LEMMA BkBookStays == BkInv => B!BookStays
  BY BkNames DEF BkInv, BkFacts, BkBook, B!BookStays, B!At, BkOriginal, BkReader

-----------------------------------------------------------------------------
(* Imports of a foreign palace.                                             *)

PalPlaces ==
    {"new", "unlink", "begin", "copy", "item", "progress", "graph", "commit", "finish", "report",
     "record", "undo", "confess", "release", "done", "dead"}
PalCalls ==
    [pc : PalPlaces, at : 1 .. MaxItems + 1, listed : SUBSET I!Items,
     refused : SUBSET (1 .. MaxItems + 1)]
PalOps == {"none", "running", "succeeded", "failed", "interrupted"}
PalNotes ==
    {"none", "started", "snapshot", "import", "snapshot_blocked", "snapshot_retained", "done",
     "failed"}
PalOutputs ==
    [items : SUBSET I!Items, raw : BOOLEAN, manifest : SUBSET I!Items,
     receipts : SUBSET {"final", "failed"}, note : PalNotes]
PalCards == [of : 0 .. MaxImports, linked : BOOLEAN, placed : BOOLEAN]
PalCatalogs ==
    [book : [I!Items -> Seq(I!Imports)], chunks : SUBSET I!Items,
     card : [I!Items -> PalCards], review : SUBSET I!Imports]

\* The history of item i names import p.
PalNames(k, i, p) == \E n \in 1 .. Len(k.book[i]) : k.book[i][n] = p
\* A history goes on where the other one ends.
PalPrefix(s, t) == Len(s) <= Len(t) /\ \A n \in 1 .. Len(s) : t[n] = s[n]
PalLonger(k, l) == \A i \in I!Items : PalPrefix(k.book[i], l.book[i])
\* Cards that wait are those of imports with a review, or of the import that writes.
PalOwed(d, t) ==
     \A i \in I!Items : d.card[i].linked /\ ~d.card[i].placed => d.card[i].of \in d.review \cup t

\* What the writer sees, t being the one who has the transaction.
PalData(t, d, k) ==
    /\ t = 0 => d = k
    /\ PalOwed(k, {}) /\ (t # 0 => PalOwed(d, {t})) /\ PalLonger(k, d)

\* An import that has listed an item has the transaction until it commits, so that no
\* fence is raised and nobody rolls back what it wrote.
PalFits(p, c, o, st, t, d, k, f) ==
    /\ c.pc \in {"new", "unlink", "begin", "copy", "item"} => c.at \in I!Items
    /\ c.pc \in {"new", "unlink", "begin"} => o.receipts = {}
    /\ c.pc \in {"new", "unlink", "begin", "copy"} => c.listed = {}
    /\ c.listed \subseteq o.items
    /\ c.pc \in {"item", "progress", "graph", "commit"} /\ c.listed # {} =>
          t = p /\ \A i \in c.listed : PalNames(d, i, p)
    /\ c.pc = "finish" => \A i \in c.listed : PalNames(k, i, p)
    /\ c.pc = "report" => st = "succeeded"
    /\ \A i \in o.manifest : PalNames(k, i, p) /\ i \in o.items
    /\ "final" \in o.receipts => st = "succeeded"
    /\ "failed" \in o.receipts => st = "failed"
    /\ t = p => c.pc \in {"item", "progress", "graph", "commit", "undo"}
    /\ t = p /\ c.pc \in {"item", "progress"} => ~f

PalTyped ==
    /\ iCall \in [I!Imports -> PalCalls] /\ iOp \in [I!Imports -> PalOps]
    /\ iOut \in [I!Imports -> PalOutputs]
    /\ iCatalog \in PalCatalogs /\ iDraft \in PalCatalogs
    /\ iTx \in 0 .. MaxImports /\ iFenced \in BOOLEAN
PalInv ==
    /\ PalTyped /\ PalData(iTx, iDraft, iCatalog)
    /\ \A p \in I!Imports :
          PalFits(p, iCall[p], iOut[p], iOp[p], iTx, iDraft, iCatalog, iFenced)

PalGrows == PalLonger(iCatalog, iCatalog')

LEMMA PalBounds == /\ MaxImports \in Nat /\ MaxItems \in Nat /\ MaxItems >= 1
                   /\ I!Items = 1 .. MaxItems /\ I!Imports = 1 .. MaxImports
                   /\ I!Graph = MaxItems + 1
  BY BoundsAreNumbers DEF I!Items, I!Imports, I!Graph

LEMMA PalIsPrefix ==
    ASSUME NEW s \in Seq(I!Imports), NEW t \in Seq(I!Imports), PalPrefix(s, t)
    PROVE  I!IsPrefix(s, t)
<1>1. Len(s) \in Nat /\ Len(t) \in Nat /\ Len(s) <= Len(t)
  BY DEF PalPrefix
<1>2. SubSeq(s, 1, Len(s)) = [n \in 1 .. Len(s) |-> s[n]]
  BY <1>1
<1>3. SubSeq(t, 1, Len(s)) = [n \in 1 .. Len(s) |-> t[n]]
  BY <1>1
<1>4. [n \in 1 .. Len(s) |-> s[n]] = [n \in 1 .. Len(s) |-> t[n]]
  BY DEF PalPrefix
<1> QED
  BY <1>1, <1>2, <1>3, <1>4 DEF I!IsPrefix

LEMMA PalLongerOn ==
    /\ \A k \in PalCatalogs : PalLonger(k, k)
    /\ \A k, l, m \in PalCatalogs : PalLonger(k, l) /\ PalLonger(l, m) => PalLonger(k, m)
    /\ \A k, l \in PalCatalogs : PalLonger(k, l) =>
          \A i \in I!Items, p \in I!Imports : PalNames(k, i, p) => PalNames(l, i, p)
<1>1. \A k \in PalCatalogs, i \in I!Items : k.book[i] \in Seq(I!Imports) /\ Len(k.book[i]) \in Nat
  BY DEF PalCatalogs
<1>2. \A k \in PalCatalogs : PalLonger(k, k)
  BY <1>1 DEF PalLonger, PalPrefix
<1>3. ASSUME NEW k \in PalCatalogs, NEW l \in PalCatalogs, NEW m \in PalCatalogs,
             PalLonger(k, l), PalLonger(l, m), NEW i \in I!Items
      PROVE  PalPrefix(k.book[i], m.book[i])
  <2>1. PalPrefix(k.book[i], l.book[i]) /\ PalPrefix(l.book[i], m.book[i])
    BY <1>3 DEF PalLonger
  <2>2. Len(k.book[i]) \in Nat /\ Len(l.book[i]) \in Nat /\ Len(m.book[i]) \in Nat
    BY <1>1
  <2>3. Len(k.book[i]) <= Len(l.book[i]) /\ Len(l.book[i]) <= Len(m.book[i])
    BY <2>1 DEF PalPrefix
  <2>4. ASSUME NEW n \in 1 .. Len(k.book[i]) PROVE m.book[i][n] = k.book[i][n]
    <3>1. n \in 1 .. Len(l.book[i])
      BY <2>2, <2>3
    <3>2. l.book[i][n] = k.book[i][n] /\ m.book[i][n] = l.book[i][n]
      BY <2>1, <3>1 DEF PalPrefix
    <3> QED
      BY <3>2
  <2>5. Len(k.book[i]) <= Len(m.book[i])
    BY <2>2, <2>3
  <2> QED
    BY <2>4, <2>5 DEF PalPrefix
<1>4. ASSUME NEW k \in PalCatalogs, NEW l \in PalCatalogs, PalLonger(k, l), NEW i \in I!Items,
             NEW p \in I!Imports, PalNames(k, i, p)
      PROVE  PalNames(l, i, p)
  <2>1. PalPrefix(k.book[i], l.book[i])
    BY <1>4 DEF PalLonger
  <2>2. Len(k.book[i]) \in Nat /\ Len(l.book[i]) \in Nat
    BY <1>1
  <2>3. PICK n \in 1 .. Len(k.book[i]) : k.book[i][n] = p
    BY <1>4 DEF PalNames
  <2> QED
    BY <2>1, <2>2, <2>3 DEF PalPrefix, PalNames
<1> QED
  BY <1>2, <1>3, <1>4 DEF PalLonger

LEMMA PalInit == I!Init => PalInv
<1> SUFFICES ASSUME I!Init PROVE PalInv
  OBVIOUS
<1>1. I!EmptyCatalog \in PalCatalogs /\ PalOwed(I!EmptyCatalog, {})
  <2>1. <<>> \in Seq(I!Imports)
    OBVIOUS
  <2>2. 0 \in 0 .. MaxImports
    BY PalBounds
  <2> QED
    BY <2>1, <2>2 DEF I!EmptyCatalog, PalCatalogs, PalCards, PalOwed, I!Nobody
<1>2. I!NewCall \in PalCalls /\ I!NewCall.pc = "new" /\ I!NewCall.at = 1 /\ I!NewCall.listed = {}
  BY PalBounds DEF I!NewCall, PalCalls, PalPlaces
<1>3. /\ I!NoOutput \in PalOutputs /\ I!NoOutput.items = {} /\ I!NoOutput.manifest = {}
      /\ I!NoOutput.receipts = {}
  BY DEF I!NoOutput, PalOutputs, PalNotes
<1>4. PalTyped
  <2>1. /\ iCall \in [I!Imports -> PalCalls] /\ iOp \in [I!Imports -> PalOps]
        /\ iOut \in [I!Imports -> PalOutputs]
    BY <1>2, <1>3 DEF I!Init, PalOps
  <2>2. iTx \in 0 .. MaxImports /\ iFenced \in BOOLEAN
    <3>1. MaxImports \in Nat /\ iTx = 0 /\ iFenced = FALSE
      BY BoundsAreNumbers DEF I!Init, I!Nobody
    <3>2. iTx \in 0 .. MaxImports
      BY <3>1
    <3>3. iFenced \in BOOLEAN
      BY <3>1, Zenon
    <3> QED
      BY <3>2, <3>3
  <2> QED
    BY <1>1, <2>1, <2>2 DEF I!Init, PalTyped
<1>5. PalData(iTx, iDraft, iCatalog)
  BY <1>1, PalLongerOn DEF I!Init, PalData, I!Nobody
<1>6. ASSUME NEW p \in I!Imports
      PROVE  PalFits(p, iCall[p], iOut[p], iOp[p], iTx, iDraft, iCatalog, iFenced)
  <2>1. iCall[p] = I!NewCall /\ iOut[p] = I!NoOutput /\ iTx = 0
    BY DEF I!Init, I!Nobody
  <2> QED
    BY <1>2, <1>3, <2>1, PalBounds DEF PalFits
<1> QED
  BY <1>4, <1>5, <1>6 DEF PalInv

\* Import p takes a step: it edits its own call, operation and output, and, when nobody
\* else has the transaction, what the writer sees and what is committed.
LEMMA PalStep ==
    ASSUME PalInv, NEW p \in I!Imports,
           iCall' \in [I!Imports -> PalCalls], iOp' \in [I!Imports -> PalOps],
           iOut' \in [I!Imports -> PalOutputs],
           \A q \in I!Imports \ {p} :
               iCall'[q] = iCall[q] /\ iOp'[q] = iOp[q] /\ iOut'[q] = iOut[q],
           iFenced' = iFenced,
           NEW t \in 0 .. MaxImports, iTx' = t, NEW d \in PalCatalogs, iDraft' = d,
           NEW k \in PalCatalogs, iCatalog' = k,
           \/ t = iTx /\ d = iDraft
           \/ iTx \in {0, p} /\ t \in {0, p},
           PalLonger(iCatalog, k), PalData(t, d, k),
           PalFits(p, iCall'[p], iOut'[p], iOp'[p], t, d, k, iFenced)
    PROVE  PalInv' /\ PalGrows
<1>1. PalTyped'
  BY DEF PalInv, PalTyped
<1>2. ASSUME NEW q \in I!Imports
      PROVE  PalFits(q, iCall[q], iOut[q], iOp[q], t, d, k, iFenced) \/ q = p
  <2>1. CASE q # p
    <3>1. PalFits(q, iCall[q], iOut[q], iOp[q], iTx, iDraft, iCatalog, iFenced)
      BY DEF PalInv
    <3>2. iCall[q] \in PalCalls /\ iOut[q] \in PalOutputs
      BY DEF PalInv, PalTyped
    <3>3. iCall[q].listed \subseteq I!Items /\ iOut[q].manifest \subseteq I!Items
      BY <3>2 DEF PalCalls, PalOutputs
    <3>4. \A i \in I!Items : PalNames(iCatalog, i, q) => PalNames(k, i, q)
      BY PalLongerOn DEF PalInv, PalTyped
    <3>5. q # 0
      BY PalBounds
    <3>6. CASE t = iTx /\ d = iDraft
      BY <3>1, <3>3, <3>4, <3>6 DEF PalFits
    <3>7. CASE iTx \in {0, p} /\ t \in {0, p}
      <4>1. iTx # q /\ t # q
        BY <2>1, <3>5, <3>7
      <4> QED
        BY <3>1, <3>3, <3>4, <4>1 DEF PalFits
    <3> QED
      BY <3>6, <3>7
  <2> QED
    BY <2>1
<1>3. ASSUME NEW q \in I!Imports
      PROVE  PalFits(q, iCall'[q], iOut'[q], iOp'[q], t, d, k, iFenced)
  BY <1>2, <1>3
<1>4. PalGrows
  BY DEF PalGrows
<1> QED
  BY <1>1, <1>3, <1>4 DEF PalInv

\* A step that leaves the database alone.
LEMMA PalLocal ==
    ASSUME PalInv, NEW p \in I!Imports,
           iCall' \in [I!Imports -> PalCalls], iOp' \in [I!Imports -> PalOps],
           iOut' \in [I!Imports -> PalOutputs],
           \A q \in I!Imports \ {p} :
               iCall'[q] = iCall[q] /\ iOp'[q] = iOp[q] /\ iOut'[q] = iOut[q],
           iFenced' = iFenced, iTx' = iTx, iDraft' = iDraft, iCatalog' = iCatalog,
           PalFits(p, iCall'[p], iOut'[p], iOp'[p], iTx, iDraft, iCatalog, iFenced)
    PROVE  PalInv' /\ PalGrows
<1>1. /\ iTx \in 0 .. MaxImports /\ iDraft \in PalCatalogs /\ iCatalog \in PalCatalogs
      /\ PalData(iTx, iDraft, iCatalog) /\ PalLonger(iCatalog, iCatalog)
  BY PalLongerOn DEF PalInv, PalTyped
<1> QED
  BY <1>1, PalStep

(* Edits of the call and of the output of an import.                        *)
LEMMA PalGoto ==
    ASSUME PalTyped, NEW p \in I!Imports, NEW at \in PalPlaces, I!Goto(p, at)
    PROVE  /\ iCall' \in [I!Imports -> PalCalls]
           /\ \A q \in I!Imports \ {p} : iCall'[q] = iCall[q]
           /\ iCall'[p].pc = at /\ iCall'[p].at = iCall[p].at
           /\ iCall'[p].listed = iCall[p].listed /\ iCall'[p].refused = iCall[p].refused
<1>1. PICK c \in PalCalls : c = iCall[p]
  BY DEF PalTyped
<1> DEFINE e == [c EXCEPT !.pc = at]
<1>2. /\ e \in PalCalls /\ e.pc = at /\ e.at = c.at /\ e.listed = c.listed
      /\ e.refused = c.refused
  BY DEF PalCalls
<1>3. iCall' = [iCall EXCEPT ![p] = e]
  BY <1>1 DEF I!Goto
<1> HIDE DEF e
<1> QED
  BY <1>1, <1>2, <1>3 DEF PalTyped

LEMMA PalRefuse ==
    ASSUME PalTyped, NEW p \in I!Imports, NEW at \in PalPlaces, I!Refuse(p, at),
           iCall[p].at \in I!Items
    PROVE  /\ iCall' \in [I!Imports -> PalCalls]
           /\ \A q \in I!Imports \ {p} : iCall'[q] = iCall[q]
           /\ iCall'[p].pc = at /\ iCall'[p].at = iCall[p].at + 1
           /\ iCall'[p].listed = iCall[p].listed
<1>1. PICK c \in PalCalls : c = iCall[p]
  BY DEF PalTyped
<1> DEFINE e == [c EXCEPT !.pc = at, !.at = c.at + 1, !.refused = c.refused \cup {c.at}]
<1>2. e \in PalCalls /\ e.pc = at /\ e.at = c.at + 1 /\ e.listed = c.listed
  <2>1. c.at \in I!Items /\ c.at \in 1 .. MaxItems + 1 /\ c.at + 1 \in 1 .. MaxItems + 1
    BY <1>1, PalBounds
  <2>2. /\ c.refused \cup {c.at} \in SUBSET (1 .. MaxItems + 1)
        /\ c.listed \cup {c.at} \in SUBSET I!Items
    BY <2>1 DEF PalCalls
  <2> QED
    BY <2>1, <2>2 DEF PalCalls
<1>3. iCall' = [iCall EXCEPT ![p] = e]
  BY <1>1 DEF I!Refuse, I!Item, PalTyped
<1> HIDE DEF e
<1> QED
  BY <1>1, <1>2, <1>3 DEF PalTyped

LEMMA PalAccept ==
    ASSUME PalTyped, NEW p \in I!Imports, NEW at \in PalPlaces, I!Accept(p, at),
           iCall[p].at \in I!Items
    PROVE  /\ iCall' \in [I!Imports -> PalCalls]
           /\ \A q \in I!Imports \ {p} : iCall'[q] = iCall[q]
           /\ iCall'[p].pc = at /\ iCall'[p].at = iCall[p].at + 1
           /\ iCall'[p].listed = iCall[p].listed \cup {iCall[p].at}
<1>1. PICK c \in PalCalls : c = iCall[p]
  BY DEF PalTyped
<1> DEFINE e == [c EXCEPT !.pc = at, !.at = c.at + 1, !.listed = c.listed \cup {c.at}]
<1>2. e \in PalCalls /\ e.pc = at /\ e.at = c.at + 1 /\ e.listed = c.listed \cup {c.at}
  <2>1. c.at \in I!Items /\ c.at \in 1 .. MaxItems + 1 /\ c.at + 1 \in 1 .. MaxItems + 1
    BY <1>1, PalBounds
  <2>2. /\ c.refused \cup {c.at} \in SUBSET (1 .. MaxItems + 1)
        /\ c.listed \cup {c.at} \in SUBSET I!Items
    BY <2>1 DEF PalCalls
  <2> QED
    BY <2>1, <2>2 DEF PalCalls
<1>3. iCall' = [iCall EXCEPT ![p] = e]
  BY <1>1 DEF I!Accept, I!Item, PalTyped
<1> HIDE DEF e
<1> QED
  BY <1>1, <1>2, <1>3 DEF PalTyped

LEMMA PalLeave ==
    ASSUME PalTyped, NEW p \in I!Imports, NEW o \in PalOutputs, I!Leave(p, o)
    PROVE  /\ iOut' \in [I!Imports -> PalOutputs] /\ iOut'[p] = o
           /\ \A q \in I!Imports \ {p} : iOut'[q] = iOut[q]
  BY DEF PalTyped, I!Leave

\* What is known of the import that takes a step.
LEMMA PalAt ==
    ASSUME PalInv, NEW p \in I!Imports
    PROVE  \E c \in PalCalls, o \in PalOutputs, st \in PalOps, t \in 0 .. MaxImports,
              d \in PalCatalogs, k \in PalCatalogs, f \in BOOLEAN :
               /\ c = iCall[p] /\ o = iOut[p] /\ st = iOp[p]
               /\ t = iTx /\ d = iDraft /\ k = iCatalog /\ f = iFenced
               /\ PalFits(p, c, o, st, t, d, k, f) /\ PalData(t, d, k) /\ PalTyped
  BY DEF PalInv, PalTyped

\* The lock file: imports that come and go there have written nothing.
LEMMA PalLocks ==
    ASSUME PalInv, NEW p \in I!Imports, I!LockStep(p)
    PROVE  PalInv' /\ PalGrows
<1>1. PICK c \in PalCalls, o \in PalOutputs, st \in PalOps, t \in 0 .. MaxImports,
           d \in PalCatalogs, k \in PalCatalogs, f \in BOOLEAN :
               /\ c = iCall[p] /\ o = iOut[p] /\ st = iOp[p]
               /\ t = iTx /\ d = iDraft /\ k = iCatalog /\ f = iFenced
               /\ PalFits(p, c, o, st, t, d, k, f) /\ PalData(t, d, k) /\ PalTyped
  BY PalAt
<1>2. PICK at \in {"begin", "unlink", "new", "done"} :
          /\ I!Goto(p, at)
          /\ \/ at \in {"begin", "unlink"} /\ c.pc = "new"
             \/ at = "new" /\ c.pc = "unlink"
             \/ at = "done" /\ c.pc \in {"release", "new"}
  BY <1>1 DEF I!LockStep, I!Acquire, I!SeeOld, I!GiveUp, I!Unlink, I!Release, I!In
<1>3. /\ iOut' = iOut /\ iOp' = iOp /\ iTx' = iTx /\ iDraft' = iDraft /\ iCatalog' = iCatalog
      /\ iFenced' = iFenced
  BY DEF I!LockStep, I!Acquire, I!SeeOld, I!GiveUp, I!Unlink, I!Release, I!Database
<1>4. /\ iCall' \in [I!Imports -> PalCalls]
      /\ \A q \in I!Imports \ {p} : iCall'[q] = iCall[q]
      /\ iCall'[p].pc = at /\ iCall'[p].at = c.at /\ iCall'[p].listed = c.listed
  BY <1>1, <1>2, PalGoto DEF PalPlaces
<1>5. PalFits(p, iCall'[p], iOut'[p], iOp'[p], iTx, iDraft, iCatalog, iFenced)
  BY <1>1, <1>2, <1>3, <1>4 DEF PalFits
<1> QED
  BY <1>1, <1>3, <1>4, <1>5, PalLocal DEF PalTyped

\* Steps of a call beside the database: what is reported follows the operation.
LEMMA PalBegins ==
    ASSUME PalInv, NEW p \in I!Imports, I!Begin(p) \/ I!Copy(p) \/ I!BlockItem(p) \/ I!Progress(p)
    PROVE  PalInv' /\ PalGrows
<1>1. PICK c \in PalCalls, o \in PalOutputs, st \in PalOps, t \in 0 .. MaxImports,
           d \in PalCatalogs, k \in PalCatalogs, f \in BOOLEAN :
               /\ c = iCall[p] /\ o = iOut[p] /\ st = iOp[p]
               /\ t = iTx /\ d = iDraft /\ k = iCatalog /\ f = iFenced
               /\ PalFits(p, c, o, st, t, d, k, f) /\ PalData(t, d, k) /\ PalTyped
  BY PalAt
<1>2. iTx' = iTx /\ iDraft' = iDraft /\ iCatalog' = iCatalog /\ iFenced' = iFenced
  BY DEF I!Begin, I!Copy, I!BlockItem, I!Progress, I!Database
<1>3. CASE I!Begin(p)
  <2> DEFINE n == [o EXCEPT !.note = "started"]
  <2>1. n \in PalOutputs /\ n.items = o.items /\ n.manifest = o.manifest /\ n.receipts = o.receipts
    BY DEF PalOutputs, PalNotes
  <2>2. I!Leave(p, n) /\ I!Goto(p, "copy") /\ c.pc = "begin" /\ iOp' = [iOp EXCEPT ![p] = "running"]
    BY <1>1, <1>3 DEF I!Begin, I!In
  <2> HIDE DEF n
  <2>3. /\ iOut' \in [I!Imports -> PalOutputs] /\ iOut'[p] = n
        /\ iOp' \in [I!Imports -> PalOps] /\ iOp'[p] = "running"
        /\ \A q \in I!Imports \ {p} : iOut'[q] = iOut[q] /\ iOp'[q] = iOp[q]
    BY <1>1, <2>1, <2>2, PalLeave DEF PalTyped, PalOps
  <2>4. /\ iCall' \in [I!Imports -> PalCalls]
        /\ \A q \in I!Imports \ {p} : iCall'[q] = iCall[q]
        /\ iCall'[p].pc = "copy" /\ iCall'[p].at = c.at /\ iCall'[p].listed = c.listed
    BY <1>1, <2>2, PalGoto DEF PalPlaces
  <2>5. PalFits(p, iCall'[p], iOut'[p], iOp'[p], iTx, iDraft, iCatalog, iFenced)
    BY <1>1, <2>1, <2>2, <2>3, <2>4 DEF PalFits
  <2> QED
    BY <1>2, <2>3, <2>4, <2>5, PalLocal
<1>4. CASE I!Copy(p) \/ I!Progress(p)
  <2>1. PICK at \in {"item", "graph", "undo"}, n \in PalOutputs :
           /\ I!Goto(p, at) /\ I!Leave(p, n) /\ iOp' = iOp
           /\ n.items = o.items /\ n.manifest = o.manifest /\ n.receipts = o.receipts
           /\ c.pc \in {"copy", "progress"}
           /\ at = "item" => c.at \in I!Items
    <3>1. /\ [o EXCEPT !.note = "snapshot"] \in PalOutputs
          /\ [o EXCEPT !.note = "import"] \in PalOutputs
      BY DEF PalOutputs, PalNotes
    <3>2. CASE I!Copy(p)
      BY <1>1, <3>1, <3>2 DEF I!Copy, I!In, I!GoOn, PalFits, PalOutputs
    <3>3. CASE I!Progress(p)
      <4>1. c.at \in 1 .. MaxItems + 1 /\ (c.at \in I!Items \/ c.at > MaxItems)
        BY PalBounds DEF PalCalls
      <4> QED
        BY <1>1, <3>1, <3>3, <4>1 DEF I!Progress, I!In, I!GoOn, I!Item, PalOutputs
    <3> QED
      BY <1>4, <3>2, <3>3
  <2>2. /\ iOut' \in [I!Imports -> PalOutputs] /\ iOut'[p] = n
        /\ iOp' \in [I!Imports -> PalOps] /\ iOp'[p] = st
        /\ \A q \in I!Imports \ {p} : iOut'[q] = iOut[q] /\ iOp'[q] = iOp[q]
    BY <1>1, <2>1, PalLeave DEF PalTyped
  <2>3. /\ iCall' \in [I!Imports -> PalCalls]
        /\ \A q \in I!Imports \ {p} : iCall'[q] = iCall[q]
        /\ iCall'[p].pc = at /\ iCall'[p].at = c.at /\ iCall'[p].listed = c.listed
    BY <1>1, <2>1, PalGoto DEF PalPlaces
  <2>4. PalFits(p, iCall'[p], iOut'[p], iOp'[p], iTx, iDraft, iCatalog, iFenced)
    BY <1>1, <2>1, <2>2, <2>3 DEF PalFits
  <2> QED
    BY <1>2, <2>2, <2>3, <2>4, PalLocal
<1>5. CASE I!BlockItem(p)
  <2>1. c.pc = "item" /\ c.at \in I!Items /\ I!Refuse(p, I!After(p)) /\ iOut' = iOut /\ iOp' = iOp
    BY <1>1, <1>5 DEF I!BlockItem, I!In, PalFits
  <2>2. PICK at \in {"item", "graph"} : at = I!After(p) /\ (at = "item" => c.at # MaxItems)
    BY <1>1 DEF I!After, I!Item
  <2>3. /\ iCall' \in [I!Imports -> PalCalls]
        /\ \A q \in I!Imports \ {p} : iCall'[q] = iCall[q]
        /\ iCall'[p].pc = at /\ iCall'[p].at = c.at + 1 /\ iCall'[p].listed = c.listed
    BY <1>1, <2>1, <2>2, PalRefuse DEF PalPlaces
  <2>4. at = "item" => c.at + 1 \in I!Items
    BY <2>1, <2>2, PalBounds
  <2>5. PalFits(p, iCall'[p], iOut'[p], iOp'[p], iTx, iDraft, iCatalog, iFenced)
    BY <1>1, <2>1, <2>2, <2>3, <2>4 DEF PalFits
  <2> QED
    BY <1>1, <1>2, <2>1, <2>3, <2>5, PalLocal DEF PalTyped
<1> QED
  BY <1>3, <1>4, <1>5

LEMMA PalEnds ==
    ASSUME PalInv, NEW p \in I!Imports,
           \/ I!Finish(p) \/ I!Report(p) \/ I!Record(p) \/ I!Confess(p) \/ I!Raise(p)
           \/ I!Interrupt(p)
    PROVE  PalInv' /\ PalGrows
<1>1. PICK c \in PalCalls, o \in PalOutputs, st \in PalOps, t \in 0 .. MaxImports,
           d \in PalCatalogs, k \in PalCatalogs, f \in BOOLEAN :
               /\ c = iCall[p] /\ o = iOut[p] /\ st = iOp[p]
               /\ t = iTx /\ d = iDraft /\ k = iCatalog /\ f = iFenced
               /\ PalFits(p, c, o, st, t, d, k, f) /\ PalData(t, d, k) /\ PalTyped
  BY PalAt
<1>2. iTx' = iTx /\ iDraft' = iDraft /\ iCatalog' = iCatalog /\ iFenced' = iFenced
  BY DEF I!Finish, I!Report, I!Record, I!Confess, I!Raise, I!Interrupt, I!Database
<1>3. CASE I!Finish(p)
  <2> DEFINE n == [o EXCEPT !.manifest = c.listed]
             s2 == IF st = "running" THEN "succeeded" ELSE st
             at == IF st = "running" THEN "report" ELSE "undo"
  <2>1. n \in PalOutputs /\ n.items = o.items /\ n.manifest = c.listed /\ n.receipts = o.receipts
    BY DEF PalOutputs, PalCalls
  <2>2. /\ I!Leave(p, n) /\ I!Goto(p, at) /\ c.pc = "finish"
        /\ iOp' = IF st = "running" THEN [iOp EXCEPT ![p] = "succeeded"] ELSE iOp
    BY <1>1, <1>3 DEF I!Finish, I!In, I!GoOn, I!Active
  <2>3. at \in PalPlaces /\ s2 \in PalOps
    BY DEF PalPlaces, PalOps
  <2>4. /\ iOp' \in [I!Imports -> PalOps] /\ iOp'[p] = s2
        /\ \A q \in I!Imports \ {p} : iOp'[q] = iOp[q]
    BY <1>1, <2>2 DEF PalTyped, PalOps
  <2> HIDE DEF n
  <2>5. /\ iOut' \in [I!Imports -> PalOutputs] /\ iOut'[p] = n
        /\ \A q \in I!Imports \ {p} : iOut'[q] = iOut[q]
    BY <1>1, <2>1, <2>2, PalLeave
  <2>6. /\ iCall' \in [I!Imports -> PalCalls]
        /\ \A q \in I!Imports \ {p} : iCall'[q] = iCall[q]
        /\ iCall'[p].pc = at /\ iCall'[p].listed = c.listed
    BY <1>1, <2>2, <2>3, PalGoto
  <2>7. PalFits(p, iCall'[p], iOut'[p], iOp'[p], iTx, iDraft, iCatalog, iFenced)
    BY <1>1, <2>1, <2>2, <2>4, <2>5, <2>6 DEF PalFits
  <2> QED
    BY <1>2, <2>4, <2>5, <2>6, <2>7, PalLocal
<1>4. CASE I!Report(p)
  <2> DEFINE n == [o EXCEPT !.receipts = o.receipts \cup {"final"}, !.note = "done"]
  <2>1. /\ n \in PalOutputs /\ n.items = o.items /\ n.manifest = o.manifest
        /\ n.receipts = o.receipts \cup {"final"}
    BY DEF PalOutputs, PalNotes
  <2>2. I!Leave(p, n) /\ I!Goto(p, "record") /\ c.pc = "report" /\ iOp' = iOp
    BY <1>1, <1>4 DEF I!Report, I!In
  <2> HIDE DEF n
  <2>3. /\ iOut' \in [I!Imports -> PalOutputs] /\ iOut'[p] = n
        /\ iOp' \in [I!Imports -> PalOps] /\ iOp'[p] = st
        /\ \A q \in I!Imports \ {p} : iOut'[q] = iOut[q] /\ iOp'[q] = iOp[q]
    BY <1>1, <2>1, <2>2, PalLeave DEF PalTyped
  <2>4. /\ iCall' \in [I!Imports -> PalCalls]
        /\ \A q \in I!Imports \ {p} : iCall'[q] = iCall[q]
        /\ iCall'[p].pc = "record" /\ iCall'[p].listed = c.listed
    BY <1>1, <2>2, PalGoto DEF PalPlaces
  <2>5. PalFits(p, iCall'[p], iOut'[p], iOp'[p], iTx, iDraft, iCatalog, iFenced)
    BY <1>1, <2>1, <2>2, <2>3, <2>4 DEF PalFits
  <2> QED
    BY <1>2, <2>3, <2>4, <2>5, PalLocal
<1>5. CASE I!Record(p) \/ I!Raise(p)
  <2>1. PICK at \in {"release", "undo"} :
           /\ I!Goto(p, at) /\ iOut' = iOut /\ iOp' = iOp
           /\ c.pc \in {"copy", "item", "graph", "commit", "finish", "report", "record"}
           /\ at = "release" => c.pc = "record"
    BY <1>1, <1>5 DEF I!Record, I!Raise, I!In
  <2>2. /\ iCall' \in [I!Imports -> PalCalls]
        /\ \A q \in I!Imports \ {p} : iCall'[q] = iCall[q]
        /\ iCall'[p].pc = at /\ iCall'[p].listed = c.listed
    BY <1>1, <2>1, PalGoto DEF PalPlaces
  <2>3. PalFits(p, iCall'[p], iOut'[p], iOp'[p], iTx, iDraft, iCatalog, iFenced)
    BY <1>1, <2>1, <2>2 DEF PalFits
  <2> QED
    BY <1>1, <1>2, <2>1, <2>2, <2>3, PalLocal DEF PalTyped
<1>6. CASE I!Confess(p)
  <2> DEFINE n == [o EXCEPT !.receipts = o.receipts \cup {"failed"}]
  <2>1. /\ n \in PalOutputs /\ n.items = o.items /\ n.manifest = o.manifest
        /\ n.receipts = o.receipts \cup {"failed"}
    BY DEF PalOutputs
  <2>2. /\ I!Goto(p, "release") /\ c.pc = "confess"
        /\ IF st = "running" THEN iOp' = [iOp EXCEPT ![p] = "failed"] /\ I!Leave(p, n)
           ELSE iOp' = iOp /\ iOut' = iOut
    BY <1>1, <1>6 DEF I!Confess, I!In, I!Active
  <2> HIDE DEF n
  <2>3. /\ iCall' \in [I!Imports -> PalCalls]
        /\ \A q \in I!Imports \ {p} : iCall'[q] = iCall[q]
        /\ iCall'[p].pc = "release" /\ iCall'[p].listed = c.listed
    BY <1>1, <2>2, PalGoto DEF PalPlaces
  <2>4. CASE st = "running"
    <3>1. /\ iOut' \in [I!Imports -> PalOutputs] /\ iOut'[p] = n
          /\ iOp' \in [I!Imports -> PalOps] /\ iOp'[p] = "failed"
          /\ \A q \in I!Imports \ {p} : iOut'[q] = iOut[q] /\ iOp'[q] = iOp[q]
      BY <1>1, <2>1, <2>2, <2>4, PalLeave DEF PalTyped, PalOps
    <3>2. PalFits(p, iCall'[p], iOut'[p], iOp'[p], iTx, iDraft, iCatalog, iFenced)
      BY <1>1, <2>1, <2>2, <2>3, <2>4, <3>1 DEF PalFits
    <3> QED
      BY <1>2, <2>3, <3>1, <3>2, PalLocal
  <2>5. CASE st # "running"
    <3>1. PalFits(p, iCall'[p], iOut'[p], iOp'[p], iTx, iDraft, iCatalog, iFenced)
      BY <1>1, <2>2, <2>3, <2>5 DEF PalFits
    <3> QED
      BY <1>1, <1>2, <2>2, <2>3, <2>5, <3>1, PalLocal DEF PalTyped
  <2> QED
    BY <2>4, <2>5
<1>7. CASE I!Interrupt(p)
  <2>1. /\ st = "running" /\ iOp' = [iOp EXCEPT ![p] = "interrupted"]
        /\ iCall' = iCall /\ iOut' = iOut
    BY <1>1, <1>7 DEF I!Interrupt, I!Active
  <2>2. /\ iOp' \in [I!Imports -> PalOps] /\ iOp'[p] = "interrupted"
        /\ \A q \in I!Imports \ {p} : iOp'[q] = iOp[q]
    BY <1>1, <2>1 DEF PalTyped, PalOps
  <2>3. PalFits(p, iCall'[p], iOut'[p], iOp'[p], iTx, iDraft, iCatalog, iFenced)
    BY <1>1, <2>1, <2>2 DEF PalFits
  <2> QED
    BY <1>1, <1>2, <2>1, <2>2, <2>3, PalLocal DEF PalTyped
<1> QED
  BY <1>3, <1>4, <1>5, <1>6, <1>7

(* What an import writes of an item.                                        *)
LEMMA PalDraftBook ==
    ASSUME NEW d \in PalCatalogs, NEW i \in I!Items, NEW p \in I!Imports
    PROVE  LET b == I!WithBook(d, i, p) IN
           /\ b \in PalCatalogs /\ b.card = d.card /\ b.review = d.review
           /\ PalLonger(d, b) /\ PalNames(b, i, p)
<1> DEFINE s == Append(d.book[i], p)
           book == [d.book EXCEPT ![i] = s]
           b == [d EXCEPT !.book = book, !.chunks = d.chunks \ {i}]
<1>1. d.book \in [I!Items -> Seq(I!Imports)] /\ d.book[i] \in Seq(I!Imports)
  BY DEF PalCatalogs
<1>2. /\ s \in Seq(I!Imports) /\ Len(s) = Len(d.book[i]) + 1 /\ s[Len(s)] = p
      /\ Len(d.book[i]) \in Nat /\ \A n \in 1 .. Len(d.book[i]) : s[n] = d.book[i][n]
  BY <1>1
<1> HIDE DEF s
<1>3. book \in [I!Items -> Seq(I!Imports)] /\ book[i] = s /\ \A j \in I!Items \ {i} : book[j] = d.book[j]
  BY <1>1, <1>2
<1> HIDE DEF book
<1>4. b \in PalCatalogs /\ b.book = book /\ b.card = d.card /\ b.review = d.review
  BY <1>3 DEF PalCatalogs
<1>5. PalPrefix(d.book[i], s)
  BY <1>2 DEF PalPrefix
<1>6. \A j \in I!Items : PalPrefix(d.book[j], b.book[j])
  <2> TAKE j \in I!Items
  <2>1. CASE j = i
    BY <1>3, <1>4, <1>5, <2>1
  <2>2. CASE j # i
    <3>1. d.book[j] \in Seq(I!Imports) /\ b.book[j] = d.book[j]
      BY <1>1, <1>3, <1>4, <2>2
    <3>2. Len(d.book[j]) \in Nat
      BY <3>1
    <3> QED
      BY <3>1, <3>2 DEF PalPrefix
  <2> QED
    BY <2>1, <2>2
<1>7. PalNames(b, i, p)
  BY <1>2, <1>3, <1>4 DEF PalNames
<1>8. I!WithBook(d, i, p) = b
  BY DEF I!WithBook, b, book, s
<1> HIDE DEF b
<1> QED
  BY <1>4, <1>6, <1>7, <1>8 DEF PalLonger

LEMMA PalDraftCard ==
    ASSUME NEW d \in PalCatalogs, NEW i \in I!Items, NEW p \in I!Imports
    PROVE  LET b == I!WithCard(I!WithChunks(d, i), i, p) IN
           /\ b \in PalCatalogs /\ b.book = d.book /\ b.review = d.review
           /\ b.card[i].of = p /\ \A j \in I!Items \ {i} : b.card[j] = d.card[j]
<1> DEFINE one == [d.card[i] EXCEPT !.of = p]
           card == [d.card EXCEPT ![i] = one]
           b == [d EXCEPT !.chunks = d.chunks \cup {i}, !.card = card]
<1>1. d.card \in [I!Items -> PalCards] /\ d.card[i] \in PalCards /\ p \in 0 .. MaxImports
  BY PalBounds DEF PalCatalogs
<1>2. one \in PalCards /\ one.of = p
  BY <1>1 DEF PalCards
<1> HIDE DEF one
<1>3. card \in [I!Items -> PalCards] /\ card[i] = one /\ \A j \in I!Items \ {i} : card[j] = d.card[j]
  BY <1>1, <1>2
<1> HIDE DEF card
<1>4. b \in PalCatalogs /\ b.book = d.book /\ b.card = card /\ b.review = d.review
  BY <1>3 DEF PalCatalogs
<1>5. I!WithCard(I!WithChunks(d, i), i, p) = b
  <2> DEFINE m == [d EXCEPT !.chunks = d.chunks \cup {i}]
  <2>1. m \in PalCatalogs /\ m.card = d.card
    BY DEF PalCatalogs
  <2>2. I!WithChunks(d, i) = m
    BY DEF I!WithChunks
  <2>3. I!WithCard(m, i, p) = [m EXCEPT !.card = card]
    BY <2>1 DEF I!WithCard, card, one
  <2> QED
    BY <2>2, <2>3 DEF PalCatalogs
<1> HIDE DEF b
<1> QED
  BY <1>2, <1>3, <1>4, <1>5

LEMMA PalDraftEdges ==
    ASSUME NEW d \in PalCatalogs, NEW i \in I!Items
    PROVE  LET b == I!WithEdges(d, i) IN
           /\ b \in PalCatalogs /\ b.book = d.book /\ b.review = d.review
           /\ b.card[i].of = d.card[i].of /\ \A j \in I!Items \ {i} : b.card[j] = d.card[j]
<1> DEFINE one == [d.card[i] EXCEPT !.linked = TRUE]
           card == [d.card EXCEPT ![i] = one]
           b == [d EXCEPT !.card = card]
<1>1. d.card \in [I!Items -> PalCards] /\ d.card[i] \in PalCards
  BY DEF PalCatalogs
<1>2. one \in PalCards /\ one.of = d.card[i].of
  BY <1>1 DEF PalCards
<1> HIDE DEF one
<1>3. card \in [I!Items -> PalCards] /\ card[i] = one /\ \A j \in I!Items \ {i} : card[j] = d.card[j]
  BY <1>1, <1>2
<1> HIDE DEF card
<1>4. b \in PalCatalogs /\ b.book = d.book /\ b.card = card /\ b.review = d.review
  BY <1>3 DEF PalCatalogs
<1>5. I!WithEdges(d, i) = b
  BY DEF I!WithEdges, b, card, one
<1> HIDE DEF b
<1> QED
  BY <1>2, <1>3, <1>4, <1>5

\* The card of the item is its importer's: nothing else comes to wait.
LEMMA PalDrafts ==
    ASSUME NEW d \in PalCatalogs, NEW i \in I!Items, NEW p \in I!Imports
    PROVE  LET b == I!WithBook(d, i, p)
               m == I!WithCard(I!WithChunks(b, i), i, p)
               e == I!WithEdges(m, i)
           IN  \A x \in {b, m, e} :
                  /\ x \in PalCatalogs /\ PalLonger(d, x) /\ PalNames(x, i, p)
                  /\ PalOwed(d, {p}) => PalOwed(x, {p})
<1> DEFINE b == I!WithBook(d, i, p)
           m == I!WithCard(I!WithChunks(b, i), i, p)
           e == I!WithEdges(m, i)
<1>1. /\ b \in PalCatalogs /\ b.card = d.card /\ b.review = d.review
      /\ PalLonger(d, b) /\ PalNames(b, i, p)
  BY PalDraftBook
<1> HIDE DEF b
<1>2. /\ m \in PalCatalogs /\ m.book = b.book /\ m.review = b.review
      /\ m.card[i].of = p /\ \A j \in I!Items \ {i} : m.card[j] = b.card[j]
  BY <1>1, PalDraftCard
<1> HIDE DEF m
<1>3. /\ e \in PalCatalogs /\ e.book = m.book /\ e.review = m.review
      /\ e.card[i].of = m.card[i].of /\ \A j \in I!Items \ {i} : e.card[j] = m.card[j]
  BY <1>2, PalDraftEdges
<1> HIDE DEF e
<1>4. /\ PalLonger(d, m) /\ PalNames(m, i, p) /\ PalLonger(d, e) /\ PalNames(e, i, p)
  BY <1>1, <1>2, <1>3 DEF PalLonger, PalNames
<1>5. ASSUME PalOwed(d, {p}) PROVE PalOwed(b, {p}) /\ PalOwed(m, {p}) /\ PalOwed(e, {p})
  BY <1>1, <1>2, <1>3, <1>5 DEF PalOwed
<1>6. \A x \in {b, m, e} : /\ x \in PalCatalogs /\ PalLonger(d, x) /\ PalNames(x, i, p)
                           /\ PalOwed(d, {p}) => PalOwed(x, {p})
  BY <1>1, <1>2, <1>3, <1>4, <1>5
<1> QED
  BY <1>6 DEF b, m, e

\* After an item comes the next one, a note of progress, or the graph.
LEMMA PalTried ==
    ASSUME NEW p \in I!Imports, iCall[p].at \in I!Items
    PROVE  /\ I!Tried(p) \in {"item", "graph", "progress"} /\ I!Tried(p) \in PalPlaces
           /\ I!Tried(p) = "item" => iCall[p].at + 1 \in I!Items
<1>1. I!Tried(p) \in {"item", "graph", "progress"} /\ (I!Tried(p) = "item" => iCall[p].at # MaxItems)
  BY DEF I!Tried, I!After, I!Item
<1> QED
  BY <1>1, PalBounds DEF PalPlaces

\* An item that is imported, whole or in part, or passed over.
LEMMA PalItems ==
    ASSUME PalInv, NEW p \in I!Imports,
           I!ImportRows(p) \/ I!ImportPart(p) \/ I!ItemIsBusy(p) \/ I!ItemIsFenced(p)
    PROVE  PalInv' /\ PalGrows
<1>1. PICK c \in PalCalls, o \in PalOutputs, st \in PalOps, t \in 0 .. MaxImports,
           d \in PalCatalogs, k \in PalCatalogs, f \in BOOLEAN :
               /\ c = iCall[p] /\ o = iOut[p] /\ st = iOp[p]
               /\ t = iTx /\ d = iDraft /\ k = iCatalog /\ f = iFenced
               /\ PalFits(p, c, o, st, t, d, k, f) /\ PalData(t, d, k) /\ PalTyped
  BY PalAt
<1> DEFINE n == [o EXCEPT !.items = o.items \cup {c.at}]
<1>2. /\ c.pc = "item" /\ I!Leave(p, n) /\ iOp' = iOp /\ iFenced' = iFenced
      /\ iCatalog' = iCatalog
  BY <1>1 DEF I!ImportRows, I!ImportPart, I!ItemIsBusy, I!ItemIsFenced, I!WriteItem, I!In, I!Item,
              I!Database
<1>3. c.at \in I!Items /\ p # 0 /\ p \in 0 .. MaxImports /\ 0 \in 0 .. MaxImports
  BY <1>1, <1>2, PalBounds DEF PalFits
<1>4. /\ n \in PalOutputs /\ n.items = o.items \cup {c.at} /\ n.manifest = o.manifest
      /\ n.receipts = o.receipts
  BY <1>3 DEF PalOutputs
<1> HIDE DEF n
<1>5. /\ iOut' \in [I!Imports -> PalOutputs] /\ iOut'[p] = n
      /\ iOp' \in [I!Imports -> PalOps] /\ iOp'[p] = st
      /\ \A q \in I!Imports \ {p} : iOut'[q] = iOut[q] /\ iOp'[q] = iOp[q]
  BY <1>1, <1>2, <1>4, PalLeave DEF PalTyped
<1>6. PICK at \in PalPlaces : /\ at = I!Tried(p) /\ at \in {"item", "graph", "progress"}
                              /\ at = "item" => c.at + 1 \in I!Items
  BY <1>1, <1>3, PalTried
<1>7. ASSUME I!Refuse(p, at)
      PROVE  /\ iCall' \in [I!Imports -> PalCalls]
             /\ \A q \in I!Imports \ {p} : iCall'[q] = iCall[q]
             /\ iCall'[p].pc = at /\ iCall'[p].at = c.at + 1 /\ iCall'[p].listed = c.listed
  BY <1>1, <1>3, <1>7, PalRefuse
<1>8. PalLonger(k, k) /\ PalLonger(k, d) /\ PalOwed(k, {}) /\ (t = 0 => d = k)
  BY <1>1, PalLongerOn DEF PalData
<1>9. CASE I!ItemIsBusy(p)
  <2>1. iTx' = iTx /\ iDraft' = iDraft /\ I!Refuse(p, at)
    BY <1>6, <1>9 DEF I!ItemIsBusy, I!Database
  <2>2. PalFits(p, iCall'[p], iOut'[p], iOp'[p], iTx, iDraft, iCatalog, iFenced)
    BY <1>1, <1>2, <1>4, <1>5, <1>6, <1>7, <2>1 DEF PalFits
  <2> QED
    BY <1>2, <1>5, <1>7, <2>1, <2>2, PalLocal
<1>10. CASE I!ItemIsFenced(p)
  <2>1. /\ iTx' = 0 /\ iDraft' = k /\ I!Refuse(p, at) /\ t \in {0, p} /\ f
    BY <1>1, <1>6, <1>10 DEF I!ItemIsFenced, I!CanWrite, I!Rollback, I!Nobody
  <2>2. t = 0 /\ c.listed = {}
    BY <1>1, <1>2, <1>3, <2>1 DEF PalFits
  <2>3. PalFits(p, iCall'[p], iOut'[p], iOp'[p], 0, k, k, iFenced)
    BY <1>1, <1>2, <1>3, <1>4, <1>5, <1>6, <1>7, <2>1, <2>2 DEF PalFits
  <2>4. PalData(0, k, k)
    BY <1>8 DEF PalData
  <2> QED
    BY <1>1, <1>2, <1>3, <1>5, <1>7, <1>8, <2>1, <2>2, <2>3, <2>4, PalStep
<1>11. CASE I!ImportRows(p) \/ I!ImportPart(p)
  <2> DEFINE b == I!WithBook(d, c.at, p)
             m == I!WithCard(I!WithChunks(b, c.at), c.at, p)
             e == I!WithEdges(m, c.at)
  <2>1. \A x \in {b, m, e} :
            /\ x \in PalCatalogs /\ PalLonger(d, x) /\ PalNames(x, c.at, p)
            /\ PalOwed(d, {p}) => PalOwed(x, {p})
    BY <1>3, PalDrafts
  <2>2. /\ iTx' = p /\ t \in {0, p} /\ ~f
        /\ \/ iDraft' = e /\ I!Accept(p, at)
           \/ iDraft' \in {d, b, m} /\ I!Refuse(p, at)
    <3>1. CASE I!ImportRows(p)
      BY <1>1, <1>6, <3>1 DEF I!ImportRows, I!CanWrite, I!Nobody, I!Item
    <3>2. CASE I!ImportPart(p)
      BY <1>1, <1>6, <3>2 DEF I!ImportPart, I!CanWrite, I!Nobody, I!Item
    <3> QED
      BY <1>11, <3>1, <3>2
  <2> HIDE DEF b, m, e
  <2>3. PalOwed(d, {p})
    <3>1. CASE t = 0
      BY <1>8, <3>1 DEF PalOwed
    <3>2. CASE t = p
      BY <1>1, <1>3, <3>2 DEF PalData
    <3> QED
      BY <2>2, <3>1, <3>2
  <2>4. PICK x \in PalCatalogs :
           /\ x = iDraft' /\ PalLonger(d, x) /\ PalOwed(x, {p})
           /\ \/ I!Accept(p, at) /\ PalNames(x, c.at, p)
              \/ I!Refuse(p, at)
    BY <2>1, <2>2, <2>3, PalLongerOn
  <2>5. PalData(p, x, k)
    BY <1>3, <1>8, <2>4, PalLongerOn DEF PalData
  <2>6. \A i \in c.listed : i \in I!Items /\ PalNames(x, i, p)
    <3>1. \A i \in c.listed : i \in I!Items /\ PalNames(d, i, p)
      BY <1>1, <1>2 DEF PalFits, PalCalls
    <3> QED
      BY <2>4, <3>1, PalLongerOn
  <2>7. /\ iCall' \in [I!Imports -> PalCalls]
        /\ \A q \in I!Imports \ {p} : iCall'[q] = iCall[q]
        /\ iCall'[p].pc = at /\ iCall'[p].at = c.at + 1
        /\ iCall'[p].listed \subseteq c.listed \cup {c.at}
        /\ \A i \in iCall'[p].listed : PalNames(x, i, p)
    <3>1. CASE I!Accept(p, at) /\ PalNames(x, c.at, p)
      <4>1. /\ iCall' \in [I!Imports -> PalCalls]
            /\ \A q \in I!Imports \ {p} : iCall'[q] = iCall[q]
            /\ iCall'[p].pc = at /\ iCall'[p].at = c.at + 1
            /\ iCall'[p].listed = c.listed \cup {c.at}
        BY <1>1, <1>3, <3>1, PalAccept
      <4> QED
        BY <2>6, <3>1, <4>1
    <3>2. CASE I!Refuse(p, at)
      BY <1>7, <2>6, <3>2
    <3> QED
      BY <2>4, <3>1, <3>2
  <2>8. PalFits(p, iCall'[p], iOut'[p], iOp'[p], p, x, k, iFenced)
    BY <1>1, <1>2, <1>4, <1>5, <1>6, <2>2, <2>7 DEF PalFits
  <2> QED
    BY <1>1, <1>2, <1>3, <1>5, <1>8, <2>2, <2>4, <2>5, <2>7, <2>8, PalStep
<1> QED
  BY <1>9, <1>10, <1>11

\* The graph, the commit, and what takes the transaction back.
LEMMA PalCommits ==
    ASSUME PalInv, NEW p \in I!Imports,
           I!ImportGraph(p) \/ I!Commit(p) \/ I!Undo(p) \/ I!Die(p)
    PROVE  PalInv' /\ PalGrows
<1>1. PICK c \in PalCalls, o \in PalOutputs, st \in PalOps, t \in 0 .. MaxImports,
           d \in PalCatalogs, k \in PalCatalogs, f \in BOOLEAN :
               /\ c = iCall[p] /\ o = iOut[p] /\ st = iOp[p]
               /\ t = iTx /\ d = iDraft /\ k = iCatalog /\ f = iFenced
               /\ PalFits(p, c, o, st, t, d, k, f) /\ PalData(t, d, k) /\ PalTyped
  BY PalAt
<1>2. p # 0 /\ p \in 0 .. MaxImports /\ 0 \in 0 .. MaxImports
  BY PalBounds
<1>3. iOp' = iOp /\ iFenced' = iFenced
  BY DEF I!ImportGraph, I!Commit, I!Undo, I!Die, I!Database
<1>4. /\ iOp' \in [I!Imports -> PalOps] /\ iOp'[p] = st
      /\ \A q \in I!Imports \ {p} : iOp'[q] = iOp[q]
  BY <1>1, <1>3 DEF PalTyped
<1>5. PalLonger(k, k) /\ PalLonger(k, d) /\ PalOwed(k, {}) /\ (t = 0 => d = k) /\ PalData(0, k, k)
  BY <1>1, PalLongerOn DEF PalData
<1>6. ASSUME NEW at \in PalPlaces, I!Goto(p, at)
      PROVE  /\ iCall' \in [I!Imports -> PalCalls]
             /\ \A q \in I!Imports \ {p} : iCall'[q] = iCall[q]
             /\ iCall'[p].pc = at /\ iCall'[p].at = c.at /\ iCall'[p].listed = c.listed
  BY <1>1, <1>6, PalGoto
<1>7. CASE I!Undo(p) \/ I!Die(p)
  <2>1. PICK at \in PalPlaces, n \in PalOutputs :
           /\ I!Goto(p, at) /\ at \in {"confess", "dead"} /\ iCatalog' = iCatalog
           /\ iOut' = [iOut EXCEPT ![p] = n]
           /\ n.items = o.items /\ n.manifest = o.manifest /\ n.receipts = o.receipts
           /\ IF t = p THEN iTx' = 0 /\ iDraft' = k ELSE iTx' = t /\ iDraft' = d
    <3>1. CASE I!Undo(p)
      <4> DEFINE n == [o EXCEPT !.note = "failed"]
      <4>1. /\ n \in PalOutputs /\ n.items = o.items /\ n.manifest = o.manifest
            /\ n.receipts = o.receipts
        BY DEF PalOutputs, PalNotes
      <4>2. iOut' = [iOut EXCEPT ![p] = n]
        BY <1>1, <3>1 DEF I!Undo, I!Leave
      <4> HIDE DEF n
      <4> QED
        BY <1>1, <3>1, <4>1, <4>2 DEF I!Undo, I!Rollback, I!Nobody, PalPlaces
    <3>2. CASE I!Die(p)
      <4>1. iOut' = [iOut EXCEPT ![p] = o]
        BY <1>1, <3>2 DEF I!Die, PalTyped
      <4> QED
        BY <1>1, <3>2, <4>1 DEF I!Die, I!Rollback, I!Nobody, PalPlaces
    <3> QED
      BY <1>7, <3>1, <3>2
  <2>2. /\ iOut' \in [I!Imports -> PalOutputs] /\ iOut'[p] = n
        /\ \A q \in I!Imports \ {p} : iOut'[q] = iOut[q]
    BY <1>1, <2>1 DEF PalTyped
  <2>3. /\ iCall' \in [I!Imports -> PalCalls]
        /\ \A q \in I!Imports \ {p} : iCall'[q] = iCall[q]
        /\ iCall'[p].pc = at /\ iCall'[p].listed = c.listed
    BY <1>6, <2>1
  <2>4. CASE t = p
    <3>1. PalFits(p, iCall'[p], iOut'[p], iOp'[p], 0, k, k, iFenced)
      BY <1>1, <1>2, <1>4, <2>1, <2>2, <2>3 DEF PalFits
    <3> QED
      BY <1>1, <1>2, <1>3, <1>4, <1>5, <2>1, <2>2, <2>3, <2>4, <3>1, PalStep
  <2>5. CASE t # p
    <3>1. PalFits(p, iCall'[p], iOut'[p], iOp'[p], iTx, iDraft, iCatalog, iFenced)
      BY <1>1, <1>2, <1>4, <2>1, <2>2, <2>3, <2>5 DEF PalFits
    <3> QED
      BY <1>1, <1>3, <1>4, <2>1, <2>2, <2>3, <2>5, <3>1, PalLocal
  <2> QED
    BY <2>4, <2>5
<1>8. CASE I!Commit(p)
  <2>1. c.pc = "commit" /\ iOut' = iOut
    BY <1>1, <1>8 DEF I!Commit, I!In
  <2>2. /\ iOut' \in [I!Imports -> PalOutputs] /\ iOut'[p] = o
        /\ \A q \in I!Imports \ {p} : iOut'[q] = iOut[q]
    BY <1>1, <2>1 DEF PalTyped
  <2>3. CASE t \in {0, p}
    <3> DEFINE l == [d EXCEPT !.review = d.review \cup {p}]
    <3>1. l \in PalCatalogs /\ l.book = d.book /\ l.card = d.card /\ l.review = d.review \cup {p}
      BY DEF PalCatalogs
    <3>2. iCatalog' = l /\ iDraft' = l /\ iTx' = 0 /\ I!Goto(p, "finish")
      BY <1>1, <1>8, <2>3 DEF I!Commit, I!CanWrite, I!WithReview, I!Nobody
    <3> HIDE DEF l
    <3>3. PalLonger(d, l) /\ PalLonger(k, l)
      <4>1. PalLonger(d, d)
        BY PalLongerOn
      <4>2. PalLonger(d, l)
        BY <3>1, <4>1 DEF PalLonger
      <4> QED
        BY <1>5, <3>1, <4>2, PalLongerOn
    <3>4. PalOwed(l, {})
      <4>1. PalOwed(d, {p})
        BY <1>1, <1>2, <1>5, <2>3 DEF PalData, PalOwed
      <4> QED
        BY <3>1, <4>1 DEF PalOwed
    <3>5. PalData(0, l, l)
      BY <3>1, <3>4, PalLongerOn DEF PalData
    <3>6. \A i \in I!Items : /\ PalNames(d, i, p) => PalNames(l, i, p)
                             /\ PalNames(k, i, p) => PalNames(l, i, p)
      BY <3>1, <3>3, PalLongerOn
    <3>7. /\ iCall' \in [I!Imports -> PalCalls]
          /\ \A q \in I!Imports \ {p} : iCall'[q] = iCall[q]
          /\ iCall'[p].pc = "finish" /\ iCall'[p].listed = c.listed
      BY <1>6, <3>2 DEF PalPlaces
    <3>8. c.listed \subseteq I!Items /\ o.manifest \subseteq I!Items
      BY DEF PalCalls, PalOutputs
    <3>9. PalFits(p, iCall'[p], iOut'[p], iOp'[p], 0, l, l, iFenced)
      BY <1>1, <1>2, <1>4, <2>1, <2>2, <3>6, <3>7, <3>8 DEF PalFits
    <3> QED
      BY <1>1, <1>2, <1>3, <1>4, <2>2, <2>3, <3>1, <3>2, <3>3, <3>5, <3>7, <3>9, PalStep
  <2>4. CASE t \notin {0, p}
    <3>1. iCatalog' = iCatalog /\ iDraft' = iDraft /\ iTx' = iTx /\ I!Goto(p, "undo")
      BY <1>1, <1>8, <2>4 DEF I!Commit, I!CanWrite, I!Nobody
    <3>2. /\ iCall' \in [I!Imports -> PalCalls]
          /\ \A q \in I!Imports \ {p} : iCall'[q] = iCall[q]
          /\ iCall'[p].pc = "undo" /\ iCall'[p].listed = c.listed
      BY <1>6, <3>1 DEF PalPlaces
    <3>3. PalFits(p, iCall'[p], iOut'[p], iOp'[p], iTx, iDraft, iCatalog, iFenced)
      BY <1>1, <1>4, <2>2, <3>2 DEF PalFits
    <3> QED
      BY <1>3, <1>4, <2>2, <3>1, <3>2, <3>3, PalLocal
  <2> QED
    BY <2>3, <2>4
<1>9. CASE I!ImportGraph(p)
  <2>1. c.pc = "graph" /\ iCatalog' = iCatalog /\ iDraft' = iDraft
    BY <1>1, <1>9 DEF I!ImportGraph, I!In
  <2>2. CASE ~I!Active(p) \/ (I!Graph \notin iBlocked /\ ~I!CanWrite(p))
    <3>1. I!Goto(p, "undo") /\ iTx' = iTx /\ iOut' = iOut
      BY <1>9, <2>2 DEF I!ImportGraph
    <3>2. /\ iCall' \in [I!Imports -> PalCalls]
          /\ \A q \in I!Imports \ {p} : iCall'[q] = iCall[q]
          /\ iCall'[p].pc = "undo" /\ iCall'[p].listed = c.listed
      BY <1>6, <3>1 DEF PalPlaces
    <3>3. PalFits(p, iCall'[p], iOut'[p], iOp'[p], iTx, iDraft, iCatalog, iFenced)
      BY <1>1, <1>4, <2>1, <3>1, <3>2 DEF PalFits
    <3> QED
      BY <1>1, <1>3, <1>4, <2>1, <3>1, <3>2, <3>3, PalLocal DEF PalTyped
  <2>3. CASE ~(~I!Active(p) \/ (I!Graph \notin iBlocked /\ ~I!CanWrite(p)))
    <3> DEFINE refused == c.refused \cup ({I!Graph} \cap iBlocked)
               found == refused \cap iBlocked # {}
               n == [o EXCEPT !.raw = ~found,
                              !.note = IF found THEN "snapshot_blocked" ELSE "snapshot_retained"]
               e == [c EXCEPT !.pc = "commit", !.refused = refused]
    <3>1. /\ iTx' = t \/ (iTx' = p /\ t \in {0, p})
          /\ iCall' = [iCall EXCEPT ![p].pc = "commit", ![p].refused = refused]
          /\ iOut' = [iOut EXCEPT ![p] = n]
      BY <1>1, <1>9, <2>3 DEF I!ImportGraph, I!CanWrite, I!Nobody, I!Leave, I!Retained
    <3>2. refused \in SUBSET (1 .. MaxItems + 1)
      BY PalBounds DEF PalCalls
    <3> HIDE DEF refused
    <3>3. e \in PalCalls /\ e.pc = "commit" /\ e.listed = c.listed
      BY <3>2 DEF PalCalls, PalPlaces
    <3>4. iCall' = [iCall EXCEPT ![p] = e]
      BY <1>1, <3>1 DEF PalTyped
    <3> HIDE DEF found, e
    <3>5. n \in PalOutputs /\ n.items = o.items /\ n.manifest = o.manifest /\ n.receipts = o.receipts
      BY DEF PalOutputs, PalNotes
    <3> HIDE DEF n
    <3>6. /\ iOut' \in [I!Imports -> PalOutputs] /\ iOut'[p] = n
          /\ iCall' \in [I!Imports -> PalCalls] /\ iCall'[p] = e
          /\ \A q \in I!Imports \ {p} : iOut'[q] = iOut[q] /\ iCall'[q] = iCall[q]
      BY <1>1, <3>1, <3>3, <3>4, <3>5 DEF PalTyped
    <3>7. CASE iTx' = t
      <4>1. PalFits(p, iCall'[p], iOut'[p], iOp'[p], iTx, iDraft, iCatalog, iFenced)
        BY <1>1, <1>4, <2>1, <3>3, <3>5, <3>6 DEF PalFits
      <4> QED
        BY <1>1, <1>3, <1>4, <2>1, <3>6, <3>7, <4>1, PalLocal
    <3>8. CASE iTx' = p /\ t \in {0, p}
      <4>1. PalOwed(d, {p})
        BY <1>1, <1>2, <1>5, <3>8 DEF PalData, PalOwed
      <4>2. PalData(p, d, k)
        BY <1>2, <1>5, <4>1 DEF PalData
      <4>3. PalFits(p, iCall'[p], iOut'[p], iOp'[p], p, d, k, iFenced)
        BY <1>1, <1>4, <2>1, <3>3, <3>5, <3>6 DEF PalFits
      <4> QED
        BY <1>1, <1>2, <1>3, <1>4, <1>5, <2>1, <3>6, <3>8, <4>2, <4>3, PalStep
    <3> QED
      BY <3>1, <3>7, <3>8
  <2> QED
    BY <2>2, <2>3
<1> QED
  BY <1>7, <1>8, <1>9

\* Others change the database only while no import has the transaction.
LEMMA PalOthers ==
    ASSUME PalInv, I!Age \/ I!Fence \/ \E p \in I!Imports : I!Review(p)
    PROVE  PalInv' /\ PalGrows
<1>1. iCall' = iCall /\ iOut' = iOut /\ iOp' = iOp /\ iTx' = iTx
  BY DEF I!Age, I!Fence, I!Review, I!Database
<1>2. PalLonger(iCatalog, iCatalog)
  BY PalLongerOn DEF PalInv, PalTyped
<1>3. CASE I!Age
  <2>1. iDraft' = iDraft /\ iCatalog' = iCatalog /\ iFenced' = iFenced
    BY <1>3 DEF I!Age, I!Database
  <2> QED
    BY <1>1, <1>2, <2>1 DEF PalInv, PalTyped, PalGrows
<1>4. CASE I!Fence
  <2>1. iDraft' = iDraft /\ iCatalog' = iCatalog /\ iTx = 0 /\ iFenced' \in BOOLEAN
    BY <1>4 DEF I!Fence, I!Nobody
  <2>2. PalTyped'
    BY <1>1, <2>1 DEF PalInv, PalTyped
  <2>3. ASSUME NEW p \in I!Imports
        PROVE  PalFits(p, iCall[p], iOut[p], iOp[p], iTx, iDraft, iCatalog, iFenced')
    <3>1. p # 0 /\ PalFits(p, iCall[p], iOut[p], iOp[p], iTx, iDraft, iCatalog, iFenced)
      BY PalBounds DEF PalInv
    <3> QED
      BY <2>1, <3>1 DEF PalFits
  <2> QED
    BY <1>1, <1>2, <2>1, <2>2, <2>3 DEF PalInv, PalGrows
<1>5. ASSUME NEW p \in I!Imports, I!Review(p) PROVE PalInv' /\ PalGrows
  <2> DEFINE k == iCatalog
  <2>1. k \in PalCatalogs /\ k = iCatalog /\ PalOwed(k, {})
    BY DEF PalInv, PalTyped, PalData
  <2>2. PICK placed \in SUBSET I!Candidates(p) :
            /\ iCatalog' = [k EXCEPT
                  !.card = [i \in I!Items |->
                               [k.card[i] EXCEPT !.placed = k.card[i].placed \/ i \in placed]],
                  !.review = (k.review \ {p}) \cup I!StillOwed(p, placed)]
            /\ iDraft' = iCatalog' /\ iTx = 0 /\ iFenced' = iFenced
    BY <1>5, <2>1 DEF I!Review, I!Nobody
  <2> DEFINE one(i) == [k.card[i] EXCEPT !.placed = k.card[i].placed \/ i \in placed]
             card == [i \in I!Items |-> one(i)]
             review == (k.review \ {p}) \cup I!StillOwed(p, placed)
             l == [k EXCEPT !.card = card, !.review = review]
  <2>3. ASSUME NEW i \in I!Items
        PROVE  /\ one(i) \in PalCards /\ one(i).of = k.card[i].of
               /\ one(i).linked = k.card[i].linked
               /\ one(i).placed = (k.card[i].placed \/ i \in placed)
    <3>1. k.card[i] \in PalCards
      BY <2>1 DEF PalCatalogs
    <3>2. PICK r \in PalCards : r = k.card[i]
      BY <3>1
    <3>3. PICK b \in BOOLEAN : b = (r.placed \/ i \in placed)
      OBVIOUS
    <3>4. one(i) = [r EXCEPT !.placed = b]
      BY <3>2, <3>3
    <3> QED
      BY <3>2, <3>3, <3>4 DEF PalCards
  <2> HIDE DEF one
  <2>4. card \in [I!Items -> PalCards] /\ \A i \in I!Items : card[i] = one(i)
    BY <2>3
  <2>5. review \in SUBSET I!Imports
    BY <2>1 DEF I!StillOwed, PalCatalogs
  <2>6. iCatalog' = l
    BY <2>2 DEF one
  <2> HIDE DEF card
  <2>7. ASSUME NEW i \in I!Items, card[i].linked, ~card[i].placed PROVE card[i].of \in review
    <3>1. /\ k.card[i].linked /\ ~k.card[i].placed /\ i \notin placed
          /\ k.card[i].of = card[i].of
      BY <2>3, <2>4, <2>7
    <3>2. card[i].of \in k.review
      BY <2>1, <3>1 DEF PalOwed
    <3>3. CASE card[i].of = p
      <4>1. i \in I!Candidates(p)
        BY <2>1, <3>1, <3>3 DEF I!Candidates
      <4> QED
        BY <3>1, <3>3, <4>1 DEF I!StillOwed
    <3> QED
      BY <3>2, <3>3
  <2> HIDE DEF review
  <2>8. l \in PalCatalogs /\ l.book = k.book /\ l.card = card /\ l.review = review
    BY <2>1, <2>4, <2>5 DEF PalCatalogs
  <2> HIDE DEF l
  <2>9. PalTyped'
    BY <1>1, <2>2, <2>6, <2>8 DEF PalInv, PalTyped
  <2>10. PalLonger(k, l)
    BY <1>2, <2>1, <2>8 DEF PalLonger
  <2>11. PalOwed(l, {}) /\ PalLonger(l, l)
    BY <2>7, <2>8, PalLongerOn DEF PalOwed
  <2>12. PalData(iTx, l, l)
    BY <2>2, <2>11 DEF PalData
  <2>13. ASSUME NEW q \in I!Imports
         PROVE  PalFits(q, iCall[q], iOut[q], iOp[q], iTx, l, l, iFenced)
    <3>1. PalFits(q, iCall[q], iOut[q], iOp[q], iTx, iDraft, iCatalog, iFenced) /\ q # 0
      BY PalBounds DEF PalInv
    <3>2. \A i \in I!Items : PalNames(k, i, q) => PalNames(l, i, q)
      BY <2>8 DEF PalNames
    <3>3. iCall[q].listed \subseteq I!Items /\ iOut[q].manifest \subseteq I!Items
      BY DEF PalInv, PalTyped, PalCalls, PalOutputs
    <3> QED
      BY <2>1, <2>2, <3>1, <3>2, <3>3 DEF PalFits
  <2> QED
    BY <1>1, <2>1, <2>2, <2>6, <2>9, <2>10, <2>12, <2>13 DEF PalInv, PalGrows
<1> QED
  BY <1>3, <1>4, <1>5

LEMMA PalNext == ASSUME PalInv, I!Next PROVE PalInv' /\ PalGrows
<1>1. CASE I!Age \/ I!Others
  <2>1. ASSUME NEW p \in I!Imports, I!Interrupt(p) PROVE PalInv' /\ PalGrows
    BY <2>1, PalEnds
  <2> QED
    BY <1>1, <2>1, PalOthers DEF I!Others
<1>2. ASSUME NEW p \in I!Imports,
             \/ I!LockStep(p) \/ I!ItemStep(p) \/ I!CallStep(p)
             \/ I!ImportPart(p) \/ I!Raise(p) \/ I!Die(p)
      PROVE  PalInv' /\ PalGrows
  BY <1>2, PalLocks, PalBegins, PalEnds, PalItems, PalCommits DEF I!ItemStep, I!CallStep
<1> QED
  BY <1>1, <1>2 DEF I!Next, I!Step, I!Failure

LEMMA PalStutters == ASSUME PalInv, UNCHANGED iVars PROVE PalInv' /\ PalGrows
<1>1. PalLonger(iCatalog, iCatalog)
  BY PalLongerOn DEF PalInv, PalTyped
<1> QED
  BY <1>1 DEF PalInv, PalTyped, PalGrows, iVars

LEMMA PalReported == PalInv => I!ReportedIsTrue /\ I!ReviewIsOwed
<1> SUFFICES ASSUME PalInv PROVE I!ReportedIsTrue /\ I!ReviewIsOwed
  OBVIOUS
<1>1. I!ReviewIsOwed
  BY DEF PalInv, PalData, PalOwed, I!ReviewIsOwed
<1>2. ASSUME NEW p \in I!Imports, NEW i \in iOut[p].manifest
      PROVE  p \in I!Range(iCatalog.book[i]) /\ i \in iOut[p].items
  <2>1. PalNames(iCatalog, i, p) /\ i \in iOut[p].items
    BY DEF PalInv, PalFits
  <2>2. i \in I!Items
    BY DEF PalInv, PalTyped, PalOutputs
  <2>3. iCatalog.book[i] \in Seq(I!Imports)
    BY <2>2 DEF PalInv, PalTyped, PalCatalogs
  <2>4. DOMAIN iCatalog.book[i] = 1 .. Len(iCatalog.book[i])
    BY <2>3
  <2> QED
    BY <2>1, <2>4 DEF PalNames, I!Range
<1> QED
  BY <1>1, <1>2 DEF I!ReportedIsTrue, PalInv, PalFits

\* The histories of books are never cut.
LEMMA PalKeeps ==
    ASSUME PalInv, PalInv', PalGrows
    PROVE  \A i \in I!Items : I!IsPrefix(iCatalog.book[i], iCatalog'.book[i])
<1> TAKE i \in I!Items
<1>1. iCatalog.book[i] \in Seq(I!Imports) /\ iCatalog'.book[i] \in Seq(I!Imports)
  BY DEF PalInv, PalTyped, PalCatalogs
<1> QED
  BY <1>1, PalIsPrefix DEF PalGrows, PalLonger

-----------------------------------------------------------------------------
(* The parts together.                                                      *)

FilesInv == PrepInv /\ SnInv /\ BkInv /\ PalInv

\* What a step may do to what is owed, one conjunct for each component.
FilesStay == PrepStay /\ SnStay /\ BkStay /\ PalGrows

\* An empty root satisfies the invariant of every part.
LEMMA FilesInitInv == FilesInit => FilesInv
  BY PrepInit, SnInit, BkInit, PalInit DEF FilesInit, FilesInv

\* A snapshot that did not change has its catalog still, and a file its bytes.
LEMMA OthersStay == ASSUME FilesInv PROVE (UNCHANGED sVars => SnStay) /\ (UNCHANGED bVars => BkStay)
  BY DEF sVars, bVars, SnStay, BkStay, S!HasCatalog

\* A component that takes no step keeps its part.
LEMMA FilesRest ==
    ASSUME FilesInv
    PROVE  /\ UNCHANGED pVars => PrepInv' /\ PrepStay
           /\ UNCHANGED sVars => SnInv' /\ SnStay
           /\ UNCHANGED bVars => BkInv' /\ BkStay
           /\ UNCHANGED iVars => PalInv' /\ PalGrows
  BY PrepStutters, SnStutters, BkStutters, PalStutters, OthersStay DEF FilesInv

\* Every step is one of one component; the others rest.
LEMMA FilesNextInv == ASSUME FilesInv, [FilesNext]_filesVars PROVE FilesInv' /\ FilesStay
<1>1. CASE which = "prepare" /\ P!Next /\ UNCHANGED <<which, vars, sVars, bVars, iVars, wVars>>
  BY <1>1, PrepNext, FilesRest DEF FilesInv, FilesStay
<1>2. CASE which = "snapshot" /\ S!Next /\ UNCHANGED <<which, vars, pVars, bVars, iVars, wVars>>
  BY <1>2, SnNext, FilesRest DEF FilesInv, FilesStay
<1>3. CASE which = "book" /\ B!Next /\ UNCHANGED <<which, vars, pVars, sVars, iVars, wVars>>
  BY <1>3, BkNext, FilesRest DEF FilesInv, FilesStay
<1>4. CASE which = "palace" /\ I!Next /\ UNCHANGED <<which, vars, pVars, sVars, bVars, wVars>>
  BY <1>4, PalNext, FilesRest DEF FilesInv, FilesStay
<1>5. CASE UNCHANGED pVars /\ UNCHANGED sVars /\ UNCHANGED bVars /\ UNCHANGED iVars
  BY <1>5, FilesRest DEF FilesInv, FilesStay
<1> QED
  BY <1>1, <1>2, <1>3, <1>4, <1>5 DEF FilesNext, filesVars

\* Each part of the invariant is inductive by itself, because the parts share no state.
THEOREM FilesInvariance == FilesSpec => []FilesInv
<1>1. FilesInv /\ [FilesNext]_filesVars => FilesInv'
  BY FilesNextInv
<1> QED
  BY FilesInitInv, <1>1, PTL DEF FilesSpec

\* Whatever dies and whenever: a job with its rows is complete (create_review_job), the
\* newest snapshots of the catalog are copies of one state (snapshot and its retention),
\* a file that the row of a book names is there (apply_storage_tiering, ingest_file), and
\* what an import reports is in the catalog, its cards under review or placed.
THEOREM WhatIsCommittedIsWhole == FilesSpec => []CommittedIsWhole
<1>1. FilesInv => CommittedIsWhole
  BY PrepOpen, SnKeptIsWhole, BkBookStays, PalReported DEF FilesInv, CommittedIsWhole
<1> QED
  BY FilesInvariance, <1>1, PTL

\* No step takes away what is owed: a committed job (create_review_job), a snapshot that
\* a proof cites (enforce_snapshot_retention), a file that an immutable artifact names
\* (apply_storage_tiering), the sources of a book (import_embedding).
THEOREM WhatIsOwedStays == FilesSpec => NothingOwedIsLost
<1>1. FilesInv /\ FilesInv' /\ [FilesNext]_filesVars
      => [\A j \in P!Jobs : pJob[j].rows => pJob'[j].rows /\ pJob'[j].tree = pJob[j].tree]_P!vars
  BY FilesNextInv DEF FilesStay, PrepStay
<1>2. FilesInv /\ FilesInv' /\ [FilesNext]_filesVars
      => [\A k \in sPinned \ (sLate \cup sTorn) :
            S!HasCatalog(k) => "catalog" \in sSnap'[k].out]_S!vars
  BY FilesNextInv DEF FilesStay, SnStay
<1>3. FilesInv /\ FilesInv' /\ [FilesNext]_filesVars
      => [\A a \in bPinned : bFile[a.path[1]][a.path[2]] # "none"
            => bFile'[a.path[1]][a.path[2]] # "none"]_B!vars
  BY FilesNextInv DEF FilesStay, BkStay
<1>4. FilesInv /\ FilesInv' /\ [FilesNext]_filesVars
      => [\A i \in I!Items : I!IsPrefix(iCatalog.book[i], iCatalog'.book[i])]_I!vars
  BY FilesNextInv, PalKeeps DEF FilesInv, FilesStay
<1>5. FilesSpec => P!CommittedStays /\ S!PinnedStays
  BY FilesInvariance, <1>1, <1>2, PTL DEF FilesSpec, P!CommittedStays, S!PinnedStays
<1>6. FilesSpec => B!PinnedStays /\ I!SourcesKept
  BY FilesInvariance, <1>3, <1>4, PTL DEF FilesSpec, B!PinnedStays, I!SourcesKept
<1> QED
  BY <1>5, <1>6 DEF NothingOwedIsLost
===============================================================================
