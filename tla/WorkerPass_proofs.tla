-------------------------- MODULE WorkerPass_proofs --------------------------
(***************************************************************************)
(* Proofs about module WorkerPass, for any rows, workers, job types and    *)
(* limits: the effect of a row is committed at most once and reported for  *)
(* what it is, and only under a live lease.                                *)
(***************************************************************************)
EXTENDS WorkerPass, JobQueue_proofs

-----------------------------------------------------------------------------
\* The steps of a pass on the queue are steps of the queue, so that what
\* JobQueue_proofs proves of those can be cited.

LEMMA SettleImplements ==
    ASSUME NEW w \in Workers, WPSettle(w)
    PROVE  Settle(w)
<1>1. \/ Finish(w, "finished") \/ FailOwned(w)
      \/ Retry(w, FALSE) \/ Retry(w, TRUE) \/ LeaseLost(w, TRUE) \/ LeaseLost(w, FALSE)
  BY DEF WPSettle, SettleBy
<1>2. FailOwned(w) => Finish(w, "failed")
  BY DEF FailOwned
<1> QED
  BY <1>1, <1>2 DEF Settle, Verdicts

LEMMA ProcessorsLeaveQueue == ASSUME NEW w \in Workers, Process(w) PROVE UNCHANGED Queue
  BY DEF Process, CorePhase, PostPhase, StartVerify, CommitVerify, Raise

(* Every step of a pass is a step of the queue or leaves it alone.          *)
LEMMA ImplementsStep == [WPNext]_wpVars => [Next]_vars
<1> SUFFICES ASSUME [WPNext]_wpVars PROVE [Next]_vars
  OBVIOUS
<1>1. ASSUME NEW w \in Workers, WPClaim(w) PROVE Next
  BY <1>1 DEF WPClaim, Next, Work
<1>2. ASSUME NEW w \in Workers, Process(w) PROVE UNCHANGED vars
  BY <1>2, ProcessorsLeaveQueue DEF Queue, vars
<1>3. ASSUME NEW w \in Workers, WPSettle(w) PROVE Next
  BY <1>3, SettleImplements DEF Next, Work
<1>4. ASSUME NEW w \in Workers, WPCrash(w) PROVE Next
  BY <1>4 DEF WPCrash, Next
<1>5. ASSUME NEW j \in Jobs, WPForget(j) PROVE Next
  BY <1>5 DEF WPForget, Next
<1>6. CASE WPEnvironment
  BY <1>6 DEF WPEnvironment, Next
<1>7. CASE UNCHANGED wpVars
  BY <1>7 DEF wpVars, vars
<1> QED
  BY <1>1, <1>2, <1>3, <1>4, <1>5, <1>6, <1>7 DEF WPNext

-----------------------------------------------------------------------------
\* The inductive invariant.

\* Receipts say what was applied; a row that is not in the table has none.
LedgerInv ==
    \A j \in Jobs :
        /\ applied[j] <= 1
        /\ receipt[j] = "none" => applied[j] = 0
        /\ receipt[j] = "core" => Phased(j)
        /\ db.status[j] = "free" => receipt[j] = "none"

\* What a processor knows about the row in its hands.
AtWork(w) ==
    LET j == pass[w].job IN
    pass[w].at = "working" =>
        /\ db.status[j] # "free"
        /\ step[w] = "compute" => ~Phased(j)
        /\ step[w] = "post" => Phased(j) /\ receipt[j] # "none"
        /\ step[w] = "ok" => receipt[j] = "done ok"
        /\ step[w] = "bad" /\ Held(w) => receipt[j] # "done ok"

WPInv ==
    /\ IInv
    /\ WPTypeOK
    /\ LedgerInv
    /\ \A w \in Workers : AtWork(w)
    /\ VerdictMatchesEffect

LEMMA WPInitInv == WPInit => WPInv
<1> SUFFICES ASSUME WPInit PROVE WPInv
  OBVIOUS
<1>1. IInv
  BY InitInv DEF WPInit
<1>2. WPTypeOK
  BY DEF WPInit, WPTypeOK, Steps, Receipts, Init, Idle
<1>3. LedgerInv
  BY DEF WPInit, LedgerInv
<1>4. \A w \in Workers : AtWork(w)
  BY DEF WPInit, AtWork, Init, Idle
<1>5. VerdictMatchesEffect
  BY DEF WPInit, VerdictMatchesEffect, Init
<1> QED
  BY <1>1, <1>2, <1>3, <1>4, <1>5 DEF WPInv

-----------------------------------------------------------------------------
\* Steps of the queue.

\* Rows stay in the table with their type; the workers in W gain no lease.
RowsStay(W) ==
    /\ \A j \in Jobs : db.status[j] # "free" =>
                          db'.status[j] # "free" /\ db'.spec[j].type = db.spec[j].type
    /\ \A v \in W, j \in Jobs : Owned(db', v, j) => Owned(db, v, j)

\* A row with a verdict has kept it, could not be run again, or is given it by
\* a settlement that knows the receipt.
VerdictsFit ==
    \A j \in Jobs :
        \/ db'.status[j] \notin Verdicts
        \/ db'.status[j] = db.status[j] /\ db'.spec[j] = db.spec[j]
        \/ db'.status[j] = "failed" /\ ~db'.spec[j].preemptible
        \/ db'.status[j] = "finished" /\ receipt[j] = "done ok"
        \/ db'.status[j] = "failed" /\ receipt[j] # "done ok"

\* The workers outside W begin with a row or end with theirs.
OthersBeginOrEnd(W) ==
    /\ step' \in [Workers -> Steps]
    /\ \A v \in W : pass'[v] = pass[v] /\ step'[v] = step[v]
    /\ \A v \in Workers \ W :
          /\ step'[v] \in {"none", "begin"}
          /\ step'[v] = "none" <=> pass'[v].at # "working"
          /\ pass'[v].at = "working" => db'.status[pass'[v].job] # "free"

LEMMA QueueStepInv ==
    ASSUME WPInv, IInv', NEW W \in SUBSET Workers,
           RowsStay(W), VerdictsFit, OthersBeginOrEnd(W), UNCHANGED Ledger
    PROVE  WPInv'
<1>0. receipt' = receipt /\ applied' = applied
  BY DEF Ledger
<1>1. WPTypeOK'
  BY <1>0 DEF WPInv, WPTypeOK, OthersBeginOrEnd
<1>2. LedgerInv'
  <2> SUFFICES ASSUME NEW j \in Jobs
               PROVE  /\ applied[j] <= 1
                      /\ receipt[j] = "none" => applied[j] = 0
                      /\ receipt[j] = "core" => db'.spec[j].type \in PhasedTypes
                      /\ db'.status[j] = "free" => receipt[j] = "none"
    BY <1>0 DEF LedgerInv, Phased
  <2> QED
    BY DEF WPInv, LedgerInv, Phased, RowsStay
<1>3. ASSUME NEW v \in W PROVE AtWork(v)'
  <2>1. AtWork(v) /\ pass'[v] = pass[v] /\ step'[v] = step[v] /\ v \in Workers
    BY DEF WPInv, OthersBeginOrEnd
  <2>2. CASE pass[v].at = "working"
    <3>1. pass[v].job \in Jobs
      BY <2>1, <2>2, InHand DEF WPInv
    <3>2. Held(v)' => Held(v)
      BY <2>1, <3>1 DEF RowsStay, Held
    <3>3. db'.spec[pass[v].job].type = db.spec[pass[v].job].type
          /\ db'.status[pass[v].job] # "free"
      BY <2>1, <2>2, <3>1 DEF AtWork, RowsStay
    <3> QED
      BY <1>0, <2>1, <3>2, <3>3 DEF AtWork, Phased
  <2>3. CASE pass[v].at # "working"
    BY <2>1, <2>3 DEF AtWork
  <2> QED
    BY <2>2, <2>3
<1>4. ASSUME NEW v \in Workers \ W PROVE AtWork(v)'
  BY DEF OthersBeginOrEnd, AtWork
<1>5. VerdictMatchesEffect'
  BY <1>0 DEF WPInv, VerdictMatchesEffect, VerdictsFit, Verdicts
<1> QED
  BY <1>1, <1>2, <1>3, <1>4, <1>5 DEF WPInv

\* What taking leases back does to the rows.
LEMMA FreesStay ==
    ASSUME IInv, NEW batch \in SUBSET Jobs, \A j \in batch : db.status[j] = "running",
           NEW doomed \in SUBSET batch, \A j \in doomed : ~db.spec[j].preemptible,
           NEW retrying, NEW q, Frees(db, q, batch, doomed, retrying)
    PROVE  \A j \in Jobs :
              /\ db.status[j] # "free" => q.status[j] # "free"
              /\ q.spec[j] = db.spec[j]
              /\ \A v \in Workers : Owned(q, v, j) => Owned(db, v, j)
              /\ q.status[j] \in Verdicts => \/ q.status[j] = db.status[j]
                                             \/ q.status[j] = "failed" /\ ~q.spec[j].preemptible
<1> SUFFICES ASSUME NEW j \in Jobs
             PROVE  /\ db.status[j] # "free" => q.status[j] # "free"
                    /\ q.spec[j] = db.spec[j]
                    /\ \A v \in Workers : Owned(q, v, j) => Owned(db, v, j)
                    /\ q.status[j] \in Verdicts =>
                          \/ q.status[j] = db.status[j]
                          \/ q.status[j] = "failed" /\ ~q.spec[j].preemptible
  OBVIOUS
<1>1. CASE j \in batch
  BY <1>1 DEF Frees, Owned, Verdicts
<1>2. CASE j \notin batch
  BY <1>2 DEF Frees, Owned
<1> QED
  BY <1>1, <1>2

\* What taking a row does to the rows: only w gains a lease.
LEMMA TakesStay ==
    ASSUME NEW q \in Tables, NEW u, NEW w \in Workers, NEW i \in Jobs, Takes(q, u, w, i)
    PROVE  /\ u.status[i] # "free"
           /\ \A j \in Jobs :
                 /\ q.status[j] # "free" => u.status[j] # "free"
                 /\ u.spec[j] = q.spec[j]
                 /\ \A v \in Workers \ {w} : Owned(u, v, j) => Owned(q, v, j)
                 /\ u.status[j] \in Verdicts => u.status[j] = q.status[j]
<1>1. /\ q.status \in [Jobs -> Statuses]
      /\ q.owner \in [Jobs -> Workers \cup {NoOne, Gone}]
      /\ q.lease \in [Jobs -> {"none", "live", "expired"}]
  BY DEF Tables
<1>2. \A j \in Jobs : /\ u.status[j] = IF j = i THEN "running" ELSE q.status[j]
                      /\ u.owner[j] = IF j = i THEN w ELSE q.owner[j]
                      /\ u.lease[j] = IF j = i THEN "live" ELSE q.lease[j]
  BY <1>1 DEF Takes
<1> QED
  BY <1>2 DEF Takes, Owned, Verdicts

LEMMA WPClaimInv == ASSUME WPInv, NEW w \in Workers, WPClaim(w) PROVE WPInv'
<1> DEFINE W == Workers \ {w}
<1>0. IInv /\ db \in Tables
  BY DEF WPInv, IInv, TablesInv
<1>1. PICK q \in Tables :
         /\ \A j \in Jobs :
               /\ db.status[j] # "free" => q.status[j] # "free"
               /\ q.spec[j] = db.spec[j]
               /\ \A v \in Workers : Owned(q, v, j) => Owned(db, v, j)
               /\ q.status[j] \in Verdicts => \/ q.status[j] = db.status[j]
                                              \/ q.status[j] = "failed" /\ ~q.spec[j].preemptible
         /\ \/ db' = q /\ pass' = [pass EXCEPT ![w] = Idle]
            \/ \E i \in Jobs : \E deferred, left :
                  /\ Takes(q, db', w, i)
                  /\ pass' = [pass EXCEPT ![w] = [at |-> "working", job |-> i,
                                                  deferred |-> deferred, left |-> left]]
  <2>1. CASE StartPass(w)
    <3>1. PICK batch \in SUBSET Expired(db, w), q \in Tables :
              /\ Frees(db, q, batch, batch \ Preemptible(db, batch),
                       Preemptible(db, batch \cap db.retry))
              /\ \/ db' = q /\ pass' = [pass EXCEPT ![w] = Idle]
                 \/ \E j \in Jobs :
                       /\ Takes(q, db', w, j)
                       /\ pass' = [pass EXCEPT ![w] = [at |-> "working", job |-> j,
                                                       deferred |-> {}, left |-> PassLimit - 1]]
      BY <1>0, <2>1, StartPassRows
    <3> DEFINE doomed == batch \ Preemptible(db, batch)
    <3>2. /\ batch \in SUBSET Jobs /\ \A j \in batch : db.status[j] = "running"
          /\ doomed \in SUBSET batch /\ \A j \in doomed : ~db.spec[j].preemptible
      BY DEF Expired, Preemptible
    <3> HIDE DEF doomed
    <3>3. Frees(db, q, batch, doomed, Preemptible(db, batch \cap db.retry))
      BY <3>1 DEF doomed
    <3>4. \A j \in Jobs :
             /\ db.status[j] # "free" => q.status[j] # "free"
             /\ q.spec[j] = db.spec[j]
             /\ \A v \in Workers : Owned(q, v, j) => Owned(db, v, j)
             /\ q.status[j] \in Verdicts => \/ q.status[j] = db.status[j]
                                            \/ q.status[j] = "failed" /\ ~q.spec[j].preemptible
      <4> DEFINE retrying == Preemptible(db, batch \cap db.retry)
      <4>1. IInv
        BY <1>0
      <4>2. Frees(db, q, batch, doomed, retrying)
        BY <3>3
      <4> HIDE DEF retrying
      <4>3. batch \in SUBSET Jobs
        BY <3>2
      <4>4. \A j \in batch : db.status[j] = "running"
        BY <3>2
      <4>5. doomed \in SUBSET batch
        BY <3>2
      <4>6. \A j \in doomed : ~db.spec[j].preemptible
        BY <3>2
      <4> QED
        BY <4>1, <4>2, <4>3, <4>4, <4>5, <4>6, FreesStay
    <3>5. \/ db' = q /\ pass' = [pass EXCEPT ![w] = Idle]
          \/ \E i \in Jobs : \E deferred, left :
                /\ Takes(q, db', w, i)
                /\ pass' = [pass EXCEPT ![w] = [at |-> "working", job |-> i,
                                                deferred |-> deferred, left |-> left]]
      BY <3>1
    <3> QED
      BY <3>4, <3>5
  <2>2. CASE ClaimNext(w)
    <3>1. ClaimIn(w, db, pass[w].deferred, pass[w].left)
      BY <2>2 DEF ClaimNext
    <3>2. \/ db' = db /\ pass' = [pass EXCEPT ![w] = Idle]
          \/ \E j \in Jobs :
                /\ Takes(db, db', w, j)
                /\ pass' = [pass EXCEPT ![w] = [at |-> "working", job |-> j,
                                                deferred |-> pass[w].deferred,
                                                left |-> pass[w].left - 1]]
      BY <1>0, <3>1, ClaimInRows
    <3>3. \A j \in Jobs : \A v \in Workers : Owned(db, v, j) => Owned(db, v, j)
      OBVIOUS
    <3> QED
      BY <1>0, <3>2, <3>3
  <2> QED
    BY <2>1, <2>2 DEF WPClaim
<1>2. RowsStay(W) /\ VerdictsFit
  <2>1. \A j \in Jobs :
            /\ q.status[j] # "free" => db'.status[j] # "free"
            /\ db'.spec[j] = q.spec[j]
            /\ \A v \in W : Owned(db', v, j) => Owned(q, v, j)
            /\ db'.status[j] \in Verdicts => db'.status[j] = q.status[j]
    BY <1>1, TakesStay
  <2>2. RowsStay(W)
    BY <1>1, <2>1 DEF RowsStay
  <2>3. VerdictsFit
    BY <1>1, <2>1 DEF VerdictsFit
  <2> QED
    BY <2>2, <2>3
<1>3. OthersBeginOrEnd(W)
  <2>1. pass \in [Workers -> Memory] /\ step \in [Workers -> Steps]
    BY <1>0 DEF IInv, PassInv, WPInv, WPTypeOK
  <2>2. step' = [step EXCEPT ![w] = IF pass'[w].at = "working" THEN "begin" ELSE "none"]
    BY DEF WPClaim, MoveTo
  <2>3. CASE db' = q /\ pass' = [pass EXCEPT ![w] = Idle]
    BY <2>1, <2>2, <2>3 DEF OthersBeginOrEnd, Idle, Steps
  <2>4. ASSUME NEW i \in Jobs, NEW deferred, NEW left, Takes(q, db', w, i),
               pass' = [pass EXCEPT ![w] = [at |-> "working", job |-> i,
                                            deferred |-> deferred, left |-> left]]
        PROVE  OthersBeginOrEnd(W)
    <3>1. db'.status[i] # "free"
      BY <2>4, TakesStay
    <3> QED
      BY <2>1, <2>2, <2>4, <3>1 DEF OthersBeginOrEnd, Steps
  <2> QED
    BY <1>1, <2>3, <2>4
<1>4. IInv'
  <2>1. Next
    BY DEF WPClaim, Next, Work
  <2> QED
    BY <1>0, <2>1, NextInv
<1>5. UNCHANGED Ledger
  BY DEF WPClaim
<1>6. W \in SUBSET Workers
  OBVIOUS
<1> HIDE DEF W
<1> QED
  BY <1>2, <1>3, <1>4, <1>5, <1>6, QueueStepInv

LEMMA QueueInvKept == WPInv /\ [WPNext]_wpVars => IInv'
  BY ImplementsStep, NextInv DEF WPInv

LEMMA WPEnvironmentInv == ASSUME WPInv, WPEnvironment PROVE WPInv'
<1>0. /\ IInv /\ db \in Tables /\ IInv'
      /\ pass \in [Workers -> Memory] /\ step \in [Workers -> Steps]
  <2>1. IInv /\ db \in Tables /\ step \in [Workers -> Steps]
    BY DEF WPInv, IInv, TablesInv, WPTypeOK
  <2>2. IInv'
    BY QueueInvKept DEF WPNext
  <2> QED
    BY <2>1, <2>2 DEF IInv, PassInv
<1>1. /\ db.status \in [Jobs -> Statuses] /\ db.spec \in [Jobs -> JobSpecs]
      /\ db.lease \in [Jobs -> {"none", "live", "expired"}]
  BY <1>0 DEF Tables
<1>2. pass' = pass /\ RowsStay(Workers) /\ VerdictsFit
  <2>1. ASSUME NEW s \in JobSpecs, NEW replace \in BOOLEAN, Enqueue(s, replace)
        PROVE  pass' = pass /\ RowsStay(Workers) /\ VerdictsFit
    <3>1. /\ db'.owner = db.owner /\ db'.lease = db.lease /\ pass' = pass
          /\ \/ \E i \in Jobs :
                   /\ db.status[i] = "pending" /\ Key(db, i) = s.key /\ s.key # NoKey
                   /\ db'.status = db.status /\ db'.older = db.older
                   /\ db'.spec \in {db.spec, [db.spec EXCEPT ![i] = s]}
             \/ \E j \in Jobs :
                   /\ db.status[j] = "free"
                   /\ db'.status = [db.status EXCEPT ![j] = "pending"]
                   /\ db'.older = [db.older EXCEPT ![j] = {i \in Jobs : db.status[i] # "free"}]
                   /\ db'.spec = [db.spec EXCEPT ![j] = s]
      BY <1>0, <2>1, EnqueueRows
    <3>2. CASE \E i \in Jobs :
                   /\ db.status[i] = "pending" /\ Key(db, i) = s.key /\ s.key # NoKey
                   /\ db'.status = db.status
                   /\ db'.spec \in {db.spec, [db.spec EXCEPT ![i] = s]}
      <4>1. PICK i \in Jobs :
                   /\ db.status[i] = "pending" /\ Key(db, i) = s.key /\ s.key # NoKey
                   /\ db'.status = db.status
                   /\ db'.spec \in {db.spec, [db.spec EXCEPT ![i] = s]}
        BY <3>2
      <4>2. s.type = db.spec[i].type
        BY <1>1, <4>1, JobSpecAssumption DEF Key
      <4>3. \A k \in Jobs : db'.spec[k].type = db.spec[k].type /\ (k # i => db'.spec[k] = db.spec[k])
        BY <1>1, <4>1, <4>2
      <4>4. RowsStay(Workers)
        BY <3>1, <4>1, <4>3 DEF RowsStay, Owned
      <4>5. VerdictsFit
        BY <4>1, <4>3 DEF VerdictsFit, Verdicts
      <4> QED
        BY <3>1, <4>4, <4>5
    <3>3. CASE \E j \in Jobs :
                   /\ db.status[j] = "free"
                   /\ db'.status = [db.status EXCEPT ![j] = "pending"]
                   /\ db'.spec = [db.spec EXCEPT ![j] = s]
      BY <1>1, <3>1, <3>3 DEF RowsStay, VerdictsFit, Owned, Verdicts
    <3> QED
      BY <3>1, <3>2, <3>3
  <2>2. ASSUME NEW j \in Jobs, RecoverFailed(j)
        PROVE  pass' = pass /\ RowsStay(Workers) /\ VerdictsFit
    <3>1. /\ db.status[j] = "failed"
          /\ \/ db'.status = db.status /\ db'.owner = db.owner /\ db'.lease = db.lease
             \/ \A i \in Jobs :
                   /\ db'.status[i] = IF i = j THEN "pending" ELSE db.status[i]
                   /\ db'.owner[i] = IF i = j THEN NoOne ELSE db.owner[i]
                   /\ db'.lease[i] = IF i = j THEN "none" ELSE db.lease[i]
          /\ db'.spec = db.spec
      BY <1>0, <2>2, RecoverFailedRows
    <3>2. pass' = pass
      BY <2>2 DEF RecoverFailed
    <3>3. RowsStay(Workers)
      BY <3>1 DEF RowsStay, Owned
    <3>4. VerdictsFit
      BY <3>1 DEF VerdictsFit, Verdicts
    <3> QED
      BY <3>2, <3>3, <3>4
  <2>3. ASSUME NEW j \in Jobs, LeaseExpires(j)
        PROVE  pass' = pass /\ RowsStay(Workers) /\ VerdictsFit
    <3>1. /\ db'.status = db.status /\ db'.spec = db.spec /\ db'.owner = db.owner
          /\ db'.lease = [db.lease EXCEPT ![j] = "expired"]
      BY <1>0, <2>3 DEF LeaseExpires, Tables
    <3> QED
      BY <1>1, <2>3, <3>1 DEF LeaseExpires, RowsStay, VerdictsFit, Owned
  <2>4. CASE ReconcileBacklog
    <3>1. PICK batch \in SUBSET Redundant :
              /\ batch \in SUBSET Jobs
              /\ \A i \in Jobs :
                    /\ db'.status[i] = IF i \in batch THEN "superseded" ELSE db.status[i]
                    /\ db'.owner[i] = IF i \in batch THEN NoOne ELSE db.owner[i]
                    /\ db'.lease[i] = IF i \in batch THEN "none" ELSE db.lease[i]
              /\ db'.spec = db.spec
      BY <1>0, <2>4, ReconcileBacklogRows
    <3> QED
      BY <2>4, <3>1 DEF ReconcileBacklog, RowsStay, VerdictsFit, Owned, Verdicts
  <2> QED
    BY <2>1, <2>2, <2>3, <2>4 DEF WPEnvironment
<1>3. UNCHANGED Ledger /\ step' = step
  BY DEF WPEnvironment, Ledger
<1>4. OthersBeginOrEnd(Workers)
  BY <1>0, <1>2, <1>3 DEF OthersBeginOrEnd
<1> QED
  BY <1>0, <1>2, <1>3, <1>4, QueueStepInv

LEMMA WPCrashInv == ASSUME WPInv, NEW w \in Workers, WPCrash(w) PROVE WPInv'
<1> DEFINE W == Workers \ {w}
<1>0. IInv /\ db \in Tables /\ IInv' /\ W \in SUBSET Workers
  <2>1. IInv'
    BY QueueInvKept DEF WPNext
  <2> QED
    BY <2>1 DEF WPInv, IInv, TablesInv
<1>1. /\ db'.status = db.status /\ db'.spec = db.spec /\ db'.lease = db.lease
      /\ db'.owner = [j \in Jobs |-> IF db.owner[j] = w THEN Gone ELSE db.owner[j]]
  BY <1>0 DEF WPCrash, Crash, Tables
<1>2. RowsStay(W) /\ VerdictsFit
  BY <1>1, QueueAssumption DEF RowsStay, VerdictsFit, Owned
<1>3. OthersBeginOrEnd(W)
  <2>1. pass \in [Workers -> Memory] /\ step \in [Workers -> Steps]
    BY <1>0 DEF IInv, PassInv, WPInv, WPTypeOK
  <2> QED
    BY <2>1 DEF OthersBeginOrEnd, WPCrash, Crash, MoveTo, Idle, Steps
<1>4. UNCHANGED Ledger
  BY DEF WPCrash
<1> HIDE DEF W
<1> QED
  BY <1>0, <1>2, <1>3, <1>4, QueueStepInv

\* A settled row is reported for what its receipt says.
LEMMA SettledFit ==
    ASSUME WPInv, NEW w \in Workers, WPSettle(w), NEW verdict \in Verdicts, Finish(w, verdict),
           \/ verdict = "finished" /\ step[w] = "ok"
           \/ verdict = "failed" /\ step[w] = "bad"
           \/ verdict = "failed" /\ step[w] = "error" /\ FALSE \in Authorities(pass[w].job)
    PROVE  /\ pass'[w].at # "working" /\ \A v \in Workers \ {w} : pass'[v] = pass[v]
           /\ RowsStay(Workers) /\ VerdictsFit
<1> DEFINE j == pass[w].job
<1>1. IInv /\ receipt \in [Jobs -> Receipts] /\ pass \in [Workers -> Memory]
  BY DEF WPInv, WPTypeOK, IInv, PassInv
<1>2. /\ pass[w].at = "working" /\ j \in Jobs /\ Owned(db, w, j)
      /\ \A i \in Jobs :
            /\ db'.status[i] = IF i = j THEN verdict ELSE db.status[i]
            /\ db'.owner[i] = IF i = j THEN NoOne ELSE db.owner[i]
            /\ db'.lease[i] = IF i = j THEN "none" ELSE db.lease[i]
      /\ db'.spec = db.spec
  BY <1>1, FinishRows
<1>3. AtWork(w) /\ Held(w)
  BY <1>2 DEF WPInv, Held
<1>4. \/ verdict = "finished" /\ receipt[j] = "done ok"
      \/ verdict = "failed" /\ receipt[j] # "done ok"
  <2>1. CASE verdict = "finished" /\ step[w] = "ok"
    BY <1>2, <1>3, <2>1 DEF AtWork
  <2>2. CASE verdict = "failed" /\ step[w] = "bad"
    BY <1>2, <1>3, <2>2 DEF AtWork
  <2>3. CASE verdict = "failed" /\ FALSE \in Authorities(pass[w].job)
    BY <1>1, <1>2, <2>3 DEF Authorities, Receipts
  <2> QED
    BY <2>1, <2>2, <2>3
<1>5. GoesOn(w, {})
  BY DEF Finish
<1>6. pass'[w].at # "working" /\ \A v \in Workers \ {w} : pass'[v] = pass[v]
  BY <1>1, <1>5 DEF GoesOn, Idle
<1> HIDE DEF j
<1>7. RowsStay(Workers)
  BY <1>2 DEF RowsStay, Owned, Verdicts
<1>8. VerdictsFit
  BY <1>2, <1>4 DEF VerdictsFit
<1> QED
  BY <1>6, <1>7, <1>8

LEMMA WPSettleInv == ASSUME WPInv, NEW w \in Workers, WPSettle(w) PROVE WPInv'
<1> DEFINE W == Workers \ {w}
           Settled == /\ pass'[w].at # "working" /\ \A v \in W : pass'[v] = pass[v]
                      /\ RowsStay(W) /\ VerdictsFit
<1>0. /\ IInv /\ IInv' /\ W \in SUBSET Workers
      /\ pass \in [Workers -> Memory] /\ step \in [Workers -> Steps]
  <2>1. IInv'
    BY QueueInvKept DEF WPNext
  <2> QED
    BY <2>1 DEF WPInv, IInv, PassInv, WPTypeOK
<1>1. Settled
  <2>1. ASSUME NEW verdict \in Verdicts, Finish(w, verdict),
               \/ verdict = "finished" /\ step[w] = "ok"
               \/ verdict = "failed" /\ step[w] = "bad"
               \/ verdict = "failed" /\ step[w] = "error" /\ FALSE \in Authorities(pass[w].job)
        PROVE  Settled
    <3>1. /\ pass'[w].at # "working" /\ \A v \in Workers \ {w} : pass'[v] = pass[v]
          /\ RowsStay(Workers) /\ VerdictsFit
      BY <2>1, SettledFit
    <3> QED
      BY <3>1 DEF RowsStay
  <2>2. ASSUME NEW busy \in BOOLEAN, Retry(w, busy)
        PROVE  Settled
    <3> DEFINE j == pass[w].job
    <3>1. j \in Jobs /\ Owned(db, w, j) /\ Frees(db, db', {j}, {}, {j})
      BY <1>0, <2>2, RetryRows
    <3> HIDE DEF j
    <3>2. {j} \in SUBSET Jobs /\ {} \in SUBSET {j} /\ \A i \in {j} : db.status[i] = "running"
      BY <3>1 DEF Owned
    <3>3. \A i \in {} : ~db.spec[i].preemptible
      OBVIOUS
    <3>4. \A i \in Jobs :
             /\ db.status[i] # "free" => db'.status[i] # "free"
             /\ db'.spec[i] = db.spec[i]
             /\ \A v \in Workers : Owned(db', v, i) => Owned(db, v, i)
             /\ db'.status[i] \in Verdicts =>
                   \/ db'.status[i] = db.status[i]
                   \/ db'.status[i] = "failed" /\ ~db'.spec[i].preemptible
      BY <1>0, <3>1, <3>2, <3>3, FreesStay
    <3>5. RowsStay(W) /\ VerdictsFit
      BY <3>4 DEF RowsStay, VerdictsFit
    <3>6. pass'[w].at # "working" /\ \A v \in W : pass'[v] = pass[v]
      BY <1>0, <2>2 DEF Retry, GoesOn, Idle
    <3> QED
      BY <3>5, <3>6
  <2>3. ASSUME NEW busy \in BOOLEAN, LeaseLost(w, busy)
        PROVE  Settled
    <3>1. db' = db
      BY <2>3 DEF LeaseLost
    <3>2. pass'[w].at # "working" /\ \A v \in W : pass'[v] = pass[v]
      BY <1>0, <2>3 DEF LeaseLost, GoesOn, Idle
    <3> QED
      BY <3>1, <3>2 DEF RowsStay, VerdictsFit
  <2>4. \/ step[w] = "ok" /\ Finish(w, "finished")
        \/ step[w] = "bad" /\ Finish(w, "failed")
        \/ Retry(w, FALSE) \/ Retry(w, TRUE) \/ LeaseLost(w, TRUE) \/ LeaseLost(w, FALSE)
        \/ step[w] = "error" /\ FALSE \in Authorities(pass[w].job) /\ Finish(w, "failed")
    <3>1. FailOwned(w) => Finish(w, "failed")
      BY DEF FailOwned
    <3>2. ASSUME NEW authority \in Authorities(pass[w].job),
                 IF authority THEN Retry(w, FALSE) ELSE FailOwned(w)
          PROVE  \/ Retry(w, FALSE)
                 \/ FALSE \in Authorities(pass[w].job) /\ FailOwned(w)
      <4>1. authority \in BOOLEAN
        BY DEF Authorities
      <4> QED
        BY <3>2, <4>1
    <3>3. SettleBy(w)
      BY DEF WPSettle
    <3> QED
      BY <3>1, <3>2, <3>3 DEF SettleBy
  <2>5. "finished" \in Verdicts /\ "failed" \in Verdicts
    BY DEF Verdicts
  <2> QED
    BY <2>1, <2>2, <2>3, <2>4, <2>5
<1>2. OthersBeginOrEnd(W)
  BY <1>0, <1>1 DEF OthersBeginOrEnd, WPSettle, MoveTo, Steps
<1>3. UNCHANGED Ledger
  BY DEF WPSettle
<1> HIDE DEF W
<1> QED
  BY <1>0, <1>1, <1>2, <1>3, QueueStepInv

-----------------------------------------------------------------------------
\* Steps of the processors.

\* What one step of a processor may do: commit under its lease, or only move on.
ProcessorStep(w) ==
    LET j == pass[w].job IN
    /\ pass[w].at = "working" /\ j \in Jobs
    /\ step'[w] \in Steps \ {"none"}
    /\ \A v \in Workers \ {w} : step'[v] = step[v]
    /\ \A i \in Jobs \ {j} : receipt'[i] = receipt[i] /\ applied'[i] = applied[i]
    /\ \/ receipt'[j] = receipt[j] /\ applied'[j] = applied[j]
       \/ /\ Held(w)
          /\ \/ /\ Phased(j) /\ receipt[j] = "none" /\ receipt'[j] = "core"
                /\ applied'[j] = applied[j] + 1
             \/ /\ Phased(j) /\ receipt[j] # "none" /\ receipt'[j] = "done ok"
                /\ applied'[j] = applied[j]
             \/ /\ ~Phased(j) /\ ~Terminated(j) /\ receipt'[j] \in {"done ok", "done bad"}
                /\ applied'[j] = applied[j] + 1
    /\ step'[w] = "compute" => ~Phased(j)
    /\ step'[w] = "post" => Phased(j) /\ receipt'[j] # "none"
    /\ step'[w] = "ok" => receipt'[j] = "done ok"
    /\ step'[w] = "bad" /\ Held(w) => receipt'[j] # "done ok"

LEMMA ProcessorSteps == ASSUME WPInv, NEW w \in Workers, Process(w) PROVE ProcessorStep(w)
<1> DEFINE j == pass[w].job
<1>1. /\ receipt \in [Jobs -> Receipts] /\ applied \in [Jobs -> Nat] /\ step \in [Workers -> Steps]
      /\ pass \in [Workers -> Memory] /\ IInv /\ AtWork(w)
  BY DEF WPInv, WPTypeOK, IInv, PassInv
<1>2. pass[w].at = "working"
  BY DEF Process, CorePhase, PostPhase, StartVerify, CommitVerify, Raise, Processing
<1>3. j \in Jobs
  BY <1>1, <1>2, InHand
<1>4. CASE CorePhase(w)
  BY <1>1, <1>2, <1>3, <1>4 DEF CorePhase, Processing, MoveTo, Commit, Ledger, Replayed, Terminated,
     ProcessorStep, Receipts, Steps, Outcomes, LedgerInv, WPInv
<1>5. CASE PostPhase(w)
  <2>1. step[w] = "post" /\ Phased(j) /\ receipt[j] # "none"
    BY <1>2, <1>1, <1>5 DEF PostPhase, Processing, AtWork
  <2>2. CASE MoveTo(w, "retry") /\ UNCHANGED Ledger
    BY <1>1, <1>2, <1>3, <2>2 DEF MoveTo, Ledger, ProcessorStep, Steps, Outcomes
  <2>3. CASE Held(w) /\ MoveTo(w, "ok") /\ Commit(j, "done ok", 0)
    <3>1. /\ receipt' = [receipt EXCEPT ![j] = "done ok"]
          /\ applied' = [applied EXCEPT ![j] = applied[j]]
      <4>1. applied[j] \in Nat
        BY <1>1, <1>3
      <4>2. applied[j] + 0 = applied[j]
        BY <4>1
      <4>3. /\ receipt' = [receipt EXCEPT ![j] = "done ok"]
            /\ applied' = [applied EXCEPT ![j] = applied[j] + 0]
        BY <2>3 DEF Commit
      <4> QED
        BY <4>2, <4>3
    <3>2. step' = [step EXCEPT ![w] = "ok"]
      BY <2>3 DEF MoveTo
    <3>3. /\ receipt'[j] = "done ok" /\ applied'[j] = applied[j]
          /\ \A i \in Jobs \ {j} : receipt'[i] = receipt[i] /\ applied'[i] = applied[i]
      BY <1>1, <1>3, <3>1
    <3>4. step'[w] = "ok" /\ \A v \in Workers \ {w} : step'[v] = step[v]
      BY <1>1, <3>2
    <3> QED
      BY <1>2, <1>3, <2>1, <2>3, <3>3, <3>4 DEF ProcessorStep, Steps, Outcomes
  <2> QED
    BY <1>5, <2>2, <2>3 DEF PostPhase
<1>6. CASE StartVerify(w)
  BY <1>1, <1>2, <1>3, <1>6 DEF StartVerify, Processing, MoveTo, Ledger, Replayed, Terminated,
     ProcessorStep, Receipts, Steps, Outcomes
<1>7. CASE CommitVerify(w)
  BY <1>1, <1>2, <1>3, <1>7 DEF CommitVerify, Processing, MoveTo, Commit, Ledger, Replayed, Terminated,
     ProcessorStep, Receipts, Steps, Outcomes, AtWork
<1>8. CASE Raise(w)
  BY <1>1, <1>2, <1>3, <1>8 DEF Raise, MoveTo, Ledger, ProcessorStep, Steps, Outcomes
<1> QED
  BY <1>4, <1>5, <1>6, <1>7, <1>8 DEF Process

LEMMA ProcessInv == ASSUME WPInv, NEW w \in Workers, Process(w) PROVE WPInv'
<1> DEFINE j == pass[w].job
<1>0. /\ IInv /\ WPTypeOK /\ LedgerInv /\ VerdictMatchesEffect /\ \A v \in Workers : AtWork(v)
      /\ receipt \in [Jobs -> Receipts] /\ applied \in [Jobs -> Nat] /\ step \in [Workers -> Steps]
  BY DEF WPInv, WPTypeOK
<1>1. ProcessorStep(w) /\ j \in Jobs
  BY ProcessorSteps DEF ProcessorStep
<1>2. db' = db /\ pass' = pass
  BY ProcessorsLeaveQueue DEF Queue
<1>3. IInv'
  BY QueueInvKept DEF WPNext
<1>4. DOMAIN step' = Workers /\ step' = [v \in Workers |-> step'[v]]
      /\ receipt' = [i \in Jobs |-> receipt'[i]] /\ applied' = [i \in Jobs |-> applied'[i]]
  BY <1>0 DEF Process, CorePhase, PostPhase, StartVerify, CommitVerify, Raise, MoveTo, Commit, Ledger
<1>9. \A i \in Jobs \ {j} : receipt'[i] = receipt[i] /\ applied'[i] = applied[i]
  BY <1>1 DEF ProcessorStep
<1>10. /\ receipt'[j] \in Receipts /\ applied'[j] \in Nat /\ applied'[j] <= 1
       /\ receipt'[j] = "none" => applied'[j] = 0
       /\ receipt'[j] = "core" => Phased(j)
  <2>1. /\ receipt[j] \in Receipts /\ applied[j] \in Nat /\ applied[j] <= 1
        /\ receipt[j] = "none" => applied[j] = 0
        /\ receipt[j] = "core" => Phased(j)
    BY <1>0, <1>1 DEF LedgerInv
  <2>2. CASE receipt'[j] = receipt[j] /\ applied'[j] = applied[j]
    BY <2>1, <2>2
  <2>3. CASE /\ Phased(j) /\ receipt[j] = "none" /\ receipt'[j] = "core"
             /\ applied'[j] = applied[j] + 1
    BY <2>1, <2>3 DEF Receipts
  <2>4. CASE /\ Phased(j) /\ receipt[j] # "none" /\ receipt'[j] = "done ok"
             /\ applied'[j] = applied[j]
    BY <2>1, <2>4 DEF Receipts
  <2>5. CASE /\ ~Phased(j) /\ ~Terminated(j) /\ receipt'[j] \in {"done ok", "done bad"}
             /\ applied'[j] = applied[j] + 1
    <3>1. receipt[j] = "none"
      <4>1. receipt[j] # "done ok" /\ receipt[j] # "done bad"
        BY <2>5 DEF Terminated
      <4>2. receipt[j] # "core"
        BY <2>1, <2>5
      <4> QED
        BY <2>1, <4>1, <4>2 DEF Receipts
    <3>2. applied[j] = 0
      BY <2>1, <3>1
    <3>3. applied'[j] = 0 + 1
      BY <2>5, <3>2
    <3>4. applied'[j] = 1
      BY <3>3
    <3>5. receipt'[j] \in Receipts /\ receipt'[j] # "none" /\ receipt'[j] # "core"
      BY <2>5 DEF Receipts
    <3> QED
      BY <3>4, <3>5
  <2> QED
    BY <1>1, <2>2, <2>3, <2>4, <2>5 DEF ProcessorStep
<1>5. WPTypeOK'
  <2>1. \A v \in Workers : step'[v] \in Steps /\ (step'[v] = "none" <=> pass'[v].at # "working")
    BY <1>0, <1>1, <1>2 DEF ProcessorStep, WPTypeOK
  <2>2. \A i \in Jobs : receipt'[i] \in Receipts /\ applied'[i] \in Nat
    BY <1>0, <1>9, <1>10
  <2> QED
    BY <1>4, <2>1, <2>2 DEF WPTypeOK
<1>6. LedgerInv'
  <2> SUFFICES ASSUME NEW i \in Jobs
               PROVE  /\ applied'[i] <= 1
                      /\ receipt'[i] = "none" => applied'[i] = 0
                      /\ receipt'[i] = "core" => Phased(i)
                      /\ db.status[i] = "free" => receipt'[i] = "none"
    BY <1>2 DEF LedgerInv, Phased
  <2>1. CASE i # j
    BY <1>0, <1>9, <2>1 DEF LedgerInv
  <2>2. CASE i = j
    <3>1. db.status[j] # "free"
      BY <1>0, <1>1 DEF AtWork, ProcessorStep
    <3> QED
      BY <1>10, <2>2, <3>1
  <2> QED
    BY <2>1, <2>2
<1>7. ASSUME NEW v \in Workers PROVE AtWork(v)'
  <2> DEFINE k == pass[v].job
  <2> SUFFICES ASSUME pass[v].at = "working"
               PROVE  /\ db.status[k] # "free"
                      /\ step'[v] = "compute" => ~Phased(k)
                      /\ step'[v] = "post" => Phased(k) /\ receipt'[k] # "none"
                      /\ step'[v] = "ok" => receipt'[k] = "done ok"
                      /\ step'[v] = "bad" /\ Held(v) => receipt'[k] # "done ok"
    BY <1>2 DEF AtWork, Phased, Held
  <2>1. AtWork(v) /\ k \in Jobs
    BY <1>0, InHand
  <2>2. CASE v = w
    BY <1>1, <2>1, <2>2 DEF ProcessorStep, AtWork
  <2>3. CASE v # w /\ k # j
    BY <1>1, <2>1, <2>3 DEF ProcessorStep, AtWork
  <2>4. CASE v # w /\ k = j
    <3>1. step'[v] = step[v]
      BY <1>1, <2>4 DEF ProcessorStep
    <3>2. Held(w) => ~Held(v)
      BY <2>4 DEF Held, Owned
    <3>3. receipt'[j] = receipt[j] \/ (Held(w) /\ receipt'[j] # "none" /\ receipt[j] # "done ok")
          \/ (Held(w) /\ receipt'[j] = "done ok")
      BY <1>1 DEF ProcessorStep, Terminated
    <3> QED
      BY <2>1, <2>4, <3>1, <3>2, <3>3 DEF AtWork
  <2> QED
    BY <2>2, <2>3, <2>4
<1>8. VerdictMatchesEffect'
  <2> SUFFICES ASSUME NEW i \in Jobs
               PROVE  /\ db.status[i] = "finished" => receipt'[i] = "done ok"
                      /\ db.status[i] = "failed" /\ receipt'[i] = "done ok" => ~db.spec[i].preemptible
    BY <1>2 DEF VerdictMatchesEffect
  <2>1. CASE receipt'[i] = receipt[i]
    BY <1>0, <2>1 DEF VerdictMatchesEffect
  <2>2. CASE receipt'[i] # receipt[i]
    BY <1>1, <2>2 DEF ProcessorStep, Held, Owned
  <2> QED
    BY <2>1, <2>2
<1> QED
  BY <1>3, <1>5, <1>6, <1>7, <1>8 DEF WPInv

LEMMA WPForgetInv == ASSUME WPInv, NEW j \in Jobs, WPForget(j) PROVE WPInv'
<1>0. /\ IInv /\ db \in Tables /\ WPTypeOK /\ LedgerInv /\ VerdictMatchesEffect
      /\ \A v \in Workers : AtWork(v)
      /\ receipt \in [Jobs -> Receipts] /\ applied \in [Jobs -> Nat]
  BY DEF WPInv, WPTypeOK, IInv, TablesInv
<1>1. IInv'
  BY QueueInvKept DEF WPNext
<1>2. /\ db'.status = [db.status EXCEPT ![j] = "free"]
      /\ db'.spec = [db.spec EXCEPT ![j] = BlankSpec]
      /\ db'.owner = db.owner /\ db'.lease = db.lease
      /\ pass' = pass /\ step' = step
      /\ receipt' = [receipt EXCEPT ![j] = "none"] /\ applied' = [applied EXCEPT ![j] = 0]
      /\ \A v \in Workers : pass[v].job # j
  BY <1>0 DEF WPForget, Forget, Tables
<1>3. /\ db'.status[j] = "free" /\ receipt'[j] = "none" /\ applied'[j] = 0
      /\ \A i \in Jobs \ {j} :
            /\ db'.status[i] = db.status[i] /\ db'.spec[i] = db.spec[i]
            /\ receipt'[i] = receipt[i] /\ applied'[i] = applied[i]
  BY <1>0, <1>2 DEF Tables
<1>4. WPTypeOK'
  BY <1>0, <1>2 DEF WPTypeOK, Receipts
<1>5. LedgerInv'
  BY <1>0, <1>3 DEF LedgerInv, Phased
<1>6. ASSUME NEW v \in Workers PROVE AtWork(v)'
  <2>1. CASE pass[v].at = "working"
    <3>1. pass[v].job \in Jobs \ {j}
      BY <1>0, <1>2, <2>1, InHand
    <3>2. Held(v)' <=> Held(v)
      BY <1>2, <1>3, <3>1 DEF Held, Owned
    <3>3. /\ db'.status[pass[v].job] = db.status[pass[v].job]
          /\ db'.spec[pass[v].job] = db.spec[pass[v].job]
          /\ receipt'[pass[v].job] = receipt[pass[v].job]
      BY <1>3, <3>1
    <3>4. Phased(pass[v].job)' <=> Phased(pass[v].job)
      BY <1>2, <3>3 DEF Phased
    <3>5. AtWork(v)
      BY <1>0
    <3> QED
      BY <1>2, <2>1, <3>2, <3>3, <3>4, <3>5 DEF AtWork
  <2>2. CASE pass[v].at # "working"
    BY <1>2, <2>2 DEF AtWork
  <2> QED
    BY <2>1, <2>2
<1>7. VerdictMatchesEffect'
  BY <1>0, <1>3 DEF VerdictMatchesEffect
<1> QED
  BY <1>1, <1>4, <1>5, <1>6, <1>7 DEF WPInv

LEMMA WPNextInv == WPInv /\ [WPNext]_wpVars => WPInv'
<1> SUFFICES ASSUME WPInv, [WPNext]_wpVars PROVE WPInv'
  OBVIOUS
<1>1. CASE WPNext
  BY <1>1, WPClaimInv, ProcessInv, WPSettleInv, WPCrashInv, WPForgetInv, WPEnvironmentInv DEF WPNext
<1>2. CASE UNCHANGED wpVars
  <2>1. IInv'
    BY QueueInvKept
  <2> QED
    BY <1>2, <2>1 DEF wpVars, WPInv, WPTypeOK, LedgerInv, AtWork, VerdictMatchesEffect, Phased, Held, Owned
<1> QED
  BY <1>1, <1>2

-----------------------------------------------------------------------------
\* What follows.

(* The shape of the processors' state, and what their receipts and the rows *)
(* in their hands say of each other, hold in every reachable state.         *)
THEOREM WPInvariance == WPSpec => []WPInv
  BY WPInitInv, WPNextInv, PTL DEF WPSpec

(* The core effect of a row is committed at most once and reported for what *)
(* it is, however the row changes hands (EffectsAreExact).                  *)
THEOREM EffectsStayExact == WPSpec => []EffectsAreExact
<1>1. WPInv => EffectsAreExact
  BY DEF WPInv, LedgerInv, EffectsAreExact, AppliedAtMostOnce
<1> QED
  BY <1>1, WPInvariance, PTL

(* A receipt changes only under a live lease of the worker that commits it  *)
(* (CommittedUnderLease).                                                   *)
THEOREM CommitsUnderLease == WPSpec => CommittedUnderLease
<1> DEFINE Fenced == \A j \in Jobs :
              receipt'[j] # receipt[j] /\ db'.status[j] # "free" =>
                 \E w \in Workers : pass[w].job = j /\ Owned(db, w, j) /\ step'[w] # step[w]
<1>1. WPInv /\ [WPNext]_wpVars => [Fenced]_wpVars
  <2> SUFFICES ASSUME WPInv, WPNext, NEW j \in Jobs,
                      receipt'[j] # receipt[j], db'.status[j] # "free"
               PROVE  \E w \in Workers : pass[w].job = j /\ Owned(db, w, j) /\ step'[w] # step[w]
    BY DEF Fenced
  <2>1. receipt \in [Jobs -> Receipts] /\ step \in [Workers -> Steps] /\ db \in Tables
        /\ \A w \in Workers : AtWork(w)
    BY DEF WPInv, WPTypeOK, IInv, TablesInv
  <2>2. ASSUME NEW w \in Workers, Process(w)
        PROVE  pass[w].job = j /\ Owned(db, w, j) /\ step'[w] # step[w]
    <3>1. ProcessorStep(w)
      BY <2>2, ProcessorSteps
    <3>2. pass[w].job = j /\ Held(w)
      BY <3>1 DEF ProcessorStep
    <3>3. step'[w] # step[w]
      BY <2>1, <2>2, <3>2 DEF Process, CorePhase, PostPhase, StartVerify, CommitVerify, Raise,
         Processing, MoveTo, Commit, Ledger
    <3> QED
      BY <3>2, <3>3 DEF Held
  <2>3. ASSUME NEW i \in Jobs, WPForget(i) PROVE FALSE
    <3>1. db'.status = [db.status EXCEPT ![i] = "free"] /\ receipt' = [receipt EXCEPT ![i] = "none"]
      BY <2>1, <2>3 DEF WPForget, Forget, Tables
    <3> QED
      BY <2>1, <3>1 DEF Tables
  <2>4. ASSUME NEW w \in Workers, WPClaim(w) \/ WPSettle(w) \/ WPCrash(w) PROVE FALSE
    BY <2>4 DEF WPClaim, WPSettle, WPCrash, Ledger
  <2>5. CASE WPEnvironment
    BY <2>5 DEF WPEnvironment
  <2> QED
    BY <2>2, <2>3, <2>4, <2>5 DEF WPNext
<1> QED
  BY <1>1, WPInvariance, PTL DEF WPSpec, CommittedUnderLease
=============================================================================
