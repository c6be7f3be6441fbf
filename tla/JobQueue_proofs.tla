--------------------------- MODULE JobQueue_proofs ---------------------------
(***************************************************************************)
(* Proofs about module JobQueue, for any number of rows, workers, kinds of *)
(* job and any limits: the tables keep their types, and the dedupe key     *)
(* protocol (one running row and one pending row per key, retry authority  *)
(* never behind a running row of its key) is an invariant.                 *)
(***************************************************************************)
EXTENDS JobQueue, FiniteSetTheorems, WellFoundedInduction, TLAPS

-----------------------------------------------------------------------------
\* The inductive invariant, as predicates of a value of the tables.

\* Of the rows of one key at most one is running and at most one is pending,
\* and a pending one that is a retry has no running one beside it.
KeysApart(q) ==
    \A i, j \in Jobs :
        i # j /\ SameKey(q, i, j) =>
            /\ q.status[i] = "running" => q.status[j] # "running"
            /\ q.status[i] = "pending" => q.status[j] # "pending"
            /\ q.status[i] = "pending" /\ i \in q.retry => q.status[j] # "running"

\* Retry authority is on live rows; what recovery may requeue has failed.
FlagsFit(q) ==
    /\ \A j \in q.retry : q.status[j] \in Live
    /\ \A j \in q.recoverable : q.status[j] = "failed"

TablesInv(q) == q \in Tables /\ KeysApart(q) /\ FlagsFit(q)

-----------------------------------------------------------------------------
\* The fields of a table value after an update.

\* u is q with new statuses st for the rows T, and retry authority moved from
\* the rows in leaves to those in joins.
Moves(q, u, T, st, joins, leaves) ==
    /\ u \in Tables
    /\ u.status = [j \in Jobs |-> IF j \in T THEN st[j] ELSE q.status[j]]
    /\ u.spec = q.spec
    /\ u.retry = (q.retry \ leaves) \cup joins
    /\ u.recoverable = q.recoverable
    /\ u.older = q.older
    /\ u.owner = [j \in Jobs |-> IF j \in T THEN NoOne ELSE q.owner[j]]
    /\ u.lease = [j \in Jobs |-> IF j \in T THEN "none" ELSE q.lease[j]]

(* What Updated does to the columns the invariant reads.                    *)
LEMMA UpdatedFields ==
    ASSUME NEW q \in Tables, NEW T \in SUBSET Jobs, NEW st \in [T -> Statuses],
           NEW joins \in SUBSET Jobs, NEW leaves \in SUBSET Jobs, NEW rank
    PROVE  Moves(q, Updated(q, st, joins, leaves, rank), T, st, joins, leaves)
<1> DEFINE status == [j \in Jobs |-> IF j \in T THEN st[j] ELSE q.status[j]]
           kept == q.retry \ (leaves \cup joins)
           retry == kept \cup joins
           owner == [j \in Jobs |-> IF j \in T THEN NoOne ELSE q.owner[j]]
           lease == [j \in Jobs |-> IF j \in T THEN "none" ELSE q.lease[j]]
           ahead == [j \in Jobs |-> IF j \in joins
                                    THEN kept \cup {i \in joins : rank[i] < rank[j]}
                                    ELSE IF j \in kept THEN q.ahead[j] \cap kept ELSE {}]
           bypass == [l \in Lanes |-> [j \in Jobs |->
                        IF j \in T \cup joins \cup leaves /\ ~InLane(l, j, status, retry)
                        THEN 0 ELSE q.bypass[l][j]]]
           u == [q EXCEPT !.status = status, !.owner = owner, !.lease = lease,
                          !.retry = retry, !.ahead = ahead, !.bypass = bypass]
<1>1. DOMAIN st = T
  OBVIOUS
<1>2. Updated(q, st, joins, leaves, rank) = u
  BY <1>1 DEF Updated
<1>3. /\ status \in [Jobs -> Statuses]
      /\ owner \in [Jobs -> Workers \cup {NoOne, Gone}]
      /\ lease \in [Jobs -> {"none", "live", "expired"}]
  BY DEF Tables
<1>4. kept \in SUBSET Jobs /\ retry \in SUBSET Jobs /\ ahead \in [Jobs -> SUBSET Jobs]
  BY DEF Tables
<1>5. bypass \in [Lanes -> [Jobs -> Nat]]
  <2>1. SUFFICES ASSUME NEW l \in Lanes, NEW j \in Jobs
                 PROVE  bypass[l][j] \in Nat
    OBVIOUS
  <2>2. q.bypass[l][j] \in Nat
    BY DEF Tables
  <2> QED
    BY <2>2
<1>6. retry = (q.retry \ leaves) \cup joins
  OBVIOUS
<1> HIDE DEF status, kept, retry, owner, lease, ahead, bypass
<1>7. u \in Tables
  BY <1>3, <1>4, <1>5 DEF Tables
<1>8. /\ u.status = status
      /\ u.spec = q.spec
      /\ u.retry = retry
      /\ u.recoverable = q.recoverable
      /\ u.older = q.older
      /\ u.owner = owner
      /\ u.lease = lease
  BY DEF Tables
<1> QED
  BY <1>2, <1>6, <1>7, <1>8 DEF status, owner, lease, Moves

-----------------------------------------------------------------------------
\* Each transaction keeps the invariant of the tables.

(* Settling live rows to terminal statuses only removes rows from the       *)
(* protocol.  (_finish_job, and the reconciliation of the backlog.)         *)
LEMMA SettlingKeeps ==
    ASSUME NEW q, TablesInv(q), NEW T \in SUBSET Jobs, NEW st \in [T -> Terminal],
           \A j \in T : q.status[j] \in Live, NEW rank
    PROVE  TablesInv(Updated(q, st, {}, T, rank))
<1> DEFINE u == Updated(q, st, {}, T, rank)
<1>1. q \in Tables /\ st \in [T -> Statuses] /\ {} \in SUBSET Jobs
  BY DEF TablesInv, Statuses
<1>0. Moves(q, u, T, st, {}, T)
  <2> HIDE DEF u
  <2> SUFFICES Moves(q, Updated(q, st, {}, T, rank), T, st, {}, T)
    BY DEF u
  <2> QED
    BY <1>1, UpdatedFields, Zenon
<1>2. /\ u \in Tables
      /\ u.status = [j \in Jobs |-> IF j \in T THEN st[j] ELSE q.status[j]]
      /\ u.spec = q.spec
      /\ u.retry = q.retry \ T
      /\ u.recoverable = q.recoverable
  BY <1>0 DEF Moves
<1> HIDE DEF u
<1>3. \A j \in T : u.status[j] \notin Live
  BY <1>2 DEF Terminal, Verdicts, Live
<1>4. KeysApart(u)
  <2> SUFFICES ASSUME NEW i \in Jobs, NEW j \in Jobs, i # j, SameKey(u, i, j)
               PROVE  /\ u.status[i] = "running" => u.status[j] # "running"
                      /\ u.status[i] = "pending" => u.status[j] # "pending"
                      /\ u.status[i] = "pending" /\ i \in u.retry => u.status[j] # "running"
    BY DEF KeysApart
  <2>1. SameKey(q, i, j)
    BY <1>2 DEF SameKey, Key
  <2>2. CASE i \in T \/ j \in T
    BY <2>2, <1>3 DEF Live
  <2>3. CASE i \notin T /\ j \notin T
    BY <2>1, <2>3, <1>2 DEF TablesInv, KeysApart
  <2> QED
    BY <2>2, <2>3
<1>5. FlagsFit(u)
  <2>1. \A j \in u.retry : u.status[j] \in Live
    BY <1>2 DEF TablesInv, FlagsFit, Tables
  <2>2. \A j \in u.recoverable : j \in Jobs /\ q.status[j] = "failed"
    BY <1>2 DEF TablesInv, FlagsFit, Tables
  <2>3. \A j \in u.recoverable : u.status[j] = "failed"
    BY <2>2, <1>2 DEF Live
  <2> QED
    BY <2>1, <2>3 DEF FlagsFit
<1> QED
  BY <1>2, <1>4, <1>5 DEF TablesInv, u

(* Releasing leases (a reclaim or a retry): a row goes back to pending only *)
(* beside no pending row of its key, and retry authority ends up on a       *)
(* pending row whose key has no running row left.                           *)
LEMMA ReleasingKeeps ==
    ASSUME NEW q, TablesInv(q), NEW batch \in SUBSET Jobs, NEW doomed \in SUBSET batch,
           NEW retrying \in SUBSET (batch \ doomed), NEW rank,
           \A j \in batch : q.status[j] = "running"
    PROVE  TablesInv(Released(q, batch, doomed, retrying, rank))
<1> DEFINE st == [j \in batch |-> IF j \in doomed THEN "failed"
                                  ELSE IF HasSuccessor(q, j) THEN "superseded" ELSE "pending"]
           heirs == Heirs(q, retrying)
           u == Released(q, batch, doomed, retrying, rank)
<1>1. /\ q \in Tables
      /\ st \in [batch -> Statuses]
      /\ heirs \in SUBSET Jobs
  BY DEF TablesInv, Statuses, Terminal, Verdicts, Live, Heirs
<1>2. /\ u \in Tables
      /\ u.status = [j \in Jobs |-> IF j \in batch THEN st[j] ELSE q.status[j]]
      /\ u.spec = q.spec
      /\ u.retry = (q.retry \ batch) \cup heirs
      /\ u.recoverable = q.recoverable
  <2> HIDE DEF st, heirs, u
  <2>1. Moves(q, Updated(q, st, heirs, batch, rank), batch, st, heirs, batch)
    BY <1>1, UpdatedFields, Zenon
  <2>2. u = Updated(q, st, heirs, batch, rank)
    BY DEF Released, st, heirs, u
  <2> QED
    BY <2>1, <2>2 DEF Moves
<1>3. \A i, j : SameKey(u, i, j) <=> SameKey(q, i, j)
  BY <1>2 DEF SameKey, Key
<1>4. \A j \in Jobs : u.status[j] = "running" => q.status[j] = "running" /\ j \notin batch
  BY <1>2
<1>5. \A j \in Jobs : u.status[j] = "pending" =>
          \/ q.status[j] = "pending" /\ j \notin batch
          \/ j \in batch /\ q.status[j] = "running" /\ ~HasSuccessor(q, j)
  BY <1>2
<1>6. \A i \in heirs : \/ i \in retrying /\ ~HasSuccessor(q, i)
                       \/ /\ q.status[i] = "pending"
                          /\ \E k \in retrying : SameKey(q, i, k)
  BY DEF Heirs, Successor
<1>7. \A i \in heirs : u.status[i] = "pending"
  BY <1>1, <1>2, <1>6
<1> HIDE DEF u, st, heirs
<1>8. KeysApart(u)
  <2> SUFFICES ASSUME NEW i \in Jobs, NEW j \in Jobs, i # j, SameKey(q, i, j)
               PROVE  /\ u.status[i] = "running" => u.status[j] # "running"
                      /\ u.status[i] = "pending" => u.status[j] # "pending"
                      /\ u.status[i] = "pending" /\ i \in u.retry => u.status[j] # "running"
    BY <1>3 DEF KeysApart
  <2>1. SameKey(q, j, i)
    BY DEF SameKey
  <2>2. /\ q.status[i] = "running" => q.status[j] # "running"
        /\ q.status[i] = "pending" => q.status[j] # "pending"
        /\ q.status[i] = "pending" /\ i \in q.retry => q.status[j] # "running"
    BY DEF TablesInv, KeysApart
  <2>3. u.status[i] = "running" => u.status[j] # "running"
    BY <1>4, <2>2
  <2>4. u.status[i] = "pending" => u.status[j] # "pending"
    <3>1. q.status[i] = "pending" => HasSuccessor(q, j)
      BY DEF HasSuccessor, Successor
    <3>2. q.status[j] = "pending" => HasSuccessor(q, i)
      BY <2>1 DEF HasSuccessor, Successor
    <3> QED
      BY <1>5, <2>2, <3>1, <3>2
  <2>5. ASSUME u.status[i] = "pending", i \in u.retry, u.status[j] = "running"
        PROVE  FALSE
    <3>1. q.status[j] = "running" /\ j \notin batch
      BY <1>4, <2>5
    <3>2. q.status[i] = "pending" /\ i \notin q.retry
      BY <1>5, <2>2, <2>5, <3>1
    <3>3. i \in heirs /\ i \notin retrying
      BY <1>2, <2>5, <3>2
    <3>4. PICK k \in retrying : SameKey(q, i, k)
      BY <1>6, <3>3
    <3>5. k \in batch /\ k # j /\ SameKey(q, k, j) /\ q.status[k] = "running"
      BY <3>1, <3>4 DEF SameKey
    <3> QED
      BY <3>1, <3>5 DEF TablesInv, KeysApart
  <2> QED
    BY <2>3, <2>4, <2>5
<1>9. FlagsFit(u)
  <2>0. q \in Tables /\ \A j \in q.retry : j \in Jobs /\ q.status[j] \in Live
    BY DEF TablesInv, FlagsFit, Tables
  <2>1. ASSUME NEW j \in u.retry PROVE u.status[j] \in Live
    <3>1. CASE j \in heirs
      BY <1>7, <3>1 DEF Live
    <3>2. CASE j \notin heirs
      <4>1. j \in q.retry /\ j \notin batch
        BY <1>2, <2>1, <3>2
      <4> QED
        BY <1>2, <2>0, <4>1
    <3> QED
      BY <3>1, <3>2
  <2>2. \A j \in u.recoverable : j \in Jobs /\ j \notin batch /\ q.status[j] = "failed"
    BY <1>2 DEF TablesInv, FlagsFit, Tables
  <2>3. \A j \in u.recoverable : u.status[j] = "failed"
    BY <2>2, <1>2
  <2> QED
    BY <2>1, <2>3 DEF FlagsFit
<1> QED
  BY <1>2, <1>8, <1>9 DEF TablesInv, u

(* Inserting a row under a key that no pending row has, and re-reading the  *)
(* spec of a pending row under the same key.  (enqueue_job)                 *)
LEMMA InsertingKeeps ==
    ASSUME NEW q, TablesInv(q), NEW j \in Jobs, NEW s \in JobSpecs, q.status[j] = "free",
           \A i \in Jobs : q.status[i] = "pending" /\ s.key # NoKey => Key(q, i) # s.key
    PROVE  TablesInv([q EXCEPT !.status[j] = "pending",
                               !.spec[j] = s,
                               !.older[j] = {i \in Jobs : q.status[i] # "free"}])
<1> DEFINE old == {i \in Jobs : q.status[i] # "free"}
           u == [q EXCEPT !.status[j] = "pending", !.spec[j] = s, !.older[j] = old]
<1>1. /\ u.status = [q.status EXCEPT ![j] = "pending"]
      /\ u.spec = [q.spec EXCEPT ![j] = s]
      /\ u.retry = q.retry
      /\ u.recoverable = q.recoverable
  BY DEF TablesInv, Tables
<1>2. u \in Tables
  <2> old \in SUBSET Jobs
    OBVIOUS
  <2> HIDE DEF old
  <2> QED
    BY DEF TablesInv, Tables, Statuses, Live
<1>3. q.status \in [Jobs -> Statuses] /\ q.spec \in [Jobs -> JobSpecs]
      /\ q.retry \in SUBSET Jobs /\ q.recoverable \in SUBSET Jobs
  BY DEF TablesInv, Tables
<1> HIDE DEF u
<1>4. KeysApart(u)
  <2> SUFFICES ASSUME NEW i \in Jobs, NEW k \in Jobs, i # k, SameKey(u, i, k)
               PROVE  /\ u.status[i] = "running" => u.status[k] # "running"
                      /\ u.status[i] = "pending" => u.status[k] # "pending"
                      /\ u.status[i] = "pending" /\ i \in u.retry => u.status[k] # "running"
    BY DEF KeysApart
  <2>1. CASE i = j
    <3>1. j \notin q.retry
      BY DEF TablesInv, FlagsFit, Live
    <3>2. q.status[k] # "pending"
      BY <2>1, <1>1, <1>3 DEF SameKey, Key
    <3> QED
      BY <2>1, <3>1, <3>2, <1>1, <1>3
  <2>2. CASE k = j
    <3>1. q.status[i] # "pending"
      BY <2>2, <1>1, <1>3 DEF SameKey, Key
    <3> QED
      BY <2>2, <3>1, <1>1, <1>3
  <2>3. CASE i # j /\ k # j
    <3>1. SameKey(q, i, k)
      BY <2>3, <1>1, <1>3 DEF SameKey, Key
    <3> QED
      BY <2>3, <3>1, <1>1, <1>3 DEF TablesInv, KeysApart
  <2> QED
    BY <2>1, <2>2, <2>3
<1>5. FlagsFit(u)
  BY <1>1, <1>3 DEF TablesInv, FlagsFit, Live
<1> QED
  BY <1>2, <1>4, <1>5 DEF TablesInv, u

LEMMA RefreshingKeeps ==
    ASSUME NEW q, TablesInv(q), NEW j \in Jobs, NEW s \in JobSpecs, Key(q, j) = s.key
    PROVE  TablesInv([q EXCEPT !.spec[j] = s])
<1> DEFINE u == [q EXCEPT !.spec[j] = s]
<1>1. /\ u \in Tables
      /\ u.status = q.status
      /\ u.spec = [q.spec EXCEPT ![j] = s]
      /\ u.retry = q.retry
      /\ u.recoverable = q.recoverable
      /\ q.spec \in [Jobs -> JobSpecs]
  BY DEF TablesInv, Tables
<1> HIDE DEF u
<1>2. \A i, k \in Jobs : SameKey(u, i, k) => SameKey(q, i, k)
  BY <1>1 DEF SameKey, Key
<1>3. KeysApart(u) /\ FlagsFit(u)
  BY <1>1, <1>2 DEF TablesInv, KeysApart, FlagsFit
<1> QED
  BY <1>1, <1>3 DEF TablesInv, u

(* Claiming an eligible row: no running row has its key.  (_claim_job)      *)
LEMMA ClaimingKeeps ==
    ASSUME NEW q, TablesInv(q), NEW w \in Workers, NEW deferred,
           NEW j \in Eligible(q, w, deferred), NEW F, NEW R
    PROVE  TablesInv(Claimed(q, w, j, F, R))
<1> DEFINE over == [priority |-> IF j \in F THEN Oldest(q, F) \ {j} ELSE {},
                    retry |-> IF j \in F THEN RetryHead(q, R) ELSE {}]
           limit == [priority |-> MaxPriorityBypass, retry |-> MaxRetryBypass]
           bypass == [l \in Lanes |-> [i \in Jobs |->
                        IF i = j THEN 0
                        ELSE IF i \in over[l] THEN AtMost(q.bypass[l][i] + 1, limit[l])
                        ELSE q.bypass[l][i]]]
           u == [q EXCEPT !.status[j] = "running", !.owner[j] = w, !.lease[j] = "live",
                          !.bypass = bypass]
<1>1. /\ j \in Jobs
      /\ q.status[j] = "pending"
      /\ \A i \in Jobs : q.status[i] = "running" => ~SameKey(q, i, j)
  BY DEF Eligible
<1>2. Claimed(q, w, j, F, R) = u
  BY DEF Claimed
<1>3. bypass \in [Lanes -> [Jobs -> Nat]]
  <2>1. SUFFICES ASSUME NEW l \in Lanes, NEW i \in Jobs PROVE bypass[l][i] \in Nat
    OBVIOUS
  <2>2. q.bypass[l][i] \in Nat
    BY DEF TablesInv, Tables
  <2>3. limit[l] \in Nat
    BY QueueAssumption DEF Lanes
  <2> HIDE DEF over, limit
  <2>4. AtMost(q.bypass[l][i] + 1, limit[l]) \in Nat
    BY <2>2, <2>3 DEF AtMost
  <2> QED
    BY <2>2, <2>4
<1> HIDE DEF bypass
<1>4. /\ u \in Tables
      /\ u.status = [q.status EXCEPT ![j] = "running"]
      /\ u.spec = q.spec
      /\ u.retry = q.retry
      /\ u.recoverable = q.recoverable
      /\ q.status \in [Jobs -> Statuses]
      /\ q.retry \in SUBSET Jobs /\ q.recoverable \in SUBSET Jobs
  BY <1>1, <1>3 DEF TablesInv, Tables, Statuses, Live
<1> HIDE DEF u
<1>5. KeysApart(u)
  <2> SUFFICES ASSUME NEW i \in Jobs, NEW k \in Jobs, i # k, SameKey(q, i, k)
               PROVE  /\ u.status[i] = "running" => u.status[k] # "running"
                      /\ u.status[i] = "pending" => u.status[k] # "pending"
                      /\ u.status[i] = "pending" /\ i \in u.retry => u.status[k] # "running"
    BY <1>4 DEF KeysApart, SameKey, Key
  <2>1. SameKey(q, k, i)
    BY DEF SameKey
  <2>2. /\ q.status[i] = "running" => q.status[k] # "running"
        /\ q.status[i] = "pending" => q.status[k] # "pending"
        /\ q.status[i] = "pending" /\ i \in q.retry => q.status[k] # "running"
    BY DEF TablesInv, KeysApart
  <2>3. CASE i = j
    BY <1>1, <1>4, <2>1, <2>3
  <2>4. CASE k = j
    BY <1>1, <1>4, <2>2, <2>4
  <2>5. CASE i # j /\ k # j
    BY <1>4, <2>2, <2>5
  <2> QED
    BY <2>3, <2>4, <2>5
<1>6. FlagsFit(u)
  BY <1>1, <1>4 DEF TablesInv, FlagsFit, Live
<1> QED
  BY <1>2, <1>4, <1>5, <1>6 DEF TablesInv

(* Requeueing a failed row as a retry while no live row has its key.        *)
(* (_recover_failed_post_phase_sidecar_jobs)                                *)
LEMMA RecoveringKeeps ==
    ASSUME NEW q, TablesInv(q), NEW j \in Jobs, q.status[j] = "failed", j \notin q.recoverable,
           \A i \in Jobs \ {j} : q.status[i] \in Live => ~SameKey(q, i, j), NEW rank
    PROVE  TablesInv(Updated(q, [i \in {j} |-> "pending"], {j}, {}, rank))
<1> DEFINE st == [i \in {j} |-> "pending"]
           u == Updated(q, st, {j}, {}, rank)
<1>1. /\ q \in Tables /\ st \in [{j} -> Statuses]
      /\ {} \in SUBSET Jobs /\ {j} \in SUBSET Jobs
  BY DEF TablesInv, Statuses, Live
<1>2. Moves(q, u, {j}, st, {j}, {})
  <2> HIDE DEF st
  <2> QED
    BY <1>1, UpdatedFields, Zenon
<1>3. /\ u \in Tables
      /\ u.status = [i \in Jobs |-> IF i = j THEN "pending" ELSE q.status[i]]
      /\ u.spec = q.spec
      /\ u.retry = q.retry \cup {j}
      /\ u.recoverable = q.recoverable
      /\ q.retry \in SUBSET Jobs /\ q.recoverable \in SUBSET Jobs
  <2> HIDE DEF u
  <2> QED
    BY <1>2 DEF Moves, TablesInv, Tables
<1> HIDE DEF u
<1>4. KeysApart(u)
  <2> SUFFICES ASSUME NEW i \in Jobs, NEW k \in Jobs, i # k, SameKey(q, i, k)
               PROVE  /\ u.status[i] = "running" => u.status[k] # "running"
                      /\ u.status[i] = "pending" => u.status[k] # "pending"
                      /\ u.status[i] = "pending" /\ i \in u.retry => u.status[k] # "running"
    BY <1>3 DEF KeysApart, SameKey, Key
  <2>1. SameKey(q, k, i)
    BY DEF SameKey
  <2>2. CASE i = j
    BY <1>3, <2>1, <2>2 DEF Live
  <2>3. CASE k = j
    BY <1>3, <2>3 DEF Live
  <2>4. CASE i # j /\ k # j
    BY <1>3, <2>4 DEF TablesInv, KeysApart
  <2> QED
    BY <2>2, <2>3, <2>4
<1>5. FlagsFit(u)
  BY <1>3 DEF TablesInv, FlagsFit, Live
<1> QED
  BY <1>3, <1>4, <1>5 DEF TablesInv, u

(* Dropping a terminal row.                                                 *)
LEMMA ForgettingKeeps ==
    ASSUME NEW q, TablesInv(q), NEW j \in Jobs, q.status[j] \in Terminal, NEW s \in JobSpecs
    PROVE  TablesInv([q EXCEPT !.status[j] = "free",
                               !.spec[j] = s,
                               !.older = [i \in Jobs |-> IF i = j THEN {} ELSE q.older[i] \ {j}],
                               !.recoverable = q.recoverable \ {j}])
<1> DEFINE older == [i \in Jobs |-> IF i = j THEN {} ELSE q.older[i] \ {j}]
           u == [q EXCEPT !.status[j] = "free", !.spec[j] = s, !.older = older,
                          !.recoverable = q.recoverable \ {j}]
<1>1. older \in [Jobs -> SUBSET Jobs]
  BY DEF TablesInv, Tables
<1> HIDE DEF older
<1>2. /\ u \in Tables
      /\ u.status = [q.status EXCEPT ![j] = "free"]
      /\ u.spec = [q.spec EXCEPT ![j] = s]
      /\ u.retry = q.retry
      /\ u.recoverable = q.recoverable \ {j}
      /\ q.status \in [Jobs -> Statuses] /\ q.spec \in [Jobs -> JobSpecs]
      /\ q.retry \in SUBSET Jobs /\ q.recoverable \in SUBSET Jobs
  BY <1>1 DEF TablesInv, Tables, Statuses
<1> HIDE DEF u
<1>3. KeysApart(u)
  <2> SUFFICES ASSUME NEW i \in Jobs, NEW k \in Jobs, i # k, SameKey(u, i, k)
               PROVE  /\ u.status[i] = "running" => u.status[k] # "running"
                      /\ u.status[i] = "pending" => u.status[k] # "pending"
                      /\ u.status[i] = "pending" /\ i \in u.retry => u.status[k] # "running"
    BY DEF KeysApart
  <2>1. CASE i = j \/ k = j
    BY <2>1, <1>2
  <2>2. CASE i # j /\ k # j
    <3>1. SameKey(q, i, k)
      BY <2>2, <1>2 DEF SameKey, Key
    <3> QED
      BY <2>2, <3>1, <1>2 DEF TablesInv, KeysApart
  <2> QED
    BY <2>1, <2>2
<1>4. FlagsFit(u)
  BY <1>2 DEF TablesInv, FlagsFit, Live, Terminal, Verdicts
<1> QED
  BY <1>2, <1>3, <1>4 DEF TablesInv, u, older

(* Lease columns, and the right to be recovered of failed rows, are not     *)
(* part of the key protocol.                                                *)
LEMMA LeasesAreApart ==
    ASSUME NEW q, TablesInv(q), NEW u \in Tables, u.status = q.status, u.spec = q.spec,
           u.retry = q.retry, \A j \in u.recoverable : q.status[j] = "failed"
    PROVE  TablesInv(u)
<1>1. \A i, j : SameKey(u, i, j) <=> SameKey(q, i, j)
  BY DEF SameKey, Key
<1> QED
  BY <1>1 DEF TablesInv, KeysApart, FlagsFit

-----------------------------------------------------------------------------
\* The invariant of the whole state.

PassInv ==
    /\ pass \in [Workers -> Memory]
    /\ \A w \in Workers : /\ pass[w].at = "working" <=> pass[w].job # NoJob
                          /\ pass[w].at = "between" => pass[w].left > 0

IInv == TablesInv(db) /\ PassInv

LEMMA TypeFromInv == IInv => TypeOK
  BY DEF IInv, TablesInv, PassInv, TypeOK

LEMMA IdleIsMemory == Idle \in Memory
  BY QueueAssumption DEF Idle, Memory

LEMMA InitInv == Init => IInv
<1> SUFFICES ASSUME Init PROVE IInv
  OBVIOUS
<1>1. BlankSpec \in JobSpecs
  BY JobSpecAssumption DEF BlankSpec
<1>2. TablesInv(db)
  BY <1>1 DEF Init, TablesInv, Tables, KeysApart, FlagsFit, Statuses, SameKey, Key
<1>3. PassInv
  BY IdleIsMemory DEF Init, PassInv, Idle
<1> QED
  BY <1>2, <1>3 DEF IInv

(* One end of a pass's step: idle again, or on with the pass.               *)
LEMMA GoesOnInv ==
    ASSUME IInv, NEW w \in Workers, NEW defer \in SUBSET Jobs, GoesOn(w, defer)
    PROVE  PassInv'
<1> DEFINE m == pass[w]
           n == IF m.left = 0 THEN Idle
                ELSE [at |-> "between", job |-> NoJob,
                      deferred |-> m.deferred \cup defer, left |-> m.left]
<1>1. pass \in [Workers -> Memory]
  BY DEF IInv, PassInv
<1>2. m \in Memory
  BY <1>1
<1>3. pass' = [pass EXCEPT ![w] = n]
  BY <1>1 DEF GoesOn
<1>4. /\ n \in Memory
      /\ n.at = "working" <=> n.job # NoJob
      /\ n.at = "between" => n.left > 0
  <2>1. CASE m.left = 0
    BY <2>1, IdleIsMemory DEF Idle
  <2>2. CASE m.left # 0
    BY <2>2, <1>2, QueueAssumption DEF Memory
  <2> QED
    BY <2>1, <2>2
<1> HIDE DEF n
<1> QED
  BY <1>1, <1>3, <1>4 DEF IInv, PassInv

LEMMA IdlesInv ==
    ASSUME IInv, NEW w \in Workers, pass' = [pass EXCEPT ![w] = Idle]
    PROVE  PassInv'
  BY IdleIsMemory DEF IInv, PassInv, Idle

(* The claim at the end of a pass's transaction.                            *)
LEMMA ClaimInInv ==
    ASSUME IInv, NEW w \in Workers, NEW q, TablesInv(q), NEW deferred \in SUBSET Jobs,
           NEW left \in 1..PassLimit, ClaimIn(w, q, deferred, left)
    PROVE  IInv'
<1> DEFINE eligible == Eligible(q, w, deferred)
           F == eligible \ q.retry
           R == eligible \cap q.retry
<1>1. CASE eligible = {} /\ db' = q /\ pass' = [pass EXCEPT ![w] = Idle]
  <2>1. TablesInv(db')
    BY <1>1
  <2> QED
    BY <1>1, <2>1, IdlesInv DEF IInv
<1>2. CASE \E j \in Pick(q, F, R) :
             /\ db' = Claimed(q, w, j, F, R)
             /\ pass' = [pass EXCEPT ![w] = [at |-> "working", job |-> j,
                                             deferred |-> deferred, left |-> left - 1]]
  <2>1. PICK j \in Pick(q, F, R) :
             /\ db' = Claimed(q, w, j, F, R)
             /\ pass' = [pass EXCEPT ![w] = [at |-> "working", job |-> j,
                                             deferred |-> deferred, left |-> left - 1]]
    BY <1>2
  <2>2. j \in eligible
    <3>1. RetryHead(q, R) \subseteq R /\ FreshPick(q, F) \subseteq F
      BY DEF RetryHead, FreshPick, Oldest, Best
    <3> HIDE DEF eligible
    <3>2. Pick(q, F, R) \subseteq F \cup R
      BY <3>1 DEF Pick
    <3> QED
      BY <3>2
  <2>3. TablesInv(db')
    <3> HIDE DEF F, R
    <3> QED
      BY <2>1, <2>2, ClaimingKeeps
  <2>4. [at |-> "working", job |-> j, deferred |-> deferred, left |-> left - 1] \in Memory
    BY <2>2, QueueAssumption DEF Memory, Eligible
  <2>5. j # NoJob
    BY <2>2, QueueAssumption DEF Eligible
  <2>6. PassInv'
    BY <2>1, <2>4, <2>5 DEF IInv, PassInv
  <2> QED
    BY <2>3, <2>6 DEF IInv
<1> QED
  BY <1>1, <1>2 DEF ClaimIn

-----------------------------------------------------------------------------
\* Every action keeps the invariant.

LEMMA PassUnchanged == ASSUME IInv, UNCHANGED pass PROVE PassInv'
  BY DEF IInv, PassInv

LEMMA EnqueueInv ==
    ASSUME IInv, NEW s \in JobSpecs, NEW replace \in BOOLEAN, Enqueue(s, replace)
    PROVE  IInv'
<1> DEFINE reuse == \E i \in Jobs : db.status[i] = "pending" /\ s.key # NoKey /\ Key(db, i) = s.key
           refreshed(i) == [db EXCEPT !.spec[i] = s]
           inserted(j) == [db EXCEPT !.status[j] = "pending",
                                     !.spec[j] = s,
                                     !.older[j] = {i \in Jobs : db.status[i] # "free"}]
<1>0. TablesInv(db)
  BY DEF IInv
<1>1. IF reuse
      THEN \E i \in Jobs : /\ db.status[i] = "pending" /\ Key(db, i) = s.key
                           /\ db' = IF replace THEN refreshed(i) ELSE db
      ELSE \E j \in Jobs : db.status[j] = "free" /\ db' = inserted(j)
  BY DEF Enqueue
<1>2. \A i \in Jobs : db.status[i] = "pending" /\ Key(db, i) = s.key => TablesInv(refreshed(i))
  BY <1>0, RefreshingKeeps
<1>3. ASSUME ~reuse, NEW j \in Jobs, db.status[j] = "free" PROVE TablesInv(inserted(j))
  <2>1. \A i \in Jobs : db.status[i] = "pending" /\ s.key # NoKey => Key(db, i) # s.key
    BY <1>3
  <2> QED
    BY <1>0, <1>3, <2>1, InsertingKeeps
<1> HIDE DEF reuse, refreshed, inserted
<1>4. TablesInv(db')
  <2>1. CASE reuse
    <3>1. PICK i \in Jobs : /\ db.status[i] = "pending" /\ Key(db, i) = s.key
                            /\ db' = IF replace THEN refreshed(i) ELSE db
      BY <1>1, <2>1, Zenon
    <3> QED
      BY <1>0, <1>2, <3>1
  <2>2. CASE ~reuse
    BY <1>1, <1>3, <2>2, Zenon
  <2> QED
    BY <2>1, <2>2
<1> QED
  BY <1>4, PassUnchanged DEF IInv, Enqueue

LEMMA ForgetInv == ASSUME IInv, NEW j \in Jobs, Forget(j) PROVE IInv'
<1>1. TablesInv(db')
  <2>1. BlankSpec \in JobSpecs
    BY JobSpecAssumption DEF BlankSpec
  <2> QED
    BY <2>1, ForgettingKeeps DEF IInv, Forget
<1> QED
  BY <1>1, PassUnchanged DEF IInv, Forget

LEMMA ReconcileBacklogInv == ASSUME IInv, ReconcileBacklog PROVE IInv'
<1>1. PICK batch \in SUBSET Redundant \ {{}} :
        /\ db' = Updated(db, [j \in batch |-> "superseded"], {}, batch, [i \in Jobs |-> 1])
        /\ UNCHANGED pass
  BY DEF ReconcileBacklog
<1>2. /\ batch \in SUBSET Jobs
      /\ \A j \in batch : db.status[j] \in Live
      /\ [j \in batch |-> "superseded"] \in [batch -> Terminal]
  BY DEF Redundant, Live, Terminal
<1>3. TablesInv(db')
  BY <1>1, <1>2, SettlingKeeps DEF IInv
<1> QED
  BY <1>1, <1>3, PassUnchanged DEF IInv

LEMMA RecoverFailedInv == ASSUME IInv, NEW j \in Jobs, RecoverFailed(j) PROVE IInv'
<1> DEFINE collides == \E i \in Jobs \ {j} : db.status[i] \in Live /\ SameKey(db, i, j)
           spent == [db EXCEPT !.recoverable = db.recoverable \ {j}]
<1>1. TablesInv(db) /\ db.status[j] = "failed"
  BY DEF IInv, TablesInv, FlagsFit, RecoverFailed
<1>2. /\ spent \in Tables
      /\ spent.status = db.status
      /\ spent.spec = db.spec
      /\ spent.retry = db.retry
      /\ spent.recoverable = db.recoverable \ {j}
  BY <1>1 DEF TablesInv, Tables
<1>3. \A i \in spent.recoverable : db.status[i] = "failed"
  BY <1>1, <1>2 DEF TablesInv, FlagsFit
<1>4. db' = IF collides THEN spent
            ELSE Updated(spent, [i \in {j} |-> "pending"], {j}, {}, [i \in Jobs |-> 1])
  BY DEF RecoverFailed
<1> HIDE DEF spent
<1>5. TablesInv(spent)
  BY <1>1, <1>2, <1>3, LeasesAreApart
<1> DEFINE requeued == Updated(spent, [i \in {j} |-> "pending"], {j}, {}, [i \in Jobs |-> 1])
<1>6. ASSUME ~collides PROVE TablesInv(requeued)
  <2>1. ASSUME NEW i \in Jobs \ {j}, spent.status[i] \in Live PROVE ~SameKey(spent, i, j)
    BY <1>2, <1>6, <2>1 DEF SameKey, Key
  <2>2. spent.status[j] = "failed" /\ j \notin spent.recoverable
    BY <1>1, <1>2
  <2> QED
    BY <1>5, <2>1, <2>2, RecoveringKeeps
<1> HIDE DEF requeued, collides
<1>7. TablesInv(db')
  <2>1. db' = IF collides THEN spent ELSE requeued
    BY <1>4 DEF requeued
  <2> QED
    BY <1>5, <1>6, <2>1
<1> QED
  BY <1>7, PassUnchanged DEF IInv, RecoverFailed

LEMMA LeaseExpiresInv == ASSUME IInv, NEW j \in Jobs, LeaseExpires(j) PROVE IInv'
<1>1. /\ db' \in Tables
      /\ db'.status = db.status /\ db'.spec = db.spec /\ db'.retry = db.retry
      /\ db'.recoverable = db.recoverable
  BY DEF IInv, TablesInv, LeaseExpires, Tables
<1>2. TablesInv(db')
  BY <1>1, LeasesAreApart DEF IInv, TablesInv, FlagsFit
<1> QED
  BY <1>2, PassUnchanged DEF IInv, LeaseExpires

LEMMA StartPassInv == ASSUME IInv, NEW w \in Workers, StartPass(w) PROVE IInv'
<1>1. PICK batch \in SUBSET Expired(db, w) :
        \E rank \in Ranks(Heirs(db, Preemptible(db, batch \cap db.retry))) :
           ClaimIn(w, Reclaimed(db, batch, rank), {}, PassLimit)
  BY DEF StartPass
<1>2. PICK rank : ClaimIn(w, Reclaimed(db, batch, rank), {}, PassLimit)
  BY <1>1
<1>3. /\ batch \in SUBSET Jobs
      /\ \A j \in batch : db.status[j] = "running"
  BY DEF Expired
<1> DEFINE doomed == batch \ Preemptible(db, batch)
           retrying == Preemptible(db, batch \cap db.retry)
<1>4. doomed \in SUBSET batch /\ retrying \in SUBSET (batch \ doomed)
  BY DEF Preemptible
<1>5. TablesInv(Reclaimed(db, batch, rank))
  <2> HIDE DEF doomed, retrying
  <2>1. TablesInv(Released(db, batch, doomed, retrying, rank))
    BY <1>3, <1>4, ReleasingKeeps DEF IInv
  <2> QED
    BY <2>1 DEF Reclaimed, doomed, retrying
<1>6. PassLimit \in 1..PassLimit /\ {} \in SUBSET Jobs
  BY QueueAssumption
<1> QED
  BY <1>2, <1>5, <1>6, ClaimInInv

LEMMA ClaimNextInv == ASSUME IInv, NEW w \in Workers, ClaimNext(w) PROVE IInv'
<1>1. /\ ClaimIn(w, db, pass[w].deferred, pass[w].left)
      /\ pass[w] \in Memory
      /\ pass[w].left > 0
      /\ TablesInv(db)
  BY DEF ClaimNext, IInv, PassInv
<1>2. pass[w].deferred \in SUBSET Jobs /\ pass[w].left \in 1..PassLimit
  BY <1>1, QueueAssumption DEF Memory
<1> QED
  BY <1>1, <1>2, ClaimInInv

LEMMA InHand ==
    ASSUME IInv, NEW w \in Workers, pass[w].at = "working"
    PROVE  pass[w].job \in Jobs
  BY DEF IInv, PassInv, Memory

LEMMA FinishInv ==
    ASSUME IInv, NEW w \in Workers, NEW verdict \in Verdicts, Finish(w, verdict)
    PROVE  IInv'
<1> DEFINE j == pass[w].job
           f == Finished(db, j, verdict)
<1>1. j \in Jobs /\ db.status[j] = "running" /\ TablesInv(db)
  BY InHand DEF Finish, Owned, IInv
<1>2. PICK spare \in SUBSET (IF verdict = "failed" THEN {j} ELSE {}) :
          db' = [f EXCEPT !.recoverable = db.recoverable \cup spare]
  BY DEF Finish
<1> HIDE DEF j
<1> DEFINE st == [i \in {j} |-> verdict]
<1>3. /\ st \in [{j} -> Terminal] /\ st \in [{j} -> Statuses]
      /\ {j} \in SUBSET Jobs /\ {} \in SUBSET Jobs /\ db \in Tables
      /\ \A i \in {j} : db.status[i] \in Live
  BY <1>1 DEF Terminal, Statuses, Live, TablesInv
<1>4. TablesInv(f)
  <2> HIDE DEF st
  <2>1. TablesInv(Updated(db, st, {}, {j}, [i \in Jobs |-> 1]))
    BY <1>1, <1>3, SettlingKeeps
  <2> QED
    BY <2>1 DEF Finished, st
<1>5. Moves(db, f, {j}, st, {}, {j})
  <2> HIDE DEF st
  <2>1. Moves(db, Updated(db, st, {}, {j}, [i \in Jobs |-> 1]), {j}, st, {}, {j})
    BY <1>3, UpdatedFields, Zenon
  <2> QED
    BY <2>1 DEF Finished, st
<1>6. f.status = [i \in Jobs |-> IF i = j THEN verdict ELSE db.status[i]]
  BY <1>5 DEF Moves
<1>7. f.recoverable = db.recoverable /\ f \in Tables
  BY <1>5 DEF Moves
<1> HIDE DEF f
<1>8. TablesInv(db')
  <2>1. /\ db' \in Tables
        /\ db'.status = f.status /\ db'.spec = f.spec /\ db'.retry = f.retry
        /\ db'.recoverable = db.recoverable \cup spare
    BY <1>1, <1>2, <1>7 DEF Tables
  <2>2. \A i \in db'.recoverable : f.status[i] = "failed"
    <3>1. ASSUME NEW i \in db.recoverable PROVE f.status[i] = "failed"
      BY <1>4, <1>7 DEF TablesInv, FlagsFit
    <3>2. ASSUME NEW i \in spare PROVE f.status[i] = "failed"
      BY <1>1, <1>6
    <3> QED
      BY <2>1, <3>1, <3>2
  <2> QED
    BY <1>4, <2>1, <2>2, LeasesAreApart
<1>9. PassInv'
  BY GoesOnInv DEF Finish
<1> QED
  BY <1>8, <1>9 DEF IInv

LEMMA RetryInv ==
    ASSUME IInv, NEW w \in Workers, NEW busy \in BOOLEAN, Retry(w, busy)
    PROVE  IInv'
<1> DEFINE j == pass[w].job
           heirs == Heirs(db, {j})
<1>1. j \in Jobs /\ db.status[j] = "running" /\ TablesInv(db)
  BY InHand DEF Retry, Owned, IInv
<1>2. PICK rank : db' = RetriedBy(db, j, rank)
  BY DEF Retry
<1>3. heirs \in SUBSET Jobs
  BY DEF Heirs
<1>4. PassInv'
  <2>1. CASE busy
    BY <2>1, IdlesInv DEF Retry
  <2>2. CASE ~busy
    <3>1. GoesOn(w, heirs)
      BY <2>2 DEF Retry
    <3> QED
      BY <1>3, <3>1, GoesOnInv
  <2> QED
    BY <2>1, <2>2
<1> HIDE DEF j
<1>5. TablesInv(RetriedBy(db, j, rank))
  <2>1. /\ {j} \in SUBSET Jobs /\ {} \in SUBSET {j} /\ {j} \in SUBSET ({j} \ {})
        /\ \A i \in {j} : db.status[i] = "running"
    BY <1>1
  <2>2. TablesInv(Released(db, {j}, {}, {j}, rank))
    BY <1>1, <2>1, ReleasingKeeps
  <2> QED
    BY <2>2 DEF RetriedBy
<1> QED
  BY <1>2, <1>4, <1>5 DEF IInv

LEMMA LeaseLostInv ==
    ASSUME IInv, NEW w \in Workers, NEW busy \in BOOLEAN, LeaseLost(w, busy)
    PROVE  IInv'
<1>1. TablesInv(db')
  BY DEF IInv, LeaseLost
<1>2. CASE busy
  BY <1>1, <1>2, IdlesInv DEF IInv, LeaseLost
<1>3. CASE ~busy
  <2>1. PICK defer \in SUBSET Jobs : GoesOn(w, defer)
    BY <1>3, InHand DEF LeaseLost
  <2> QED
    BY <1>1, <2>1, GoesOnInv DEF IInv
<1> QED
  BY <1>2, <1>3

LEMMA CrashInv == ASSUME IInv, NEW w \in Workers, Crash(w) PROVE IInv'
<1> DEFINE owner == [j \in Jobs |-> IF db.owner[j] = w THEN Gone ELSE db.owner[j]]
<1>1. owner \in [Jobs -> Workers \cup {NoOne, Gone}]
  BY DEF IInv, TablesInv, Tables
<1>2. db' = [db EXCEPT !.owner = owner]
  BY DEF Crash
<1> HIDE DEF owner
<1>3. /\ db' \in Tables
      /\ db'.status = db.status /\ db'.spec = db.spec /\ db'.retry = db.retry
      /\ db'.recoverable = db.recoverable
  BY <1>1, <1>2 DEF IInv, TablesInv, Tables
<1>4. TablesInv(db')
  BY <1>3, LeasesAreApart DEF IInv, TablesInv, FlagsFit
<1> QED
  BY <1>4, IdlesInv DEF IInv, Crash

LEMMA NextInv == IInv /\ [Next]_vars => IInv'
<1> SUFFICES ASSUME IInv, [Next]_vars PROVE IInv'
  OBVIOUS
<1>1. CASE \E s \in JobSpecs, replace \in BOOLEAN : Enqueue(s, replace)
  BY <1>1, EnqueueInv
<1>2. CASE \E j \in Jobs : Forget(j) \/ RecoverFailed(j) \/ LeaseExpires(j)
  BY <1>2, ForgetInv, RecoverFailedInv, LeaseExpiresInv
<1>3. CASE ReconcileBacklog
  BY <1>3, ReconcileBacklogInv
<1>4. ASSUME NEW w \in Workers, StartPass(w) \/ ClaimNext(w) PROVE IInv'
  BY <1>4, StartPassInv, ClaimNextInv
<1>5. ASSUME NEW w \in Workers, Settle(w) PROVE IInv'
  BY <1>5, FinishInv, RetryInv, LeaseLostInv DEF Settle
<1>6. ASSUME NEW w \in Workers, Crash(w) PROVE IInv'
  BY <1>6, CrashInv
<1>7. CASE UNCHANGED vars
  BY <1>7 DEF vars, IInv, PassInv
<1> QED
  BY <1>1, <1>2, <1>3, <1>4, <1>5, <1>6, <1>7 DEF Next, Work

-----------------------------------------------------------------------------
\* The theorems.

(* The inductive invariant holds in every reachable state of the queue.     *)
THEOREM Invariance == Spec => []IInv
<1>1. Init => IInv
  BY InitInv
<1>2. IInv /\ [Next]_vars => IInv'
  BY NextInv
<1> QED
  BY <1>1, <1>2, PTL DEF Spec

(* The tables and the workers' memories always have their declared shapes.  *)
THEOREM TypeCorrect == Spec => []TypeOK
  BY Invariance, TypeFromInv, PTL

LEMMA KeysFromInv == IInv => KeysExclusive
<1> SUFFICES ASSUME IInv PROVE KeysExclusive
  OBVIOUS
<1>1. KeysApart(db)
  BY DEF IInv, TablesInv
<1>2. OneRunningPerKey /\ OnePendingPerKey
  BY <1>1 DEF KeysApart, OneRunningPerKey, OnePendingPerKey
<1>3. PendingRetryUnblocked
  BY <1>1 DEF KeysApart, PendingRetryUnblocked
<1> QED
  BY <1>2, <1>3 DEF KeysExclusive

(* However claims, reclaims, retries, recoveries and enqueues interleave,   *)
(* two jobs of one dedupe key never run at once, no settlement puts a       *)
(* second pending row under a key (the unique index is never hit), and a    *)
(* row that waits with retry authority has no running row of its key        *)
(* before it.                                                               *)
THEOREM KeysStayExclusive == Spec => []KeysExclusive
  BY Invariance, KeysFromInv, PTL
-----------------------------------------------------------------------------
\* What the transactions do to the columns of single rows.

\* The rows of batch give up their leases.
Frees(q, u, batch, doomed, retrying) ==
    /\ u \in Tables
    /\ \A j \in Jobs :
          u.status[j] = IF j \notin batch THEN q.status[j]
                        ELSE IF j \in doomed THEN "failed"
                        ELSE IF HasSuccessor(q, j) THEN "superseded" ELSE "pending"
    /\ \A j \in Jobs : u.owner[j] = IF j \in batch THEN NoOne ELSE q.owner[j]
    /\ \A j \in Jobs : u.lease[j] = IF j \in batch THEN "none" ELSE q.lease[j]
    /\ u.spec = q.spec /\ u.older = q.older /\ u.recoverable = q.recoverable
    /\ u.retry = (q.retry \ batch) \cup Heirs(q, retrying)

\* Worker w takes row j.
Takes(q, u, w, j) ==
    /\ j \in Jobs /\ q.status[j] = "pending"
    /\ u.status = [q.status EXCEPT ![j] = "running"]
    /\ u.owner = [q.owner EXCEPT ![j] = w]
    /\ u.lease = [q.lease EXCEPT ![j] = "live"]
    /\ u.spec = q.spec /\ u.older = q.older /\ u.retry = q.retry
    /\ u.recoverable = q.recoverable

LEMMA ReleasedRows ==
    ASSUME NEW q \in Tables, NEW batch \in SUBSET Jobs, NEW doomed \in SUBSET batch,
           NEW retrying, NEW rank
    PROVE  Frees(q, Released(q, batch, doomed, retrying, rank), batch, doomed, retrying)
<1> DEFINE st == [j \in batch |-> IF j \in doomed THEN "failed"
                                  ELSE IF HasSuccessor(q, j) THEN "superseded" ELSE "pending"]
           heirs == Heirs(q, retrying)
           u == Released(q, batch, doomed, retrying, rank)
<1>1. st \in [batch -> Statuses] /\ heirs \in SUBSET Jobs
  BY DEF Statuses, Terminal, Verdicts, Live, Heirs
<1>2. Moves(q, u, batch, st, heirs, batch)
  <2> HIDE DEF st, heirs, u
  <2>1. Moves(q, Updated(q, st, heirs, batch, rank), batch, st, heirs, batch)
    BY <1>1, UpdatedFields, Zenon
  <2> QED
    BY <2>1 DEF Released, st, heirs, u
<1> HIDE DEF u, heirs
<1>3. \A j \in Jobs : u.status[j] = IF j \notin batch THEN q.status[j]
                                    ELSE IF j \in doomed THEN "failed"
                                    ELSE IF HasSuccessor(q, j) THEN "superseded" ELSE "pending"
  BY <1>2 DEF Moves
<1> HIDE DEF st
<1>4. /\ \A j \in Jobs : u.owner[j] = IF j \in batch THEN NoOne ELSE q.owner[j]
      /\ \A j \in Jobs : u.lease[j] = IF j \in batch THEN "none" ELSE q.lease[j]
      /\ u.spec = q.spec /\ u.older = q.older /\ u.recoverable = q.recoverable
      /\ u.retry = (q.retry \ batch) \cup heirs
      /\ u \in Tables
  BY <1>2 DEF Moves
<1> QED
  BY <1>3, <1>4 DEF Frees, u, heirs

LEMMA ClaimedRows ==
    ASSUME NEW q \in Tables, NEW w \in Workers, NEW deferred,
           NEW j \in Eligible(q, w, deferred), NEW F, NEW R
    PROVE  Takes(q, Claimed(q, w, j, F, R), w, j)
<1>1. j \in Jobs /\ q.status[j] = "pending"
  BY DEF Eligible
<1> DEFINE bypass == [l \in Lanes |-> [i \in Jobs |->
                        IF i = j THEN 0
                        ELSE IF i \in [priority |-> IF j \in F THEN Oldest(q, F) \ {j} ELSE {},
                                       retry |-> IF j \in F THEN RetryHead(q, R) ELSE {}][l]
                        THEN AtMost(q.bypass[l][i] + 1,
                                    [priority |-> MaxPriorityBypass, retry |-> MaxRetryBypass][l])
                        ELSE q.bypass[l][i]]]
           u == [q EXCEPT !.status[j] = "running", !.owner[j] = w, !.lease[j] = "live",
                          !.bypass = bypass]
<1>2. Claimed(q, w, j, F, R) = u
  BY DEF Claimed
<1> HIDE DEF bypass
<1>3. /\ u.status = [q.status EXCEPT ![j] = "running"]
      /\ u.owner = [q.owner EXCEPT ![j] = w]
      /\ u.lease = [q.lease EXCEPT ![j] = "live"]
      /\ u.spec = q.spec /\ u.older = q.older /\ u.retry = q.retry
      /\ u.recoverable = q.recoverable
  BY DEF Tables
<1> HIDE DEF u
<1> QED
  BY <1>1, <1>2, <1>3 DEF Takes

\* The end of a claiming transaction: no row is taken and the pass ends, or one is.
LEMMA ClaimInRows ==
    ASSUME NEW q \in Tables, NEW w \in Workers, NEW deferred, NEW left,
           ClaimIn(w, q, deferred, left)
    PROVE  \/ db' = q /\ pass' = [pass EXCEPT ![w] = Idle]
           \/ \E j \in Jobs :
                 /\ Takes(q, db', w, j)
                 /\ pass' = [pass EXCEPT ![w] = [at |-> "working", job |-> j,
                                                 deferred |-> deferred, left |-> left - 1]]
<1> DEFINE eligible == Eligible(q, w, deferred)
           F == eligible \ q.retry
           R == eligible \cap q.retry
<1>1. ASSUME NEW j \in Pick(q, F, R) PROVE j \in eligible
  <2>1. RetryHead(q, R) \subseteq R /\ FreshPick(q, F) \subseteq F
    BY DEF RetryHead, FreshPick, Oldest, Best
  <2> HIDE DEF eligible
  <2>2. Pick(q, F, R) \subseteq F \cup R
    BY <2>1 DEF Pick
  <2> QED
    BY <1>1, <2>2
<1>2. ASSUME NEW j \in Pick(q, F, R)
      PROVE  Takes(q, Claimed(q, w, j, F, R), w, j) /\ j \in Jobs
  <2> HIDE DEF F, R
  <2> QED
    BY <1>1, ClaimedRows DEF Takes
<1>3. \/ db' = q /\ pass' = [pass EXCEPT ![w] = Idle]
      \/ \E j \in Pick(q, F, R) :
           /\ db' = Claimed(q, w, j, F, R)
           /\ pass' = [pass EXCEPT ![w] = [at |-> "working", job |-> j,
                                           deferred |-> deferred, left |-> left - 1]]
  BY DEF ClaimIn
<1> HIDE DEF F, R, eligible
<1> QED
  BY <1>2, <1>3

\* The first claim of a pass: some expired leases are taken back, then a row is taken.
LEMMA StartPassRows ==
    ASSUME IInv, NEW w \in Workers, StartPass(w)
    PROVE  \E batch \in SUBSET Expired(db, w), q \in Tables :
              /\ Frees(db, q, batch, batch \ Preemptible(db, batch),
                       Preemptible(db, batch \cap db.retry))
              /\ \/ db' = q /\ pass' = [pass EXCEPT ![w] = Idle]
                 \/ \E j \in Jobs :
                       /\ Takes(q, db', w, j)
                       /\ pass' = [pass EXCEPT ![w] = [at |-> "working", job |-> j,
                                                       deferred |-> {}, left |-> PassLimit - 1]]
<1>1. PICK batch \in SUBSET Expired(db, w) :
        \E rank \in Ranks(Heirs(db, Preemptible(db, batch \cap db.retry))) :
           ClaimIn(w, Reclaimed(db, batch, rank), {}, PassLimit)
  BY DEF StartPass
<1>2. PICK rank : ClaimIn(w, Reclaimed(db, batch, rank), {}, PassLimit)
  BY <1>1
<1>3. batch \in SUBSET Jobs /\ db \in Tables
  BY DEF Expired, IInv, TablesInv
<1> DEFINE doomed == batch \ Preemptible(db, batch)
           retrying == Preemptible(db, batch \cap db.retry)
           q == Reclaimed(db, batch, rank)
<1>4. Frees(db, q, batch, doomed, retrying)
  <2> HIDE DEF doomed, retrying
  <2>1. doomed \in SUBSET batch
    BY DEF doomed
  <2>2. Frees(db, Released(db, batch, doomed, retrying, rank), batch, doomed, retrying)
    BY <1>3, <2>1, ReleasedRows
  <2> QED
    BY <2>2 DEF Reclaimed, doomed, retrying
<1>5. q \in Tables
  BY <1>4 DEF Frees
<1> HIDE DEF q
<1>6. \/ db' = q /\ pass' = [pass EXCEPT ![w] = Idle]
      \/ \E j \in Jobs :
            /\ Takes(q, db', w, j)
            /\ pass' = [pass EXCEPT ![w] = [at |-> "working", job |-> j,
                                            deferred |-> {}, left |-> PassLimit - 1]]
  BY <1>2, <1>5, ClaimInRows DEF q
<1> QED
  BY <1>4, <1>5, <1>6

\* A settlement by the holder of a live lease changes its own row alone.
LEMMA FinishRows ==
    ASSUME IInv, NEW w \in Workers, NEW verdict \in Verdicts, Finish(w, verdict)
    PROVE  /\ pass[w].at = "working" /\ pass[w].job \in Jobs /\ Owned(db, w, pass[w].job)
           /\ \A i \in Jobs :
                 /\ db'.status[i] = IF i = pass[w].job THEN verdict ELSE db.status[i]
                 /\ db'.owner[i] = IF i = pass[w].job THEN NoOne ELSE db.owner[i]
                 /\ db'.lease[i] = IF i = pass[w].job THEN "none" ELSE db.lease[i]
           /\ db'.spec = db.spec /\ db'.older = db.older
<1> DEFINE j == pass[w].job
           f == Finished(db, j, verdict)
           st == [i \in {j} |-> verdict]
<1>1. j \in Jobs /\ Owned(db, w, j) /\ db \in Tables /\ pass[w].at = "working"
  BY InHand DEF Finish, IInv, TablesInv
<1>2. PICK spare : db' = [f EXCEPT !.recoverable = db.recoverable \cup spare]
  BY DEF Finish
<1> HIDE DEF j
<1>3. Moves(db, f, {j}, st, {}, {j})
  <2>1. st \in [{j} -> Statuses] /\ {j} \in SUBSET Jobs /\ {} \in SUBSET Jobs
    BY <1>1 DEF Statuses, Terminal
  <2> HIDE DEF st
  <2>2. Moves(db, Updated(db, st, {}, {j}, [i \in Jobs |-> 1]), {j}, st, {}, {j})
    BY <1>1, <2>1, UpdatedFields, Zenon
  <2> QED
    BY <2>2 DEF Finished, st
<1> HIDE DEF f
<1>4. /\ db'.status = f.status /\ db'.owner = f.owner /\ db'.lease = f.lease
      /\ db'.spec = f.spec /\ db'.older = f.older
  BY <1>2, <1>3 DEF Moves, Tables
<1>5. \A i \in Jobs : /\ db'.status[i] = IF i = j THEN verdict ELSE db.status[i]
                      /\ db'.owner[i] = IF i = j THEN NoOne ELSE db.owner[i]
                      /\ db'.lease[i] = IF i = j THEN "none" ELSE db.lease[i]
  BY <1>1, <1>3, <1>4 DEF Moves
<1> QED
  BY <1>1, <1>3, <1>4, <1>5 DEF j, Moves

LEMMA RetryRows ==
    ASSUME IInv, NEW w \in Workers, NEW busy \in BOOLEAN, Retry(w, busy)
    PROVE  /\ pass[w].at = "working" /\ pass[w].job \in Jobs /\ Owned(db, w, pass[w].job)
           /\ Frees(db, db', {pass[w].job}, {}, {pass[w].job})
<1>1. pass[w].job \in Jobs /\ Owned(db, w, pass[w].job) /\ db \in Tables /\ pass[w].at = "working"
  BY InHand DEF Retry, IInv, TablesInv
<1>2. PICK rank : db' = RetriedBy(db, pass[w].job, rank)
  BY DEF Retry
<1>3. Frees(db, db', {pass[w].job}, {}, {pass[w].job})
  BY <1>1, <1>2, ReleasedRows DEF RetriedBy
<1> QED
  BY <1>1, <1>3

LEMMA RecoverFailedRows ==
    ASSUME IInv, NEW j \in Jobs, RecoverFailed(j)
    PROVE  /\ db.status[j] = "failed" /\ j \in db.recoverable
           /\ \/ db'.status = db.status /\ db'.owner = db.owner /\ db'.lease = db.lease
              \/ \A i \in Jobs :
                    /\ db'.status[i] = IF i = j THEN "pending" ELSE db.status[i]
                    /\ db'.owner[i] = IF i = j THEN NoOne ELSE db.owner[i]
                    /\ db'.lease[i] = IF i = j THEN "none" ELSE db.lease[i]
           /\ db'.spec = db.spec /\ db'.older = db.older
<1> DEFINE collides == \E i \in Jobs \ {j} : db.status[i] \in Live /\ SameKey(db, i, j)
           spent == [db EXCEPT !.recoverable = db.recoverable \ {j}]
           st == [i \in {j} |-> "pending"]
<1>1. db \in Tables /\ db.status[j] = "failed" /\ j \in db.recoverable
  BY DEF IInv, TablesInv, FlagsFit, RecoverFailed
<1>2. /\ spent \in Tables /\ spent.status = db.status /\ spent.spec = db.spec
      /\ spent.older = db.older /\ spent.owner = db.owner /\ spent.lease = db.lease
  BY <1>1 DEF Tables
<1>3. db' = IF collides THEN spent ELSE Updated(spent, st, {j}, {}, [i \in Jobs |-> 1])
  BY DEF RecoverFailed
<1>4. st \in [{j} -> Statuses] /\ {j} \in SUBSET Jobs /\ {} \in SUBSET Jobs
  BY DEF Statuses, Live
<1> HIDE DEF collides, spent, st
<1>5. CASE collides
  BY <1>1, <1>2, <1>3, <1>5
<1>6. CASE ~collides
  <2>1. Moves(spent, db', {j}, st, {j}, {})
    BY <1>2, <1>3, <1>4, <1>6, UpdatedFields, Zenon
  <2>2. \A i \in Jobs : /\ db'.status[i] = IF i = j THEN "pending" ELSE db.status[i]
                        /\ db'.owner[i] = IF i = j THEN NoOne ELSE db.owner[i]
                        /\ db'.lease[i] = IF i = j THEN "none" ELSE db.lease[i]
    BY <1>2, <2>1 DEF Moves, st
  <2> QED
    BY <1>1, <1>2, <2>1, <2>2 DEF Moves
<1> QED
  BY <1>5, <1>6

LEMMA ReconcileBacklogRows ==
    ASSUME IInv, ReconcileBacklog
    PROVE  \E batch \in SUBSET Redundant :
              /\ batch \in SUBSET Jobs
              /\ \A i \in Jobs :
                    /\ db'.status[i] = IF i \in batch THEN "superseded" ELSE db.status[i]
                    /\ db'.owner[i] = IF i \in batch THEN NoOne ELSE db.owner[i]
                    /\ db'.lease[i] = IF i \in batch THEN "none" ELSE db.lease[i]
              /\ db'.spec = db.spec /\ db'.older = db.older /\ db'.retry = db.retry \ batch
<1>1. PICK batch \in SUBSET Redundant :
        db' = Updated(db, [j \in batch |-> "superseded"], {}, batch, [i \in Jobs |-> 1])
  BY DEF ReconcileBacklog
<1> DEFINE st == [j \in batch |-> "superseded"]
<1>2. st \in [batch -> Statuses] /\ batch \in SUBSET Jobs /\ {} \in SUBSET Jobs /\ db \in Tables
  BY DEF Statuses, Terminal, Redundant, IInv, TablesInv
<1> HIDE DEF st
<1>3. Moves(db, db', batch, st, {}, batch)
  BY <1>1, <1>2, UpdatedFields, Zenon DEF st
<1>4. \A i \in Jobs : /\ db'.status[i] = IF i \in batch THEN "superseded" ELSE db.status[i]
                      /\ db'.owner[i] = IF i \in batch THEN NoOne ELSE db.owner[i]
                      /\ db'.lease[i] = IF i \in batch THEN "none" ELSE db.lease[i]
  BY <1>3 DEF Moves, st
<1> QED
  BY <1>2, <1>3, <1>4 DEF Moves

\* A producer either meets a pending row of its key, whose spec it may replace, or
\* adds a row.
LEMMA EnqueueRows ==
    ASSUME IInv, NEW s \in JobSpecs, NEW replace \in BOOLEAN, Enqueue(s, replace)
    PROVE  /\ db'.owner = db.owner /\ db'.lease = db.lease /\ pass' = pass
           /\ \/ \E i \in Jobs :
                    /\ db.status[i] = "pending" /\ Key(db, i) = s.key /\ s.key # NoKey
                    /\ db'.status = db.status /\ db'.older = db.older
                    /\ db'.spec \in {db.spec, [db.spec EXCEPT ![i] = s]}
              \/ \E j \in Jobs :
                    /\ db.status[j] = "free"
                    /\ db'.status = [db.status EXCEPT ![j] = "pending"]
                    /\ db'.older = [db.older EXCEPT ![j] = {i \in Jobs : db.status[i] # "free"}]
                    /\ db'.spec = [db.spec EXCEPT ![j] = s]
<1>0. db \in Tables
  BY DEF IInv, TablesInv
<1> DEFINE reuse == \E i \in Jobs : db.status[i] = "pending" /\ s.key # NoKey /\ Key(db, i) = s.key
<1>1. CASE reuse
  <2>0. s.key # NoKey
    BY <1>1
  <2>1. PICK i \in Jobs : /\ db.status[i] = "pending" /\ Key(db, i) = s.key
                          /\ db' = IF replace THEN [db EXCEPT !.spec[i] = s] ELSE db
    BY <1>1, Zenon DEF Enqueue
  <2>2. /\ db'.status = db.status /\ db'.older = db.older
        /\ db'.owner = db.owner /\ db'.lease = db.lease
        /\ db'.spec \in {db.spec, [db.spec EXCEPT ![i] = s]}
    BY <1>0, <2>1 DEF Tables
  <2> QED
    BY <2>0, <2>1, <2>2 DEF Enqueue
<1>2. CASE ~reuse
  <2>1. PICK j \in Jobs : /\ db.status[j] = "free"
                          /\ db' = [db EXCEPT !.status[j] = "pending",
                                              !.spec[j] = s,
                                              !.older[j] = {i \in Jobs : db.status[i] # "free"}]
    BY <1>2, Zenon DEF Enqueue
  <2>2. /\ db'.status = [db.status EXCEPT ![j] = "pending"]
        /\ db'.older = [db.older EXCEPT ![j] = {i \in Jobs : db.status[i] # "free"}]
        /\ db'.spec = [db.spec EXCEPT ![j] = s]
        /\ db'.owner = db.owner /\ db'.lease = db.lease
    BY <1>0, <2>1 DEF Tables
  <2> QED
    BY <2>1, <2>2 DEF Enqueue
<1> QED
  BY <1>1, <1>2

-----------------------------------------------------------------------------
\* The order of arrival.  older is a strict order of the rows in the table.

OrderInv(q) ==
    /\ \A i, j \in Jobs : i \in q.older[j] => q.status[i] # "free" /\ q.status[j] # "free"
    /\ \A i \in Jobs : i \notin q.older[i]
    /\ \A i, j, k \in Jobs : i \in q.older[j] /\ j \in q.older[k] => i \in q.older[k]

LEMMA OrderKept ==
    ASSUME NEW q, NEW u, OrderInv(q), u.older = q.older,
           \A j \in Jobs : q.status[j] # "free" => u.status[j] # "free"
    PROVE  OrderInv(u)
  BY DEF OrderInv

LEMMA OrderStep == ASSUME IInv, OrderInv(db), [Next]_vars PROVE OrderInv(db')
<1>0. db \in Tables
  BY DEF IInv, TablesInv
<1>1. ASSUME NEW s \in JobSpecs, NEW replace \in BOOLEAN, Enqueue(s, replace)
      PROVE  OrderInv(db')
  <2>1. CASE db'.status = db.status /\ db'.older = db.older
    BY <2>1, OrderKept
  <2>2. ASSUME NEW j \in Jobs, db.status[j] = "free",
               db'.status = [db.status EXCEPT ![j] = "pending"],
               db'.older = [db.older EXCEPT ![j] = {i \in Jobs : db.status[i] # "free"}]
        PROVE  OrderInv(db')
    <3>1. db.older \in [Jobs -> SUBSET Jobs] /\ db.status \in [Jobs -> Statuses]
      BY <1>0 DEF Tables
    <3>2. \A a \in Jobs : db'.older[a] = IF a = j THEN {i \in Jobs : db.status[i] # "free"}
                                         ELSE db.older[a]
      BY <2>2, <3>1
    <3>3. \A a \in Jobs : db'.status[a] = IF a = j THEN "pending" ELSE db.status[a]
      BY <2>2, <3>1
    <3>4. \A a, b \in Jobs : a \in db'.older[b] => db'.status[a] # "free" /\ db'.status[b] # "free"
      BY <2>2, <3>2, <3>3 DEF OrderInv
    <3>5. \A a \in Jobs : a \notin db'.older[a]
      BY <2>2, <3>2 DEF OrderInv
    <3>6. ASSUME NEW a \in Jobs, NEW b \in Jobs, NEW c \in Jobs,
                 a \in db'.older[b], b \in db'.older[c]
          PROVE  a \in db'.older[c]
      <4>1. b # j
        BY <2>2, <3>2, <3>6 DEF OrderInv
      <4>2. a \in db.older[b]
        BY <3>2, <3>6, <4>1
      <4> QED
        BY <3>2, <3>6, <4>2 DEF OrderInv
    <3> QED
      BY <3>4, <3>5, <3>6 DEF OrderInv
  <2> QED
    BY <1>1, <2>1, <2>2, EnqueueRows
<1>2. ASSUME NEW j \in Jobs, Forget(j) PROVE OrderInv(db')
  <2> DEFINE older == [i \in Jobs |-> IF i = j THEN {} ELSE db.older[i] \ {j}]
  <2>1. db' = [db EXCEPT !.status[j] = "free", !.spec[j] = BlankSpec, !.older = older,
                         !.recoverable = db.recoverable \ {j}]
    BY <1>2 DEF Forget
  <2> HIDE DEF older
  <2>2. db'.older = older /\ db'.status = [db.status EXCEPT ![j] = "free"]
    BY <1>0, <2>1 DEF Tables
  <2>3. \A i \in Jobs : db'.status[i] = IF i = j THEN "free" ELSE db.status[i]
    BY <1>0, <2>2 DEF Tables
  <2>4. \A i \in Jobs : db'.older[i] = IF i = j THEN {} ELSE db.older[i] \ {j}
    BY <2>2 DEF older
  <2>5. \A a, b \in Jobs : a \in db'.older[b] <=> a # j /\ b # j /\ a \in db.older[b]
    BY <2>4
  <2> QED
    BY <2>3, <2>5 DEF OrderInv
<1>3. ASSUME NEW j \in Jobs, RecoverFailed(j) PROVE OrderInv(db')
  BY <1>3, RecoverFailedRows, OrderKept
<1>4. ASSUME NEW j \in Jobs, LeaseExpires(j) PROVE OrderInv(db')
  <2>1. db'.older = db.older /\ db'.status = db.status
    BY <1>0, <1>4 DEF LeaseExpires, Tables
  <2> QED
    BY <2>1, OrderKept
<1>5. CASE ReconcileBacklog
  BY <1>5, ReconcileBacklogRows, OrderKept
<1>6. ASSUME NEW q, NEW batch, NEW doomed, NEW retrying, Frees(db, q, batch, doomed, retrying)
      PROVE  OrderInv(q)
  BY <1>6, OrderKept DEF Frees
<1>7. ASSUME NEW q \in Tables, OrderInv(q), NEW w, NEW j, Takes(q, db', w, j)
      PROVE  OrderInv(db')
  BY <1>7, OrderKept DEF Takes, Tables
<1>8. ASSUME NEW w \in Workers, StartPass(w) PROVE OrderInv(db')
  BY <1>6, <1>7, <1>8, StartPassRows
<1>9. ASSUME NEW w \in Workers, ClaimNext(w) PROVE OrderInv(db')
  BY <1>0, <1>7, <1>9, ClaimInRows DEF ClaimNext
<1>10. ASSUME NEW w \in Workers, NEW verdict \in Verdicts, Finish(w, verdict) PROVE OrderInv(db')
  BY <1>10, FinishRows, OrderKept DEF Verdicts
<1>11. ASSUME NEW w \in Workers, NEW busy \in BOOLEAN, Retry(w, busy) PROVE OrderInv(db')
  BY <1>6, <1>11, RetryRows
<1>12. ASSUME NEW w \in Workers, NEW busy \in BOOLEAN, LeaseLost(w, busy) PROVE OrderInv(db')
  BY <1>12 DEF LeaseLost
<1>13. ASSUME NEW w \in Workers, Crash(w) PROVE OrderInv(db')
  <2>1. db'.older = db.older /\ db'.status = db.status
    BY <1>0, <1>13 DEF Crash, Tables
  <2> QED
    BY <2>1, OrderKept
<1>14. CASE UNCHANGED vars
  BY <1>14 DEF vars
<1> QED
  BY <1>1, <1>2, <1>3, <1>4, <1>5, <1>8, <1>9, <1>10, <1>11, <1>12, <1>13, <1>14
  DEF Next, Work, Settle

\* In every backlog some notification of a session is not redundant: its newest.
LEMMA NewestIsKept ==
    ASSUME IInv, OrderInv(db), NEW j \in Redundant
    PROVE  \E i \in Jobs : /\ db.status[i] = "pending" /\ i \notin db.retry /\ i \notin Redundant
                           /\ db.spec[j].session # NoSession
                           /\ db.spec[i].session = db.spec[j].session
<1> DEFINE N == {i \in Jobs : /\ db.status[i] = "pending" /\ i \notin db.retry
                              /\ db.spec[i].session # NoSession
                              /\ db.spec[i].session = db.spec[j].session}
           newer(i) == {k \in Jobs : i \in db.older[k]}
           T == {newer(i) : i \in N}
<1>1. j \in N
  BY DEF Redundant
<1>2. IsWellFoundedOn(StrictSubsetOrdering(Jobs), FiniteSubsetsOf(Jobs))
  BY FS_StrictSubsetOrderingWellFounded
<1>3. FiniteSubsetsOf(Jobs) = SUBSET Jobs
  BY RowsAssumption, FS_FiniteSubsetsOfFinite
<1>4. T \subseteq FiniteSubsetsOf(Jobs) /\ T # {}
  <2>1. newer(j) \in T
    BY <1>1
  <2>2. \A t \in T : \E i \in N : t = newer(i)
    OBVIOUS
  <2>3. \A i \in N : newer(i) \in SUBSET Jobs
    OBVIOUS
  <2> HIDE DEF T, newer, N
  <2> QED
    BY <1>3, <2>1, <2>2, <2>3
<1>5. PICK t \in T : \A u \in T : ~(<<u, t>> \in StrictSubsetOrdering(Jobs))
  <2> HIDE DEF T
  <2> QED
    BY <1>2, <1>4, WFMin
<1>6. PICK i \in N : t = newer(i)
  BY <1>5
<1>7. ASSUME i \in Redundant PROVE FALSE
  <2>1. PICK k \in Jobs : /\ db.status[k] = "pending" /\ k \notin db.retry
                          /\ db.spec[k].session # NoSession
                          /\ db.spec[k].session = db.spec[i].session
                          /\ i \in db.older[k]
    BY <1>7 DEF Redundant
  <2>2. k \in N
    BY <1>6, <2>1
  <2>3. newer(k) \subseteq newer(i) /\ k \in newer(i) /\ k \notin newer(k)
    BY <1>6, <2>1 DEF OrderInv
  <2>4. newer(k) \in SUBSET Jobs /\ newer(i) \in SUBSET Jobs
    OBVIOUS
  <2>5. newer(k) \in T
    BY <2>2
  <2> HIDE DEF newer, T, N
  <2>6. <<newer(k), newer(i)>> \in StrictSubsetOrdering(Jobs)
    BY <2>3, <2>4 DEF StrictSubsetOrdering
  <2> QED
    BY <1>5, <1>6, <2>5, <2>6
<1> QED
  BY <1>6, <1>7

-----------------------------------------------------------------------------
\* Properties of single steps.

\* What VerdictByHolder and WorkIsCarriedOn say of one step.
VerdictOfStep ==
    \A j \in Jobs :
        db.status[j] # db'.status[j] /\ db'.status[j] \in Verdicts =>
            \/ \E w \in Workers : pass[w].job = j /\ Owned(db, w, j)
            \/ db'.status[j] = "failed" /\ db.lease[j] = "expired" /\ ~db.spec[j].preemptible

CarriedOn(j) ==
    \E i \in Jobs :
        /\ i # j /\ db'.status[i] \in Live
        /\ \/ SameKey(db', i, j)
           \/ db'.spec[j].session # NoSession /\ db'.spec[i].session = db'.spec[j].session
        /\ j \in db.retry => i \in db'.retry

StepIsSafe ==
    /\ VerdictOfStep
    /\ \A j \in Jobs : db.status[j] # "superseded" /\ db'.status[j] = "superseded" => CarriedOn(j)

\* A step that only makes rows pending, running or free asks nothing of anybody.
LEMMA HarmlessStep ==
    ASSUME \A j \in Jobs : db'.status[j] \in {db.status[j], "pending", "running", "free"}
    PROVE  StepIsSafe
  BY DEF StepIsSafe, VerdictOfStep, Verdicts

\* A row that gives up its lease is superseded only by a pending row of its
\* key, which stays and inherits its retry authority; it fails only if doomed.
LEMMA FreeingIsSafe ==
    ASSUME IInv, NEW batch \in SUBSET Jobs, \A j \in batch : db.status[j] = "running",
           NEW doomed \in SUBSET batch, NEW retrying,
           \A j \in batch \ doomed : j \in db.retry => j \in retrying,
           NEW q, Frees(db, q, batch, doomed, retrying),
           \A j \in Jobs : \/ db'.status[j] = q.status[j]
                           \/ q.status[j] = "pending" /\ db'.status[j] = "running",
           db'.spec = q.spec, db'.retry = q.retry
    PROVE  /\ \A j \in Jobs : db.status[j] # db'.status[j] /\ db'.status[j] \in Verdicts =>
                                 j \in doomed /\ db'.status[j] = "failed"
           /\ \A j \in Jobs : db.status[j] # "superseded" /\ db'.status[j] = "superseded" =>
                                 CarriedOn(j)
<1>1. ASSUME NEW j \in Jobs, db.status[j] # db'.status[j], db'.status[j] \in Verdicts
      PROVE  j \in doomed /\ db'.status[j] = "failed"
  BY <1>1 DEF Frees, Verdicts
<1>2. ASSUME NEW j \in Jobs, db.status[j] # "superseded", db'.status[j] = "superseded"
      PROVE  CarriedOn(j)
  <2>1. j \in batch /\ j \notin doomed /\ HasSuccessor(db, j)
    BY <1>2 DEF Frees
  <2>2. PICK i \in Jobs : Successor(db, j, i)
    BY <2>1 DEF HasSuccessor
  <2>3. i # j /\ db.status[i] = "pending" /\ SameKey(db, i, j)
    BY <2>2 DEF Successor
  <2>4. i \notin batch
    BY <2>3
  <2>5. db'.status[i] \in Live
    BY <2>3, <2>4 DEF Frees, Live
  <2>6. SameKey(db', i, j)
    BY <2>3 DEF Frees, SameKey, Key
  <2>7. j \in db.retry => i \in Heirs(db, retrying)
    BY <2>1, <2>2 DEF Heirs
  <2> QED
    BY <2>3, <2>5, <2>6, <2>7 DEF Frees, CarriedOn
<1> QED
  BY <1>1, <1>2

LEMMA SafeSteps == ASSUME IInv, OrderInv(db), [Next]_vars PROVE StepIsSafe
<1>0. db \in Tables
  BY DEF IInv, TablesInv
<1>1. ASSUME NEW s \in JobSpecs, NEW replace \in BOOLEAN, Enqueue(s, replace)
      PROVE  StepIsSafe
  <2>0. \/ db'.status = db.status
        \/ \E j \in Jobs : db'.status = [db.status EXCEPT ![j] = "pending"]
    BY <1>1, EnqueueRows, Zenon
  <2>1. \A i \in Jobs : db'.status[i] \in {db.status[i], "pending"}
    BY <1>0, <2>0 DEF Tables
  <2> QED
    BY <2>1, HarmlessStep
<1>2. ASSUME NEW j \in Jobs, Forget(j) PROVE StepIsSafe
  <2>1. db'.status = [db.status EXCEPT ![j] = "free"]
    BY <1>0, <1>2 DEF Forget, Tables
  <2>2. \A i \in Jobs : db'.status[i] \in {db.status[i], "free"}
    BY <1>0, <2>1 DEF Tables
  <2> QED
    BY <2>2, HarmlessStep
<1>3. ASSUME NEW j \in Jobs, RecoverFailed(j) PROVE StepIsSafe
  BY <1>3, RecoverFailedRows, HarmlessStep
<1>4. ASSUME NEW j \in Jobs, LeaseExpires(j) PROVE StepIsSafe
  <2>1. db'.status = db.status
    BY <1>0, <1>4 DEF LeaseExpires, Tables
  <2> QED
    BY <2>1, HarmlessStep
<1>5. CASE ReconcileBacklog
  <2>1. PICK batch \in SUBSET Redundant :
           /\ batch \in SUBSET Jobs
           /\ \A i \in Jobs : db'.status[i] = IF i \in batch THEN "superseded" ELSE db.status[i]
           /\ db'.spec = db.spec
    BY <1>5, ReconcileBacklogRows
  <2>2. ASSUME NEW j \in Jobs, db.status[j] # "superseded", db'.status[j] = "superseded"
        PROVE  CarriedOn(j)
    <3>1. j \in Redundant /\ j \notin db.retry
      BY <2>1, <2>2 DEF Redundant
    <3>2. PICK i \in Jobs : /\ db.status[i] = "pending" /\ i \notin Redundant
                            /\ db.spec[j].session # NoSession
                            /\ db.spec[i].session = db.spec[j].session
      BY <3>1, NewestIsKept
    <3>3. i # j /\ db'.status[i] \in Live
      BY <2>1, <3>1, <3>2 DEF Live
    <3> QED
      BY <2>1, <3>1, <3>2, <3>3 DEF CarriedOn
  <2>3. VerdictOfStep
    BY <2>1 DEF VerdictOfStep, Verdicts
  <2> QED
    BY <2>2, <2>3 DEF StepIsSafe
<1>6. ASSUME NEW w \in Workers, StartPass(w) PROVE StepIsSafe
  <2>1. PICK batch \in SUBSET Expired(db, w), q \in Tables :
           /\ Frees(db, q, batch, batch \ Preemptible(db, batch),
                    Preemptible(db, batch \cap db.retry))
           /\ db' = q \/ \E j \in Jobs : Takes(q, db', w, j)
    BY <1>6, StartPassRows
  <2>2. /\ \A j \in Jobs : \/ db'.status[j] = q.status[j]
                           \/ q.status[j] = "pending" /\ db'.status[j] = "running"
        /\ db'.spec = q.spec /\ db'.retry = q.retry
    BY <2>1 DEF Takes, Tables
  <2>3. /\ batch \in SUBSET Jobs
        /\ \A j \in batch : db.status[j] = "running" /\ db.lease[j] = "expired"
    BY DEF Expired
  <2> DEFINE doomed == batch \ Preemptible(db, batch)
             retrying == Preemptible(db, batch \cap db.retry)
  <2>4. doomed \in SUBSET batch
    OBVIOUS
  <2>5. \A j \in batch \ doomed : j \in db.retry => j \in retrying
    BY DEF Preemptible
  <2>6. \A j \in doomed : ~db.spec[j].preemptible
    BY DEF Preemptible
  <2> HIDE DEF doomed, retrying
  <2>7. Frees(db, q, batch, doomed, retrying)
    BY <2>1 DEF doomed, retrying
  <2>8. /\ \A j \in Jobs : db.status[j] # db'.status[j] /\ db'.status[j] \in Verdicts =>
                              j \in doomed /\ db'.status[j] = "failed"
        /\ \A j \in Jobs : db.status[j] # "superseded" /\ db'.status[j] = "superseded" =>
                              CarriedOn(j)
    BY <2>2, <2>3, <2>4, <2>5, <2>7, FreeingIsSafe
  <2> QED
    BY <2>3, <2>4, <2>6, <2>8 DEF StepIsSafe, VerdictOfStep
<1>7. ASSUME NEW w \in Workers, ClaimNext(w) PROVE StepIsSafe
  <2>1. db' = db \/ \E j \in Jobs : Takes(db, db', w, j)
    BY <1>0, <1>7, ClaimInRows DEF ClaimNext
  <2>2. \A i \in Jobs : db'.status[i] \in {db.status[i], "running"}
    BY <1>0, <2>1 DEF Takes, Tables
  <2> QED
    BY <2>2, HarmlessStep
<1>8. ASSUME NEW w \in Workers, NEW verdict \in Verdicts, Finish(w, verdict) PROVE StepIsSafe
  BY <1>8, FinishRows DEF StepIsSafe, VerdictOfStep, Verdicts
<1>9. ASSUME NEW w \in Workers, NEW busy \in BOOLEAN, Retry(w, busy) PROVE StepIsSafe
  <2> DEFINE j == pass[w].job
  <2>1. j \in Jobs /\ Owned(db, w, j) /\ Frees(db, db', {j}, {}, {j})
    BY <1>9, RetryRows
  <2> HIDE DEF j
  <2>2. /\ {j} \in SUBSET Jobs /\ {} \in SUBSET {j}
        /\ \A i \in {j} : db.status[i] = "running"
        /\ \A i \in {j} \ {} : i \in db.retry => i \in {j}
    BY <2>1 DEF Owned
  <2> DEFINE q == db'
  <2>4. /\ \A i \in Jobs : \/ db'.status[i] = q.status[i]
                           \/ q.status[i] = "pending" /\ db'.status[i] = "running"
        /\ db'.spec = q.spec /\ db'.retry = q.retry
        /\ Frees(db, q, {j}, {}, {j})
    BY <2>1
  <2> HIDE DEF q
  <2>3. /\ \A i \in Jobs : db.status[i] # db'.status[i] /\ db'.status[i] \in Verdicts =>
                              i \in {} /\ db'.status[i] = "failed"
        /\ \A i \in Jobs : db.status[i] # "superseded" /\ db'.status[i] = "superseded" =>
                              CarriedOn(i)
    BY <2>2, <2>4, FreeingIsSafe
  <2> QED
    BY <2>3 DEF StepIsSafe, VerdictOfStep
<1>10. ASSUME NEW w \in Workers, NEW busy \in BOOLEAN, LeaseLost(w, busy) PROVE StepIsSafe
  BY <1>10, HarmlessStep DEF LeaseLost
<1>11. ASSUME NEW w \in Workers, Crash(w) PROVE StepIsSafe
  <2>1. db'.status = db.status
    BY <1>0, <1>11 DEF Crash, Tables
  <2> QED
    BY <2>1, HarmlessStep
<1>12. CASE UNCHANGED vars
  BY <1>12, HarmlessStep DEF vars
<1> QED
  BY <1>1, <1>2, <1>3, <1>4, <1>5, <1>6, <1>7, <1>8, <1>9, <1>10, <1>11, <1>12
  DEF Next, Work, Settle

(* The order of arrival is a strict order throughout.                       *)
LEMMA OrderInvariance == Spec => [](IInv /\ OrderInv(db))
<1>1. Init => IInv /\ OrderInv(db)
  BY InitInv DEF Init, OrderInv
<1>2. IInv /\ OrderInv(db) /\ [Next]_vars => (IInv /\ OrderInv(db))'
  BY NextInv, OrderStep
<1> QED
  BY <1>1, <1>2, PTL DEF Spec

(* A worker whose lease ran out while it computed (_finish_owned_job and    *)
(* its fence) never decides a row that was reclaimed, handed on or settled: *)
(* a verdict comes from the holder of a live lease, or is the failure of an *)
(* expired row that may not be run again.                                   *)
THEOREM VerdictsAreOfHolders == Spec => VerdictByHolder
<1>1. IInv /\ OrderInv(db) /\ [Next]_vars =>
        \A j \in Jobs :
         db.status[j] # db'.status[j] /\ db'.status[j] \in Verdicts =>
            \/ \E w \in Workers : pass[w].job = j /\ Owned(db, w, j)
            \/ /\ db'.status[j] = "failed"
               /\ db.lease[j] = "expired" /\ ~db.spec[j].preemptible
  BY SafeSteps DEF StepIsSafe, VerdictOfStep
<1> QED
  BY <1>1, OrderInvariance, PTL DEF Spec, VerdictByHolder

(* No reclaim, retry or reconciliation loses work: a row is superseded only *)
(* while a live row of its key or session carries its work, with the retry  *)
(* authority it had (_reclaim_expired_leases, _retry_owned_job,             *)
(* reconcile_worker_backlog).                                               *)
THEOREM WorkGoesOn == Spec => WorkIsCarriedOn
<1>1. IInv /\ OrderInv(db) /\ [Next]_vars =>
        \A j \in Jobs :
         db.status[j] # "superseded" /\ db'.status[j] = "superseded" =>
            \E i \in Jobs :
               /\ i # j /\ db'.status[i] \in Live
               /\ \/ SameKey(db', i, j)
                  \/ db'.spec[j].session # NoSession /\ db'.spec[i].session = db'.spec[j].session
               /\ j \in db.retry => i \in db'.retry
  BY SafeSteps DEF StepIsSafe, CarriedOn
<1> QED
  BY <1>1, OrderInvariance, PTL DEF Spec, WorkIsCarriedOn
=============================================================================
