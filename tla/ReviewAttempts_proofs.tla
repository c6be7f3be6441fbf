------------------------ MODULE ReviewAttempts_proofs -----------------------
(***************************************************************************)
(* Proofs about module ReviewAttempts, for any number of operations, of    *)
(* attempts, of deaths and of handoffs: the state keeps its shape, every    *)
(* status that is written is a legal one, and a job never holds two claims  *)
(* of responses, an operation never two attempts.                           *)
(***************************************************************************)
EXTENDS ReviewAttempts, FiniteSetTheorems, WellFoundedInduction, TLAPS

-----------------------------------------------------------------------------
(* Types.                                                                   *)

States == {"prepared", "pending_browser_upload", "submitting", "ingesting", "ingested",
           "handoff_ready"} \cup Failed
Places == Responses \cup {0}
Numbers == 0 .. MaxAttempts
\* A claimed job names the response that it claims, and for what kind of attempt.
Statuses ==
    {s \in [st : States, count : Numbers, cur : Numbers, curResp : Places, pend : Numbers,
            reviewer : Places, claim : Places,
            mode : {"none", "automated", "browser_reserved", "untracked"}, at : Int] :
         /\ s.st \in {"ingesting", "ingested"} => s.claim \in Responses
         /\ s.st = "ingesting" => s.mode # "none"}

Records == {"none", "reserved"} \cup Final
Phases ==
    [kind : {"none", "terminal", "reservation", "automated", "ingest"}, seq : Places,
     op : Int, prior : Statuses, target : Statuses, from : Records, to : Records]
Undos == [attempt : Records, status : Statuses, on : BOOLEAN]

Pcs == {"idle", "terminal", "sealed", "reservation", "choose", "reserve", "handoff", "run", "submit",
        "review", "bind", "ingest", "claim", "read", "judge", "claimed", "accept"}
Nexts == {"idle", "choose", "reservation", "handoff", "run", "ingest"}
Calls ==
    [kind : {"none", "start", "handoff", "run", "ingest"}, op : Int, path : Places,
     text : {"none", "good", "bad"}, pc : Pcs, phase : Phases, next : Nexts,
     settled : BOOLEAN, undo : Undos]

\* Phases of attempts are numbered as the attempts are, and every claim leads to the
\* status of a claimed job.
Formed == \A p \in phases :
    /\ p.kind \in {"terminal", "reservation", "automated"} => p.seq \in Attempts
    /\ p.kind = "ingest" => p.target.st = "ingesting"

\* What the call works on, at each of its places.
Placed ==
    /\ Finalizing => call.phase \in Of("terminal")
    /\ In("reserve") => call.phase \in Of("reservation")
    /\ In("submit") \/ In("review") => call.phase \in Of("automated")
    /\ In("claimed") => call.phase \in Of("ingest")
    /\ In("bind") \/ In("judge") => call.path \in Responses
    /\ In("accept") => status.st = "ingesting"
    /\ call.undo.on => Finalizing /\ Legal(call.undo.status)

Typed ==
    /\ TypeOK
    /\ manual \in BOOLEAN /\ status \in Statuses /\ phases \subseteq Phases /\ call \in Calls
    /\ Formed /\ Placed

LEMMA Bounds == MaxAttempts \in Nat
  BY ReviewBounds

LEMMA IdleTyped ==
    /\ Prepared \in Statuses /\ NoPhase \in Phases /\ Idle \in Calls /\ Legal(Prepared)
    /\ Idle.pc = "idle" /\ ~Idle.undo.on
<1>1. 0 \in Numbers /\ 0 \in Places
  BY Bounds DEF Numbers, Places
<1>2. Prepared \in Statuses
  BY <1>1 DEF Prepared, Statuses, States
<1>3. NoPhase \in Phases
  BY <1>1, <1>2 DEF NoPhase, Phases, Records
<1>4. NoUndo \in Undos
  BY <1>2 DEF NoUndo, Undos, Records
<1>5. Idle \in Calls
  BY <1>1, <1>3, <1>4 DEF Idle, Calls, Pcs, Nexts
<1>6. Legal(Prepared)
  BY DEF Legal, Prepared, Failed
<1> QED
  BY <1>2, <1>3, <1>5, <1>6 DEF Idle, NoUndo

\* The parts that most steps leave alone.
LEMMA TypedParts ==
    ASSUME Typed,
           manual' \in BOOLEAN, status' \in Statuses, Legal(status)', phases' \subseteq Phases,
           call' \in Calls, Formed', Placed',
           attempt' \in [Attempts -> Records],
           receipt' \in [Attempts -> {"none", "file", "row", "bound"}], rows' \subseteq Attempts,
           response' \in [Responses -> {"none", "empty", "good", "bad"}],
           evidence' \in [Responses -> {"none", "files", "bound"}]
    PROVE  Typed'
  BY DEF Typed, TypeOK, Records

\* The same, for a step that leaves everything but the call alone.
LEMMA OnlyCall ==
    ASSUME Typed, call' \in Calls, Placed', UNCHANGED <<manual, status, files, phases>>
    PROVE  Typed'
  BY TypedParts DEF Typed, TypeOK, Records, files, Formed

LEMMA GotoTyped ==
    ASSUME Typed, NEW pc \in Pcs, Goto(pc)
    PROVE  /\ call' \in Calls /\ call'.pc = pc /\ call'.phase = call.phase
           /\ call'.undo = call.undo /\ call'.path = call.path /\ call'.kind = call.kind
  BY DEF Typed, Goto, Calls

LEMMA ReturnTyped ==
    ASSUME Return
    PROVE  call' \in Calls /\ call'.pc = "idle" /\ Placed'
<1>1. call' \in Calls /\ call'.pc = "idle" /\ ~call'.undo.on
  BY IdleTyped DEF Return
<1> QED
  BY <1>1 DEF Placed, Finalizing, In

\* The end of an attempt is a terminal phase, with an undo that can be written.
LEMMA FinalizeTyped ==
    ASSUME Typed, ~Finalizing,
           NEW n \in Attempts, NEW from \in Records, NEW to \in Records,
           NEW target \in Statuses, NEW next \in Nexts, Finalize(n, from, to, target, next)
    PROVE  /\ phases' \subseteq Phases /\ Formed' /\ call' \in Calls /\ Placed'
           /\ call'.pc \in {"terminal", "sealed"} /\ call'.kind = call.kind
           /\ \A k \in {"reservation", "automated", "ingest"} : Of(k)' = Of(k)
<1>1. /\ status \in Statuses /\ Legal(status) /\ phases \subseteq Phases /\ call \in Calls
      /\ Formed /\ ~call.undo.on /\ n \in Places
  BY Bounds DEF Typed, TypeOK, Placed, Attempts, Places, Responses
<1>2. CASE At("terminal", n) # {}
  <2>1. PICK p \in At("terminal", n), pc \in {"terminal", "sealed"} :
            call' = [call EXCEPT !.next = next, !.phase = p, !.pc = pc]
    BY <1>2 DEF Finalize
  <2>2. phases' = phases /\ p \in phases /\ p.kind = "terminal"
    BY <1>2, <2>1 DEF Finalize, At, Of
  <2>3. /\ call' \in Calls /\ call'.pc = pc /\ call'.phase = p
        /\ call'.undo = call.undo /\ call'.kind = call.kind
    BY <1>1, <2>1, <2>2 DEF Calls, Pcs
  <2>4. Placed'
    BY <1>1, <2>2, <2>3 DEF Placed, Finalizing, In, Of
  <2> QED
    BY <1>1, <2>2, <2>3, <2>4 DEF Formed, Of
<1>3. CASE At("terminal", n) = {}
  <2> DEFINE p == [kind |-> "terminal", seq |-> n, op |-> call.op, prior |-> status,
                   target |-> target, from |-> from, to |-> to]
             u == [attempt |-> from, status |-> status, on |-> TRUE]
  <2>1. phases' = phases \cup {p}
        /\ call' = [call EXCEPT !.pc = "terminal", !.next = next, !.phase = p, !.undo = u]
    BY <1>3 DEF Finalize
  <2>2. p \in Phases /\ p.kind = "terminal" /\ p.seq \in Attempts
    BY <1>1 DEF Phases, Calls
  <2>3. u \in Undos /\ u.status = status
    BY <1>1 DEF Undos
  <2> HIDE DEF p, u
  <2>4. /\ call' \in Calls /\ call'.pc = "terminal" /\ call'.phase = p
        /\ call'.undo = u /\ call'.kind = call.kind
    BY <1>1, <2>1, <2>2, <2>3 DEF Calls, Pcs
  <2>5. Placed'
    BY <1>1, <2>1, <2>2, <2>3, <2>4 DEF Placed, Finalizing, In, Of
  <2>6. Formed'
    BY <1>1, <2>1, <2>2 DEF Formed
  <2> QED
    BY <1>1, <2>1, <2>2, <2>4, <2>5, <2>6 DEF Of
<1> QED
  BY <1>2, <1>3

\* Every bounded set of naturals that has an element has a largest one.
LEMMA GreatestNatural ==
    ASSUME NEW N \in Nat, NEW S \in SUBSET (0 .. N), S # {}
    PROVE  \E n \in S : \A m \in S : m <= n
<1> DEFINE R == OpToRel(<, Nat)
           T == {k \in Nat : N - k \in S}
<1>1. IsWellFoundedOn(R, Nat)
  BY NatLessThanWellFounded, Zenon
<1>2. \A n, m \in Nat : n < m => <<n, m>> \in R
  BY DEF OpToRel
<1>3. T \in SUBSET Nat /\ T # {}
  <2>1. PICK n \in S : TRUE
    OBVIOUS
  <2>2. N - n \in Nat /\ N - (N - n) = n
    BY <2>1
  <2> QED
    BY <2>1, <2>2
<1>4. \A k \in T : N - k \in S
  OBVIOUS
<1>5. \A m \in S : N - m \in T
  <2> TAKE m \in S
  <2>1. N - m \in Nat /\ N - (N - m) = m
    OBVIOUS
  <2> QED
    BY <2>1
<1> HIDE DEF R, T
<1>6. PICK k \in T : \A j \in T : ~(<<j, k>> \in R)
  BY <1>1, <1>3, WFMin
<1>7. \A m \in S : m <= N - k
  <2> TAKE m \in S
  <2>1. N - m \in T /\ N - m \in Nat /\ k \in Nat
    BY <1>3, <1>5
  <2>2. ~(N - m < k)
    BY <1>2, <1>6, <2>1
  <2> QED
    BY <2>1, <2>2
<1> QED
  BY <1>4, <1>6, <1>7

\* Where there is a phase, there is a latest one.
LEMMA LatestExists ==
    ASSUME Typed, NEW kind \in {"terminal", "reservation"}, Of(kind) # {}
    PROVE  Latest(kind) \in Of(kind) /\ \A q \in Of(kind) : q.seq <= Latest(kind).seq
<1> DEFINE S == {p.seq : p \in Of(kind)}
<1>1. S \in SUBSET (0 .. MaxAttempts) /\ S # {}
  BY Bounds DEF Typed, Formed, Of, Attempts
<1>2. PICK n \in S : \A m \in S : m <= n
  <2> HIDE DEF S
  <2> QED
    BY <1>1, Bounds, GreatestNatural
<1>3. PICK p \in Of(kind) : \A q \in Of(kind) : q.seq <= p.seq
  BY <1>2
<1> QED
  BY <1>3 DEF Latest

\* What is known of a typed state, with the definitions of its parts expanded.
LEMMA Parts ==
    ASSUME Typed
    PROVE  /\ manual \in BOOLEAN /\ status \in Statuses /\ phases \subseteq Phases
           /\ call \in Calls /\ Formed /\ Placed /\ Legal(status)
           /\ attempt \in [Attempts -> Records]
           /\ receipt \in [Attempts -> {"none", "file", "row", "bound"}] /\ rows \subseteq Attempts
           /\ response \in [Responses -> {"none", "empty", "good", "bad"}]
           /\ evidence \in [Responses -> {"none", "files", "bound"}]
           /\ MaxAttempts \in Nat
  BY Bounds DEF Typed, TypeOK, Records

\* The steps that carry a terminal phase out.
LEMMA TerminalTyped ==
    ASSUME Typed, Terminal
    PROVE  Typed'
<1> USE Parts
<1>1. Finalizing /\ call.phase \in Of("terminal")
  BY DEF Terminal, WriteAttempt, WriteReceipt, WriteTerminalStatus, BindReceipt, AttemptWritten,
         Confirm, Placed, Finalizing
<1>2. call.phase \in Phases /\ call.phase.seq \in Attempts
  BY <1>1 DEF Of, Formed
<1>3. CASE WriteAttempt
  <2>1. attempt' \in [Attempts -> Records]
    BY <1>2, <1>3 DEF WriteAttempt, Phases
  <2> QED
    BY <1>3, <2>1, TypedParts DEF WriteAttempt, Formed, Placed, Finalizing, In, Of
<1>4. CASE WriteReceipt
  <2>1. receipt' \in [Attempts -> {"none", "file", "row", "bound"}]
    BY <1>2, <1>4 DEF WriteReceipt
  <2> QED
    BY <1>4, <2>1, TypedParts DEF WriteReceipt, Formed, Placed, Finalizing, In, Of
<1>5. CASE WriteTerminalStatus
  <2>1. status' \in Statuses /\ Legal(status)'
    BY <1>2, <1>5 DEF WriteTerminalStatus, Phases, Legal
  <2>2. Placed'
    BY <1>1, <1>5 DEF WriteTerminalStatus, Placed, Finalizing, In, Of
  <2> QED
    BY <1>5, <2>1, <2>2, TypedParts DEF WriteTerminalStatus, files, Formed
<1>6. CASE BindReceipt
  <2>1. receipt' \in [Attempts -> {"none", "file", "row", "bound"}]
    BY <1>2, <1>6 DEF BindReceipt
  <2>2. /\ call' \in Calls /\ call'.pc = "sealed" /\ call'.phase = call.phase
        /\ call'.undo = call.undo
    BY <1>6, GotoTyped DEF BindReceipt, Pcs
  <2>3. Placed'
    BY <1>1, <1>6, <2>2 DEF Placed, Finalizing, In, Of, BindReceipt
  <2> QED
    BY <1>6, <2>1, <2>2, <2>3, TypedParts DEF BindReceipt, Formed
<1>7. CASE Confirm
  <2>1. call' \in Calls /\ call'.pc \in Nexts /\ ~call'.undo.on
    <3>1. CASE call.next = "idle"
      BY <1>7, <3>1, IdleTyped DEF Confirm, Nexts
    <3>2. CASE call.next # "idle"
      <4>1. call' = [call EXCEPT !.pc = call.next, !.undo = NoUndo]
        BY <1>7, <3>2 DEF Confirm
      <4>2. NoUndo \in Undos /\ ~NoUndo.on
        BY IdleTyped DEF Idle, NoUndo, Calls
      <4> QED
        BY <4>1, <4>2 DEF Calls, Nexts, Pcs
    <3> QED
      BY <3>1, <3>2
  <2>2. Placed'
    BY <2>1 DEF Placed, Finalizing, In, Nexts
  <2> QED
    BY <1>7, <2>1, <2>2, OnlyCall DEF Confirm
<1> QED
  BY <1>3, <1>4, <1>5, <1>6, <1>7 DEF Terminal

LEMMA NumbersTyped ==
    ASSUME Typed
    PROVE  /\ status.count \in Numbers /\ status.count \in Int
           /\ HasNext => status.count + 1 \in Attempts /\ status.count + 1 \in Numbers
           /\ Numbers \subseteq Places /\ Attempts \subseteq Numbers /\ 0 \in Numbers
           /\ Responses \subseteq Places
  BY Parts DEF Statuses, Numbers, Places, Responses, Attempts, HasNext

LEMMA EndedTyped ==
    ASSUME Typed, NEW st \in States, NEW n \in Numbers,
           st # "ingesting", st = "ingested" => status.claim \in Responses
    PROVE  Ended(st, n) \in Statuses
  BY Parts, NumbersTyped DEF Ended, Statuses

\* The steps of review_browser_attempt_start.
LEMMA StartTyped ==
    ASSUME Typed, Start
    PROVE  Typed'
<1> USE Parts
<1>1. CASE ReconcileReservation
  <2>1. UNCHANGED <<manual, status, attempt, receipt, response, evidence, phases>>
        /\ In("reservation")
    BY <1>1 DEF ReconcileReservation
  <2>2. ~call.undo.on
    BY <2>1 DEF Placed, Finalizing, In
  <2>3. CASE Of("reservation") = {}
    <3>1. Goto("choose") /\ rows' = rows
      BY <1>1, <2>3 DEF ReconcileReservation
    <3>2. call' \in Calls /\ call'.pc = "choose" /\ call'.undo = call.undo
      BY <3>1, GotoTyped DEF Pcs
    <3>3. Placed'
      BY <2>2, <3>2 DEF Placed, Finalizing, In
    <3> QED
      BY <2>1, <3>1, <3>2, <3>3, TypedParts DEF Formed
  <2>4. CASE Of("reservation") # {} /\ status = Reservation.prior
    <3>1. Reservation \in Of("reservation") /\ Reservation \in Phases
      BY <2>4, LatestExists DEF Reservation, Of
    <3>2. call' = [call EXCEPT !.pc = "reserve", !.phase = Reservation, !.next = "choose"]
          /\ rows' = rows
      BY <1>1, <2>4 DEF ReconcileReservation
    <3>3. /\ call' \in Calls /\ call'.pc = "reserve" /\ call'.undo = call.undo
          /\ call'.phase = Reservation
      BY <3>1, <3>2 DEF Calls, Pcs, Nexts
    <3>4. Placed'
      BY <2>1, <2>2, <3>1, <3>3 DEF Placed, Finalizing, In, Of
    <3> QED
      BY <2>1, <3>2, <3>3, <3>4, TypedParts DEF Formed
  <2>5. CASE Of("reservation") # {} /\ status # Reservation.prior
    <3>1. Reservation \in Of("reservation") /\ Reservation.seq \in Attempts
      BY <2>5, LatestExists DEF Reservation, Of, Formed
    <3>2. rows' = rows \cup {Reservation.seq} /\ Goto("choose")
      BY <1>1, <2>5 DEF ReconcileReservation
    <3>3. call' \in Calls /\ call'.pc = "choose" /\ call'.undo = call.undo
      BY <3>2, GotoTyped DEF Pcs
    <3>4. Placed'
      BY <2>2, <3>3 DEF Placed, Finalizing, In
    <3> QED
      BY <2>1, <3>1, <3>2, <3>3, <3>4, TypedParts DEF Formed
  <2> QED
    BY <2>3, <2>4, <2>5
<1>2. CASE StartAgain
  BY <1>2, ReturnTyped, OnlyCall DEF StartAgain
<1>3. CASE Supersede
  <2>1. status.count \in Attempts
    BY <1>3, NumbersTyped DEF Supersede, Legal, Attempts, Numbers, Statuses
  <2>2. [Ended("handoff_ready", status.count) EXCEPT !.pend = status.pend] \in Statuses
    BY NumbersTyped, EndedTyped DEF States, Statuses
  <2>3. ~Finalizing
    BY <1>3 DEF Supersede, Finalizing, In
  <2>4. phases' \subseteq Phases /\ Formed' /\ call' \in Calls /\ Placed'
    BY <1>3, <2>1, <2>2, <2>3, FinalizeTyped DEF Supersede, Records, Final, Nexts
  <2> QED
    BY <1>3, <2>4, TypedParts DEF Supersede, files
<1>4. CASE Reserve
  <2>1. /\ phases' = phases \cup {ReservationPhase} /\ UNCHANGED <<manual, status, files>>
        /\ call' = [call EXCEPT !.pc = "reserve", !.phase = ReservationPhase, !.next = "idle"]
        /\ In("choose") /\ HasNext /\ NextResponse \in Responses
    BY <1>4 DEF Reserve
  <2>2. /\ ReservationPhase \in Phases /\ ReservationPhase.kind = "reservation"
        /\ ReservationPhase.seq \in Attempts
    <3> DEFINE n == status.count + 1
               t == [status EXCEPT !.st = "pending_browser_upload", !.count = n, !.cur = n,
                                   !.curResp = NextResponse]
    <3>1. n \in Attempts /\ n \in Numbers /\ n \in Places
      BY <2>1, NumbersTyped
    <3>2. t \in Statuses
      BY <2>1, <3>1, NumbersTyped DEF Statuses, States
    <3>3. call.op \in Int
      BY DEF Calls
    <3>4. ReservationPhase = [NoPhase EXCEPT !.kind = "reservation", !.seq = n, !.op = call.op,
                                             !.prior = status, !.target = t]
      BY DEF ReservationPhase
    <3> HIDE DEF n, t
    <3> QED
      BY <3>1, <3>2, <3>3, <3>4, IdleTyped DEF Phases
  <2>3. /\ call' \in Calls /\ call'.pc = "reserve" /\ call'.undo = call.undo
        /\ call'.phase = ReservationPhase
    BY <2>1, <2>2 DEF Calls, Pcs, Nexts
  <2>4. Placed'
    BY <2>1, <2>2, <2>3 DEF Placed, Finalizing, In, Of
  <2>5. phases' \subseteq Phases /\ Formed'
    BY <2>1, <2>2 DEF Formed
  <2> QED
    BY <2>1, <2>3, <2>4, <2>5, TypedParts DEF files
<1>5. In("reserve") => call.phase \in Phases /\ call.phase.seq \in Attempts
  BY DEF Placed, Formed, Of
<1>6. CASE ReserveResponse
  <2>1. response' \in [Responses -> {"none", "empty", "good", "bad"}]
    BY <1>6 DEF ReserveResponse
  <2> QED
    BY <1>6, <2>1, TypedParts DEF ReserveResponse, Formed, Placed, Finalizing, In, Of
<1>7. CASE ReserveAttempt
  <2>1. attempt' \in [Attempts -> Records]
    BY <1>7 DEF ReserveAttempt, Records
  <2> QED
    BY <1>7, <2>1, TypedParts DEF ReserveAttempt, Formed, Placed, Finalizing, In, Of
<1>8. CASE ReserveStatus
  <2>1. status' \in Statuses /\ Legal(status)'
    BY <1>5, <1>8 DEF ReserveStatus, Phases, Legal
  <2> QED
    BY <1>8, <2>1, TypedParts DEF ReserveStatus, files, Formed, Placed, Finalizing, In, Of
<1>9. CASE ReserveRows
  <2>1. rows' \subseteq Attempts /\ UNCHANGED <<manual, status, attempt, receipt, response, evidence, phases>>
    BY <1>5, <1>9 DEF ReserveRows
  <2>2. ~call.undo.on
    BY <1>9 DEF ReserveRows, Placed, Finalizing, In
  <2>3. CASE call.next = "idle"
    BY <1>9, <2>1, <2>3, ReturnTyped, TypedParts DEF ReserveRows, Formed
  <2>4. CASE call.next # "idle"
    <3>1. call.next \in Nexts /\ call.next \in Pcs /\ Goto(call.next)
      BY <1>9, <2>4 DEF ReserveRows, Calls, Nexts, Pcs
    <3>2. call' \in Calls /\ call'.pc \in Nexts /\ call'.undo = call.undo
      BY <3>1, GotoTyped
    <3>3. Placed'
      BY <2>2, <3>2 DEF Placed, Finalizing, In, Nexts
    <3> QED
      BY <2>1, <3>2, <3>3, TypedParts DEF Formed
  <2> QED
    BY <2>3, <2>4
<1> QED
  BY <1>1, <1>2, <1>3, <1>4, <1>6, <1>7, <1>8, <1>9 DEF Start

LEMMA ResponsesTyped ==
    ASSUME Typed
    PROVE  /\ 1 \in Responses /\ Attempts \subseteq Responses /\ 0 \notin Responses
           /\ status.pend # 0 => status.pend \in Attempts /\ status.pend \in Responses
           /\ Places = Responses \cup {0}
  BY Parts DEF Responses, Attempts, Places, Statuses, Numbers

\* The steps of run_review_job.
LEMMA RunTyped ==
    ASSUME Typed, Run
    PROVE  Typed'
<1> USE Parts, ResponsesTyped
<1>1. CASE Handoff
  <2>1. PICK time \in {status.at, Min({status.at + 1, MaxHandoffs})} :
            LET s == [status EXCEPT !.st = "handoff_ready", !.at = time] IN
            Legal(s) /\ status' = s
    BY <1>1 DEF Handoff
  <2>2. \A a, b \in Int : Min({a, b}) \in Int
    <3> TAKE a, b \in Int
    <3>1. \E x \in {a, b} : \A y \in {a, b} : x <= y
      OBVIOUS
    <3> QED
      BY <3>1 DEF Min
  <2>3. time \in Int
    <3>1. status.at \in Int /\ MaxHandoffs \in Int
      BY ReviewBounds DEF Statuses
    <3>2. status.at + 1 \in Int
      BY <3>1
    <3>3. Min({status.at + 1, MaxHandoffs}) \in Int
      BY <2>2, <3>1, <3>2
    <3> QED
      BY <2>1, <3>1, <3>3
  <2>4. status' \in Statuses /\ Legal(status)'
    BY <2>1, <2>3 DEF Statuses, States, Legal
  <2> QED
    BY <1>1, <2>4, ReturnTyped, TypedParts DEF Handoff, files, Formed
<1>2. CASE ReserveAutomated
  <2> DEFINE n == status.count + 1
  <2>1. /\ In("run") /\ HasNext /\ UNCHANGED <<manual, status, files>>
        /\ n \in Attempts /\ n \in Numbers /\ n \in Places
    BY <1>2, NumbersTyped DEF ReserveAutomated
  <2>2. ~call.undo.on
    BY <2>1 DEF Placed, Finalizing, In
  <2>3. ASSUME NEW p, p \in Phases, p.kind = "automated", p \in phases',
               call' = [call EXCEPT !.pc = "submit", !.phase = p],
               phases' \subseteq Phases, Formed'
        PROVE  Typed'
    <3>1. /\ call' \in Calls /\ call'.pc = "submit" /\ call'.undo = call.undo
          /\ call'.phase = p
      BY <2>3 DEF Calls, Pcs
    <3>2. Placed'
      BY <2>2, <2>3, <3>1 DEF Placed, Finalizing, In, Of
    <3> QED
      BY <2>1, <2>3, <3>1, <3>2, TypedParts DEF files
  <2>4. CASE Due(n) = {}
    <3> DEFINE p == [NoPhase EXCEPT !.kind = "automated", !.seq = n, !.op = call.op,
                                    !.prior = status, !.target = Submitting(n)]
    <3>1. phases' = phases \cup {p} /\ call' = [call EXCEPT !.pc = "submit", !.phase = p]
      BY <1>2, <2>4 DEF ReserveAutomated
    <3>2. Submitting(n) \in Statuses
      BY <2>1, NumbersTyped DEF Submitting, Statuses, States
    <3>3. p \in Phases /\ p.kind = "automated" /\ p.seq = n
      BY <2>1, <3>2, IdleTyped DEF Phases, Calls
    <3> HIDE DEF p, n
    <3>4. Formed'
      BY <2>1, <3>1, <3>3 DEF Formed
    <3> QED
      BY <2>3, <3>1, <3>3, <3>4
  <2>5. CASE Due(n) # {}
    <3>1. PICK p \in Due(n) : /\ UNCHANGED phases
                              /\ call' = [call EXCEPT !.pc = "submit", !.phase = p]
      BY <1>2, <2>5 DEF ReserveAutomated
    <3> QED
      BY <2>3, <3>1 DEF Due, At, Of, Formed
  <2> QED
    BY <2>4, <2>5
<1>3. CASE Submit
  <2>1. /\ In("submit") /\ call.phase \in Phases /\ call.phase \in Of("automated")
        /\ UNCHANGED <<manual, files, phases>> /\ ~call.undo.on
    BY <1>3 DEF Submit, Placed, Finalizing, In, Of
  <2>2. status' \in Statuses /\ Legal(status)'
    BY <1>3, <2>1 DEF Submit, Phases, Legal
  <2>3. /\ call' \in Calls /\ call'.pc \in {"review", "claim"} /\ call'.phase = call.phase
        /\ call'.undo = call.undo
    BY <1>3, GotoTyped DEF Submit, Pcs
  <2>4. Placed'
    BY <2>1, <2>3 DEF Placed, Finalizing, In, Of
  <2> QED
    BY <2>1, <2>2, <2>3, <2>4, TypedParts DEF files, Formed
<1>4. In("review") => /\ call.phase \in Phases /\ call.phase.seq \in Attempts /\ ~call.undo.on
                      /\ call.phase \in Of("automated")
  BY DEF Placed, Finalizing, In, Of, Formed
<1>5. In("review") /\ call' = AtHand => call' \in Calls /\ Placed'
  <2> SUFFICES ASSUME In("review"), call' = AtHand
               PROVE  call' \in Calls /\ Placed'
    OBVIOUS
  <2>1. /\ call' \in Calls /\ call'.pc = "bind" /\ call'.path \in Responses
        /\ call'.undo = call.undo
    BY <1>4 DEF AtHand, Planned, Calls, Pcs
  <2> QED
    BY <1>4, <2>1 DEF Placed, Finalizing, In
<1>6. CASE FindText
  BY <1>5, <1>6, OnlyCall DEF FindText
<1>7. CASE Review
  <2>1. response' \in [Responses -> {"none", "empty", "good", "bad"}]
    BY <1>7 DEF Review
  <2> QED
    BY <1>5, <1>7, <2>1, TypedParts DEF Review, Formed
<1>8. CASE TransportFails
  <2>1. In("review") /\ UNCHANGED <<manual, status, files>> /\ Planned \in Attempts
        /\ Finalize(Planned, "none", "transport_failed", Ended("transport_failed", Planned), "idle")
    BY <1>4, <1>8 DEF TransportFails, Planned
  <2>2. Ended("transport_failed", Planned) \in Statuses
    BY <2>1, EndedTyped, NumbersTyped DEF States, Failed
  <2>3. phases' \subseteq Phases /\ Formed' /\ call' \in Calls /\ Placed'
    BY <2>1, <2>2, FinalizeTyped DEF Finalizing, In, Records, Final, Failed, Nexts
  <2> QED
    BY <2>1, <2>3, TypedParts DEF files
<1>9. CASE Bind
  <2>1. /\ In("bind") /\ call.path \in Responses /\ status' = [status EXCEPT !.reviewer = call.path]
        /\ UNCHANGED <<manual, files, phases>> /\ ~call.undo.on
    BY <1>9 DEF Bind, Placed, Finalizing, In
  <2>2. status' \in Statuses /\ Legal(status)'
    BY <2>1 DEF Statuses, Legal
  <2>3. CASE call.kind = "run"
    BY <1>9, <2>1, <2>2, <2>3, ReturnTyped, TypedParts DEF Bind, files, Formed
  <2>4. CASE call.kind # "run"
    <3>1. /\ call' \in Calls /\ call'.pc = "judge" /\ call'.path = call.path
          /\ call'.undo = call.undo
      BY <1>9, <2>4, GotoTyped DEF Bind, Pcs
    <3>2. Placed'
      BY <2>1, <3>1 DEF Placed, Finalizing, In
    <3> QED
      BY <2>1, <2>2, <3>1, <3>2, TypedParts DEF files, Formed
  <2> QED
    BY <2>3, <2>4
<1> QED
  BY <1>1, <1>2, <1>3, <1>6, <1>7, <1>8, <1>9 DEF Run

\* The steps of ingest_review_result.
LEMMA IngestTyped ==
    ASSUME Typed, Ingest
    PROVE  Typed'
<1> USE Parts, ResponsesTyped, NumbersTyped
<1>1. In("ingest") \/ In("claim") \/ In("read") \/ In("judge") \/ In("claimed") \/ In("accept")
  BY DEF Ingest, AdoptReservation, AdoptClaim, ResumeClaim, ReadReserved, ReadBound,
         ReadAutomated, ReadInline, Reject, Claim, ClaimAgain, WriteClaim, Derive, Accept
<1>2. ~call.undo.on /\ ~Finalizing
  BY <1>1 DEF Placed, Finalizing, In
<1>3. ASSUME NEW pc \in {"claim", "read"}, Goto(pc)
      PROVE  call' \in Calls /\ Placed'
  <2>1. call' \in Calls /\ call'.pc = pc /\ call'.undo = call.undo
    BY <1>3, GotoTyped DEF Pcs
  <2> QED
    BY <1>2, <2>1 DEF Placed, Finalizing, In
<1>4. ASSUME NEW k \in Responses, NEW pc \in {"judge", "bind"},
             call' = [Read(k) EXCEPT !.pc = pc]
      PROVE  call' \in Calls /\ Placed'
  <2>1. call' \in Calls /\ call'.pc = pc /\ call'.undo = call.undo /\ call'.path = k
    BY <1>4 DEF Read, Calls, Pcs
  <2> QED
    BY <1>2, <2>1 DEF Placed, Finalizing, In
<1>5. \A k : Read(k) = [Read(k) EXCEPT !.pc = "judge"]
  BY DEF Read, Calls
<1>6. ASSUME NEW p \in Of("ingest")', phases' \subseteq Phases,
             call' = [call EXCEPT !.pc = "claimed", !.phase = p]
      PROVE  call' \in Calls /\ Placed'
  <2>1. /\ call' \in Calls /\ call'.pc = "claimed" /\ call'.undo = call.undo
        /\ call'.phase = p
    BY <1>6 DEF Calls, Pcs, Of
  <2> QED
    BY <1>2, <1>6, <2>1 DEF Placed, Finalizing, In
<1>7. CASE AdoptReservation
  <2> DEFINE due == IF status.st = "ingested" THEN {} ELSE Due(status.count + 1)
  <2>1. /\ UNCHANGED <<manual, status, files, phases>>
        /\ \/ Goto("claim")
           \/ \E p \in due : call' = [call EXCEPT !.pc = "submit", !.phase = p]
    BY <1>7 DEF AdoptReservation
  <2>2. CASE Goto("claim")
    BY <1>3, <2>1, <2>2, OnlyCall
  <2>3. CASE \E p \in due : call' = [call EXCEPT !.pc = "submit", !.phase = p]
    <3>1. PICK p \in Of("automated") : call' = [call EXCEPT !.pc = "submit", !.phase = p]
      BY <2>3 DEF Due, At
    <3>2. /\ call' \in Calls /\ call'.pc = "submit" /\ call'.undo = call.undo
          /\ call'.phase = p
      BY <3>1 DEF Calls, Pcs, Of
    <3>3. Placed'
      BY <1>2, <2>1, <3>2 DEF Placed, Finalizing, In, Of
    <3> QED
      BY <2>1, <3>2, <3>3, OnlyCall
  <2> QED
    BY <2>1, <2>2, <2>3
<1>8. CASE AdoptClaim
  <2>1. status' \in Statuses /\ Legal(status)'
    <3>1. CASE status.st = "ingesting" \/ Of("ingest") = {}
      BY <1>8, <3>1 DEF AdoptClaim, Legal
    <3>2. CASE ~(status.st = "ingesting" \/ Of("ingest") = {})
      <4>1. PICK p \in Of("ingest") : Legal(p.target) /\ status' = p.target
        BY <1>8, <3>2 DEF AdoptClaim
      <4> QED
        BY <4>1 DEF Of, Phases, Legal
    <3> QED
      BY <3>1, <3>2
  <2>2. Goto("read") /\ UNCHANGED <<manual, files, phases>>
    BY <1>8 DEF AdoptClaim
  <2> QED
    BY <1>3, <2>1, <2>2, TypedParts DEF files, Formed
<1>9. CASE ResumeClaim
  <2>1. status.claim \in Responses
    BY <1>9 DEF ResumeClaim, Statuses
  <2> QED
    BY <1>4, <1>5, <1>9, <2>1, OnlyCall DEF ResumeClaim
<1>10. CASE ReadReserved
  <2>1. call.path \in Responses
    BY <1>10 DEF ReadReserved, Calls
  <2> QED
    BY <1>4, <1>5, <1>10, <2>1, OnlyCall DEF ReadReserved
<1>11. CASE ReadBound
  <2>1. status.reviewer \in Responses
    BY <1>11 DEF ReadBound, Statuses
  <2> QED
    BY <1>4, <1>5, <1>11, <2>1, OnlyCall DEF ReadBound
<1>12. CASE ReadAutomated
  <2>1. status.pend \in Responses
    BY <1>12 DEF ReadAutomated, Automated
  <2>2. Content \in {"none", "empty", "good", "bad"}
    BY DEF Content, Calls
  <2>3. response' \in [Responses -> {"none", "empty", "good", "bad"}]
    BY <1>12, <2>1, <2>2 DEF ReadAutomated
  <2>4. call' \in Calls /\ Placed'
    BY <1>4, <1>12, <2>1 DEF ReadAutomated
  <2> QED
    BY <1>12, <2>3, <2>4, TypedParts DEF ReadAutomated, Formed
<1>13. CASE ReadInline
  <2>1. call.text \in {"none", "empty", "good", "bad"}
    BY DEF Calls
  <2>2. response' \in [Responses -> {"none", "empty", "good", "bad"}]
    BY <1>13, <2>1 DEF ReadInline
  <2>3. NextResponse \in Responses /\ call' = Read(NextResponse)
    BY <1>13 DEF ReadInline
  <2>4. call' \in Calls /\ Placed'
    BY <1>4, <1>5, <2>3
  <2> QED
    BY <1>13, <2>2, <2>4, TypedParts DEF ReadInline, Formed
<1>14. CASE Reject
  <2> DEFINE n == FailedAttempt
             t == [Ended("review_failed", n) EXCEPT !.claim = 0, !.mode = "none"]
  <2>1. n \in Attempts /\ n \in Numbers
    BY <1>14 DEF Reject, FailedAttempt, Reserved, Legal, Attempts, Numbers, Statuses
  <2>2. Ended("review_failed", n) \in Statuses
    BY <2>1, EndedTyped DEF States, Failed
  <2>3. Ended("review_failed", n).st = "review_failed"
    BY DEF Ended, Statuses
  <2>4. t \in Statuses
    <3> HIDE DEF n
    <3> QED
      BY <2>2, <2>3 DEF Statuses
  <2>5. /\ UNCHANGED <<manual, status, files>>
        /\ Finalize(n, IF Reserved THEN "reserved" ELSE "none", "review_failed", t, "idle")
    BY <1>14 DEF Reject
  <2>6. (IF Reserved THEN "reserved" ELSE "none") \in Records /\ "review_failed" \in Records
    BY DEF Records, Final, Failed
  <2> HIDE DEF n, t
  <2>7. phases' \subseteq Phases /\ Formed' /\ call' \in Calls /\ Placed'
    BY <1>2, <2>1, <2>4, <2>5, <2>6, FinalizeTyped DEF Nexts
  <2> QED
    BY <2>5, <2>7, TypedParts DEF files
<1>15. CASE Claim
  <2> DEFINE t == [status EXCEPT !.st = "ingesting", !.claim = call.path, !.mode = Mode]
             p == [NoPhase EXCEPT !.kind = "ingest", !.seq = call.path, !.op = call.op,
                                  !.prior = status, !.target = t]
  <2>1. /\ In("judge") /\ UNCHANGED <<manual, status, files>> /\ phases' = phases \cup {p}
        /\ call' = [call EXCEPT !.pc = "claimed", !.phase = p]
    BY <1>15 DEF Claim
  <2>2. call.path \in Responses
    BY <2>1 DEF Placed
  <2>3. t \in Statuses /\ t.st = "ingesting"
    BY <2>2 DEF Mode, Statuses, States
  <2>4. p \in Phases /\ p.kind = "ingest" /\ p.target.st = "ingesting"
    <3>1. call.op \in Int
      BY DEF Calls
    <3> HIDE DEF t
    <3> QED
      BY <2>2, <2>3, <3>1, IdleTyped DEF Phases
  <2> HIDE DEF p
  <2>5. phases' \subseteq Phases /\ Formed' /\ p \in Of("ingest")'
    BY <2>1, <2>4 DEF Formed, Of
  <2> QED
    BY <1>6, <2>1, <2>5, TypedParts DEF files
<1>16. CASE ClaimAgain
  <2>1. PICK p \in Of("ingest") : call' = [call EXCEPT !.pc = "claimed", !.phase = p]
    BY <1>16 DEF ClaimAgain, At
  <2>2. UNCHANGED <<manual, status, files, phases>> /\ p \in Of("ingest")'
    BY <1>16 DEF ClaimAgain, Of
  <2> QED
    BY <1>6, <2>1, <2>2, OnlyCall
<1>17. In("claimed") => /\ call.phase \in Phases /\ call.phase.kind = "ingest"
                        /\ call.phase \in phases /\ call.phase.target.st = "ingesting"
  BY DEF Placed, Of, Formed
<1>18. CASE WriteClaim
  <2>1. status' \in Statuses /\ Legal(status)'
    BY <1>17, <1>18 DEF WriteClaim, Phases, Legal
  <2>2. Placed'
    BY <1>17, <1>18, <1>2 DEF WriteClaim, Placed, Finalizing, In, Of
  <2> QED
    BY <1>18, <2>1, <2>2, TypedParts DEF WriteClaim, files, Formed
<1>19. CASE Derive
  <2>1. In("claimed") /\ status.st = "ingesting" /\ status.claim \in Responses
    BY <1>17, <1>19 DEF Derive, Statuses
  <2>2. evidence' \in [Responses -> {"none", "files", "bound"}]
    BY <1>19 DEF Derive
  <2>3. PICK pc \in {"accept", "claimed"} : Goto(pc)
    BY <1>19 DEF Derive
  <2>4. /\ call' \in Calls /\ call'.pc = pc /\ call'.undo = call.undo
        /\ call'.phase = call.phase
    BY <2>3, GotoTyped DEF Pcs
  <2>5. Placed'
    BY <1>2, <1>17, <1>19, <2>1, <2>4 DEF Derive, Placed, Finalizing, In, Of
  <2> QED
    BY <1>19, <2>2, <2>4, <2>5, TypedParts DEF Derive, Formed
<1>20. CASE Accept
  <2>1. /\ status.st = "ingesting" /\ status.claim \in Responses /\ UNCHANGED <<manual, files>>
        /\ status.mode \in {"automated", "browser_reserved", "untracked"}
    BY <1>20 DEF Accept, Placed, Statuses
  <2>2. CASE status.mode = "untracked"
    <3>1. status' = [status EXCEPT !.st = "ingested"] /\ Return /\ UNCHANGED phases
      BY <1>20, <2>2 DEF Accept
    <3>2. status' \in Statuses /\ Legal(status)'
      BY <2>1, <2>2, <3>1 DEF Statuses, States, Legal, Failed
    <3> QED
      BY <2>1, <3>1, <3>2, ReturnTyped, TypedParts DEF files, Formed
  <2>3. ASSUME NEW n \in Attempts, NEW from \in Records, UNCHANGED status,
               Finalize(n, from, "ingested", Ended("ingested", n), "idle")
        PROVE  Typed'
    <3>1. Ended("ingested", n) \in Statuses
      BY <2>1, EndedTyped DEF States
    <3>2. phases' \subseteq Phases /\ Formed' /\ call' \in Calls /\ Placed'
      BY <1>2, <2>3, <3>1, FinalizeTyped DEF Records, Final, Nexts
    <3> QED
      BY <2>1, <2>3, <3>2, TypedParts DEF files
  <2>4. CASE status.mode = "browser_reserved"
    <3>1. status.count \in Attempts
      BY <2>1, <2>4 DEF Legal, Attempts, Numbers, Statuses
    <3>2. /\ UNCHANGED status
          /\ Finalize(status.count, "reserved", "ingested", Ended("ingested", status.count), "idle")
      BY <1>20, <2>4 DEF Accept
    <3> QED
      BY <2>3, <3>1, <3>2 DEF Records
  <2>5. CASE status.mode = "automated"
    <3>1. status.pend \in Attempts
      BY <2>1, <2>5 DEF Legal
    <3>2. /\ UNCHANGED status
          /\ Finalize(status.pend, "none", "ingested", Ended("ingested", status.pend), "idle")
      BY <1>20, <2>5 DEF Accept
    <3> QED
      BY <2>3, <3>1, <3>2 DEF Records
  <2> QED
    BY <2>1, <2>2, <2>4, <2>5
<1> QED
  BY <1>7, <1>8, <1>9, <1>10, <1>11, <1>12, <1>13, <1>14, <1>15, <1>16, <1>18, <1>19, <1>20
     DEF Ingest

\* A caller that takes the lock.
LEMMA EnterTyped ==
    ASSUME Typed, Enter
    PROVE  /\ Typed' /\ call'.pc \in Nexts \cup {"terminal"}
           /\ UNCHANGED <<manual, status, files, phases>>
<1> USE Parts, ResponsesTyped
<1>1. PICK kind \in {"start", "handoff", "run", "ingest"}, op \in Ops, k \in Places,
           text \in {"none", "good", "bad"} : Call(kind, op, k, text)
  BY DEF Enter
<1> DEFINE new == [Idle EXCEPT !.kind = kind, !.op = op, !.path = k, !.text = text]
<1>2. Reconciled(new) /\ UNCHANGED <<manual, status, files, phases>>
  BY <1>1 DEF Call
<1>3. op \in Int
  BY DEF Ops
<1>4. /\ new \in Calls /\ new.kind = kind /\ new.undo = Idle.undo
      /\ AfterTerminal(new.kind) \in Nexts \cap Pcs
  BY <1>3, IdleTyped DEF Calls, AfterTerminal, Nexts, Pcs
<1> HIDE DEF new
<1>5. CASE Open
  <2> DEFINE p == Latest("terminal")
  <2>1. p \in Of("terminal") /\ p \in Phases
    BY <1>5, LatestExists DEF Open, Of
  <2>2. call' = [new EXCEPT !.pc = "terminal", !.phase = p, !.settled = TRUE,
                            !.next = AfterTerminal(new.kind)]
    BY <1>2, <1>5 DEF Reconciled
  <2> HIDE DEF p
  <2>3. /\ call' \in Calls /\ call'.pc = "terminal" /\ call'.phase = p
        /\ call'.undo = Idle.undo
    BY <1>4, <2>1, <2>2 DEF Calls, Pcs
  <2>4. Placed'
    BY <1>2, <2>1, <2>3, IdleTyped DEF Placed, Finalizing, In, Of
  <2> QED
    BY <1>2, <2>3, <2>4, OnlyCall
<1>6. CASE ~Open
  <2>1. call' = [new EXCEPT !.pc = AfterTerminal(new.kind)]
    BY <1>2, <1>6 DEF Reconciled
  <2>2. call' \in Calls /\ call'.pc \in Nexts /\ call'.undo = Idle.undo
    BY <1>4, <2>1 DEF Calls
  <2>3. Placed'
    BY <2>2, IdleTyped DEF Placed, Finalizing, In, Nexts
  <2> QED
    BY <1>2, <2>2, <2>3, OnlyCall
<1> QED
  BY <1>5, <1>6

\* A call that ends by an exception.
LEMMA UndoTyped ==
    ASSUME Typed, Undo
    PROVE  Typed' /\ call'.pc = "idle" /\ phases' = phases
<1> USE Parts
<1>1. call' \in Calls /\ call'.pc = "idle" /\ Placed'
  BY ReturnTyped DEF Undo
<1>2. UNCHANGED <<manual, rows, response, evidence, phases>>
  BY DEF Undo
<1>3. CASE call.undo.on
  <2>1. call.phase.seq \in Attempts /\ Legal(call.undo.status) /\ call.undo \in Undos
    BY <1>3 DEF Placed, Formed, Of, Calls
  <2>2. /\ attempt' = [attempt EXCEPT ![call.phase.seq] = call.undo.attempt]
        /\ \E r \in {"none", "row"} : receipt' = [receipt EXCEPT ![call.phase.seq] = r]
        /\ status' = call.undo.status
    BY <1>3 DEF Undo
  <2>3. status' \in Statuses /\ Legal(status)' /\ attempt' \in [Attempts -> Records]
    BY <2>1, <2>2 DEF Undos, Legal
  <2>4. receipt' \in [Attempts -> {"none", "file", "row", "bound"}]
    BY <2>1, <2>2
  <2> QED
    BY <1>1, <1>2, <2>3, <2>4, TypedParts DEF Formed
<1>4. CASE ~call.undo.on
  BY <1>1, <1>2, <1>4, TypedParts DEF Undo, Formed, Legal
<1> QED
  BY <1>3, <1>4

\* How a step can go on: no disjunct of Next is anything else.
LEMMA NextCases ==
    ASSUME Next
    PROVE  \/ Enter \/ Answer \/ Terminal \/ Start \/ Run \/ Ingest \/ Undo
           \/ Return /\ UNCHANGED <<manual, status, files, phases>>
<1>1. CASE Raise
  BY <1>1 DEF Raise
<1>2. CASE ~Raise
  BY <1>2 DEF Next, Step, Fail, Die
<1> QED
  BY <1>1, <1>2

LEMMA TypedNext ==
    ASSUME Typed, [Next]_vars
    PROVE  Typed'
<1>1. CASE Answer
  <2>1. response' \in [Responses -> {"none", "empty", "good", "bad"}]
    BY <1>1, Parts DEF Answer
  <2> QED
    BY <1>1, <2>1, Parts, TypedParts DEF Answer, Formed, Placed, Finalizing, In, Of, Legal
<1>2. CASE Return /\ UNCHANGED <<manual, status, files, phases>>
  BY <1>2, ReturnTyped, OnlyCall
<1>3. CASE UNCHANGED vars
  BY <1>3, OnlyCall, Parts DEF vars, files, Placed, Finalizing, In, Of
<1>4. CASE Next
  BY <1>1, <1>2, <1>4, NextCases, EnterTyped, TerminalTyped, StartTyped, RunTyped, IngestTyped,
     UndoTyped
<1> QED
  BY <1>3, <1>4

LEMMA TypedInit ==
    ASSUME Init
    PROVE  Typed
<1>1. status \in Statuses /\ Legal(status) /\ call \in Calls /\ ~call.undo.on /\ call.pc = "idle"
  BY IdleTyped DEF Init
<1>2. Formed /\ Placed /\ phases = {}
  BY <1>1 DEF Init, Formed, Placed, Finalizing, In
<1> QED
  BY <1>1, <1>2 DEF Init, Typed, TypeOK
-----------------------------------------------------------------------------
(* One claim.                                                               *)

\* A claim that the catalog has is applied to the status before any answer is read,
\* and only a run asks the transport.
Guarded ==
    /\ In("read") \/ In("judge") \/ (In("bind") /\ call.kind # "run") =>
           status.st = "ingesting" \/ Of("ingest") = {}
    /\ In("review") => call.kind = "run"

OneIngest == \A p, q \in Of("ingest") : p = q
OneReservation == \A p, q \in Of("reservation") : p.op = q.op => p = q

IInv == Typed /\ Guarded /\ OneIngest /\ OneReservation

\* A new phase is a phase of its own kind only.
LEMMA NewPhase ==
    ASSUME NEW p, phases' = phases \cup {p}
    PROVE  \A kind : p.kind # kind => Of(kind)' = Of(kind)
  BY DEF Of

LEMMA FinalizeOf ==
    ASSUME NEW n, NEW from, NEW to, NEW target, NEW next, Finalize(n, from, to, target, next)
    PROVE  \A kind : kind # "terminal" => Of(kind)' = Of(kind)
<1> DEFINE p == [kind |-> "terminal", seq |-> n, op |-> call.op, prior |-> status,
                 target |-> target, from |-> from, to |-> to]
<1>1. p.kind = "terminal"
  OBVIOUS
<1>2. phases' = phases \/ phases' = phases \cup {p}
  BY DEF Finalize
<1> HIDE DEF p
<1>3. CASE phases' = phases
  BY <1>3 DEF Of
<1> QED
  BY <1>1, <1>2, <1>3, NewPhase

\* Claims are made by Claim alone, reservations by Reserve alone.
LEMMA NewPhases ==
    ASSUME Typed, [Next]_vars
    PROVE  /\ Of("ingest")' = Of("ingest") \/ Claim
           /\ Of("reservation")' = Of("reservation") \/ Reserve
<1> USE Parts, ResponsesTyped, NumbersTyped
<1>1. CASE phases' = phases
  BY <1>1 DEF Of
<1>2. ASSUME \E n, from, to, target, next : Finalize(n, from, to, target, next)
      PROVE  Of("ingest")' = Of("ingest") /\ Of("reservation")' = Of("reservation")
  BY <1>2, FinalizeOf
<1>3. CASE Terminal
  BY <1>1, <1>3 DEF Terminal, WriteAttempt, WriteReceipt, WriteTerminalStatus, BindReceipt,
         Confirm
<1>4. CASE Start
  <2>1. CASE Supersede
    BY <1>2, <2>1 DEF Supersede
  <2>2. CASE Reserve
    <3>1. phases' = phases \cup {ReservationPhase} /\ ReservationPhase.kind = "reservation"
      BY <2>2 DEF Reserve, ReservationPhase, NoPhase
    <3> QED
      BY <2>2, <3>1, NewPhase
  <2> QED
    BY <1>1, <1>4, <2>1, <2>2 DEF Start, ReconcileReservation, StartAgain, ReserveResponse,
       ReserveAttempt, ReserveStatus, ReserveRows
<1>5. CASE Run
  <2>1. CASE TransportFails
    BY <1>2, <2>1 DEF TransportFails
  <2>2. CASE ReserveAutomated
    <3>1. CASE Due(status.count + 1) = {}
      <4> DEFINE n == status.count + 1
                 p == [NoPhase EXCEPT !.kind = "automated", !.seq = n, !.op = call.op,
                                      !.prior = status, !.target = Submitting(n)]
      <4>1. phases' = phases \cup {p}
        BY <2>2, <3>1 DEF ReserveAutomated
      <4>2. p.kind = "automated"
        BY DEF NoPhase
      <4> HIDE DEF p
      <4> QED
        BY <4>1, <4>2, NewPhase
    <3> QED
      BY <1>1, <2>2, <3>1 DEF ReserveAutomated
  <2> QED
    BY <1>1, <1>5, <2>1, <2>2 DEF Run, Handoff, Submit, FindText, Review, Bind
<1>6. CASE Ingest
  <2>1. CASE Reject
    BY <1>2, <2>1 DEF Reject
  <2>2. CASE Accept
    <3>1. status.mode \in {"automated", "browser_reserved", "untracked"}
      BY <2>2 DEF Accept, Placed, Statuses
    <3>2. phases' = phases \/ \E n, from, to, target, next : Finalize(n, from, to, target, next)
      BY <2>2, <3>1 DEF Accept
    <3> QED
      BY <1>1, <1>2, <3>2
  <2>3. CASE Claim
    <3> DEFINE p == [NoPhase EXCEPT !.kind = "ingest", !.seq = call.path, !.op = call.op,
                                    !.prior = status,
                                    !.target = [status EXCEPT !.st = "ingesting",
                                                              !.claim = call.path,
                                                              !.mode = Mode]]
    <3>1. phases' = phases \cup {p}
      BY <2>3 DEF Claim
    <3>2. p.kind = "ingest"
      BY DEF NoPhase
    <3> HIDE DEF p
    <3> QED
      BY <2>3, <3>1, <3>2, NewPhase
  <2> QED
    BY <1>1, <1>6, <2>1, <2>2, <2>3 DEF Ingest, AdoptReservation, AdoptClaim, ResumeClaim,
       ReadReserved, ReadBound, ReadAutomated, ReadInline, ClaimAgain, WriteClaim, Derive
<1> QED
  BY <1>1, <1>3, <1>4, <1>5, <1>6, NextCases, EnterTyped, UndoTyped DEF Answer, vars

\* Places where Guarded says nothing.
LEMMA Unguarded ==
    ASSUME call'.pc \notin {"read", "judge", "bind", "review"}
    PROVE  Guarded'
  BY DEF Guarded, In

\* A claim is made once no other is there, and an answer is judged with none to come.
LEMMA GuardedNext ==
    ASSUME IInv, [Next]_vars
    PROVE  Guarded'
<1> USE Parts, ResponsesTyped, NumbersTyped DEF IInv
<1>1. ASSUME \E n, from, to, target, next : Finalize(n, from, to, target, next)
      PROVE  Guarded'
  <2>1. PICK n, from, to, target, next : Finalize(n, from, to, target, next)
    BY <1>1
  <2>2. call \in Calls
    BY DEF Typed
  <2>3. \E ph, un : \E pc \in {"terminal", "sealed"} :
            \/ call' = [call EXCEPT !.next = next, !.phase = ph, !.pc = pc]
            \/ call' = [call EXCEPT !.pc = pc, !.next = next, !.phase = ph, !.undo = un]
    <3>1. CASE At("terminal", n) = {}
      <4>1. \E ph, un :
                call' = [call EXCEPT !.pc = "terminal", !.next = next, !.phase = ph, !.undo = un]
        BY <2>1, <3>1 DEF Finalize
      <4> QED
        BY <4>1
    <3>2. CASE At("terminal", n) # {}
      <4>1. \E ph : \E pc \in {"terminal", "sealed"} :
                call' = [call EXCEPT !.next = next, !.phase = ph, !.pc = pc]
        BY <2>1, <3>2 DEF Finalize
      <4> QED
        BY <4>1
    <3> QED
      BY <3>1, <3>2
  <2>4. call'.pc \in {"terminal", "sealed"}
    BY <2>2, <2>3 DEF Calls
  <2> QED
    BY <2>4, Unguarded
<1>2. CASE UNCHANGED <<status, phases, call>>
  BY <1>2 DEF Guarded, In, Of
<1>3. ASSUME NEW pc \in {"choose", "submit", "claim", "ingest", "claimed", "accept"}, Goto(pc)
      PROVE  Guarded'
  BY <1>3, GotoTyped, Unguarded DEF Pcs
<1>4. ASSUME call'.pc \in Nexts \cup {"terminal"} PROVE Guarded'
  BY <1>4, Unguarded DEF Nexts
<1>5. ASSUME Return PROVE Guarded'
  BY <1>5, ReturnTyped, Unguarded
<1>6. CASE Terminal
  <2>1. CASE BindReceipt
    BY <2>1, GotoTyped, Unguarded DEF BindReceipt, Pcs
  <2>3. CASE Confirm
    <3>1. call'.pc \in Nexts
      BY <2>3, IdleTyped DEF Confirm, Calls, Nexts
    <3> QED
      BY <1>4, <3>1
  <2>2. CASE WriteTerminalStatus
    BY <2>2, Unguarded DEF WriteTerminalStatus, AttemptWritten, In
  <2> QED
    BY <1>2, <1>6, <2>1, <2>2, <2>3 DEF Terminal, WriteAttempt, WriteReceipt
<1>7. CASE Start
  <2>1. In("reservation") \/ In("choose") \/ In("reserve")
    BY <1>7 DEF Start, ReconcileReservation, StartAgain, Supersede, Reserve, ReserveResponse,
       ReserveAttempt, ReserveStatus, ReserveRows
  <2>2. CASE Supersede
    BY <1>1, <2>2 DEF Supersede
  <2>3. CASE ~Supersede
    <3>1. \/ call' = call \/ Return \/ Goto("choose") \/ Goto(call.next)
          \/ \E p, next : call' = [call EXCEPT !.pc = "reserve", !.phase = p, !.next = next]
      BY <1>7, <2>3 DEF Start, ReconcileReservation, StartAgain, Reserve, ReserveResponse,
         ReserveAttempt, ReserveStatus, ReserveRows
    <3>2. call'.pc \in Nexts \cup {"reservation", "reserve"}
      <4>1. CASE call' = call
        BY <2>1, <4>1 DEF In, Nexts
      <4>2. CASE Return
        BY <4>2, ReturnTyped DEF Nexts
      <4>3. CASE Goto("choose") \/ Goto(call.next)
        BY <4>3 DEF Goto, Calls, Nexts
      <4>4. CASE \E p, next : call' = [call EXCEPT !.pc = "reserve", !.phase = p, !.next = next]
        BY <4>4 DEF Calls
      <4> QED
        BY <3>1, <4>1, <4>2, <4>3, <4>4
    <3> QED
      BY <3>2, Unguarded DEF Nexts
  <2> QED
    BY <2>2, <2>3
<1>8. CASE Run
  <2>1. CASE TransportFails
    BY <1>1, <2>1 DEF TransportFails
  <2>2. CASE Handoff
    BY <1>5, <2>2 DEF Handoff
  <2>3. CASE ReserveAutomated
    <3>1. \E p : call' = [call EXCEPT !.pc = "submit", !.phase = p]
      BY <2>3 DEF ReserveAutomated
    <3> QED
      BY <3>1, Unguarded DEF Calls
  <2>4. CASE Submit
    <3>1. CASE call.kind = "run"
      BY <2>4, <3>1, GotoTyped DEF Submit, Guarded, In, Pcs
    <3>2. CASE call.kind # "run"
      BY <1>3, <2>4, <3>2 DEF Submit
    <3> QED
      BY <3>1, <3>2
  <2>5. CASE FindText \/ Review
    <3>1. call' = AtHand /\ In("review")
      BY <2>5 DEF FindText, Review
    <3>2. call'.pc = "bind" /\ call'.kind = "run"
      BY <3>1 DEF AtHand, Calls, Guarded
    <3> QED
      BY <3>2 DEF Guarded, In
  <2>6. CASE Bind
    <3>1. CASE call.kind = "run"
      BY <1>5, <2>6, <3>1 DEF Bind
    <3>2. CASE call.kind # "run"
      <4>1. Goto("judge") /\ status.st = "submitting" /\ In("bind") /\ phases' = phases
        BY <2>6, <3>2 DEF Bind
      <4>2. Of("ingest") = {} /\ call'.pc = "judge"
        BY <3>2, <4>1, GotoTyped DEF Guarded, Pcs
      <4> QED
        BY <4>1, <4>2 DEF Guarded, In, Of
    <3> QED
      BY <3>1, <3>2
  <2> QED
    BY <1>8, <2>1, <2>2, <2>3, <2>4, <2>5, <2>6 DEF Run
<1>9. CASE Ingest
  <2>1. CASE AdoptReservation
    <3>1. Goto("claim") \/ \E p : call' = [call EXCEPT !.pc = "submit", !.phase = p]
      BY <2>1 DEF AdoptReservation
    <3> QED
      BY <1>3, <3>1, Unguarded DEF Calls
  <2>2. CASE AdoptClaim
    <3>1. Goto("read") /\ phases' = phases
      BY <2>2 DEF AdoptClaim
    <3>2. status'.st = "ingesting" \/ Of("ingest") = {}
      <4>1. CASE status.st = "ingesting" \/ Of("ingest") = {}
        BY <2>2, <4>1 DEF AdoptClaim
      <4>2. CASE ~(status.st = "ingesting" \/ Of("ingest") = {})
        BY <2>2, <4>2 DEF AdoptClaim, Formed, Of
      <4> QED
        BY <4>1, <4>2
    <3>3. call'.pc = "read"
      BY <3>1, GotoTyped DEF Pcs
    <3> QED
      BY <3>1, <3>2, <3>3 DEF Guarded, In, Of
  <2>3. CASE ResumeClaim \/ ReadReserved \/ ReadBound \/ ReadAutomated \/ ReadInline
    <3>1. In("read") /\ UNCHANGED <<status, phases>>
      BY <2>3 DEF ResumeClaim, ReadReserved, ReadBound, ReadAutomated, ReadInline
    <3>2. status.st = "ingesting" \/ Of("ingest") = {}
      BY <3>1 DEF Guarded
    <3>3. \E k : call' = Read(k) \/ call' = [Read(k) EXCEPT !.pc = "bind"]
      BY <2>3 DEF ResumeClaim, ReadReserved, ReadBound, ReadAutomated, ReadInline
    <3>4. call'.pc # "review"
      BY <3>3 DEF Read, Calls
    <3> QED
      BY <3>1, <3>2, <3>4 DEF Guarded, In, Of
  <2>4. CASE Reject
    BY <1>1, <2>4 DEF Reject
  <2>5. CASE Claim \/ ClaimAgain
    <3>1. \E p : call' = [call EXCEPT !.pc = "claimed", !.phase = p]
      BY <2>5 DEF Claim, ClaimAgain
    <3> QED
      BY <3>1, Unguarded DEF Calls
  <2>6. CASE WriteClaim
    BY <2>6, Unguarded DEF WriteClaim, In
  <2>7. CASE Derive
    BY <1>3, <2>7 DEF Derive
  <2>8. CASE Accept
    <3>1. status.mode \in {"automated", "browser_reserved", "untracked"}
      BY <2>8 DEF Accept, Placed, Statuses
    <3>2. Return \/ \E n, from, to, target, next : Finalize(n, from, to, target, next)
      BY <2>8, <3>1 DEF Accept
    <3> QED
      BY <1>1, <1>5, <3>2
  <2> QED
    BY <1>9, <2>1, <2>2, <2>3, <2>4, <2>5, <2>6, <2>7, <2>8 DEF Ingest
<1>10. CASE Undo
  BY <1>5, <1>10 DEF Undo
<1> QED
  BY <1>2, <1>4, <1>5, <1>6, <1>7, <1>8, <1>9, <1>10, NextCases, EnterTyped DEF Answer, vars

LEMMA InvariantNext ==
    ASSUME IInv, [Next]_vars
    PROVE  IInv'
<1>1. Typed' /\ Guarded'
  BY TypedNext, GuardedNext DEF IInv
<1>2. OneIngest'
  <2>1. CASE Of("ingest")' = Of("ingest")
    BY <2>1 DEF IInv, OneIngest
  <2>2. CASE Claim
    <3>1. Of("ingest") = {}
      BY <2>2 DEF Claim, IInv, Guarded
    <3>2. PICK p : phases' = phases \cup {p}
      BY <2>2 DEF Claim
    <3>3. Of("ingest")' \subseteq {p}
      BY <3>1, <3>2 DEF Of
    <3> QED
      BY <3>3 DEF OneIngest
  <2> QED
    BY <2>1, <2>2, NewPhases DEF IInv
<1>3. OneReservation'
  <2>1. CASE Of("reservation")' = Of("reservation")
    BY <2>1 DEF IInv, OneReservation
  <2>2. CASE Reserve
    <3>1. Mine = {} /\ phases' = phases \cup {ReservationPhase}
      BY <2>2 DEF Reserve
    <3>2. ReservationPhase.op = call.op
      BY DEF ReservationPhase, NoPhase
    <3>3. Of("reservation")' \subseteq Of("reservation") \cup {ReservationPhase}
      BY <3>1 DEF Of
    <3>4. \A q \in Of("reservation") : q.op # call.op
      BY <3>1 DEF Mine
    <3> QED
      BY <3>2, <3>3, <3>4 DEF IInv, OneReservation
  <2> QED
    BY <2>1, <2>2, NewPhases DEF IInv
<1> QED
  BY <1>1, <1>2, <1>3 DEF IInv

\* The inductive invariant of the attempts of a review job, whatever calls come, in
\* whatever order, and wherever they die.
THEOREM ReviewInvariance == Spec => []IInv
<1>1. Init => IInv
  <2> SUFFICES ASSUME Init PROVE IInv
    OBVIOUS
  <2>1. phases = {} /\ call.pc = "idle"
    BY IdleTyped DEF Init
  <2> QED
    BY <2>1, TypedInit DEF IInv, Guarded, In, OneIngest, OneReservation, Of
<1>2. IInv /\ [Next]_vars => IInv'
  BY InvariantNext
<1> QED
  BY <1>1, <1>2, PTL DEF Spec

\* Every status that the code writes, in any step of any call and in the undo of any
\* failed one, is one that _write_status accepts.
THEOREM ReviewTypeCorrect == Spec => []TypeOK
<1>1. IInv => TypeOK
  BY DEF IInv, Typed
<1> QED
  BY <1>1, ReviewInvariance, PTL

\* A job never holds two claims of responses, and an operation never two attempts:
\* whoever dies and whoever retries, the claim that the catalog has is applied before
\* another answer is read, and an operation's own reservation is looked up first.
THEOREM OneClaimEver == Spec => []OneClaim
<1>1. IInv => OneClaim
  <2> SUFFICES ASSUME IInv PROVE OneClaim
    OBVIOUS
  <2>1. Cardinality(Of("ingest")) <= 1
    <3>1. CASE Of("ingest") = {}
      BY <3>1, FS_EmptySet
    <3>2. CASE Of("ingest") # {}
      <4>1. PICK p \in Of("ingest") : TRUE
        BY <3>2
      <4>2. Of("ingest") = {p}
        BY <4>1 DEF IInv, OneIngest
      <4> QED
        BY <4>2, FS_Singleton
    <3> QED
      BY <3>1, <3>2
  <2> QED
    BY <2>1 DEF OneClaim, IInv, OneReservation
<1> QED
  BY <1>1, ReviewInvariance, PTL
=============================================================================
