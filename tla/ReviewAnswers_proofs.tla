------------------------ MODULE ReviewAnswers_proofs ------------------------
(***************************************************************************)
(* What a review job accepts and what it seals, for any number of           *)
(* operations, of attempts, of deaths and of handoffs: the proofs of        *)
(* AcceptedAnswersItsAttempt, SealedInOrder, SealedForGood and              *)
(* TakenBackCanBeFinished, which rest on the invariant of                   *)
(* ReviewAttempts_proofs.  And what is frozen behind a replacement, for any *)
(* number of jobs, callers and deaths (QInv): the properties of             *)
(* ReviewQuarantine that MCReview puts beside them.                         *)
(***************************************************************************)
EXTENDS ReviewAttempts_proofs, MCReview

-----------------------------------------------------------------------------
(* What the invariant says of phases.                                       *)

\* An attempt whose receipt is bound for good, with its file and its row, and behind which
\* the status has gone on; as long as the job may still be put back, it is not.
Past(n) == status.count >= n /\ status.cur # n
Bound(n) == Sealed(n) /\ Past(n)
AllRows == \A p \in Of("reservation") : p.seq \in rows

\* A reservation that never got to its status, and never will: a terminal phase
\* that has not been sealed keeps every call from going on, and it will not be
\* sealed before the rows of the reservation are there.
Unsealed == \E t \in Of("terminal") : ~Bound(t.seq)
Dead(p) ==
    /\ p.seq \notin rows
    /\ status # p.target /\ (call.undo.on => call.undo.status # p.target)
    /\ status.count < p.seq \/ Unsealed
Fresh(k) == \A p \in Of("reservation") : p.target.curResp = k => Dead(p)

\* An accepted status, but for the record of its attempt.
Answered(s) ==
    /\ evidence[s.claim] = "bound" /\ response[s.claim] = "good"
    /\ \/ /\ s.mode = "browser_reserved"
          /\ \E p \in At("reservation", s.count) : p.target.curResp = s.claim
       \/ s.mode = "automated" /\ s.claim = s.count /\ At("automated", s.count) # {}
       \/ s.mode = "untracked" /\ \E c \in Of("ingest") : c.target.mode = "untracked"
                                                          /\ c.seq = s.claim

TerminalShape(t) ==
    /\ t.target.count = t.seq /\ t.target.cur = 0 /\ t.to \in Final
    /\ t.target.st \in {"handoff_ready", "review_failed", "transport_failed", "ingested"}
    /\ t.target.st = "ingested" => t.to = "ingested" /\ Answered(t.target)
    /\ t.target.reviewer = t.prior.reviewer
    /\ t.prior.st # "ingested" /\ t.prior.count <= t.seq
    /\ t.prior.count < t.seq \/ t.prior.cur = t.seq

ReservationShape(p) ==
    /\ p.prior.st \notin {"ingesting", "ingested"} /\ p.prior.count + 1 = p.seq
    /\ p.target = [p.prior EXCEPT !.st = "pending_browser_upload", !.count = p.seq,
                                  !.cur = p.seq, !.curResp = p.target.curResp]
    /\ p.target.curResp \in Responses /\ p.target.curResp # p.prior.reviewer

AutomatedShape(p) ==
    /\ p.prior.st \notin {"ingesting", "ingested"}
    /\ p.target = [p.prior EXCEPT !.st = "submitting", !.pend = p.seq, !.reviewer = 0]

ClaimShape(c) ==
    /\ c.seq \in Responses /\ response[c.seq] = "good"
    /\ c.prior.st \notin {"ingesting", "ingested"}
    /\ c.target = [c.prior EXCEPT !.st = "ingesting", !.claim = c.seq, !.mode = c.target.mode]
    /\ \/ /\ c.target.mode = "browser_reserved"
          /\ \E p \in At("reservation", c.target.count) : p.target.curResp = c.seq
       \/ /\ c.target.mode = "automated" /\ c.seq = c.target.pend
          /\ At("automated", c.seq) # {}
       \/ /\ c.target.mode = "untracked" /\ Fresh(c.seq)
          /\ In("reserve") => call.phase.target.curResp # c.seq

Shapes ==
    /\ \A t \in Of("terminal") : TerminalShape(t)
    /\ \A p \in Of("reservation") : ReservationShape(p)
    /\ \A p \in Of("automated") : AutomatedShape(p)
    /\ \A c \in Of("ingest") : ClaimShape(c)

\* Reservations come one after another; the rows of all but the last are there.
InTurn ==
    /\ \A p, q \in Of("reservation") : p.seq = q.seq => p = q
    /\ \A p, q \in Of("reservation") : p.seq < q.seq => p.seq \in rows
    /\ \A n \in rows : n <= status.count /\ (call.undo.on => n <= call.undo.status.count)
    /\ In("reserve") => \A q \in Of("reservation") : q.seq <= call.phase.seq
    /\ In("choose") \/ (Finalizing /\ call.next = "choose") => AllRows
    /\ In("reserve") => call.next \in {"idle", "choose"}

\* A reservation leaves its marks in order: the response, the attempt, the status.
Marked ==
    /\ \A p \in Of("reservation") : response[p.target.curResp] = "none" => Dead(p)
    /\ \A p \in Of("reservation") :
           attempt[p.seq] = "reserved" => response[p.target.curResp] # "none"
    /\ call.undo.on /\ call.undo.attempt = "reserved" =>
           \A p \in At("reservation", call.phase.seq) : response[p.target.curResp] # "none"

-----------------------------------------------------------------------------
(* What it says of statuses.                                                *)

SoundReviewer(s) ==
    s.reviewer # 0 /\ s.st # "ingested" =>
        /\ response[s.reviewer] # "none"
        /\ s.pend # 0 => s.reviewer = s.pend
        /\ s.pend = 0 => response[s.reviewer] # "good"
SoundCur(s) ==
    s.cur # 0 => /\ s.curResp \in Responses /\ s.reviewer # s.curResp
                 /\ \E p \in At("reservation", s.cur) : p.target.curResp = s.curResp
SoundPend(s) == s.pend # 0 => At("automated", s.pend) # {}
SoundClaim(s) == s.st = "ingesting" => \E c \in Of("ingest") : c.target = s
Sound(s) == SoundReviewer(s) /\ SoundCur(s) /\ SoundPend(s) /\ SoundClaim(s)

\* The statuses that there are or that may come back.
Statused ==
    /\ Sound(status)
    /\ call.undo.on => Sound(call.undo.status)
    /\ \A t \in Of("terminal") : ~Bound(t.seq) => SoundReviewer(t.target) /\ SoundPend(t.target)

\* What is not sealed is where the job stands, and is the last that has ended.
Sealing ==
    /\ \A t, u \in Of("terminal") : t.seq = u.seq => t = u
    /\ \A t, u \in Of("terminal") : t.seq < u.seq => Bound(t.seq)
    /\ \A t \in Of("terminal") : Bound(t.seq) /\ call.undo.on =>
           call.undo.status.count >= t.seq /\ call.undo.status.cur # t.seq
    /\ \A t \in Of("terminal") : ~Bound(t.seq) => status \in {t.prior, t.target}
    /\ call.pc \notin {"idle", "terminal", "sealed"} => \A t \in Of("terminal") : Bound(t.seq)
    /\ Finalizing =>
           /\ status \in {call.phase.prior, call.phase.target}
           /\ \A t \in Of("terminal") : t.seq # call.phase.seq => Bound(t.seq)
    /\ call.undo.on => call.undo.status = call.phase.prior

\* What the row of a receipt says, whose file may have been taken away since: the attempt
\* has ended, and no reservation of the job lacked its rows.
Committed ==
    /\ \A n \in Attempts : HasRow(n) => \E t \in Of("terminal") : t.seq = n
    /\ \A t \in Of("terminal") : HasRow(t.seq) /\ ~Bound(t.seq) => AllRows
    /\ In("sealed") => receipt[call.phase.seq] = "bound" /\ status = call.phase.target

Accepted ==
    status.st = "ingested" =>
        Answered(status) /\ (status.mode # "untracked" => attempt[status.count] = "ingested")

-----------------------------------------------------------------------------
(* What it says of the call.                                                *)

Kinds ==
    /\ In("run") \/ (Finalizing /\ call.next = "run") => call.kind = "run"
    /\ In("ingest") \/ In("claim") \/ In("read") \/ In("judge")
         \/ (Finalizing /\ call.next = "ingest") => call.kind = "ingest"
    /\ In("submit") \/ In("bind") => call.kind \in {"run", "ingest"}
    /\ call.kind = "ingest" => IF call.path = 0 THEN call.text \in {"good", "bad"}
                               ELSE response[call.path] # "none"

Working ==
    /\ In("submit") => Follows(call.phase)
    /\ In("review") => status.st = "submitting" /\ status.pend = call.phase.seq
    /\ In("bind") => /\ status.st = "submitting" /\ status.pend = call.path
                     /\ response[call.path] # "none"
    /\ In("read") \/ In("judge") => status.st # "ingested"
    /\ In("judge") => IF status.st = "ingesting" THEN call.path = status.claim
                      ELSE IF status.pend # 0 THEN call.path = status.pend
                      ELSE Reserved \/ response[call.path] # "good" \/ Fresh(call.path)
    /\ In("claimed") => status \in {call.phase.prior, call.phase.target}
    /\ In("accept") => evidence[status.claim] = "bound"

AInv ==
    /\ IInv /\ Shapes /\ InTurn /\ Marked /\ Statused /\ Sealing /\ Committed
    /\ Accepted /\ Kinds /\ Working

-----------------------------------------------------------------------------
(* What only grows.                                                         *)

Finishing == Supersede \/ TransportFails \/ Reject \/ (Accept /\ status.mode # "untracked")

\* Every step adds one phase at most.
LEMMA Grown ==
    ASSUME Typed, [Next]_vars
    PROVE  /\ \A kind : Of(kind) \subseteq Of(kind)'
           /\ Of("automated")' = Of("automated") \/ ReserveAutomated
           /\ Of("terminal")' = Of("terminal") \/ Finishing
<1> USE Parts, ResponsesTyped, NumbersTyped
<1> DEFINE Goal == /\ \A kind : Of(kind) \subseteq Of(kind)'
                   /\ Of("automated")' = Of("automated") \/ ReserveAutomated
                   /\ Of("terminal")' = Of("terminal") \/ Finishing
<1>1. CASE phases' = phases
  BY <1>1 DEF Of
<1>2. ASSUME Finishing, \E n, from, to, target, next : Finalize(n, from, to, target, next)
      PROVE  Goal
  <2>1. PICK n, from, to, target, next : Finalize(n, from, to, target, next)
    BY <1>2
  <2>2. phases \subseteq phases'
    BY <2>1 DEF Finalize
  <2> QED
    BY <1>2, <2>1, <2>2, FinalizeOf DEF Of
<1>3. CASE Terminal
  BY <1>1, <1>3 DEF Terminal, WriteAttempt, WriteReceipt, WriteTerminalStatus, BindReceipt,
     Confirm
<1>4. CASE Start
  <2>1. CASE Supersede
    BY <1>2, <2>1 DEF Supersede, Finishing
  <2>2. CASE Reserve
    <3>1. phases' = phases \cup {ReservationPhase} /\ ReservationPhase.kind = "reservation"
      BY <2>2 DEF Reserve, ReservationPhase, NoPhase
    <3> QED
      BY <3>1, NewPhase DEF Of
  <2> QED
    BY <1>1, <1>4, <2>1, <2>2 DEF Start, ReconcileReservation, StartAgain, ReserveResponse,
       ReserveAttempt, ReserveStatus, ReserveRows
<1>5. CASE Run
  <2>1. CASE TransportFails
    BY <1>2, <2>1 DEF TransportFails, Finishing
  <2>2. CASE ReserveAutomated
    <3>1. CASE Due(status.count + 1) = {}
      <4> DEFINE n == status.count + 1
                 p == [NoPhase EXCEPT !.kind = "automated", !.seq = n, !.op = call.op,
                                      !.prior = status, !.target = Submitting(n)]
      <4>1. phases' = phases \cup {p}
        BY <2>2, <3>1 DEF ReserveAutomated
      <4>2. p.kind = "automated"
        BY DEF NoPhase
      <4> HIDE DEF p
      <4> QED
        BY <2>2, <4>1, <4>2, NewPhase DEF Of
    <3> QED
      BY <1>1, <2>2, <3>1 DEF ReserveAutomated
  <2> QED
    BY <1>1, <1>5, <2>1, <2>2 DEF Run, Handoff, Submit, FindText, Review, Bind
<1>6. CASE Ingest
  <2>1. CASE Reject
    BY <1>2, <2>1 DEF Reject, Finishing
  <2>2. CASE Accept
    <3>1. status.mode \in {"automated", "browser_reserved", "untracked"}
      BY <2>2 DEF Accept, Placed, Statuses
    <3>2. CASE status.mode = "untracked"
      BY <1>1, <2>2, <3>2 DEF Accept
    <3>3. CASE status.mode # "untracked"
      <4>1. \E n, from, to, target, next : Finalize(n, from, to, target, next)
        BY <2>2, <3>1, <3>3 DEF Accept
      <4> QED
        BY <1>2, <2>2, <3>3, <4>1 DEF Finishing
    <3> QED
      BY <3>2, <3>3
  <2>3. CASE Claim
    <3> DEFINE p == [NoPhase EXCEPT !.kind = "ingest", !.seq = call.path, !.op = call.op,
                                    !.prior = status,
                                    !.target = [status EXCEPT !.st = "ingesting",
                                                              !.claim = call.path,
                                                              !.mode = Mode]]
    <3>1. phases' = phases \cup {p}
      BY <2>3 DEF Claim
    <3>2. p.kind = "ingest"
      BY DEF NoPhase
    <3> HIDE DEF p
    <3> QED
      BY <3>1, <3>2, NewPhase DEF Of
  <2> QED
    BY <1>1, <1>6, <2>1, <2>2, <2>3 DEF Ingest, AdoptReservation, AdoptClaim, ResumeClaim,
       ReadReserved, ReadBound, ReadAutomated, ReadInline, ClaimAgain, WriteClaim, Derive
<1> QED
  BY <1>1, <1>3, <1>4, <1>5, <1>6, NextCases, EnterTyped, UndoTyped DEF Answer, vars

\* The next response is at a path where nothing is.
LEMMA NextIsFree ==
    ASSUME Typed, NextResponse \in Responses
    PROVE  response[NextResponse] = "none"
<1> DEFINE S == {0} \cup {k \in Responses : response[k] # "none"}
<1>1. S \in SUBSET (0 .. MaxAttempts + 1) /\ S # {} /\ MaxAttempts + 1 \in Nat
  BY Bounds DEF Responses
<1>2. PICK n \in S : \A m \in S : m <= n
  <2> HIDE DEF S
  <2> QED
    BY <1>1, GreatestNatural
<1>3. Max(S) \in S /\ \A m \in S : m <= Max(S)
  BY <1>1, <1>2 DEF Max
<1>4. NextResponse = 1 + Max(S)
  BY DEF NextResponse
<1>5. NextResponse \notin S
  <2> DEFINE top == Max(S)
  <2>1. top \in 0 .. MaxAttempts + 1 /\ \A m \in S : m <= top
    BY <1>1, <1>3
  <2>2. NextResponse = 1 + top
    BY <1>4
  <2> HIDE DEF top, S
  <2>3. 1 + top \notin S
    BY <2>1
  <2> QED
    BY <2>2, <2>3
<1> QED
  <2>1. NextResponse \notin {k \in Responses : response[k] # "none"}
    BY <1>5
  <2> QED
    BY <2>1, Parts

\* A text stays as it is, and only an answer fills an empty one.
LEMMA TextsStay ==
    ASSUME Typed, [Next]_vars, NEW k \in Responses
    PROVE  /\ response[k] # "none" /\ ~(Answer /\ k = status.curResp) => response'[k] = response[k]
           /\ response[k] # "none" => response'[k] # "none"
           /\ response[k] = "good" => response'[k] = "good"
<1> USE Parts, ResponsesTyped
<1>1. CASE response' = response
  BY <1>1
<1>2. CASE Answer
  <2>1. PICK text \in {"good", "bad"} : response' = [response EXCEPT ![status.curResp] = text]
    BY <1>2 DEF Answer
  <2>2. response[status.curResp] = "empty"
    BY <1>2 DEF Answer
  <2> QED
    BY <1>2, <2>1, <2>2
<1>3. ASSUME NEW i, NEW text, response' = [response EXCEPT ![i] = text],
             response[i] \in {"none", text}
      PROVE  response[k] # "none" => response'[k] = response[k]
  BY <1>3
<1>4. CASE ReserveResponse
  BY <1>3, <1>4 DEF ReserveResponse
<1>5. CASE Review
  <2>1. PICK text : response' = [response EXCEPT ![Planned] = text]
    BY <1>5 DEF Review
  <2> QED
    BY <1>3, <1>5, <2>1 DEF Review
<1>6. CASE ReadAutomated
  BY <1>3, <1>6 DEF ReadAutomated
<1>7. CASE ReadInline
  BY <1>3, <1>7, NextIsFree DEF ReadInline
<1> QED
  BY <1>1, <1>2, <1>4, <1>5, <1>6, <1>7, NextCases, EnterTyped
     DEF vars, Terminal, WriteAttempt, WriteReceipt, WriteTerminalStatus, BindReceipt,
         Confirm, Start, ReconcileReservation, StartAgain, Supersede, Reserve, ReserveAttempt,
         ReserveStatus, ReserveRows, Run, Handoff, ReserveAutomated, Submit, FindText,
         TransportFails, Bind, Ingest, AdoptReservation, AdoptClaim, ResumeClaim, ReadReserved,
         ReadBound, Reject, Claim, ClaimAgain, WriteClaim, Derive, Accept, Undo, files

\* Evidence that is bound stays so.
LEMMA EvidenceStays ==
    ASSUME Typed, [Next]_vars, NEW k \in Responses, evidence[k] = "bound"
    PROVE  evidence'[k] = "bound"
<1>1. CASE evidence' = evidence
  BY <1>1
<1>2. CASE Derive
  <2>1. evidence' = [evidence EXCEPT ![status.claim] = IF @ = "none" THEN "files" ELSE "bound"]
    BY <1>2 DEF Derive
  <2> QED
    BY <2>1, Parts
<1> QED
  BY <1>1, <1>2, NextCases, EnterTyped
     DEF vars, Answer, Terminal, WriteAttempt, WriteReceipt, WriteTerminalStatus, BindReceipt,
         Confirm, Start, ReconcileReservation, StartAgain, Supersede, Reserve, ReserveResponse,
         ReserveAttempt, ReserveStatus, ReserveRows, Run, Handoff, ReserveAutomated, Submit,
         FindText, Review, TransportFails, Bind, Ingest, AdoptReservation, AdoptClaim,
         ResumeClaim, ReadReserved, ReadBound, ReadAutomated, ReadInline, Reject, Claim,
         ClaimAgain, WriteClaim, Accept, Undo, files

-----------------------------------------------------------------------------
(* Steps by what they change; all but the last kind leave the rest alone.   *)

OnlyTheCall ==
    \/ Enter \/ StartAgain \/ FindText \/ AdoptReservation \/ ResumeClaim \/ ReadReserved
    \/ ReadBound \/ ClaimAgain \/ Confirm \/ (Return /\ UNCHANGED <<manual, status, files, phases>>)
    \/ UNCHANGED vars
ThePhases == Finishing \/ Reserve \/ ReserveAutomated \/ Claim
AcceptUntracked == Accept /\ status.mode = "untracked"
TheStatus ==
    Handoff \/ Submit \/ Bind \/ AdoptClaim \/ WriteClaim \/ WriteTerminalStatus \/ ReserveStatus
       \/ AcceptUntracked
TheResponses == Answer \/ ReserveResponse \/ Review \/ ReadAutomated \/ ReadInline
TheRows == ReconcileReservation \/ ReserveRows
TheAttempts == WriteAttempt \/ ReserveAttempt
TheReceipts == WriteReceipt \/ BindReceipt

LEMMA StepKinds ==
    ASSUME [Next]_vars
    PROVE  \/ OnlyTheCall \/ ThePhases \/ TheStatus \/ TheResponses \/ TheRows \/ TheAttempts
           \/ TheReceipts \/ Derive \/ Undo
<1>1. CASE Next
  BY <1>1, NextCases DEF Terminal, Start, Run, Ingest, Finishing, OnlyTheCall, ThePhases,
     AcceptUntracked, TheStatus, TheResponses, TheRows, TheAttempts, TheReceipts
<1> QED
  BY <1>1 DEF OnlyTheCall

LEMMA Unmoved ==
    ASSUME Typed
    PROVE  /\ OnlyTheCall => UNCHANGED <<manual, status, attempt, receipt, rows, response, evidence, phases>>
           /\ ThePhases => UNCHANGED <<manual, status, attempt, receipt, rows, response, evidence>>
           /\ TheStatus => UNCHANGED <<manual, attempt, receipt, rows, response, evidence, phases>>
           /\ TheResponses => UNCHANGED <<manual, status, attempt, receipt, rows, evidence, phases>>
           /\ TheRows => UNCHANGED <<manual, status, attempt, receipt, response, evidence, phases>>
           /\ TheAttempts => UNCHANGED <<manual, status, receipt, rows, response, evidence, phases>>
           /\ TheReceipts => UNCHANGED <<manual, status, attempt, rows, response, evidence, phases>>
           /\ Derive => UNCHANGED <<manual, status, attempt, receipt, rows, response, phases>>
           /\ Undo => /\ UNCHANGED <<manual, rows, response, evidence, phases>>
                      /\ ~call.undo.on => UNCHANGED <<status, attempt, receipt>>
<1>1. ASSUME OnlyTheCall
      PROVE  UNCHANGED <<manual, status, attempt, receipt, rows, response, evidence, phases>>
  <2>1. AdoptReservation => UNCHANGED <<manual, status, files, phases>>
    BY Zenon DEF AdoptReservation
  <2>2. ClaimAgain => UNCHANGED <<manual, status, files, phases>>
    BY Zenon DEF ClaimAgain
  <2>3. StartAgain \/ FindText \/ ResumeClaim \/ ReadReserved \/ ReadBound \/ Confirm
          => UNCHANGED <<manual, status, files, phases>>
    BY DEF StartAgain, FindText, ResumeClaim, ReadReserved, ReadBound, Confirm
  <2>4. UNCHANGED vars => UNCHANGED <<manual, status, files, phases>>
    BY DEF vars, files
  <2>5. UNCHANGED <<manual, status, files, phases>>
    BY <1>1, <2>1, <2>2, <2>3, <2>4, EnterTyped DEF OnlyTheCall
  <2> QED
    BY <2>5 DEF files
<1>2. ASSUME ThePhases
      PROVE  UNCHANGED <<manual, status, attempt, receipt, rows, response, evidence>>
  <2>1. Supersede \/ TransportFails \/ Reject => UNCHANGED <<manual, status, files>>
    BY DEF Supersede, TransportFails, Reject
  <2>2. Accept /\ status.mode # "untracked" => UNCHANGED <<manual, status, files>>
    <3>1. Accept => status.mode \in {"automated", "browser_reserved", "untracked"}
      BY Parts DEF Accept, Placed, Statuses
    <3> QED
      BY <3>1 DEF Accept
  <2>3. Reserve \/ ReserveAutomated \/ Claim => UNCHANGED <<manual, status, files>>
    BY Zenon DEF Reserve, ReserveAutomated, Claim
  <2> QED
    BY <1>2, <2>1, <2>2, <2>3 DEF ThePhases, Finishing, files
<1>3. ASSUME TheStatus
      PROVE  UNCHANGED <<manual, attempt, receipt, rows, response, evidence, phases>>
  <2>1. Handoff \/ Submit \/ Bind \/ AdoptClaim => UNCHANGED <<manual, files, phases>>
    BY DEF Handoff, Submit, Bind, AdoptClaim
  <2>2. WriteClaim \/ WriteTerminalStatus \/ ReserveStatus => UNCHANGED <<manual, files, phases>>
    BY DEF WriteClaim, WriteTerminalStatus, ReserveStatus
  <2>3. AcceptUntracked => UNCHANGED <<manual, files, phases>>
    BY DEF AcceptUntracked, Accept
  <2> QED
    BY <1>3, <2>1, <2>2, <2>3 DEF TheStatus, files
<1>4. TheResponses => UNCHANGED <<manual, status, attempt, receipt, rows, evidence, phases>>
  BY DEF TheResponses, Answer, ReserveResponse, Review, ReadAutomated, ReadInline
<1>5. TheRows => UNCHANGED <<manual, status, attempt, receipt, response, evidence, phases>>
  BY DEF TheRows, ReconcileReservation, ReserveRows
<1>6. TheAttempts => UNCHANGED <<manual, status, receipt, rows, response, evidence, phases>>
  BY DEF TheAttempts, WriteAttempt, ReserveAttempt
<1>7. TheReceipts => UNCHANGED <<manual, status, attempt, rows, response, evidence, phases>>
  BY DEF TheReceipts, WriteReceipt, BindReceipt
<1>8. Derive => UNCHANGED <<manual, status, attempt, receipt, rows, response, phases>>
  BY DEF Derive
<1>9. Undo => /\ UNCHANGED <<manual, rows, response, evidence, phases>>
              /\ ~call.undo.on => UNCHANGED <<status, attempt, receipt>>
  BY DEF Undo
<1> QED
  BY <1>1, <1>2, <1>3, <1>4, <1>5, <1>6, <1>7, <1>8, <1>9

\* What changes the status, and how.
LEMMA StatusMoves ==
    ASSUME Typed, [Next]_vars
    PROVE  \/ status' = status
           \/ Handoff \/ Bind \/ WriteTerminalStatus \/ ReserveStatus
           \/ /\ In("submit") /\ status = call.phase.prior /\ Legal(call.phase.target)
              /\ status' = call.phase.target
           \/ \E c \in Of("ingest") : /\ In("claim") \/ In("claimed")
                                      /\ status = c.prior /\ Legal(c.target) /\ status' = c.target
           \/ AcceptUntracked /\ status' = [status EXCEPT !.st = "ingested"]
           \/ Undo /\ call.undo.on
<1> DEFINE ByClaim(c) == /\ In("claim") \/ In("claimed")
                         /\ status = c.prior /\ Legal(c.target) /\ status' = c.target
<1>1. Submit => \/ status' = status
                \/ /\ In("submit") /\ status = call.phase.prior /\ Legal(call.phase.target)
                   /\ status' = call.phase.target
  BY DEF Submit
<1>2. AdoptClaim => status' = status \/ \E c \in Of("ingest") : ByClaim(c)
  BY DEF AdoptClaim
<1>3. WriteClaim => \E c \in Of("ingest") : ByClaim(c)
  BY Parts DEF WriteClaim, Placed
<1>4. AcceptUntracked => status' = [status EXCEPT !.st = "ingested"]
  BY DEF AcceptUntracked, Accept
<1> HIDE DEF ByClaim
<1>5. \/ status' = status \/ Handoff \/ Bind \/ WriteTerminalStatus \/ ReserveStatus
      \/ Submit \/ AdoptClaim \/ WriteClaim \/ AcceptUntracked \/ (Undo /\ call.undo.on)
  BY StepKinds, Unmoved DEF TheStatus
<1> QED
  BY <1>1, <1>2, <1>3, <1>4, <1>5 DEF ByClaim

\* A row is written for the latest reservation, or for the one in hand.
RowOf(p) ==
    /\ rows' = rows \cup {p.seq}
    /\ \/ In("reserve") /\ p = call.phase /\ status = p.target
       \/ In("reservation") /\ p = Reservation /\ (status = p.target \/ PastReservation)

LEMMA RowMoves ==
    ASSUME Typed, [Next]_vars
    PROVE  rows' = rows \/ \E p \in Of("reservation") : RowOf(p)
<1>1. ReserveRows => \E p \in Of("reservation") : RowOf(p)
  BY Parts DEF ReserveRows, Placed, RowOf
<1>2. ASSUME ReconcileReservation PROVE rows' = rows \/ \E p \in Of("reservation") : RowOf(p)
  <2>1. CASE Of("reservation") = {} \/ status = Reservation.prior
    BY <1>2, <2>1 DEF ReconcileReservation
  <2>2. CASE ~(Of("reservation") = {} \/ status = Reservation.prior)
    <3>1. /\ rows' = rows \cup {Reservation.seq} /\ In("reservation")
          /\ status = Reservation.target \/ PastReservation
      BY <1>2, <2>2 DEF ReconcileReservation
    <3>2. Reservation \in Of("reservation")
      BY <2>2, LatestExists DEF Reservation
    <3> QED
      BY <3>1, <3>2 DEF RowOf
  <2> QED
    BY <2>1, <2>2
<1> QED
  BY <1>1, <1>2, StepKinds, Unmoved DEF TheRows

\* What changes receipts and records.
LEMMA MarkMoves ==
    ASSUME Typed, [Next]_vars
    PROVE  /\ receipt' = receipt \/ WriteReceipt \/ BindReceipt \/ (Undo /\ call.undo.on)
           /\ attempt' = attempt \/ WriteAttempt \/ ReserveAttempt \/ (Undo /\ call.undo.on)
  BY StepKinds, Unmoved DEF TheReceipts, TheAttempts

\* Where a step leads the call.
Following == Follows(call.phase)
Keeps == call'.kind = call.kind /\ call'.path = call.path /\ call'.text = call.text
RowAdded == rows' = rows \cup {Reservation.seq}
Settles == call' = call \/ Return \/ Enter
              \/ (Finishing /\ call'.pc \in {"terminal", "sealed"})
Binds == BindReceipt /\ call'.pc = "sealed" /\ Keeps /\ call'.phase = call.phase
           /\ call'.next = call.next /\ call'.undo = call.undo
Proceeds ==
    \/ Binds
    \/ Confirm /\ call.next # "idle" /\ call'.pc = call.next /\ Keeps /\ ~call'.undo.on
    \/ ReserveRows /\ call.next # "idle" /\ call'.pc = call.next /\ Keeps
    \/ Reserve /\ call'.pc = "reserve" /\ Keeps
       /\ call'.phase = ReservationPhase /\ call'.next = "idle"
    \/ ReconcileReservation /\ call'.pc = "reserve" /\ Keeps /\ Reservable(Reservation)
       /\ Of("reservation") # {} /\ call'.phase = Reservation /\ call'.next = "choose"
    \/ ReconcileReservation /\ call'.pc = "choose" /\ Keeps
       /\ (Of("reservation") # {} => RowAdded)
Prepares ==
    \/ ReserveAutomated /\ call'.pc = "submit" /\ Keeps /\ Following'
    \/ AdoptReservation /\ call'.pc = "submit" /\ Keeps /\ Following'
    \/ AdoptReservation /\ call'.pc = "claim" /\ Keeps
    \/ Submit /\ call.kind = "run" /\ call'.pc = "review" /\ Keeps /\ call'.phase = call.phase
    \/ Submit /\ call.kind # "run" /\ call'.pc = "claim" /\ Keeps
    \/ (FindText \/ Review) /\ call'.pc = "bind" /\ call'.kind = call.kind
                            /\ call'.path = call.phase.seq
Answers ==
    \/ AdoptClaim /\ call'.pc = "read" /\ Keeps
    \/ ReadAutomated /\ call'.pc = "bind" /\ call'.kind = call.kind /\ call'.path = status.pend
    \/ Bind /\ call'.pc = "judge" /\ Keeps
    \/ ResumeClaim /\ call'.pc = "judge" /\ call'.kind = call.kind /\ call'.path = status.claim
    \/ ReadReserved /\ call'.pc = "judge" /\ call'.kind = call.kind /\ call'.path = call.path
    \/ ReadBound /\ call'.pc = "judge" /\ call'.kind = call.kind /\ call'.path = status.reviewer
    \/ ReadInline /\ call'.pc = "judge" /\ call'.kind = call.kind /\ call'.path = NextResponse
Claims ==
    \/ Claim /\ call'.pc = "claimed" /\ Keeps /\ call'.phase.prior = status
    \/ ClaimAgain /\ call'.pc = "claimed" /\ Keeps
       /\ status \in {call'.phase.prior, call'.phase.target}
    \/ Derive /\ call'.pc = "claimed" /\ Keeps /\ call'.phase = call.phase
    \/ Derive /\ call'.pc = "accept" /\ Keeps /\ evidence'[status.claim] = "bound"

LEMMA Leads ==
    ASSUME Typed, [Next]_vars
    PROVE  Settles \/ Proceeds \/ Prepares \/ Answers \/ Claims
<1> USE Parts
<1>1. CASE UNCHANGED vars
  BY <1>1 DEF vars, Settles
<1>3. ASSUME NEW pc \in Pcs, Goto(pc)
      PROVE  Keeps /\ call'.pc = pc /\ call'.phase = call.phase
  <2>1. call'.text = call.text
    BY <1>3 DEF Goto, Calls
  <2> QED
    BY <1>3, <2>1, GotoTyped DEF Keeps
<1>4. ASSUME NEW n, NEW from, NEW to, NEW target, NEW next, Finalize(n, from, to, target, next)
      PROVE  call'.pc \in {"terminal", "sealed"}
  BY <1>4 DEF Finalize, Calls
<1>6. ASSUME NEW k, NEW pc, call' = [Read(k) EXCEPT !.pc = pc]
      PROVE  call'.pc = pc /\ call'.kind = call.kind /\ call'.path = k
  BY <1>6 DEF Read, Calls
<1>7. \A k : Read(k) = [Read(k) EXCEPT !.pc = "judge"]
  BY DEF Read, Calls
<1>8. CASE Terminal
  <2>1. CASE BindReceipt
    <3>1. call' = [call EXCEPT !.pc = "sealed"]
      BY <2>1 DEF BindReceipt, Goto
    <3>2. /\ call'.pc = "sealed" /\ Keeps /\ call'.phase = call.phase
          /\ call'.next = call.next /\ call'.undo = call.undo
      BY <3>1 DEF Calls, Keeps
    <3> QED
      BY <2>1, <3>2 DEF Proceeds, Binds
  <2>2. CASE Confirm /\ call.next = "idle"
    BY <2>2 DEF Confirm, Settles, Return
  <2>3. CASE Confirm /\ call.next # "idle"
    <3>1. call' = [call EXCEPT !.pc = call.next, !.undo = NoUndo]
      BY <2>3 DEF Confirm
    <3>2. call'.pc = call.next /\ Keeps /\ ~call'.undo.on
      BY <3>1 DEF Calls, Keeps, NoUndo
    <3> QED
      BY <2>3, <3>2 DEF Proceeds
  <2> QED
    BY <1>8, <2>1, <2>2, <2>3 DEF Terminal, WriteAttempt, WriteReceipt, WriteTerminalStatus, Settles
<1>9. CASE Start
  <2>1. CASE ReconcileReservation
    <3>1. CASE Of("reservation") # {} /\ status = Reservation.prior
      <4>1. /\ Reservable(Reservation)
            /\ call' = [call EXCEPT !.pc = "reserve", !.phase = Reservation, !.next = "choose"]
        BY <2>1, <3>1 DEF ReconcileReservation
      <4>2. /\ call'.pc = "reserve" /\ call'.phase = Reservation /\ call'.next = "choose"
            /\ Keeps
        BY <4>1 DEF Calls, Keeps
      <4> QED
        BY <2>1, <3>1, <4>1, <4>2 DEF Proceeds
    <3>2. CASE ~(Of("reservation") # {} /\ status = Reservation.prior)
      <4>1. Goto("choose") /\ (Of("reservation") # {} => RowAdded)
        BY <2>1, <3>2 DEF ReconcileReservation, RowAdded
      <4>2. call'.pc = "choose" /\ Keeps
        BY <1>3, <4>1 DEF Pcs
      <4> QED
        BY <2>1, <4>1, <4>2 DEF Proceeds
    <3> QED
      BY <3>1, <3>2
  <2>2. CASE Supersede
    BY <1>4, <2>2 DEF Supersede, Settles, Finishing
  <2>3. CASE Reserve
    <3>1. call' = [call EXCEPT !.pc = "reserve", !.phase = ReservationPhase, !.next = "idle"]
      BY <2>3 DEF Reserve
    <3>2. /\ call'.pc = "reserve" /\ call'.phase = ReservationPhase /\ call'.next = "idle"
          /\ Keeps
      BY <3>1 DEF Calls, Keeps
    <3> QED
      BY <2>3, <3>2 DEF Proceeds
  <2>4. CASE ReserveRows
    <3>1. CASE call.next = "idle"
      BY <2>4, <3>1 DEF ReserveRows, Settles
    <3>2. CASE call.next # "idle"
      <4>1. Goto(call.next) /\ call.next \in Pcs
        BY <2>4, <3>2 DEF ReserveRows, Calls, Nexts, Pcs
      <4> QED
        BY <1>3, <2>4, <3>2, <4>1 DEF Proceeds
    <3> QED
      BY <3>1, <3>2
  <2>5. CASE StartAgain
    BY <2>5 DEF StartAgain, Settles
  <2> QED
    BY <1>9, <2>1, <2>2, <2>3, <2>4, <2>5
       DEF Start, ReserveResponse, ReserveAttempt, ReserveStatus, Settles
<1>10. CASE Run
  <2>1. CASE Handoff
    BY <2>1 DEF Handoff, Settles
  <2>7. ReserveAutomated => status' = status
    BY Zenon DEF ReserveAutomated
  <2>2. CASE ReserveAutomated
    <3>1. CASE Due(status.count + 1) = {}
      <4> DEFINE p == [NoPhase EXCEPT !.kind = "automated", !.seq = status.count + 1,
                                      !.op = call.op, !.prior = status,
                                      !.target = Submitting(status.count + 1)]
      <4>1. call' = [call EXCEPT !.pc = "submit", !.phase = p]
        BY <2>2, <3>1 DEF ReserveAutomated
      <4>2. p.prior = status
        BY DEF NoPhase
      <4> HIDE DEF p
      <4>3. Keeps /\ call'.pc = "submit" /\ call'.phase = p
        BY <4>1 DEF Calls, Keeps
      <4> QED
        BY <2>2, <2>7, <4>2, <4>3 DEF Prepares, Following, Follows
    <3>2. CASE Due(status.count + 1) # {}
      <4>1. PICK p \in Due(status.count + 1) :
                Follows(p) /\ call' = [call EXCEPT !.pc = "submit", !.phase = p]
        BY <2>2, <3>2, Zenon DEF ReserveAutomated
      <4>2. Keeps /\ call'.pc = "submit" /\ call'.phase = p
        BY <4>1 DEF Calls, Keeps
      <4> QED
        BY <2>2, <2>7, <4>1, <4>2 DEF Prepares, Following, Follows
    <3> QED
      BY <3>1, <3>2
  <2>3. CASE Submit
    <3>1. Goto(IF call.kind = "run" THEN "review" ELSE "claim")
      BY <2>3 DEF Submit
    <3>2. CASE call.kind = "run"
      BY <1>3, <2>3, <3>1, <3>2 DEF Prepares, Pcs
    <3>3. CASE call.kind # "run"
      BY <1>3, <2>3, <3>1, <3>3 DEF Prepares, Pcs
    <3> QED
      BY <3>2, <3>3
  <2>4. CASE FindText \/ Review
    <3>1. call' = AtHand
      BY <2>4 DEF FindText, Review
    <3>2. call'.pc = "bind" /\ call'.kind = call.kind /\ call'.path = call.phase.seq
      BY <3>1 DEF AtHand, Planned, Calls
    <3> QED
      BY <2>4, <3>2 DEF Prepares
  <2>5. CASE TransportFails
    BY <1>4, <2>5 DEF TransportFails, Settles, Finishing
  <2>6. CASE Bind
    <3>1. CASE call.kind = "run"
      BY <2>6, <3>1 DEF Bind, Settles
    <3>2. CASE call.kind # "run"
      <4>1. Goto("judge")
        BY <2>6, <3>2 DEF Bind
      <4> QED
        BY <1>3, <2>6, <4>1 DEF Answers, Pcs
    <3> QED
      BY <3>1, <3>2
  <2> QED
    BY <1>10, <2>1, <2>2, <2>3, <2>4, <2>5, <2>6 DEF Run
<1>11. CASE Ingest
  <2>1. CASE AdoptReservation
    <3> DEFINE due == IF status.st = "ingested" THEN {} ELSE Due(status.count + 1)
    <3>1. \/ Goto("claim")
          \/ \E p \in due : Follows(p) /\ call' = [call EXCEPT !.pc = "submit", !.phase = p]
      BY <2>1, Zenon DEF AdoptReservation
    <3>2. CASE Goto("claim")
      BY <1>3, <2>1, <3>2 DEF Prepares, Pcs
    <3>3. CASE \E p \in due : Follows(p) /\ call' = [call EXCEPT !.pc = "submit", !.phase = p]
      <4>1. PICK p : Follows(p) /\ call' = [call EXCEPT !.pc = "submit", !.phase = p]
        BY <3>3, Zenon
      <4>2. Keeps /\ call'.pc = "submit" /\ call'.phase = p
        BY <4>1 DEF Calls, Keeps
      <4>3. status' = status
        BY <2>1, Zenon DEF AdoptReservation
      <4> QED
        BY <2>1, <4>1, <4>2, <4>3 DEF Prepares, Following, Follows
    <3> QED
      BY <3>1, <3>2, <3>3, Zenon
  <2>2. CASE AdoptClaim
    <3>1. Goto("read")
      BY <2>2 DEF AdoptClaim
    <3> QED
      BY <1>3, <2>2, <3>1 DEF Answers, Pcs
  <2>3. CASE ResumeClaim \/ ReadReserved \/ ReadBound
    <3>1. /\ ResumeClaim => call' = Read(status.claim)
          /\ ReadReserved => call' = Read(call.path)
          /\ ReadBound => call' = Read(status.reviewer)
      BY DEF ResumeClaim, ReadReserved, ReadBound
    <3> QED
      BY <1>6, <1>7, <2>3, <3>1 DEF Answers
  <2>4. CASE ReadAutomated \/ ReadInline
    <3>1. /\ ReadAutomated => call' = [Read(status.pend) EXCEPT !.pc = "bind"]
          /\ ReadInline => call' = Read(NextResponse)
      BY DEF ReadAutomated, ReadInline
    <3> QED
      BY <1>6, <1>7, <2>4, <3>1 DEF Answers
  <2>5. CASE Reject
    BY <1>4, <2>5 DEF Reject, Settles, Finishing
  <2>6. CASE Claim
    <3> DEFINE p == [NoPhase EXCEPT !.kind = "ingest", !.seq = call.path, !.op = call.op,
                                    !.prior = status,
                                    !.target = [status EXCEPT !.st = "ingesting",
                                                              !.claim = call.path,
                                                              !.mode = Mode]]
    <3>1. call' = [call EXCEPT !.pc = "claimed", !.phase = p]
      BY <2>6 DEF Claim
    <3>2. p.prior = status
      BY DEF NoPhase
    <3> HIDE DEF p
    <3>3. Keeps /\ call'.pc = "claimed" /\ call'.phase = p
      BY <3>1 DEF Calls, Keeps
    <3> QED
      BY <2>6, <3>2, <3>3 DEF Claims
  <2>7. CASE ClaimAgain
    <3>1. PICK p \in At("ingest", call.path) :
              status \in {p.prior, p.target} /\ call' = [call EXCEPT !.pc = "claimed", !.phase = p]
      BY <2>7, Zenon DEF ClaimAgain
    <3>2. Keeps /\ call'.pc = "claimed" /\ call'.phase = p
      BY <3>1 DEF Calls, Keeps
    <3> QED
      BY <2>7, <3>1, <3>2 DEF Claims
  <2>8. CASE Derive
    <3>1. Goto(IF evidence'[status.claim] = "bound" THEN "accept" ELSE "claimed")
      BY <2>8 DEF Derive
    <3>2. CASE evidence'[status.claim] = "bound"
      BY <1>3, <2>8, <3>1, <3>2 DEF Claims, Pcs
    <3>3. CASE evidence'[status.claim] # "bound"
      BY <1>3, <2>8, <3>1, <3>3 DEF Claims, Pcs
    <3> QED
      BY <3>2, <3>3
  <2>9. CASE Accept
    <3>1. status.mode \in {"automated", "browser_reserved", "untracked"}
      BY <2>9 DEF Accept, Placed, Statuses
    <3>2. CASE status.mode = "untracked"
      BY <2>9, <3>2 DEF Accept, Settles
    <3>3. CASE status.mode # "untracked"
      <4>1. \E n, from, to, target, next : Finalize(n, from, to, target, next)
        BY <2>9, <3>1, <3>3 DEF Accept
      <4> QED
        BY <1>4, <2>9, <3>3, <4>1 DEF Settles, Finishing
    <3> QED
      BY <3>2, <3>3
  <2>10. CASE WriteClaim
    BY <2>10 DEF WriteClaim, Settles
  <2> QED
    BY <1>11, <2>1, <2>2, <2>3, <2>4, <2>5, <2>6, <2>7, <2>8, <2>9, <2>10 DEF Ingest
<1>12. CASE Undo
  BY <1>12 DEF Undo, Settles
<1>13. CASE Answer \/ Enter \/ Return
  BY <1>13 DEF Answer, Settles
<1> QED
  BY <1>1, <1>8, <1>9, <1>10, <1>11, <1>12, <1>13, NextCases

\* Where each step is taken.
LEMMA Where ==
    /\ Enter => In("idle")
    /\ WriteAttempt \/ WriteReceipt \/ WriteTerminalStatus \/ BindReceipt => In("terminal")
    /\ Confirm => In("sealed")
    /\ ReconcileReservation => In("reservation")
    /\ Supersede \/ Reserve => In("choose")
    /\ ReserveResponse \/ ReserveAttempt \/ ReserveStatus \/ ReserveRows => In("reserve")
    /\ Handoff => In("handoff")
    /\ ReserveAutomated => In("run")
    /\ Submit => In("submit")
    /\ FindText \/ Review \/ TransportFails => In("review")
    /\ Bind => In("bind")
    /\ AdoptReservation => In("ingest")
    /\ AdoptClaim => In("claim")
    /\ ResumeClaim \/ ReadReserved \/ ReadBound \/ ReadAutomated \/ ReadInline => In("read")
    /\ Reject \/ Claim \/ ClaimAgain => In("judge")
    /\ WriteClaim \/ Derive => In("claimed")
    /\ Accept => In("accept")
    /\ Finishing => In("choose") \/ In("review") \/ In("judge") \/ In("accept")
<1>1. Enter => In("idle")
  BY Zenon DEF Enter, Call
<1>2. ReserveAutomated => In("run")
  BY Zenon DEF ReserveAutomated
<1>3. AdoptReservation => In("ingest")
  BY Zenon DEF AdoptReservation
<1>4. AdoptClaim => In("claim")
  BY Zenon DEF AdoptClaim
<1>5. Claim \/ ClaimAgain => In("judge")
  BY Zenon DEF Claim, ClaimAgain
<1>6. Accept => In("accept")
  BY Zenon DEF Accept
<1>7. Handoff => In("handoff")
  BY Zenon DEF Handoff
<1>8. Supersede \/ Reserve => In("choose")
  BY Zenon DEF Supersede, Reserve
<1>9. TransportFails => In("review")
  BY Zenon DEF TransportFails
<1>10. Reject => In("judge")
  BY Zenon DEF Reject
<1>11. ResumeClaim \/ ReadReserved \/ ReadBound \/ ReadAutomated \/ ReadInline => In("read")
  BY Zenon DEF ResumeClaim, ReadReserved, ReadBound, ReadAutomated, ReadInline
<1>12. ReconcileReservation => In("reservation")
  BY Zenon DEF ReconcileReservation
<1>13. WriteAttempt \/ WriteReceipt \/ WriteTerminalStatus \/ BindReceipt => In("terminal")
  BY Zenon DEF WriteAttempt, WriteReceipt, WriteTerminalStatus, BindReceipt, AttemptWritten
<1>14. ReserveResponse \/ ReserveAttempt \/ ReserveStatus \/ ReserveRows => In("reserve")
  BY Zenon DEF ReserveResponse, ReserveAttempt, ReserveStatus, ReserveRows
<1>15. Submit => In("submit")
  BY Zenon DEF Submit
<1>16. Bind => In("bind")
  BY Zenon DEF Bind
<1>17. WriteClaim \/ Derive => In("claimed")
  BY Zenon DEF WriteClaim, Derive
<1>18. FindText \/ Review => In("review")
  BY Zenon DEF FindText, Review
<1>19. Confirm => In("sealed")
  BY Zenon DEF Confirm
<1> QED
  BY <1>1, <1>2, <1>3, <1>4, <1>5, <1>6, <1>7, <1>8, <1>9, <1>10, <1>11, <1>12, <1>13, <1>14,
     <1>15, <1>16, <1>17, <1>18, <1>19 DEF Finishing

\* A caller that takes the lock: the end of the last attempt is open, or settled.
LEMMA EnterStep ==
    ASSUME Typed, Enter
    PROVE  /\ ~call'.undo.on /\ call'.pc \in {"terminal", "reservation", "handoff", "run", "ingest"}
           /\ call'.pc = "terminal" =>
                  /\ Of("terminal") # {} /\ call'.phase = Latest("terminal")
                  /\ EarlierWritten /\ Reconcilable(Latest("terminal"))
                  /\ ~Settled(Latest("terminal"))
                  /\ call'.next \in {"reservation", "handoff", "run", "ingest"}
           /\ call'.pc # "terminal" =>
                  Of("terminal") = {} \/ (EarlierWritten /\ Settled(Latest("terminal")))
           /\ call'.pc = "run" \/ (call'.pc = "terminal" /\ call'.next = "run")
                  => call'.kind = "run"
           /\ call'.pc = "ingest" \/ (call'.pc = "terminal" /\ call'.next = "ingest")
                  => call'.kind = "ingest"
           /\ call'.kind = "ingest" => IF call'.path = 0 THEN call'.text \in {"good", "bad"}
                                       ELSE response[call'.path] # "none"
<1> USE Parts, ResponsesTyped
<1>1. PICK kind \in {"start", "handoff", "run", "ingest"}, op \in Ops, k \in Places,
           text \in {"none", "good", "bad"} :
               Call(kind, op, k, text) /\ (kind = "ingest" /\ k = 0 => text # "none")
  BY DEF Enter
<1> DEFINE new == [Idle EXCEPT !.kind = kind, !.op = op, !.path = k, !.text = text]
<1>2. Reconciled(new) /\ (k # 0 => response[k] # "none")
  BY <1>1 DEF Call
<1>3. op \in Int
  BY DEF Ops
<1>4. /\ new \in Calls /\ new.kind = kind /\ new.path = k /\ new.text = text /\ ~new.undo.on
      /\ AfterTerminal(new.kind) = IF kind = "start" THEN "reservation" ELSE kind
  BY <1>3, IdleTyped DEF Calls, AfterTerminal
<1> HIDE DEF new
<1>5. Of("terminal") # {} => EarlierWritten
  BY <1>2 DEF Reconciled
<1>6. CASE Open
  <2> DEFINE p == Latest("terminal")
  <2>1. Of("terminal") # {} /\ ~Settled(p)
    BY <1>6 DEF Open
  <2>2. /\ Reconcilable(p)
        /\ call' = [new EXCEPT !.pc = "terminal", !.phase = p, !.settled = TRUE,
                               !.next = AfterTerminal(new.kind)]
    BY <1>2, <1>6 DEF Reconciled
  <2> HIDE DEF p
  <2>3. /\ call'.pc = "terminal" /\ call'.phase = p /\ ~call'.undo.on
        /\ call'.next = AfterTerminal(new.kind) /\ call'.kind = kind /\ call'.path = k
        /\ call'.text = text
    BY <1>4, <2>2 DEF Calls
  <2> QED
    BY <1>1, <1>2, <1>4, <1>5, <2>1, <2>2, <2>3 DEF p
<1>7. CASE ~Open
  <2>1. call' = [new EXCEPT !.pc = AfterTerminal(new.kind)]
    BY <1>2, <1>7 DEF Reconciled
  <2>2. /\ call'.pc = AfterTerminal(new.kind) /\ ~call'.undo.on /\ call'.kind = kind
        /\ call'.path = k /\ call'.text = text
    BY <1>4, <2>1 DEF Calls
  <2>3. Of("terminal") = {} \/ Settled(Latest("terminal"))
    BY <1>7 DEF Open
  <2> QED
    BY <1>1, <1>2, <1>4, <1>5, <2>2, <2>3
<1> QED
  BY <1>6, <1>7

\* How each place is reached from another.
LEMMA Arrives ==
    ASSUME Typed, [Next]_vars, call' # call,
           In("reserve") => call.next \in {"idle", "choose"}
    PROVE  /\ In("terminal")' => Enter \/ Finishing
           /\ In("sealed")' => Finishing \/ Binds
           /\ In("choose")' =>
                  \/ Confirm /\ call.next = "choose"
                  \/ ReserveRows /\ call.next = "choose"
                  \/ ReconcileReservation
                     /\ (Of("reservation") # {} => RowAdded)
           /\ In("reserve")' =>
                  \/ Reserve /\ call'.phase = ReservationPhase /\ call'.next = "idle"
                  \/ ReconcileReservation /\ Reservable(Reservation) /\ Of("reservation") # {}
                     /\ call'.phase = Reservation /\ call'.next = "choose"
           /\ In("submit")' => (ReserveAutomated \/ AdoptReservation) /\ Keeps /\ Following'
           /\ In("review")' =>
                  Submit /\ call.kind = "run" /\ Keeps /\ call'.phase = call.phase
           /\ In("claim")' => /\ AdoptReservation \/ (Submit /\ call.kind # "run")
                              /\ Keeps
           /\ In("read")' => AdoptClaim /\ Keeps
           /\ In("claimed")' =>
                  /\ Keeps
                  /\ \/ Claim /\ call'.phase.prior = status
                     \/ ClaimAgain /\ status \in {call'.phase.prior, call'.phase.target}
                     \/ Derive /\ call'.phase = call.phase
           /\ In("accept")' => Derive /\ Keeps /\ evidence'[status.claim] = "bound"
           /\ In("bind")' =>
                  /\ call'.kind = call.kind
                  /\ \/ (FindText \/ Review) /\ call'.path = call.phase.seq
                     \/ ReadAutomated /\ call'.path = status.pend
           /\ In("judge")' =>
                  /\ call'.kind = call.kind
                  /\ \/ Bind /\ call'.path = call.path
                     \/ ResumeClaim /\ call'.path = status.claim
                     \/ ReadReserved /\ call'.path = call.path
                     \/ ReadBound /\ call'.path = status.reviewer
                     \/ ReadInline /\ call'.path = NextResponse
           /\ In("run")' \/ In("ingest")' =>
                  Enter \/ (Confirm /\ call'.pc = call.next /\ Keeps)
<1>1. /\ call.next \in Nexts
      /\ Enter => call'.pc \in {"terminal", "reservation", "handoff", "run", "ingest"}
  BY Parts, EnterStep DEF Calls
<1>2. /\ ReserveRows => In("reserve")
      /\ Return => call'.pc = "idle"
      /\ Binds => call'.pc = "sealed"
  BY Where, ReturnTyped DEF Binds
<1>3. In("terminal")' => Enter \/ Finishing
  BY <1>1, <1>2, Leads DEF Settles, Proceeds, Prepares, Answers, Claims, In, Nexts, Keeps
<1>15. In("sealed")' => Finishing \/ Binds
  BY <1>1, <1>2, Leads DEF Settles, Proceeds, Prepares, Answers, Claims, In, Nexts, Keeps
<1>4. In("choose")' =>
          \/ Confirm /\ call.next = "choose"
          \/ ReserveRows /\ call.next = "choose"
          \/ ReconcileReservation
             /\ (Of("reservation") # {} => RowAdded)
  BY <1>1, <1>2, Leads DEF Settles, Proceeds, Prepares, Answers, Claims, In, Nexts, Keeps
<1>5. In("reserve")' =>
          \/ Reserve /\ call'.phase = ReservationPhase /\ call'.next = "idle"
          \/ ReconcileReservation /\ Reservable(Reservation) /\ Of("reservation") # {}
             /\ call'.phase = Reservation /\ call'.next = "choose"
  BY <1>1, <1>2, Leads DEF Settles, Proceeds, Prepares, Answers, Claims, In, Nexts, Keeps
<1>6. In("submit")' => (ReserveAutomated \/ AdoptReservation) /\ Keeps /\ Following'
  BY <1>1, <1>2, Leads DEF Settles, Proceeds, Prepares, Answers, Claims, In, Nexts, Keeps
<1>7. In("review")' =>
          Submit /\ call.kind = "run" /\ Keeps /\ call'.phase = call.phase
  BY <1>1, <1>2, Leads DEF Settles, Proceeds, Prepares, Answers, Claims, In, Nexts, Keeps
<1>8. In("claim")' => /\ AdoptReservation \/ (Submit /\ call.kind # "run")
                      /\ Keeps
  BY <1>1, <1>2, Leads DEF Settles, Proceeds, Prepares, Answers, Claims, In, Nexts, Keeps
<1>9. In("read")' => AdoptClaim /\ Keeps
  BY <1>1, <1>2, Leads DEF Settles, Proceeds, Prepares, Answers, Claims, In, Nexts, Keeps
<1>10. In("claimed")' =>
          /\ Keeps
          /\ \/ Claim /\ call'.phase.prior = status
             \/ ClaimAgain /\ status \in {call'.phase.prior, call'.phase.target}
             \/ Derive /\ call'.phase = call.phase
  BY <1>1, <1>2, Leads DEF Settles, Proceeds, Prepares, Answers, Claims, In, Nexts, Keeps
<1>11. In("accept")' => Derive /\ Keeps /\ evidence'[status.claim] = "bound"
  BY <1>1, <1>2, Leads DEF Settles, Proceeds, Prepares, Answers, Claims, In, Nexts, Keeps
<1>12. In("bind")' =>
          /\ call'.kind = call.kind
          /\ \/ (FindText \/ Review) /\ call'.path = call.phase.seq
             \/ ReadAutomated /\ call'.path = status.pend
  BY <1>1, <1>2, Leads DEF Settles, Proceeds, Prepares, Answers, Claims, In, Nexts, Keeps
<1>13. In("judge")' =>
          /\ call'.kind = call.kind
          /\ \/ Bind /\ call'.path = call.path
             \/ ResumeClaim /\ call'.path = status.claim
             \/ ReadReserved /\ call'.path = call.path
             \/ ReadBound /\ call'.path = status.reviewer
             \/ ReadInline /\ call'.path = NextResponse
  BY <1>1, <1>2, Leads DEF Settles, Proceeds, Prepares, Answers, Claims, In, Nexts, Keeps
<1>14. In("run")' \/ In("ingest")' =>
          Enter \/ (Confirm /\ call'.pc = call.next /\ Keeps)
  BY <1>1, <1>2, Leads DEF Settles, Proceeds, Prepares, Answers, Claims, In, Nexts, Keeps
<1> QED
  BY <1>3, <1>4, <1>5, <1>6, <1>7, <1>8, <1>9, <1>10, <1>11, <1>12, <1>13, <1>14,
     <1>15

\* The end of an attempt is always a new one, of the attempt that the job stands at.
Ends(t) ==
    /\ phases' = phases \cup {t} /\ t \in Phases /\ t.kind = "terminal" /\ t.seq \in Attempts
    /\ t.prior = status /\ attempt[t.seq] = t.from /\ receipt[t.seq] = "none"
    /\ \A u \in Of("terminal") : u.seq # t.seq /\ Bound(u.seq)
    /\ TerminalShape(t) /\ SoundReviewer(t.target) /\ SoundPend(t.target)
    /\ call'.pc = "terminal" /\ call'.phase = t /\ Keeps
    /\ call'.undo.on /\ call'.undo.status = status /\ call'.undo.attempt = t.from
    /\ call'.next \in {"idle", "choose"} /\ (call'.next = "choose" => In("choose"))

LEMMA FinalizeStep ==
    ASSUME AInv, ~In("idle"), ~Finalizing,
           NEW n \in Attempts, NEW from \in Records, NEW to \in Final, NEW target \in Statuses,
           NEW next \in {"idle", "choose"}, next = "choose" => In("choose"),
           Finalize(n, from, to, target, next),
           n = status.cur \/ n = status.count + 1,
           target.count = n, target.cur = 0, target.reviewer = status.reviewer,
           target.st \in {"handoff_ready", "review_failed", "transport_failed", "ingested"},
           target.st = "ingested" => to = "ingested" /\ Answered(target),
           status.st # "ingested", SoundReviewer(target), SoundPend(target)
    PROVE  \E t : Ends(t)
<1> USE Parts, ResponsesTyped, NumbersTyped DEF AInv, IInv
<1>1. n \in Nat /\ n # 0 /\ (n = status.cur => status.cur = status.count)
  BY DEF Attempts, Legal
<1>2. \A u \in Of("terminal") : u.seq # n /\ Bound(u.seq)
  <2> TAKE u \in Of("terminal")
  <2>1. Bound(u.seq)
    BY DEF Sealing, Finalizing, In
  <2>2. status.count >= u.seq /\ status.cur # u.seq
    BY <2>1 DEF Bound, Past
  <2> QED
    BY <1>1, <2>1, <2>2
<1>3. At("terminal", n) = {}
  BY <1>2 DEF At
<1> DEFINE t == [kind |-> "terminal", seq |-> n, op |-> call.op, prior |-> status,
                 target |-> target, from |-> from, to |-> to]
           u == [attempt |-> from, status |-> status, on |-> TRUE]
<1>4. /\ phases' = phases \cup {t} /\ attempt[n] = from /\ receipt[n] = "none"
      /\ call' = [call EXCEPT !.pc = "terminal", !.next = next, !.phase = t, !.undo = u]
  <2>1. attempt[n] = from /\ ~HasFile(n)
    BY <1>3 DEF Finalize, Startable
  <2>2. ~HasRow(n)
    BY <1>2 DEF Committed
  <2> QED
    BY <1>3, <2>1, <2>2 DEF Finalize, HasFile, HasRow, TypeOK
<1>5. /\ t.kind = "terminal" /\ t.seq = n /\ t.prior = status /\ t.target = target
      /\ t.from = from /\ t.to = to
  OBVIOUS
<1>6. t \in Phases
  BY DEF Phases, Calls, Records
<1>7. u.attempt = from /\ u.status = status /\ u.on
  OBVIOUS
<1> HIDE DEF t, u
<1>8. /\ call'.pc = "terminal" /\ call'.next = next /\ call'.phase = t /\ call'.undo = u
      /\ Keeps
  BY <1>4 DEF Calls, Keeps
<1>9. TerminalShape(t)
  BY <1>1, <1>5 DEF TerminalShape
<1> QED
  BY <1>2, <1>4, <1>5, <1>6, <1>7, <1>8, <1>9 DEF Ends

LEMMA FinishingStep ==
    ASSUME AInv, Finishing
    PROVE  \E t : Ends(t)
<1> USE Parts, ResponsesTyped, NumbersTyped DEF AInv, IInv
<1>1. ~In("idle") /\ ~Finalizing
  BY Where DEF In, Finalizing
<1>2. Sound(status)
  BY DEF Statused
<1>3. \A st \in States, n \in Numbers :
          /\ Ended(st, n).st = st /\ Ended(st, n).count = n /\ Ended(st, n).cur = 0
          /\ Ended(st, n).pend = 0 /\ Ended(st, n).reviewer = status.reviewer
          /\ Ended(st, n).claim = status.claim /\ Ended(st, n).mode = status.mode
  BY DEF Ended, Statuses
<1>4. CASE Supersede
  <2> DEFINE e == Ended("handoff_ready", status.count)
             s == [e EXCEPT !.pend = status.pend]
  <2>1. /\ In("choose") /\ Unaccepted /\ HasNext /\ status.cur # 0
        /\ Finalize(status.count, "reserved", "browser_attempt_superseded", s, "choose")
    BY <1>4 DEF Supersede
  <2>2. /\ status.cur = status.count /\ status.count \in Attempts /\ status.count \in Numbers
        /\ status.pend = 0
    BY <2>1 DEF Legal, Unaccepted, Attempts, Numbers, Statuses
  <2>3. /\ e \in Statuses /\ e.st = "handoff_ready" /\ e.count = status.count /\ e.cur = 0
        /\ e.reviewer = status.reviewer
    BY <1>3, <2>2, EndedTyped DEF States
  <2> HIDE DEF e
  <2>4. /\ s \in Statuses /\ s.st = "handoff_ready" /\ s.count = status.count /\ s.cur = 0
        /\ s.reviewer = status.reviewer /\ s.pend = 0
    BY <2>2, <2>3 DEF Statuses
  <2> HIDE DEF s
  <2>5. SoundReviewer(s) /\ SoundPend(s)
    BY <1>2, <2>1, <2>2, <2>4 DEF Sound, SoundReviewer, SoundPend, Unaccepted
  <2>6. "browser_attempt_superseded" \in Final /\ "reserved" \in Records
    BY DEF Final, Records
  <2> QED
    BY <1>1, <2>1, <2>2, <2>4, <2>5, <2>6, FinalizeStep DEF Unaccepted
<1>5. CASE TransportFails
  <2> DEFINE n == Planned
             s == Ended("transport_failed", n)
  <2>1. /\ In("review") /\ response[n] = "none"
        /\ Finalize(n, "none", "transport_failed", s, "idle")
    BY <1>5 DEF TransportFails
  <2>2. n = status.pend /\ status.st = "submitting" /\ n = status.count + 1 /\ n \in Attempts
    <3>1. n = status.pend /\ status.st = "submitting" /\ call.phase \in Of("automated")
      BY <2>1 DEF Working, Planned, Placed
    <3> QED
      BY <3>1 DEF Legal, Formed, Of, Planned, Attempts
  <2> HIDE DEF n
  <2>3. /\ s \in Statuses /\ s.st = "transport_failed" /\ s.count = n /\ s.cur = 0
        /\ s.reviewer = status.reviewer /\ s.pend = 0
    BY <1>3, <2>2, EndedTyped DEF States, Failed
  <2> HIDE DEF s
  <2>4. status.reviewer = 0
    BY <1>2, <2>1, <2>2 DEF Sound, SoundReviewer
  <2>5. SoundReviewer(s) /\ SoundPend(s)
    BY <2>3, <2>4 DEF SoundReviewer, SoundPend
  <2>6. "transport_failed" \in Final /\ "none" \in Records
    BY DEF Final, Failed, Records
  <2> QED
    BY <1>1, <2>1, <2>2, <2>3, <2>5, <2>6, FinalizeStep
<1>6. CASE Reject
  <2> DEFINE n == FailedAttempt
             from == IF Reserved THEN "reserved" ELSE "none"
             e == Ended("review_failed", n)
             s == [e EXCEPT !.claim = 0, !.mode = "none"]
  <2>1. /\ In("judge") /\ ~Valid /\ (Reserved \/ HasNext)
        /\ Finalize(n, from, "review_failed", s, "idle")
    BY <1>6 DEF Reject
  <2>2. /\ n \in Attempts /\ n \in Numbers /\ (n = status.cur \/ n = status.count + 1)
    BY <2>1 DEF FailedAttempt, Reserved, Legal, Attempts, Numbers, Statuses
  <2> HIDE DEF n
  <2>3. /\ e \in Statuses /\ e.st = "review_failed" /\ e.count = n /\ e.cur = 0
        /\ e.reviewer = status.reviewer /\ e.pend = 0
    BY <1>3, <2>2, EndedTyped DEF States, Failed
  <2> HIDE DEF e
  <2>4. /\ s \in Statuses /\ s.st = "review_failed" /\ s.count = n /\ s.cur = 0
        /\ s.reviewer = status.reviewer /\ s.pend = 0
    BY <2>3 DEF Statuses
  <2> HIDE DEF s
  <2>5. call.path \in Responses /\ response[call.path] # "good" /\ status.st # "ingested"
    BY <2>1 DEF Placed, Valid, Content, Working
  <2>6. status.reviewer # 0 => response[status.reviewer] \notin {"none", "good"}
    <3>1. CASE status.pend = 0
      BY <1>2, <2>5, <3>1 DEF Sound, SoundReviewer
    <3>2. CASE status.st = "ingesting"
      <4>1. PICK c \in Of("ingest") : c.target = status
        BY <1>2, <3>2 DEF Sound, SoundClaim
      <4>2. ClaimShape(c)
        BY <4>1 DEF Shapes
      <4>3. c.prior \in Statuses /\ c.target \in Statuses
        BY DEF Of, Phases
      <4>4. c.target.claim = c.seq /\ response[c.seq] = "good"
        BY <4>2, <4>3 DEF ClaimShape, Statuses
      <4>5. call.path = status.claim
        BY <2>1, <3>2 DEF Working
      <4> QED
        BY <2>5, <4>1, <4>4, <4>5
    <3>3. CASE status.pend # 0 /\ status.st # "ingesting"
      <4>1. call.path = status.pend
        BY <2>1, <3>3 DEF Working
      <4> QED
        BY <1>2, <2>5, <3>3, <4>1 DEF Sound, SoundReviewer
    <3> QED
      BY <3>1, <3>2, <3>3
  <2>7. SoundReviewer(s) /\ SoundPend(s)
    BY <2>4, <2>6 DEF SoundReviewer, SoundPend
  <2>8. "review_failed" \in Final /\ from \in Records
    BY DEF Final, Failed, Records
  <2> HIDE DEF from
  <2> QED
    BY <1>1, <2>1, <2>2, <2>4, <2>5, <2>7, <2>8, FinalizeStep
<1>7. CASE Accept /\ status.mode # "untracked"
  <2>1. In("accept") /\ status.st = "ingesting" /\ status.claim \in Responses
    BY <1>7, Where DEF Placed, Statuses
  <2>2. PICK c \in Of("ingest") : c.target = status
    BY <1>2, <2>1 DEF Sound, SoundClaim
  <2>3. ClaimShape(c) /\ c.prior \in Statuses /\ c.target \in Statuses
    BY <2>2 DEF Shapes, Of, Phases
  <2>4. c.seq = status.claim /\ response[status.claim] = "good" /\ evidence[status.claim] = "bound"
    BY <2>1, <2>2, <2>3 DEF ClaimShape, Statuses, Working
  <2>5. ASSUME NEW n \in Attempts, NEW from \in Records, n \in Numbers,
               n = status.cur \/ n = status.count + 1,
               Finalize(n, from, "ingested", Ended("ingested", n), "idle"),
               \/ /\ status.mode = "browser_reserved"
                  /\ \E p \in At("reservation", n) : p.target.curResp = status.claim
               \/ status.mode = "automated" /\ status.claim = n /\ At("automated", n) # {}
        PROVE  \E t : Ends(t)
    <3> DEFINE s == Ended("ingested", n)
    <3>1. /\ s \in Statuses /\ s.st = "ingested" /\ s.count = n /\ s.cur = 0
          /\ s.reviewer = status.reviewer /\ s.pend = 0 /\ s.claim = status.claim
          /\ s.mode = status.mode
      BY <1>3, <2>1, <2>5, EndedTyped DEF States
    <3>2. Finalize(n, from, "ingested", s, "idle")
      BY <2>5
    <3> HIDE DEF s
    <3>3. SoundReviewer(s) /\ SoundPend(s)
      BY <3>1 DEF SoundReviewer, SoundPend
    <3>4. Answered(s)
      BY <2>4, <2>5, <3>1 DEF Answered
    <3>5. "ingested" \in Final
      BY DEF Final
    <3> QED
      BY <1>1, <2>1, <2>5, <3>1, <3>2, <3>3, <3>4, <3>5, FinalizeStep
  <2>6. status.mode \in {"automated", "browser_reserved"}
    BY <1>7, <2>1 DEF Statuses
  <2>7. CASE status.mode = "browser_reserved"
    <3>1. status.cur # 0 /\ status.cur = status.count
      BY <2>1, <2>7 DEF Legal
    <3>2. status.count \in Attempts /\ status.count \in Numbers
      BY <3>1 DEF Attempts, Numbers, Statuses
    <3>3. Finalize(status.count, "reserved", "ingested", Ended("ingested", status.count), "idle")
      BY <1>7, <2>7 DEF Accept
    <3>4. \E p \in At("reservation", status.count) : p.target.curResp = status.claim
      BY <2>2, <2>3, <2>4, <2>7 DEF ClaimShape
    <3>5. "reserved" \in Records
      BY DEF Records
    <3> QED
      BY <2>5, <2>7, <3>1, <3>2, <3>3, <3>4, <3>5
  <2>8. CASE status.mode = "automated"
    <3>1. status.pend # 0 /\ status.pend = status.count + 1
      BY <2>1, <2>8 DEF Legal
    <3>2. status.pend \in Attempts /\ status.pend \in Numbers
      BY <3>1
    <3>3. Finalize(status.pend, "none", "ingested", Ended("ingested", status.pend), "idle")
      BY <1>7, <2>8 DEF Accept
    <3>4. status.claim = status.pend /\ At("automated", status.pend) # {}
      BY <2>2, <2>3, <2>4, <2>8 DEF ClaimShape
    <3>5. "none" \in Records
      BY DEF Records
    <3> QED
      BY <2>5, <2>8, <3>1, <3>2, <3>3, <3>4, <3>5
  <2> QED
    BY <2>6, <2>7, <2>8
<1> QED
  BY <1>4, <1>5, <1>6, <1>7 DEF Finishing

-----------------------------------------------------------------------------
(* What the invariant says of the phases, in their parts.                   *)

LEMMA TerminalParts ==
    ASSUME AInv, NEW t \in Of("terminal")
    PROVE  /\ t \in Phases /\ t.seq \in Attempts /\ t.prior \in Statuses /\ t.target \in Statuses
           /\ TerminalShape(t)
  BY Parts DEF AInv, IInv, Shapes, Of, Formed, Phases

LEMMA ReservationParts ==
    ASSUME AInv, NEW p \in Of("reservation")
    PROVE  /\ p \in Phases /\ p.seq \in Attempts /\ p.prior \in Statuses /\ p.target \in Statuses
           /\ p.prior.st \notin {"ingesting", "ingested"} /\ p.prior.count + 1 = p.seq
           /\ p.target.st = "pending_browser_upload" /\ p.target.count = p.seq
           /\ p.target.cur = p.seq /\ p.target.reviewer = p.prior.reviewer
           /\ p.target.pend = p.prior.pend /\ p.target.curResp \in Responses
           /\ p.target.curResp # p.prior.reviewer
<1>1. /\ p \in Phases /\ p.seq \in Attempts /\ p.prior \in Statuses /\ p.target \in Statuses
      /\ ReservationShape(p)
  BY Parts DEF AInv, IInv, Shapes, Of, Formed, Phases
<1> QED
  BY <1>1 DEF ReservationShape, Statuses

LEMMA AutomatedParts ==
    ASSUME AInv, NEW p \in Of("automated")
    PROVE  /\ p \in Phases /\ p.seq \in Attempts /\ p.prior \in Statuses /\ p.target \in Statuses
           /\ p.target.st = "submitting" /\ p.target.count = p.prior.count
           /\ p.target.cur = p.prior.cur /\ p.target.pend = p.seq /\ p.target.reviewer = 0
<1>1. /\ p \in Phases /\ p.seq \in Attempts /\ p.prior \in Statuses /\ p.target \in Statuses
      /\ AutomatedShape(p)
  BY Parts DEF AInv, IInv, Shapes, Of, Formed, Phases
<1> QED
  BY <1>1 DEF AutomatedShape, Statuses

LEMMA ClaimParts ==
    ASSUME AInv, NEW c \in Of("ingest")
    PROVE  /\ c \in Phases /\ c.seq \in Responses /\ c.prior \in Statuses /\ c.target \in Statuses
           /\ c.prior.st \notin {"ingesting", "ingested"} /\ c.target.st = "ingesting"
           /\ c.target.count = c.prior.count /\ c.target.cur = c.prior.cur
           /\ c.target.curResp = c.prior.curResp /\ c.target.pend = c.prior.pend
           /\ c.target.reviewer = c.prior.reviewer /\ c.target.claim = c.seq
           /\ response[c.seq] = "good" /\ ClaimShape(c)
<1>1. /\ c \in Phases /\ c.prior \in Statuses /\ c.target \in Statuses /\ ClaimShape(c)
  BY Parts DEF AInv, IInv, Shapes, Of, Phases
<1> QED
  BY <1>1 DEF ClaimShape, Statuses

\* The call that works on a terminal phase, or on a reservation.
LEMMA InHand ==
    ASSUME AInv
    PROVE  /\ Finalizing => call.phase \in Of("terminal")
           /\ In("terminal") => call.phase \in Of("terminal")
           /\ In("reserve") => call.phase \in Of("reservation")
           /\ In("submit") \/ In("review") => call.phase \in Of("automated")
           /\ In("claimed") => call.phase \in Of("ingest")
           /\ call.undo.on => Finalizing
  BY Parts DEF AInv, IInv, Placed, Finalizing

\* The status of a terminal phase is written before the phase is sealed.
LEMMA TerminalWrites ==
    ASSUME AInv, WriteTerminalStatus
    PROVE  /\ call.phase \in Of("terminal") /\ ~Bound(call.phase.seq)
           /\ status = call.phase.prior /\ status' = call.phase.target
           /\ attempt[call.phase.seq] = call.phase.to
           /\ UNCHANGED <<attempt, receipt, rows, response, evidence, phases, call>>
<1>1. /\ In("terminal") /\ status = call.phase.prior /\ status' = call.phase.target
      /\ attempt[call.phase.seq] = call.phase.to
      /\ UNCHANGED <<attempt, receipt, rows, response, evidence, phases, call>>
  BY DEF WriteTerminalStatus, AttemptWritten, files
<1>2. call.phase \in Of("terminal")
  BY <1>1, InHand
<1>3. call.phase.prior.count < call.phase.seq \/ call.phase.prior.cur = call.phase.seq
  BY <1>2, TerminalParts DEF TerminalShape
<1>4. call.phase.seq \in Nat /\ status.count \in Nat
  BY <1>2, TerminalParts, Parts DEF AInv, IInv, Attempts, Statuses, Numbers
<1>5. ~Bound(call.phase.seq)
  BY <1>1, <1>2, <1>3, <1>4 DEF Bound, Past
<1> QED
  BY <1>1, <1>2, <1>5

LEMMA ReservationWrites ==
    ASSUME AInv, ReserveStatus
    PROVE  /\ In("reserve") /\ call.phase \in Of("reservation")
           /\ status = call.phase.prior /\ status' = call.phase.target /\ Legal(call.phase.target)
           /\ response[call.phase.target.curResp] # "none"
           /\ UNCHANGED <<attempt, receipt, rows, response, evidence, phases, call>>
<1>1. /\ In("reserve") /\ status = call.phase.prior /\ status' = call.phase.target
      /\ Legal(call.phase.target) /\ attempt[call.phase.seq] = "reserved"
      /\ UNCHANGED <<attempt, receipt, rows, response, evidence, phases, call>>
  BY DEF ReserveStatus, files
<1>2. call.phase \in Of("reservation")
  BY <1>1, InHand
<1> QED
  BY <1>1, <1>2 DEF AInv, Marked

\* An undo is kept, while a finalization goes on, or set by the end of an attempt.
LEMMA UndoMoves ==
    ASSUME AInv, [Next]_vars, call'.undo.on
    PROVE  call' = call \/ Binds \/ Finishing
<1>1. In("terminal")' \/ In("sealed")'
  BY TypedNext, Parts DEF AInv, IInv, Typed, Placed, Finalizing
<1>2. Enter => ~call'.undo.on
  BY EnterStep DEF AInv, IInv
<1>3. In("reserve") => call.next \in {"idle", "choose"}
  BY DEF AInv, InTurn
<1> QED
  BY <1>1, <1>2, <1>3, Arrives DEF AInv, IInv

\* While an end is open, only the call that carries it out writes the status.
LEMMA OpenEnd ==
    ASSUME AInv, [Next]_vars, NEW t \in Of("terminal"), ~Bound(t.seq)
    PROVE  /\ In("idle") \/ (Finalizing /\ call.phase = t)
           /\ status' \in {t.prior, t.target}
<1> USE DEF AInv, IInv
<1>1. In("idle") \/ Finalizing
  BY DEF Sealing, Finalizing, In
<1>2. Finalizing => call.phase = t
  <2>1. Finalizing => t.seq = call.phase.seq /\ call.phase \in Of("terminal")
    BY InHand DEF Sealing
  <2> QED
    BY <2>1 DEF Sealing
<1>3. status \in {t.prior, t.target}
  BY DEF Sealing
<1>4. CASE WriteTerminalStatus
  <2>1. status' = call.phase.target /\ Finalizing
    BY <1>4, TerminalWrites, Where DEF Finalizing
  <2> QED
    BY <1>1, <1>2, <2>1
<1>5. CASE Undo /\ call.undo.on
  <2>1. status' = call.phase.prior /\ Finalizing
    BY <1>5, InHand DEF Undo, Sealing
  <2> QED
    BY <1>1, <1>2, <2>1
<1>6. ~(Handoff \/ Bind \/ ReserveStatus \/ AcceptUntracked \/ In("submit") \/ In("claim")
          \/ In("claimed"))
  BY <1>1, Where DEF AcceptUntracked, Finalizing, In
<1> QED
  BY <1>1, <1>2, <1>3, <1>4, <1>5, <1>6, StatusMoves

\* No step takes a receipt away that no finalization holds open.
LEMMA SealedKept ==
    ASSUME AInv, [Next]_vars, NEW n \in Attempts, Sealed(n)
    PROVE  Sealed(n)'
<1> USE Parts DEF AInv, IInv
<1>1. receipt'[n] = "bound"
  <2>1. CASE WriteReceipt \/ BindReceipt
    <3>1. \/ receipt' = [receipt EXCEPT ![call.phase.seq] = IF @ = "row" THEN "bound" ELSE "file"]
             /\ ~HasFile(call.phase.seq)
          \/ receipt' = [receipt EXCEPT ![call.phase.seq] = "bound"]
      BY <2>1 DEF WriteReceipt, BindReceipt
    <3> QED
      BY <3>1 DEF Sealed, HasFile
  <2>2. CASE Undo /\ call.undo.on
    <3>1. Finalizing
      BY <2>2, InHand
    <3>2. /\ receipt' = [receipt EXCEPT ![call.phase.seq] =
                              IF HasRow(call.phase.seq) THEN "row" ELSE "none"]
          /\ call.phase.seq # n
      BY <2>2, <3>1 DEF Undo, Sealed, Undoable
    <3> QED
      BY <3>2 DEF Sealed
  <2>3. CASE receipt' = receipt
    BY <2>3 DEF Sealed
  <2> QED
    BY <2>1, <2>2, <2>3, MarkMoves
<1>2. ~Undoable(n)'
  <2> SUFFICES ASSUME call'.undo.on, call'.phase.seq = n, Finalizing' PROVE FALSE
    BY DEF Undoable
  <2>1. CASE call' = call
    BY <2>1 DEF Sealed, Undoable, Finalizing, In
  <2>2. CASE Binds
    BY <2>2, Where DEF Binds, Sealed, Undoable, Finalizing
  <2>3. CASE Finishing
    BY <2>3, FinishingStep DEF Ends, Sealed
  <2> QED
    BY <2>1, <2>2, <2>3, UndoMoves
<1> QED
  BY <1>1, <1>2 DEF Sealed

\* The row of a receipt is committed by the binding of the attempt in hand alone.
LEMMA RowBy ==
    ASSUME Typed, [Next]_vars, NEW n \in Attempts, ~HasRow(n), HasRow(n)'
    PROVE  BindReceipt /\ n = call.phase.seq /\ receipt' = [receipt EXCEPT ![n] = "bound"]
<1>1. receipt[n] \notin {"row", "bound"} /\ receipt'[n] \in {"row", "bound"}
  BY DEF HasRow
<1>2. ~WriteReceipt
  <2> SUFFICES ASSUME WriteReceipt PROVE FALSE
    OBVIOUS
  <2>1. receipt' = [receipt EXCEPT ![call.phase.seq] = IF @ = "row" THEN "bound" ELSE "file"]
    BY DEF WriteReceipt
  <2> QED
    BY <1>1, <2>1, Parts
<1>3. ~(Undo /\ call.undo.on)
  <2> SUFFICES ASSUME Undo, call.undo.on PROVE FALSE
    OBVIOUS
  <2>1. receipt' = [receipt EXCEPT ![call.phase.seq] =
                        IF HasRow(call.phase.seq) THEN "row" ELSE "none"]
    BY DEF Undo
  <2> QED
    BY <1>1, <2>1, Parts
<1>4. BindReceipt
  BY <1>1, <1>2, <1>3, MarkMoves
<1>5. receipt' = [receipt EXCEPT ![call.phase.seq] = "bound"]
  BY <1>4 DEF BindReceipt
<1> QED
  BY <1>1, <1>4, <1>5, Parts

\* Only the phase in hand is sealed, with the status that it leads to; its row is or was
\* committed under the integrity report of the job.
LEMMA BoundBy ==
    ASSUME AInv, [Next]_vars, NEW n \in Attempts, ~Bound(n), Bound(n)'
    PROVE  /\ Finalizing /\ call.phase \in Of("terminal") /\ n = call.phase.seq
           /\ status' = call.phase.target /\ AllRows
<1> USE Parts DEF AInv, IInv
<1>1. HasRow(n) \/ (BindReceipt /\ n = call.phase.seq)
  BY RowBy DEF HasRow, Bound, Sealed
<1>2. PICK t \in Of("terminal") : t.seq = n
  <2>1. CASE HasRow(n)
    BY <2>1 DEF Committed
  <2>2. CASE BindReceipt /\ n = call.phase.seq
    BY <2>2, InHand, Where
  <2> QED
    BY <1>1, <2>1, <2>2
<1>3. AllRows
  <2>1. CASE HasRow(n)
    BY <1>2, <2>1 DEF Committed
  <2>2. CASE BindReceipt
    BY <2>2 DEF BindReceipt, Certified, AllRows
  <2> QED
    BY <1>1, <2>1, <2>2
<1>4. ~In("idle")
  <2> SUFFICES ASSUME In("idle") PROVE FALSE
    OBVIOUS
  <2>1. receipt' = receipt
    BY MarkMoves, Where, InHand DEF In, Finalizing
  <2>2. status' = status
    BY StatusMoves, Where, InHand DEF AcceptUntracked, In, Finalizing
  <2>3. ~Undoable(n)
    BY DEF Undoable, Finalizing, In
  <2> QED
    BY <2>1, <2>2, <2>3 DEF Bound, Sealed, Past
<1>5. Finalizing /\ call.phase = t /\ status' \in {t.prior, t.target}
  BY <1>2, <1>4, OpenEnd
<1>6. status' # t.prior
  <2>1. t.prior.count < n \/ t.prior.cur = n
    BY <1>2, TerminalParts DEF TerminalShape
  <2>2. n \in Nat /\ t.prior.count \in Nat
    BY <1>2, TerminalParts DEF Attempts, Statuses, Numbers
  <2>3. status'.count >= n /\ status'.cur # n
    BY DEF Bound, Past
  <2> QED
    BY <2>1, <2>2, <2>3
<1> QED
  BY <1>2, <1>3, <1>5, <1>6

LEMMA AnsweredStays ==
    ASSUME AInv, [Next]_vars, NEW s \in Statuses, s.st = "ingested", Answered(s)
    PROVE  Answered(s)'
<1>1. s.claim \in Responses
  BY DEF Statuses
<1>2. evidence'[s.claim] = "bound" /\ response'[s.claim] = "good"
  BY <1>1, EvidenceStays, TextsStay DEF AInv, IInv, Answered
<1>3. \A kind : Of(kind) \subseteq Of(kind)'
  BY Grown DEF AInv, IInv
<1> QED
  BY <1>2, <1>3 DEF Answered, At

-----------------------------------------------------------------------------
(* A dead reservation stays dead.                                           *)

LEMMA HandoffStep ==
    ASSUME Typed, Handoff
    PROVE  /\ status'.st = "handoff_ready" /\ status'.count = status.count
           /\ status'.cur = status.cur /\ status'.pend = status.pend /\ status.cur = 0
           /\ status'.reviewer = status.reviewer /\ status'.mode = status.mode
<1>1. PICK time \in {status.at, Min({status.at + 1, MaxHandoffs})} :
          LET s == [status EXCEPT !.st = "handoff_ready", !.at = time] IN
          Legal(s) /\ status' = s
  BY DEF Handoff
<1>2. status.cur = 0
  BY DEF Handoff
<1> QED
  BY <1>1, <1>2, Parts DEF Statuses

\* What is not sealed stays so until the rows of every reservation are there.
LEMMA UnsealedStays ==
    ASSUME AInv, [Next]_vars, NEW p \in Of("reservation"), p.seq \notin rows, Unsealed
    PROVE  Unsealed'
<1>1. PICK t \in Of("terminal") : ~Bound(t.seq)
  BY DEF Unsealed
<1>2. t \in Of("terminal")' /\ t.seq \in Attempts
  BY Grown, TerminalParts DEF AInv, IInv
<1>3. ~Bound(t.seq)'
  BY <1>2, <1>1, BoundBy DEF AllRows
<1> QED
  BY <1>2, <1>3 DEF Unsealed

\* No step writes the status of a dead reservation.
LEMMA StatusElsewhere ==
    ASSUME AInv, [Next]_vars, NEW p \in Of("reservation"), Dead(p),
           In("reserve") => call.phase # p \/ response[p.target.curResp] = "none"
    PROVE  status' # p.target
<1> USE DEF AInv, IInv
<1>1. p.target.st = "pending_browser_upload" /\ p.target.count = p.seq
  BY ReservationParts
<1>2. status # p.target /\ (call.undo.on => call.undo.status # p.target)
  BY DEF Dead
<1>3. CASE Handoff
  BY <1>1, <1>3, HandoffStep
<1>4. CASE Bind
  <2>1. status' = [status EXCEPT !.reviewer = call.path] /\ status.st = "submitting"
    BY <1>4 DEF Bind
  <2>2. status'.st = "submitting"
    BY <2>1, Parts DEF Statuses
  <2> QED
    BY <1>1, <2>2
<1>5. CASE WriteTerminalStatus
  BY <1>1, <1>5, TerminalWrites, TerminalParts DEF TerminalShape
<1>6. CASE ReserveStatus
  <2>1. /\ In("reserve") /\ call.phase \in Of("reservation") /\ status' = call.phase.target
        /\ response[call.phase.target.curResp] # "none"
    BY <1>6, ReservationWrites
  <2>2. call.phase # p
    BY <2>1
  <2>3. call.phase.seq # p.seq
    BY <2>1, <2>2 DEF InTurn
  <2> QED
    BY <1>1, <2>1, <2>3, ReservationParts
<1>7. CASE In("submit") /\ status' = call.phase.target
  BY <1>1, <1>7, InHand, AutomatedParts
<1>8. CASE \E c \in Of("ingest") : status' = c.target
  BY <1>1, <1>8, ClaimParts
<1>9. CASE AcceptUntracked /\ status' = [status EXCEPT !.st = "ingested"]
  <2>1. status'.st = "ingested"
    BY <1>9, Parts DEF Statuses
  <2> QED
    BY <1>1, <2>1
<1>10. CASE Undo /\ call.undo.on
  BY <1>2, <1>10 DEF Undo
<1> QED
  BY <1>2, <1>3, <1>4, <1>5, <1>6, <1>7, <1>8, <1>9, <1>10, StatusMoves

\* The count of attempts passes a dead reservation under an open end only.
LEMMA CountMoves ==
    ASSUME AInv, [Next]_vars, status'.count # status.count
    PROVE  \/ /\ WriteTerminalStatus /\ status'.count = call.phase.seq /\ Unsealed
              /\ status'.cur = 0 /\ status.count <= call.phase.seq
           \/ /\ ReserveStatus /\ call.phase \in Of("reservation") /\ status = call.phase.prior
              /\ status'.count = call.phase.seq /\ call.phase.seq = status.count + 1
              /\ status'.cur = call.phase.seq
           \/ Undo /\ call.undo.on /\ status' = call.undo.status /\ Unsealed
<1> USE Parts DEF AInv, IInv
<1>1. ~Handoff
  BY HandoffStep
<1>2. ~Bind
  <2> SUFFICES ASSUME Bind PROVE FALSE
    OBVIOUS
  <2>1. status' = [status EXCEPT !.reviewer = call.path]
    BY DEF Bind
  <2> QED
    BY <2>1 DEF Statuses
<1>3. ~(In("submit") /\ status = call.phase.prior /\ status' = call.phase.target)
  BY InHand, AutomatedParts
<1>4. ~(\E c \in Of("ingest") : status = c.prior /\ status' = c.target)
  BY ClaimParts
<1>5. ~(status' = [status EXCEPT !.st = "ingested"])
  BY DEF Statuses
<1>6. CASE WriteTerminalStatus
  <2>1. /\ call.phase \in Of("terminal") /\ ~Bound(call.phase.seq) /\ status = call.phase.prior
        /\ status' = call.phase.target /\ receipt' = receipt /\ phases' = phases
    BY <1>6, TerminalWrites
  <2>2. status'.count = call.phase.seq /\ status'.cur = 0 /\ status.count <= call.phase.seq
    BY <2>1, TerminalParts DEF TerminalShape
  <2>3. Unsealed
    BY <2>1 DEF Unsealed
  <2> QED
    BY <1>6, <2>2, <2>3
<1>7. CASE ReserveStatus
  <2>1. /\ call.phase \in Of("reservation") /\ status = call.phase.prior
        /\ status' = call.phase.target
    BY <1>7, ReservationWrites
  <2> QED
    BY <1>7, <2>1, ReservationParts
<1>8. CASE Undo /\ call.undo.on
  <2>1. call.phase \in Of("terminal") /\ Finalizing /\ status' = call.undo.status
    BY <1>8, InHand DEF Undo
  <2>2. Unsealed
    BY <1>8, <2>1 DEF Unsealed, Bound, Sealed, Undoable
  <2> QED
    BY <1>8, <2>1, <2>2
<1> QED
  BY <1>1, <1>2, <1>3, <1>4, <1>5, <1>6, <1>7, <1>8, StatusMoves

\* The count never falls behind what is sealed, and no sealed attempt is current.
LEMMA PastSealed ==
    ASSUME AInv, [Next]_vars, NEW t \in Of("terminal"), Bound(t.seq)
    PROVE  status'.count >= t.seq /\ status'.cur # t.seq
<1> USE Parts DEF AInv, IInv
<1>1. /\ t.seq \in Nat /\ t.seq # 0 /\ status.count \in Nat
      /\ status.count >= t.seq /\ status.cur # t.seq
      /\ call.undo.on => call.undo.status.count >= t.seq /\ call.undo.status.cur # t.seq
  BY TerminalParts DEF Sealing, Bound, Past, Attempts, Statuses, Numbers
<1>2. CASE status'.count # status.count
  <2>1. CASE WriteTerminalStatus /\ status'.count = call.phase.seq /\ status'.cur = 0
               /\ status.count <= call.phase.seq
    <3>1. call.phase.seq \in Nat
      BY <2>1, TerminalWrites, TerminalParts DEF Attempts
    <3> QED
      BY <1>1, <2>1, <3>1
  <2>2. CASE status'.count = call.phase.seq /\ call.phase.seq = status.count + 1
               /\ status'.cur = call.phase.seq
    BY <1>1, <2>2
  <2>3. CASE call.undo.on /\ status' = call.undo.status
    BY <1>1, <2>3
  <2> QED
    BY <1>2, <2>1, <2>2, <2>3, CountMoves
<1>3. CASE status'.count = status.count
  <2>1. Bind => status'.cur = status.cur
    <3> SUFFICES ASSUME Bind PROVE status'.cur = status.cur
      OBVIOUS
    <3>1. status' = [status EXCEPT !.reviewer = call.path]
      BY DEF Bind
    <3> QED
      BY <3>1 DEF Statuses
  <2>2. Handoff => status'.cur = status.cur
    BY HandoffStep
  <2>3. WriteTerminalStatus => status'.cur = 0
    BY TerminalWrites, TerminalParts DEF TerminalShape
  <2>4. ~ReserveStatus
    BY <1>1, <1>3, ReservationWrites, ReservationParts
  <2>5. In("submit") /\ status = call.phase.prior /\ status' = call.phase.target
           => status'.cur = status.cur
    BY InHand, AutomatedParts
  <2>6. (\E c \in Of("ingest") : status = c.prior /\ status' = c.target)
           => status'.cur = status.cur
    BY ClaimParts
  <2>7. status' = [status EXCEPT !.st = "ingested"] => status'.cur = status.cur
    BY DEF Statuses
  <2>8. Undo /\ call.undo.on => status'.cur # t.seq
    BY <1>1 DEF Undo
  <2>9. status'.cur = status.cur \/ status'.cur = 0 \/ (Undo /\ call.undo.on)
    BY <2>1, <2>2, <2>3, <2>4, <2>5, <2>6, <2>7, StatusMoves
  <2> QED
    BY <1>1, <1>3, <2>8, <2>9
<1> QED
  BY <1>2, <1>3

\* What is sealed stays sealed.
LEMMA BoundStays ==
    ASSUME AInv, [Next]_vars, NEW n \in Attempts, Bound(n)
    PROVE  Bound(n)'
<1>1. Sealed(n)'
  BY SealedKept DEF Bound
<1>2. PICK t \in Of("terminal") : t.seq = n
  BY DEF AInv, Committed, Bound, Sealed, HasRow
<1>3. Past(n)'
  BY <1>2, PastSealed DEF Past
<1> QED
  BY <1>1, <1>3 DEF Bound

LEMMA DeadStays ==
    ASSUME AInv, [Next]_vars, NEW p \in Of("reservation"), Dead(p),
           In("reserve") => call.phase # p \/ response[p.target.curResp] = "none"
    PROVE  Dead(p)'
<1> USE DEF AInv, IInv
<1>1. p.seq \in Attempts /\ p.seq \in Nat /\ p.target.count = p.seq /\ p.target \in Statuses
  BY ReservationParts DEF Attempts
<1>2. status.count \in Nat
  BY Parts DEF Statuses, Numbers
<1>3. p.seq \notin rows'
  <2> SUFFICES ASSUME NEW q \in Of("reservation"), RowOf(q), q.seq = p.seq PROVE FALSE
    BY RowMoves DEF Dead, RowOf
  <2>1. q = p
    BY DEF InTurn
  <2>2. /\ In("reservation") /\ p = Reservation /\ PastReservation
        /\ p.seq \notin rows /\ (status.count < p.seq \/ Unsealed)
    BY <2>1 DEF RowOf, Dead
  <2>3. status.count >= p.seq
    BY <2>2 DEF PastReservation
  <2>4. ~Unsealed
    BY <2>2 DEF Sealing, Unsealed, In
  <2> QED
    BY <1>1, <1>2, <2>2, <2>3, <2>4
<1>4. status' # p.target
  BY StatusElsewhere
<1>5. call'.undo.on => call'.undo.status # p.target
  <2>1. CASE call' = call \/ Binds
    BY <2>1 DEF Dead, Binds
  <2>2. CASE Finishing
    <3>1. PICK t : Ends(t)
      BY <2>2, FinishingStep
    <3> QED
      BY <3>1 DEF Ends, Dead
  <2> QED
    BY <2>1, <2>2, UndoMoves
<1>6. status'.count < p.seq \/ Unsealed'
  <2>1. CASE Unsealed
    BY <2>1, UnsealedStays DEF Dead
  <2>2. CASE status.count < p.seq /\ status'.count = status.count
    BY <2>2
  <2>3. CASE status'.count # status.count /\ ~Unsealed
    <3>1. /\ ReserveStatus /\ call.phase \in Of("reservation") /\ status = call.phase.prior
          /\ status'.count = call.phase.seq /\ call.phase.seq = status.count + 1
      BY <2>3, CountMoves
    <3>2. In("reserve") /\ response[call.phase.target.curResp] # "none"
      BY <3>1, ReservationWrites
    <3>3. call.phase # p /\ p.seq <= call.phase.seq /\ call.phase.seq \in Nat
      BY <3>1, <3>2, ReservationParts DEF InTurn, Attempts
    <3>4. p.seq # call.phase.seq
      BY <3>1, <3>3 DEF InTurn
    <3>5. p.seq < call.phase.seq
      BY <1>1, <3>3, <3>4
    <3>6. p.seq \in rows
      BY <3>1, <3>5 DEF InTurn
    <3> QED
      BY <3>6 DEF Dead
  <2> QED
    BY <2>1, <2>2, <2>3 DEF Dead
<1> QED
  BY <1>3, <1>4, <1>5, <1>6 DEF Dead

\* What a new reservation says: nothing has been written of it.
LEMMA ReserveStep ==
    ASSUME AInv, Reserve
    PROVE  LET p == ReservationPhase IN
           /\ phases' = phases \cup {p} /\ p \in Phases /\ p.kind = "reservation"
           /\ p.seq = status.count + 1 /\ p.seq \in Attempts /\ p.prior = status
           /\ ReservationShape(p) /\ response[p.target.curResp] = "none"
           /\ p.target.curResp \in Responses /\ p.target.count = p.seq
           /\ In("choose") /\ attempt[p.seq] = "none"
           /\ \A q \in Of("reservation") : q.seq # p.seq
           /\ call'.pc = "reserve" /\ call'.phase = p /\ call'.next = "idle"
           /\ ~call'.undo.on
           /\ UNCHANGED <<status, attempt, receipt, rows, response, evidence>>
<1> USE Parts DEF AInv, IInv
<1>1. /\ phases' = phases \cup {ReservationPhase} /\ UNCHANGED <<manual, status, files>>
      /\ call' = [call EXCEPT !.pc = "reserve", !.phase = ReservationPhase, !.next = "idle"]
      /\ In("choose") /\ HasNext /\ NextResponse \in Responses /\ Unaccepted
      /\ At("reservation", ReservationPhase.seq) = {}
  BY DEF Reserve
<1> DEFINE n == status.count + 1
           s == [status EXCEPT !.st = "pending_browser_upload", !.count = n, !.cur = n,
                               !.curResp = NextResponse]
<1>2. n \in Attempts /\ n \in Numbers /\ n \in Places /\ attempt[n] = "none"
  <2>1. n \in Attempts /\ n \in Numbers /\ n \in Places /\ ~(n <= status.count)
    BY <1>1, NumbersTyped
  <2> QED
    BY <1>1, <2>1 DEF HasNext, Contiguous
<1>3. /\ s \in Statuses /\ s.curResp = NextResponse /\ s.count = n
  BY <1>1, <1>2, NumbersTyped DEF Statuses, States
<1>4. s = [status EXCEPT !.st = "pending_browser_upload", !.count = n, !.cur = n,
                         !.curResp = s.curResp]
  BY <1>3
<1>5. response[NextResponse] = "none"
  BY <1>1, NextIsFree
<1>6. NextResponse # status.reviewer
  <2>1. SoundReviewer(status) /\ status.st # "ingested"
    BY <1>1 DEF Statused, Sound, Unaccepted
  <2> QED
    BY <1>1, <1>5, <2>1, ResponsesTyped DEF SoundReviewer
<1>7. ReservationPhase = [NoPhase EXCEPT !.kind = "reservation", !.seq = n, !.op = call.op,
                                         !.prior = status, !.target = s]
  BY DEF ReservationPhase
<1> HIDE DEF s
<1>8. /\ ReservationPhase.kind = "reservation" /\ ReservationPhase.seq = n
      /\ ReservationPhase.prior = status /\ ReservationPhase.target = s
  BY <1>7 DEF NoPhase
<1>9. ReservationPhase \in Phases
  <2>1. call.op \in Int
    BY DEF Calls
  <2> QED
    BY <1>2, <1>3, <1>7, <2>1, IdleTyped DEF Phases
<1>10. ReservationShape(ReservationPhase)
  BY <1>1, <1>3, <1>4, <1>6, <1>8 DEF ReservationShape, Unaccepted
<1>11. /\ call'.pc = "reserve" /\ call'.phase = ReservationPhase /\ call'.next = "idle"
       /\ ~call'.undo.on
  <2>1. ~call.undo.on
    BY <1>1, InHand DEF Finalizing, In
  <2> QED
    BY <1>1, <2>1 DEF Calls
<1> QED
  BY <1>1, <1>2, <1>3, <1>5, <1>8, <1>9, <1>10, <1>11 DEF At, files

LEMMA FreshStays ==
    ASSUME AInv, [Next]_vars, NEW k \in Responses, Fresh(k), response[k] # "none",
           In("reserve") => call.phase.target.curResp # k
    PROVE  Fresh(k)'
<1>1. ASSUME NEW p \in Of("reservation")', p.target.curResp = k
      PROVE  Dead(p)'
  <2>1. CASE p \in Of("reservation")
    <3>1. Dead(p)
      BY <1>1, <2>1 DEF Fresh
    <3> QED
      BY <1>1, <2>1, <3>1, DeadStays
  <2>2. CASE p \notin Of("reservation")
    <3>1. Reserve
      BY <2>2, NewPhases DEF AInv, IInv
    <3>2. phases' = phases \cup {ReservationPhase}
          /\ response[ReservationPhase.target.curResp] = "none"
      BY <3>1, ReserveStep
    <3>3. p = ReservationPhase
      BY <2>2, <3>2 DEF Of
    <3> QED
      BY <1>1, <3>2, <3>3
  <2> QED
    BY <2>1, <2>2
<1> QED
  BY <1>1 DEF Fresh

-----------------------------------------------------------------------------
(* Every phase has its shape.                                               *)

LEMMA AutomatedStep ==
    ASSUME AInv, ReserveAutomated, NEW p \in Of("automated")', p \notin Of("automated")
    PROVE  AutomatedShape(p)
<1> DEFINE n == status.count + 1
           q == [NoPhase EXCEPT !.kind = "automated", !.seq = n, !.op = call.op,
                                !.prior = status, !.target = Submitting(n)]
<1>1. phases' = phases \cup {q} \/ phases' = phases
  BY Zenon DEF ReserveAutomated
<1>2. q.prior = status /\ q.seq = n /\ q.target = Submitting(n)
  BY DEF NoPhase
<1> HIDE DEF q
<1>3. p = q
  BY <1>1 DEF Of
<1>4. Unaccepted
  BY Zenon DEF ReserveAutomated
<1> QED
  BY <1>2, <1>3, <1>4 DEF AutomatedShape, Submitting, Unaccepted

LEMMA ClaimStep ==
    ASSUME AInv, Claim, [Next]_vars, NEW c \in Of("ingest")', c \notin Of("ingest")
    PROVE  ClaimShape(c)'
<1> USE Parts, ResponsesTyped DEF AInv, IInv
<1> DEFINE s == [status EXCEPT !.st = "ingesting", !.claim = call.path, !.mode = Mode]
           q == [NoPhase EXCEPT !.kind = "ingest", !.seq = call.path, !.op = call.op,
                                !.prior = status, !.target = s]
<1>1. /\ phases' = phases \cup {q} /\ In("judge") /\ Valid /\ status.st # "ingesting"
      /\ call' = [call EXCEPT !.pc = "claimed", !.phase = q]
      /\ ~(Reserved /\ Automated) /\ UNCHANGED <<manual, status, files>>
  BY DEF Claim
<1>2. q.prior = status /\ q.seq = call.path /\ q.target = s
  BY DEF NoPhase
<1>3. /\ s.mode = Mode /\ s.pend = status.pend /\ s.count = status.count
      /\ s = [status EXCEPT !.st = "ingesting", !.claim = call.path, !.mode = s.mode]
  BY DEF Statuses
<1> HIDE DEF s, q
<1>4. call'.pc = "claimed"
  BY <1>1 DEF Calls
<1>5. c = q
  BY <1>1 DEF Of
<1>6. call.path \in Responses /\ response[call.path] = "good" /\ status.st # "ingested"
  BY <1>1 DEF Placed, Valid, Content, Working
<1>7. \/ /\ Mode = "browser_reserved"
         /\ \E p \in At("reservation", status.count) : p.target.curResp = call.path
      \/ Mode = "automated" /\ call.path = status.pend /\ At("automated", call.path) # {}
      \/ Mode = "untracked" /\ Fresh(call.path)
  <2>1. Sound(status)
    BY DEF Statused
  <2>2. CASE Reserved
    <3>1. status.cur # 0 /\ status.cur = status.count /\ status.curResp = call.path
      BY <2>2 DEF Reserved, Legal
    <3> QED
      BY <2>1, <2>2, <3>1 DEF Sound, SoundCur, Mode
  <2>3. CASE ~Reserved /\ Automated
    BY <1>1, <2>1, <2>3 DEF Sound, SoundPend, Mode, Automated, Working
  <2>4. CASE ~Reserved /\ ~Automated
    BY <1>1, <1>6, <2>4 DEF Mode, Automated, Working
  <2> QED
    BY <2>2, <2>3, <2>4
<1>8. c.seq = call.path /\ c.prior = status /\ c.target = s
  BY <1>2, <1>5
<1>9. Fresh(c.seq) => Fresh(c.seq)'
  BY <1>1, <1>6, <1>8, FreshStays DEF In
<1>10. /\ \A n : At("reservation", n) \subseteq At("reservation", n)'
       /\ \A n : At("automated", n) \subseteq At("automated", n)'
  BY Grown DEF At
<1>11. \/ /\ c.target.mode = "browser_reserved"
          /\ \E p \in At("reservation", c.target.count) : p.target.curResp = c.seq
       \/ /\ c.target.mode = "automated" /\ c.seq = c.target.pend
          /\ At("automated", c.seq) # {}
       \/ c.target.mode = "untracked" /\ Fresh(c.seq)
  BY <1>3, <1>7, <1>8
<1>12. \/ /\ c.target.mode = "browser_reserved"
          /\ \E p \in At("reservation", c.target.count)' : p.target.curResp = c.seq
       \/ /\ c.target.mode = "automated" /\ c.seq = c.target.pend
          /\ At("automated", c.seq)' # {}
       \/ c.target.mode = "untracked" /\ Fresh(c.seq)'
  BY <1>9, <1>10, <1>11
<1>13. response'[c.seq] = "good"
  BY <1>1, <1>6, <1>8 DEF files
<1>14. /\ c.target = [c.prior EXCEPT !.st = "ingesting", !.claim = c.seq, !.mode = c.target.mode]
       /\ c.prior.st \notin {"ingesting", "ingested"} /\ c.seq \in Responses
  BY <1>1, <1>3, <1>6, <1>8
<1> QED
  BY <1>4, <1>12, <1>13, <1>14 DEF ClaimShape, In

LEMMA ClaimShapeStays ==
    ASSUME AInv, [Next]_vars, NEW c \in Of("ingest")
    PROVE  ClaimShape(c)'
<1> USE DEF AInv, IInv
<1>1. ClaimShape(c) /\ c.seq \in Responses /\ response[c.seq] = "good"
  BY ClaimParts
<1>2. response'[c.seq] = "good"
  BY <1>1, TextsStay
<1>3. \A kind : Of(kind) \subseteq Of(kind)'
  BY Grown
<1>4. ASSUME c.target.mode = "untracked", Fresh(c.seq),
             In("reserve") => call.phase.target.curResp # c.seq
      PROVE  Fresh(c.seq)' /\ (In("reserve")' => call'.phase.target.curResp # c.seq)
  <2>1. Fresh(c.seq)'
    BY <1>1, <1>4, FreshStays
  <2>2. In("reserve") => call.next \in {"idle", "choose"}
    BY DEF InTurn
  <2>3. ASSUME In("reserve")' PROVE call'.phase.target.curResp # c.seq
    <3>1. CASE call' = call
      BY <1>4, <2>3, <3>1 DEF In
    <3>2. CASE Reserve
      BY <1>1, <3>2, ReserveStep
    <3>3. CASE ReconcileReservation /\ Reservable(Reservation) /\ call'.phase = Reservation
      BY <1>1, <3>3 DEF Reservable
    <3> QED
      BY <2>2, <2>3, <3>1, <3>2, <3>3, Arrives
  <2> QED
    BY <2>1, <2>3
<1> QED
  BY <1>1, <1>2, <1>3, <1>4 DEF ClaimShape, At

LEMMA ShapesNext ==
    ASSUME AInv, [Next]_vars
    PROVE  Shapes'
<1> USE DEF AInv, IInv
<1>1. ASSUME NEW t \in Of("terminal")' PROVE TerminalShape(t)'
  <2>1. /\ TerminalShape(t) /\ t.target \in Statuses
    <3>1. CASE t \in Of("terminal")
      BY <3>1, TerminalParts
    <3>2. CASE t \notin Of("terminal")
      <4>1. Finishing
        BY <3>2, Grown
      <4>2. PICK u : Ends(u)
        BY <4>1, FinishingStep
      <4>3. t = u /\ u \in Phases
        BY <3>2, <4>2 DEF Ends, Of
      <4> QED
        BY <4>2, <4>3 DEF Ends, Phases
    <3> QED
      BY <3>1, <3>2
  <2>2. t.target.st = "ingested" => Answered(t.target)'
    BY <2>1, AnsweredStays DEF TerminalShape
  <2> QED
    BY <2>1, <2>2 DEF TerminalShape
<1>2. ASSUME NEW p \in Of("reservation")' PROVE ReservationShape(p)'
  <2>1. ReservationShape(p)
    <3>1. CASE p \in Of("reservation")
      BY <3>1 DEF Shapes
    <3>2. CASE p \notin Of("reservation")
      <4>1. Reserve
        BY <3>2, NewPhases
      <4>2. p = ReservationPhase /\ ReservationShape(ReservationPhase)
        BY <3>2, <4>1, ReserveStep DEF Of
      <4> QED
        BY <4>2
    <3> QED
      BY <3>1, <3>2
  <2> QED
    BY <2>1 DEF ReservationShape
<1>3. ASSUME NEW p \in Of("automated")' PROVE AutomatedShape(p)'
  <2>1. AutomatedShape(p)
    BY Grown, AutomatedStep DEF Shapes
  <2> QED
    BY <2>1 DEF AutomatedShape
<1>4. ASSUME NEW c \in Of("ingest")' PROVE ClaimShape(c)'
  BY NewPhases, ClaimStep, ClaimShapeStays
<1> QED
  BY <1>1, <1>2, <1>3, <1>4 DEF Shapes

-----------------------------------------------------------------------------
(* Reservations come one after another.                                     *)

LEMMA RowsGrow ==
    ASSUME AInv, [Next]_vars
    PROVE  rows \subseteq rows'
  BY RowMoves DEF AInv, IInv, RowOf

\* What is numbered stays within the count of the status, now and after an undo.
LEMMA RowsCounted ==
    ASSUME AInv, [Next]_vars, NEW n \in rows'
    PROVE  n <= status'.count /\ (call'.undo.on => n <= call'.undo.status.count)
<1> USE Parts DEF AInv, IInv
<1>1. n \in Nat /\ status.count \in Nat
  BY TypedNext DEF Typed, TypeOK, Attempts, Statuses, Numbers
<1>2. CASE n \in rows
  <2>1. n <= status.count /\ (call.undo.on => n <= call.undo.status.count)
    BY <1>2 DEF InTurn
  <2>2. n <= status'.count
    <3>1. CASE status'.count = status.count
      BY <2>1, <3>1
    <3>2. CASE WriteTerminalStatus /\ status'.count = call.phase.seq
                 /\ status.count <= call.phase.seq
      <4>1. call.phase.seq \in Nat
        BY <3>2, TerminalWrites, TerminalParts DEF Attempts
      <4> QED
        BY <1>1, <2>1, <3>2, <4>1
    <3>3. CASE status'.count = status.count + 1
      BY <1>1, <2>1, <3>3
    <3>4. CASE Undo /\ call.undo.on /\ status' = call.undo.status
      BY <2>1, <3>4
    <3> QED
      BY <3>1, <3>2, <3>3, <3>4, CountMoves
  <2>3. call'.undo.on => n <= call'.undo.status.count
    <3>1. CASE call' = call \/ Binds
      BY <2>1, <3>1 DEF Binds
    <3>2. CASE Finishing
      <4>1. PICK t : Ends(t)
        BY <3>2, FinishingStep
      <4> QED
        BY <2>1, <4>1 DEF Ends
    <3> QED
      BY <3>1, <3>2, UndoMoves
  <2> QED
    BY <2>2, <2>3
<1>3. CASE n \notin rows
  <2>1. PICK p \in Of("reservation") : RowOf(p) /\ n = p.seq
    BY <1>3, RowMoves DEF RowOf
  <2>2. p.seq <= status.count
    BY <1>1, <2>1, ReservationParts DEF RowOf, PastReservation
  <2>3. In("reserve") \/ In("reservation")
    BY <2>1 DEF RowOf
  <2>4. TheRows
    BY <1>3, StepKinds, Unmoved
  <2>5. status' = status
    BY <2>4, Unmoved
  <2>6. ~call.undo.on /\ ~Finishing /\ ~Binds
    BY <2>3, InHand, Where DEF Binds, Finalizing, In
  <2> QED
    BY <2>1, <2>2, <2>5, <2>6, UndoMoves
<1> QED
  BY <1>2, <1>3

LEMMA InTurnNext ==
    ASSUME AInv, [Next]_vars
    PROVE  InTurn'
<1> USE DEF AInv, IInv
<1>1. CASE Reserve
  <2> DEFINE r == ReservationPhase
  <2>1. /\ Of("reservation")' = Of("reservation") \cup {r} /\ r.seq = status.count + 1
        /\ \A q \in Of("reservation") : q.seq # r.seq
        /\ call'.pc = "reserve" /\ call'.phase = r /\ call'.next = "idle" /\ ~call'.undo.on
        /\ In("choose") /\ rows' = rows /\ status' = status
    BY <1>1, ReserveStep DEF Of
  <2> HIDE DEF r
  <2>2. \A q \in Of("reservation") : q.seq \in rows /\ q.seq \in Nat
    BY <2>1, ReservationParts DEF InTurn, AllRows, Attempts
  <2>3. \A q \in Of("reservation") : q.seq <= status.count
    BY <2>2 DEF InTurn
  <2>4. status.count \in Nat
    BY Parts DEF Statuses, Numbers
  <2>5. \A q \in Of("reservation") : q.seq < r.seq
    BY <2>1, <2>2, <2>3, <2>4
  <2>6. \A n \in rows : n <= status.count
    BY DEF InTurn
  <2>7. \A p, q \in Of("reservation")' : p.seq = q.seq => p = q
    BY <2>1 DEF InTurn
  <2>8. \A p, q \in Of("reservation")' : p.seq < q.seq => p.seq \in rows'
    <3> TAKE p, q \in Of("reservation")'
    <3>1. CASE p \in Of("reservation")
      BY <2>1, <2>2, <3>1
    <3>2. CASE p = r
      <4>1. ~(r.seq < r.seq)
        BY <2>1, <2>4
      <4>2. q \in Of("reservation") => ~(r.seq < q.seq)
        BY <2>1, <2>2, <2>4, <2>5
      <4> QED
        BY <2>1, <3>2, <4>1, <4>2
    <3> QED
      BY <2>1, <3>1, <3>2
  <2>9. \A q \in Of("reservation")' : q.seq <= r.seq
    BY <2>1, <2>2, <2>4, <2>5
  <2> QED
    BY <2>1, <2>6, <2>7, <2>8, <2>9 DEF InTurn, Finalizing, In
<1>2. CASE ~Reserve
  <2>1. Of("reservation")' = Of("reservation") /\ rows \subseteq rows'
    BY <1>2, NewPhases, RowsGrow
  <2>2. \A p, q \in Of("reservation") : p.seq = q.seq => p = q
    BY DEF InTurn
  <2>3. \A p, q \in Of("reservation") : p.seq < q.seq => p.seq \in rows'
    BY <2>1 DEF InTurn
  <2>4. \A n \in rows' : n <= status'.count /\ (call'.undo.on => n <= call'.undo.status.count)
    BY RowsCounted
  <2>5. In("reserve") => call.next \in {"idle", "choose"}
    BY DEF InTurn
  <2>6. In("reserve")' => /\ \A q \in Of("reservation") : q.seq <= call'.phase.seq
                          /\ call'.next \in {"idle", "choose"}
    <3>1. CASE call' = call
      BY <3>1 DEF InTurn, In
    <3>2. CASE Of("reservation") # {} /\ call'.phase = Reservation /\ call'.next = "choose"
      BY <3>2, LatestExists DEF Reservation
    <3> QED
      BY <1>2, <2>5, <3>1, <3>2, Arrives
  <2>7. AllRows => AllRows'
    BY <2>1 DEF AllRows
  <2>8. In("choose")' => AllRows'
    <3>1. CASE call' = call
      BY <2>7, <3>1 DEF InTurn, In
    <3>2. CASE Confirm /\ call.next = "choose"
      BY <2>7, <3>2, Where DEF InTurn, Finalizing
    <3>3. CASE ReserveRows
      <4>1. /\ rows' = rows \cup {call.phase.seq} /\ call.phase \in Of("reservation")
            /\ \A q \in Of("reservation") : q.seq <= call.phase.seq
        BY <3>3, Where, InHand DEF ReserveRows, InTurn
      <4>2. \A q \in Of("reservation") : q.seq \in rows'
        <5> TAKE q \in Of("reservation")
        <5>1. q.seq < call.phase.seq \/ q.seq = call.phase.seq
          BY <4>1, ReservationParts DEF Attempts
        <5> QED
          BY <2>3, <4>1, <5>1
      <4> QED
        BY <2>1, <4>2 DEF AllRows
    <3>4. CASE ReconcileReservation /\ (Of("reservation") # {} => RowAdded)
      <4>1. CASE Of("reservation") = {}
        BY <2>1, <4>1 DEF AllRows
      <4>2. CASE Of("reservation") # {}
        <5>1. /\ rows' = rows \cup {Reservation.seq} /\ Reservation \in Of("reservation")
              /\ \A q \in Of("reservation") : q.seq <= Reservation.seq
          BY <3>4, <4>2, LatestExists DEF RowAdded, Reservation
        <5>2. \A q \in Of("reservation") : q.seq \in rows'
          <6> TAKE q \in Of("reservation")
          <6>1. q.seq < Reservation.seq \/ q.seq = Reservation.seq
            BY <5>1, ReservationParts DEF Attempts
          <6> QED
            BY <2>3, <5>1, <6>1
        <5> QED
          BY <2>1, <5>2 DEF AllRows
      <4> QED
        BY <4>1, <4>2
    <3> QED
      BY <2>5, <3>1, <3>2, <3>3, <3>4, Arrives
  <2>9. Finalizing' /\ call'.next = "choose" => AllRows'
    <3>1. CASE call' = call
      BY <2>7, <3>1 DEF InTurn, Finalizing, In
    <3>2. CASE Binds
      BY <2>7, <3>2, Where DEF Binds, InTurn, Finalizing
    <3>3. CASE Enter
      BY <3>3, EnterStep DEF Finalizing, In
    <3>4. CASE Finishing
      <4>1. PICK t : Ends(t)
        BY <3>4, FinishingStep
      <4> QED
        BY <2>7, <4>1 DEF Ends, InTurn
    <3> QED
      BY <2>5, <3>1, <3>2, <3>3, <3>4, Arrives DEF Finalizing
  <2> QED
    BY <2>1, <2>2, <2>3, <2>4, <2>6, <2>8, <2>9 DEF InTurn
<1> QED
  BY <1>1, <1>2

-----------------------------------------------------------------------------
(* A reservation leaves its marks in order.                                 *)

LEMMA MarkedNext ==
    ASSUME AInv, [Next]_vars
    PROVE  Marked'
<1> USE Parts DEF AInv, IInv
<1>1. \A p \in Of("reservation") : response[p.target.curResp] # "none"
                                      => response'[p.target.curResp] # "none"
  BY ReservationParts, TextsStay
<1>2. \A p \in Of("reservation")' : response'[p.target.curResp] = "none" => Dead(p)'
  <2> SUFFICES ASSUME NEW p \in Of("reservation")', response'[p.target.curResp] = "none"
               PROVE  Dead(p)'
    OBVIOUS
  <2>1. CASE p \in Of("reservation")
    <3>1. response[p.target.curResp] = "none"
      BY <1>1, <2>1
    <3>2. Dead(p)
      BY <2>1, <3>1 DEF Marked
    <3> QED
      BY <2>1, <3>1, <3>2, DeadStays
  <2>2. CASE p \notin Of("reservation")
    <3>1. Reserve
      BY <2>2, NewPhases
    <3>2. /\ p = ReservationPhase /\ p.seq = status.count + 1 /\ p.target.count = p.seq
          /\ rows' = rows /\ status' = status /\ ~call'.undo.on
      BY <2>2, <3>1, ReserveStep DEF Of
    <3>3. status.count \in Nat /\ \A n \in rows : n <= status.count
      BY DEF InTurn, Statuses, Numbers
    <3>4. p.seq \notin rows' /\ status' # p.target /\ status'.count < p.seq
      BY <3>2, <3>3
    <3> QED
      BY <3>2, <3>4 DEF Dead
  <2> QED
    BY <2>1, <2>2
<1>3. \A p \in Of("reservation")' :
          attempt'[p.seq] = "reserved" => response'[p.target.curResp] # "none"
  <2> SUFFICES ASSUME NEW p \in Of("reservation")', attempt'[p.seq] = "reserved"
               PROVE  response'[p.target.curResp] # "none"
    OBVIOUS
  <2>1. CASE p \notin Of("reservation")
    <3>1. Reserve
      BY <2>1, NewPhases
    <3>2. p = ReservationPhase /\ attempt'[p.seq] = "none"
      BY <2>1, <3>1, ReserveStep DEF Of
    <3> QED
      BY <3>2
  <2>2. CASE p \in Of("reservation") /\ attempt[p.seq] = "reserved"
    BY <1>1, <2>2 DEF Marked
  <2>3. CASE p \in Of("reservation") /\ attempt[p.seq] # "reserved"
    <3>1. p.seq \in Attempts
      BY <2>3, ReservationParts
    <3>2. ~WriteAttempt
      <4> SUFFICES ASSUME WriteAttempt PROVE FALSE
        OBVIOUS
      <4>1. /\ attempt' = [attempt EXCEPT ![call.phase.seq] = call.phase.to]
            /\ call.phase \in Of("terminal")
        BY InHand DEF WriteAttempt
      <4>2. call.phase.to # "reserved"
        BY <4>1, TerminalParts DEF TerminalShape, Final, Failed
      <4> QED
        BY <2>3, <3>1, <4>1, <4>2
    <3>3. CASE ReserveAttempt
      <4>1. /\ attempt' = [attempt EXCEPT ![call.phase.seq] = "reserved"]
            /\ call.phase \in Of("reservation")
            /\ response[call.phase.target.curResp] # "none"
        BY <3>3, InHand DEF ReserveAttempt
      <4>2. p.seq = call.phase.seq
        BY <2>3, <3>1, <4>1
      <4>3. p = call.phase
        BY <2>3, <4>1, <4>2 DEF InTurn
      <4> QED
        BY <1>1, <4>1, <4>3
    <3>4. CASE Undo /\ call.undo.on
      <4>1. attempt' = [attempt EXCEPT ![call.phase.seq] = call.undo.attempt]
        BY <3>4 DEF Undo
      <4>2. p.seq = call.phase.seq /\ call.undo.attempt = "reserved"
        BY <2>3, <3>1, <4>1
      <4> QED
        BY <1>1, <2>3, <3>4, <4>2 DEF Marked, At
    <3> QED
      BY <2>3, <3>2, <3>3, <3>4, MarkMoves
  <2> QED
    BY <2>1, <2>2, <2>3
<1>4. ASSUME call'.undo.on, call'.undo.attempt = "reserved"
      PROVE  \A p \in Of("reservation")' :
                 p.seq = call'.phase.seq => response'[p.target.curResp] # "none"
  <2>1. ~Reserve
    BY <1>4, ReserveStep
  <2>2. Of("reservation")' = Of("reservation")
    BY <2>1, NewPhases
  <2>3. CASE call' = call \/ Binds
    <3>1. \A p \in Of("reservation") :
              p.seq = call.phase.seq => response[p.target.curResp] # "none"
      BY <1>4, <2>3 DEF Marked, At, Binds
    <3> QED
      BY <1>1, <2>2, <2>3, <3>1 DEF Binds
  <2>4. CASE Finishing
    <3>1. PICK t : Ends(t)
      BY <2>4, FinishingStep
    <3>2. attempt[call'.phase.seq] = "reserved"
      BY <1>4, <3>1 DEF Ends
    <3> QED
      BY <1>1, <2>2, <3>2 DEF Marked
  <2> QED
    BY <1>4, <2>3, <2>4, UndoMoves
<1>5. call'.undo.on /\ call'.undo.attempt = "reserved" =>
          \A p \in At("reservation", call.phase.seq)' : response'[p.target.curResp] # "none"
  BY <1>4 DEF At
<1> QED
  BY <1>2, <1>3, <1>5 DEF Marked

-----------------------------------------------------------------------------
(* Statuses stay sound.                                                     *)

\* The text that a status names as the reviewer's is never the one being answered.
LEMMA SoundStays ==
    ASSUME AInv, [Next]_vars, NEW s \in Statuses,
           Answer => s.reviewer # status.curResp
    PROVE  /\ SoundReviewer(s) => SoundReviewer(s)'
           /\ SoundCur(s) => SoundCur(s)'
           /\ SoundPend(s) => SoundPend(s)'
           /\ SoundClaim(s) => SoundClaim(s)'
<1> USE DEF AInv, IInv
<1>1. s.reviewer # 0 => s.reviewer \in Responses
  BY DEF Statuses, Places
<1>2. SoundReviewer(s) => SoundReviewer(s)'
  BY <1>1, TextsStay DEF SoundReviewer
<1>3. \A kind : Of(kind) \subseteq Of(kind)'
  BY Grown
<1> QED
  BY <1>2, <1>3 DEF SoundCur, SoundPend, SoundClaim, At

\* While an answer is being written, the job stands where its reservation put it.
LEMMA AnswerElsewhere ==
    ASSUME AInv, Answer
    PROVE  /\ status.reviewer # status.curResp
           /\ call.undo.on => call.undo.status = status
           /\ \A t \in Of("terminal") : ~Bound(t.seq) => t.prior = status
<1> USE Parts DEF AInv, IInv
<1>1. status.st = "pending_browser_upload"
  BY DEF Answer
<1>2. status.reviewer # status.curResp
  BY <1>1 DEF Statused, Sound, SoundCur, Legal
<1>3. \A t \in Of("terminal") : status # t.target
  BY <1>1, TerminalParts DEF TerminalShape
<1>4. call.undo.on => call.undo.status = status
  BY <1>3, InHand DEF Sealing
<1> QED
  BY <1>2, <1>3, <1>4 DEF Sealing

\* Every status that is written is sound.
LEMMA SoundWrites ==
    ASSUME AInv, [Next]_vars, status' # status
    PROVE  Sound(status')
<1> USE Parts, ResponsesTyped DEF AInv, IInv
<1> DEFINE s == status'
<1>1. Sound(status) /\ (call.undo.on => Sound(call.undo.status))
  BY DEF Statused
<1>2. s \in Statuses /\ Legal(status)'
  BY TypedNext DEF Typed, TypeOK
<1>3. /\ s.cur # 0 => s.st \in {"pending_browser_upload", "ingesting"}
      /\ s.pend # 0 => s.st \in {"submitting", "ingesting"}
      /\ s.mode # "none" <=> s.st \in {"ingesting", "ingested"}
  BY <1>2 DEF Legal
<1>4. CASE Handoff
  <2>1. /\ s.st = "handoff_ready" /\ s.cur = 0 /\ s.pend = 0 /\ s.mode = "none"
        /\ status.mode = "none" /\ status.pend = 0 /\ s.reviewer = status.reviewer
    BY <1>3, <1>4, HandoffStep
  <2>2. status.st # "ingested"
    BY <2>1 DEF Legal
  <2> QED
    BY <1>1, <2>1, <2>2 DEF Sound, SoundReviewer, SoundCur, SoundPend, SoundClaim
<1>5. CASE Bind
  <2>1. /\ In("bind") /\ status.st = "submitting" /\ status.pend = call.path
        /\ response[call.path] # "none" /\ status' = [status EXCEPT !.reviewer = call.path]
        /\ call.path \in Responses
    BY <1>5, Where DEF Bind, Working, Placed
  <2>2. /\ s.st = "submitting" /\ s.cur = status.cur /\ s.pend = status.pend
        /\ s.reviewer = call.path
    BY <2>1 DEF Statuses
  <2> QED
    BY <1>1, <1>3, <2>1, <2>2 DEF Sound, SoundReviewer, SoundCur, SoundPend, SoundClaim
<1>6. CASE WriteTerminalStatus
  <2>1. /\ call.phase \in Of("terminal") /\ ~Bound(call.phase.seq) /\ s = call.phase.target
    BY <1>6, TerminalWrites
  <2>2. SoundReviewer(s) /\ SoundPend(s) /\ s.cur = 0 /\ s.st # "ingesting"
    BY <2>1, TerminalParts DEF Statused, TerminalShape
  <2> QED
    BY <2>2 DEF Sound, SoundCur, SoundClaim
<1>7. CASE ReserveStatus
  <2>1. /\ call.phase \in Of("reservation") /\ status = call.phase.prior
        /\ s = call.phase.target
    BY <1>7, ReservationWrites
  <2>2. /\ s.st = "pending_browser_upload" /\ s.reviewer = status.reviewer
        /\ s.pend = status.pend /\ s.cur = call.phase.seq /\ s.curResp \in Responses
        /\ s.reviewer # s.curResp /\ status.st # "ingested"
    BY <2>1, ReservationParts
  <2>3. s.pend = 0
    BY <1>3, <2>2
  <2>4. SoundReviewer(s)
    BY <1>1, <2>2, <2>3 DEF Sound, SoundReviewer
  <2>5. SoundCur(s)
    BY <2>1, <2>2 DEF SoundCur, At
  <2> QED
    BY <2>2, <2>3, <2>4, <2>5 DEF Sound, SoundPend, SoundClaim
<1>8. CASE In("submit") /\ s = call.phase.target
  <2>1. /\ call.phase \in Of("automated") /\ s.st = "submitting" /\ s.reviewer = 0
        /\ s.pend = call.phase.seq
    BY <1>8, InHand, AutomatedParts
  <2>2. s.cur = 0
    BY <1>3, <2>1
  <2>3. SoundPend(s)
    BY <2>1 DEF SoundPend, At
  <2> QED
    BY <2>1, <2>2, <2>3 DEF Sound, SoundReviewer, SoundCur, SoundClaim
<1>9. CASE \E c \in Of("ingest") : status = c.prior /\ s = c.target
  <2>1. PICK c \in Of("ingest") : status = c.prior /\ s = c.target
    BY <1>9
  <2>2. /\ s.st = "ingesting" /\ s.cur = status.cur /\ s.curResp = status.curResp
        /\ s.pend = status.pend /\ s.reviewer = status.reviewer /\ status.st # "ingested"
    BY <2>1, ClaimParts
  <2> QED
    BY <1>1, <2>1, <2>2 DEF Sound, SoundReviewer, SoundCur, SoundPend, SoundClaim
<1>10. CASE s = [status EXCEPT !.st = "ingested"]
  <2>1. /\ s.st = "ingested" /\ s.cur = status.cur /\ s.curResp = status.curResp
        /\ s.pend = status.pend /\ s.reviewer = status.reviewer
    BY <1>10 DEF Statuses
  <2> QED
    BY <1>1, <2>1 DEF Sound, SoundReviewer, SoundCur, SoundPend, SoundClaim
<1>11. CASE Undo /\ call.undo.on
  BY <1>1, <1>11 DEF Undo
<1> QED
  BY <1>4, <1>5, <1>6, <1>7, <1>8, <1>9, <1>10, <1>11, StatusMoves

LEMMA StatusedNext ==
    ASSUME AInv, [Next]_vars
    PROVE  Statused'
<1> USE Parts DEF AInv, IInv
<1>1. ASSUME NEW s \in Statuses, Sound(s), Answer => s.reviewer # status.curResp
      PROVE  Sound(s)'
  BY <1>1, SoundStays DEF Sound
<1>2. Sound(status) /\ (call.undo.on => Sound(call.undo.status) /\ call.undo.status \in Statuses)
  BY DEF Statused, Calls, Undos
<1>3. status' \in Statuses /\ (Answer => status' = status)
  BY TypedNext DEF Typed, Answer
<1>4. Sound(status)'
  <2>1. Sound(status') /\ (Answer => status'.reviewer # status.curResp)
    BY <1>2, <1>3, SoundWrites, AnswerElsewhere
  <2>2. \A s \in Statuses : s = status' => Sound(s)'
    <3> TAKE s \in Statuses
    <3> HAVE s = status'
    <3>1. Sound(s) /\ (Answer => s.reviewer # status.curResp)
      BY <2>1
    <3> QED
      BY <1>1, <3>1
  <2> QED
    BY <1>3, <2>2
<1>5. ASSUME call'.undo.on PROVE Sound(call.undo.status)'
  <2>1. PICK s \in Statuses : s = call'.undo.status
    BY TypedNext DEF Typed, Calls, Undos
  <2>2. Sound(s) /\ (Answer => s.reviewer # status.curResp)
    <3>1. CASE call' = call \/ Binds
      BY <1>2, <1>5, <2>1, <3>1, AnswerElsewhere DEF Binds
    <3>2. CASE Finishing
      <4>1. PICK t : Ends(t)
        BY <3>2, FinishingStep
      <4> QED
        BY <1>2, <2>1, <4>1, AnswerElsewhere DEF Ends
    <3> QED
      BY <1>5, <3>1, <3>2, UndoMoves
  <2>3. Sound(s)'
    BY <1>1, <2>2
  <2> QED
    BY <2>1, <2>3
<1>6. ASSUME NEW t \in Of("terminal")', ~Bound(t.seq)'
      PROVE  SoundReviewer(t.target)' /\ SoundPend(t.target)'
  <2>1. CASE t \in Of("terminal")
    <3>1. ~Bound(t.seq) /\ t.target \in Statuses /\ t.target.reviewer = t.prior.reviewer
      BY <1>6, <2>1, BoundStays, TerminalParts DEF TerminalShape
    <3>2. SoundReviewer(t.target) /\ SoundPend(t.target)
      BY <2>1, <3>1 DEF Statused
    <3>3. Answer => t.target.reviewer # status.curResp
      BY <2>1, <3>1, AnswerElsewhere
    <3> QED
      BY <3>1, <3>2, <3>3, SoundStays
  <2>2. CASE t \notin Of("terminal")
    <3>1. Finishing
      BY <2>2, Grown
    <3>2. PICK u : Ends(u)
      BY <3>1, FinishingStep
    <3>3. t = u
      BY <2>2, <3>2 DEF Ends, Of
    <3>4. /\ t.target \in Statuses /\ SoundReviewer(t.target) /\ SoundPend(t.target)
          /\ t.target.reviewer = status.reviewer
      BY <3>2, <3>3 DEF Ends, Phases, TerminalShape
    <3> QED
      BY <3>4, SoundStays, AnswerElsewhere
  <2> QED
    BY <2>1, <2>2
<1> QED
  BY <1>4, <1>5, <1>6 DEF Statused

-----------------------------------------------------------------------------
(* What is sealed is past.                                                  *)

\* A call that finds the last end written finds every end sealed.
LEMMA EnterSealed ==
    ASSUME AInv, Enter
    PROVE  /\ call'.pc # "terminal" => \A t \in Of("terminal") : Bound(t.seq)
           /\ call'.pc = "terminal" =>
                  /\ call'.phase \in Of("terminal")
                  /\ status \in {call'.phase.prior, call'.phase.target}
                  /\ \A t \in Of("terminal") : t.seq # call'.phase.seq => Bound(t.seq)
<1> USE Parts DEF AInv, IInv
<1> DEFINE z == Latest("terminal")
<1>1. CASE Of("terminal") = {}
  BY <1>1, EnterStep
<1>2. CASE Of("terminal") # {}
  <2>1. z \in Of("terminal") /\ \A t \in Of("terminal") : t.seq <= z.seq
    BY <1>2, LatestExists
  <2>2. \A t \in Of("terminal") : t.seq < z.seq => Bound(t.seq)
    BY <2>1 DEF Sealing
  <2>3. z.seq \in Nat /\ \A t \in Of("terminal") : t.seq \in Nat
    BY <2>1, TerminalParts DEF Attempts
  <2>4. \A t \in Of("terminal") : t.seq # z.seq => Bound(t.seq)
    BY <2>1, <2>2, <2>3
  <2>5. CASE call'.pc # "terminal"
    <3>1. Bound(z.seq)
      <4> SUFFICES ASSUME ~Bound(z.seq) PROVE FALSE
        OBVIOUS
      <4>1. Settled(z) /\ In("idle")
        BY <1>2, <2>5, EnterStep, Where
      <4>2. status \in {z.prior, z.target} /\ z.target.st # "pending_browser_upload"
        BY <2>1, TerminalParts DEF Sealing, TerminalShape
      <4>3. receipt[z.seq] = "bound" /\ status = z.target
        BY <4>1, <4>2 DEF Settled, Written, Progressed
      <4>4. status.count = z.seq /\ status.cur = 0 /\ z.seq # 0
        BY <2>1, <4>3, TerminalParts DEF TerminalShape, Attempts
      <4>5. ~Undoable(z.seq)
        BY <4>1 DEF Undoable, Finalizing, In
      <4> QED
        BY <2>3, <4>3, <4>4, <4>5 DEF Bound, Sealed, Past
    <3> QED
      BY <2>4, <2>5, <3>1
  <2>6. CASE call'.pc = "terminal"
    <3>1. call'.phase = z /\ Reconcilable(z)
      BY <2>6, EnterStep
    <3>2. z.target.st # "pending_browser_upload"
      BY <2>1, TerminalParts DEF TerminalShape
    <3>3. status \in {z.prior, z.target}
      BY <3>1, <3>2 DEF Reconcilable, Progressed
    <3> QED
      BY <2>1, <2>4, <2>6, <3>1, <3>3
  <2> QED
    BY <2>5, <2>6
<1> QED
  BY <1>1, <1>2

\* The end of an attempt: all that ended before is sealed, what ends is not.
LEMMA FinishingSealing ==
    ASSUME AInv, [Next]_vars, Finishing
    PROVE  Sealing' /\ Committed'
<1> USE Parts DEF AInv, IInv
<1>1. PICK z : Ends(z)
  BY FinishingStep
<1>2. /\ Of("terminal")' = Of("terminal") \cup {z} /\ z.prior = status
      /\ receipt[z.seq] = "none" /\ z.seq \in Attempts
      /\ \A u \in Of("terminal") : u.seq # z.seq /\ Bound(u.seq)
      /\ call'.pc = "terminal" /\ call'.phase = z /\ call'.undo.status = status
  BY <1>1 DEF Ends, Of
<1>3. status' = status /\ receipt' = receipt /\ rows' = rows
  BY Unmoved DEF ThePhases
<1>4. Finalizing' /\ ~In("sealed")'
  BY <1>2 DEF Finalizing, In
<1>5. ~Bound(z.seq)'
  BY <1>2, <1>3 DEF Bound, Sealed
<1>6. \A u \in Of("terminal") : Bound(u.seq)'
  BY <1>2, BoundStays, TerminalParts
<1>7. \A u \in Of("terminal") : u.seq < z.seq /\ u.seq \in Nat
  <2> TAKE u \in Of("terminal")
  <2>1. status.count >= u.seq /\ status.cur # u.seq /\ u.seq # z.seq
    BY <1>2 DEF Bound, Past
  <2>2. z.prior.count <= z.seq
    BY <1>1 DEF Ends, TerminalShape
  <2>3. u.seq \in Nat /\ z.seq \in Nat /\ status.count \in Nat
    BY <1>2, TerminalParts DEF Attempts, Statuses, Numbers
  <2> QED
    BY <1>2, <2>1, <2>2, <2>3
<1>8. \A t, u \in Of("terminal")' : t.seq = u.seq => t = u
  BY <1>2 DEF Sealing
<1>9. z.seq \in Nat /\ ~(z.seq < z.seq)
  BY <1>2 DEF Attempts
<1>10. \A t, u \in Of("terminal")' : t.seq < u.seq => t # z
  <2> SUFFICES ASSUME NEW u \in Of("terminal")', z.seq < u.seq PROVE FALSE
    OBVIOUS
  <2>1. u \in Of("terminal") \/ u = z
    BY <1>2
  <2>2. CASE u \in Of("terminal")
    <3>1. u.seq < z.seq /\ u.seq \in Nat
      BY <1>7, <2>2
    <3> QED
      BY <1>9, <3>1
  <2> QED
    BY <1>9, <2>1, <2>2
<1>11. \A t, u \in Of("terminal")' : t.seq < u.seq => Bound(t.seq)'
  BY <1>2, <1>6, <1>10
<1>12. \A t \in Of("terminal")' : Bound(t.seq)' =>
           status.count >= t.seq /\ status.cur # t.seq
  BY <1>3 DEF Bound, Past
<1>13. Sealing'
  BY <1>2, <1>3, <1>4, <1>5, <1>6, <1>8, <1>11, <1>12 DEF Sealing, In
<1>14. \A n \in Attempts : HasRow(n)' => \E t \in Of("terminal")' : t.seq = n
  BY <1>2, <1>3 DEF HasRow, Committed
<1>15. \A t \in Of("terminal")' : HasRow(t.seq)' => t # z
  BY <1>2, <1>3 DEF HasRow
<1>16. Committed'
  BY <1>2, <1>4, <1>6, <1>14, <1>15 DEF Committed
<1> QED
  BY <1>13, <1>16

\* Where the call is while an end is open.
LEMMA OpenCall ==
    ASSUME AInv, [Next]_vars, ~Finishing, NEW t \in Of("terminal"), ~Bound(t.seq)
    PROVE  \/ call'.pc \in {"idle", "terminal"}
           \/ call'.pc = "sealed" /\ (call' = call \/ Binds)
           \/ Bound(t.seq)'
<1> USE Parts DEF AInv, IInv
<1>1. In("idle") \/ (Finalizing /\ call.phase = t)
  BY OpenEnd
<1> SUFFICES ASSUME call'.pc \notin {"idle", "terminal"}, call' # call, ~Binds
             PROVE  Bound(t.seq)'
  BY <1>1, Where DEF Binds, Finalizing, In
<1>2. ~Enter
  BY EnterSealed
<1>3. Confirm /\ ~call'.undo.on
  <2>1. /\ ~In("reserve") /\ ~In("reservation") /\ ~In("choose") /\ ~In("run")
        /\ ~In("ingest") /\ ~In("submit") /\ ~In("review") /\ ~In("claim") /\ ~In("read")
        /\ ~In("bind") /\ ~In("judge") /\ ~In("claimed")
    BY <1>1 DEF Finalizing, In
  <2> QED
    BY <1>2, <2>1, Leads, Where, ReturnTyped DEF Settles, Proceeds, Prepares, Answers, Claims
<1>4. In("sealed") /\ call.phase = t
  BY <1>1, <1>3, Where DEF In
<1>5. receipt[t.seq] = "bound" /\ status = t.target
  BY <1>4 DEF Committed
<1>6. receipt' = receipt /\ status' = status
  BY <1>3, Unmoved DEF OnlyTheCall
<1>7. t.target.count = t.seq /\ t.target.cur = 0 /\ t.seq \in Nat /\ t.seq # 0
  BY TerminalParts DEF TerminalShape, Attempts
<1>8. ~Undoable(t.seq)'
  BY <1>3 DEF Undoable
<1> QED
  BY <1>5, <1>6, <1>7, <1>8 DEF Bound, Sealed, Past

\* A finalization goes on with the status that it found or the one that it leads to.
LEMMA FinalizingNext ==
    ASSUME AInv, [Next]_vars, ~Finishing, Finalizing'
    PROVE  /\ status' \in {call'.phase.prior, call'.phase.target}
           /\ \A t \in Of("terminal") : t.seq # call'.phase.seq => Bound(t.seq)'
<1> USE Parts DEF AInv, IInv
<1>1. \A t \in Of("terminal") : Bound(t.seq) => Bound(t.seq)'
  BY BoundStays, TerminalParts
<1>2. CASE call' = call \/ Binds
  <2>1. Finalizing /\ call'.phase = call.phase
    BY <1>2, Where DEF Binds, Finalizing, In
  <2>2. \A t \in Of("terminal") : t.seq # call'.phase.seq => Bound(t.seq)'
    BY <1>1, <2>1 DEF Sealing
  <2>3. status' \in {call.phase.prior, call.phase.target}
    <3>1. CASE status' = status
      BY <2>1, <3>1 DEF Sealing
    <3>2. CASE WriteTerminalStatus
      BY <3>2, TerminalWrites
    <3>3. ~(Handoff \/ Bind \/ ReserveStatus \/ AcceptUntracked \/ In("submit")
              \/ In("claim") \/ In("claimed"))
      BY <2>1, Where DEF AcceptUntracked, Finalizing, In
    <3>4. ~Undo
      BY <2>1, UndoTyped DEF Finalizing, In
    <3> QED
      BY <3>1, <3>2, <3>3, <3>4, StatusMoves
  <2> QED
    BY <2>1, <2>2, <2>3
<1>3. CASE Enter
  <2>1. status' = status /\ call'.pc = "terminal"
    BY <1>3, Unmoved, EnterStep DEF OnlyTheCall, Finalizing, In
  <2> QED
    BY <1>1, <1>3, <2>1, EnterSealed
<1>4. In("reserve") => call.next \in {"idle", "choose"}
  BY DEF InTurn
<1> QED
  BY <1>2, <1>3, <1>4, Arrives DEF Finalizing

LEMMA SealingNext ==
    ASSUME AInv, [Next]_vars
    PROVE  Sealing'
<1> USE Parts DEF AInv, IInv
<1>1. CASE Finishing
  BY <1>1, FinishingSealing
<1>2. CASE ~Finishing
  <2>1. Of("terminal")' = Of("terminal")
    BY <1>2, Grown
  <2>2. \A t, u \in Of("terminal") : t.seq = u.seq => t = u
    BY DEF Sealing
  <2>3. \A t \in Of("terminal") : Bound(t.seq) => Bound(t.seq)'
    BY BoundStays, TerminalParts
  <2>4. \A t, u \in Of("terminal") : t.seq < u.seq => Bound(t.seq)'
    BY <2>3 DEF Sealing
  <2>5. call'.undo.on => /\ call.undo.on /\ Finalizing /\ Finalizing'
                         /\ call'.undo = call.undo /\ call'.phase = call.phase
    <3> SUFFICES ASSUME call'.undo.on
                 PROVE  /\ call.undo.on /\ Finalizing /\ Finalizing'
                        /\ call'.undo = call.undo /\ call'.phase = call.phase
      OBVIOUS
    <3>1. CASE call' = call
      BY <3>1, InHand DEF Finalizing, In
    <3>2. CASE Binds
      BY <3>2, Where DEF Binds, Finalizing, In
    <3> QED
      BY <1>2, <3>1, <3>2, UndoMoves
  <2>6. ASSUME NEW t \in Of("terminal"), Bound(t.seq)', call'.undo.on
        PROVE  call'.undo.status.count >= t.seq /\ call'.undo.status.cur # t.seq
    <3>1. CASE Bound(t.seq)
      BY <2>5, <2>6, <3>1 DEF Sealing
    <3>2. CASE ~Bound(t.seq)
      <4>1. t.seq = call.phase.seq
        BY <2>6, <3>2, BoundBy, TerminalParts
      <4>2. Undoable(t.seq)'
        BY <2>5, <2>6, <4>1 DEF Undoable
      <4> QED
        BY <2>6, <4>2 DEF Bound, Sealed
    <3> QED
      BY <3>1, <3>2
  <2>7. \A t \in Of("terminal") : ~Bound(t.seq)' => status' \in {t.prior, t.target}
    BY <2>3, OpenEnd
  <2>8. call'.pc \notin {"idle", "terminal", "sealed"} =>
            \A t \in Of("terminal") : Bound(t.seq)'
    BY <1>2, <2>3, OpenCall
  <2>9. Finalizing' =>
            /\ status' \in {call'.phase.prior, call'.phase.target}
            /\ \A t \in Of("terminal") : t.seq # call'.phase.seq => Bound(t.seq)'
    BY <1>2, FinalizingNext
  <2>10. call'.undo.on => call'.undo.status = call'.phase.prior
    BY <2>5 DEF Sealing
  <2> QED
    BY <2>1, <2>2, <2>4, <2>6, <2>7, <2>8, <2>9, <2>10 DEF Sealing
<1> QED
  BY <1>1, <1>2

LEMMA CommittedNext ==
    ASSUME AInv, [Next]_vars
    PROVE  Committed'
<1> USE Parts DEF AInv, IInv
<1>1. CASE Finishing
  BY <1>1, FinishingSealing
<1>2. CASE ~Finishing
  <2>1. Of("terminal")' = Of("terminal")
    BY <1>2, Grown
  <2>2. \A n \in Attempts : HasRow(n)' => \E t \in Of("terminal") : t.seq = n
    BY RowBy, InHand, Where DEF Committed
  <2>3. ASSUME NEW t \in Of("terminal"), HasRow(t.seq)', ~Bound(t.seq)' PROVE AllRows'
    <3>1. ~Bound(t.seq) /\ t.seq \in Attempts
      BY <2>3, BoundStays, TerminalParts
    <3>2. AllRows
      <4>1. CASE HasRow(t.seq)
        BY <3>1, <4>1 DEF Committed
      <4>2. CASE ~HasRow(t.seq)
        BY <2>3, <3>1, <4>2, RowBy DEF BindReceipt, Certified, AllRows
      <4> QED
        BY <4>1, <4>2
    <3>3. ~Reserve
      BY <3>1, OpenEnd, Where DEF Finalizing, In
    <3> QED
      BY <3>2, <3>3, NewPhases, RowsGrow DEF AllRows
  <2>4. In("sealed")' => receipt'[call'.phase.seq] = "bound" /\ status' = call'.phase.target
    <3> SUFFICES ASSUME In("sealed")'
                 PROVE  receipt'[call'.phase.seq] = "bound" /\ status' = call'.phase.target
      OBVIOUS
    <3>1. CASE call' = call
      <4>1. In("sealed")
        BY <3>1 DEF In
      <4>2. ~Undo
        BY <3>1, <4>1, UndoTyped DEF In
      <4>3. receipt' = receipt
        BY <4>1, <4>2, MarkMoves, Where DEF In
      <4>4. status' = status
        BY <4>1, <4>2, StatusMoves, Where DEF AcceptUntracked, In
      <4> QED
        BY <3>1, <4>1, <4>3, <4>4 DEF Committed
    <3>2. CASE Binds
      <4>1. /\ status # call.phase.prior /\ call'.phase = call.phase /\ Finalizing
            /\ call.phase \in Of("terminal")
            /\ receipt' = [receipt EXCEPT ![call.phase.seq] = "bound"] /\ status' = status
        BY <3>2, InHand, Where DEF Binds, BindReceipt, Finalizing
      <4>2. call.phase.seq \in Attempts
        BY <4>1, TerminalParts
      <4> QED
        BY <4>1, <4>2 DEF Sealing
    <3>3. In("reserve") => call.next \in {"idle", "choose"}
      BY DEF InTurn
    <3> QED
      BY <1>2, <3>1, <3>2, <3>3, Arrives
  <2> QED
    BY <2>1, <2>2, <2>3, <2>4 DEF Committed
<1> QED
  BY <1>1, <1>2

-----------------------------------------------------------------------------
(* What is accepted stays accepted.                                         *)

LEMMA AcceptedNext ==
    ASSUME AInv, [Next]_vars
    PROVE  Accepted'
<1> USE Parts DEF AInv, IInv
<1> SUFFICES ASSUME status'.st = "ingested"
             PROVE  /\ Answered(status)'
                    /\ status'.mode # "untracked" => attempt'[status'.count] = "ingested"
  BY DEF Accepted
<1>1. PICK s \in Statuses : s = status'
  BY TypedNext DEF Typed
<1>2. ~(Undo /\ call.undo.on)
  <2> SUFFICES ASSUME Undo, call.undo.on PROVE FALSE
    OBVIOUS
  <2>1. status' = call.phase.prior /\ call.phase \in Of("terminal")
    BY InHand DEF Undo, Sealing
  <2> QED
    BY <2>1, TerminalParts DEF TerminalShape
<1>3. /\ Answered(s)
      /\ s.mode # "untracked" => attempt'[s.count] = "ingested"
  <2>1. CASE status' = status
    <3>1. Answered(s) /\ (s.mode # "untracked" => attempt[s.count] = "ingested")
      BY <1>1, <2>1 DEF Accepted
    <3>2. ASSUME s.mode # "untracked" PROVE attempt'[s.count] = "ingested"
      <4>1. s.count \in Attempts /\ attempt[s.count] = "ingested"
        BY <3>1, <3>2, ReservationParts, AutomatedParts DEF Answered, At
      <4>2. CASE WriteAttempt
        <5>1. /\ attempt' = [attempt EXCEPT ![call.phase.seq] = call.phase.to]
              /\ In("terminal") /\ call.phase \in Of("terminal")
          BY <4>2, InHand DEF WriteAttempt
        <5>2. status = call.phase.target
          BY <1>1, <2>1, <5>1, TerminalParts DEF Sealing, TerminalShape, Finalizing
        <5>3. call.phase.to = "ingested"
          BY <2>1, <5>1, <5>2, TerminalParts DEF TerminalShape
        <5> QED
          BY <4>1, <5>1, <5>3
      <4>3. CASE ReserveAttempt
        <5>1. /\ attempt' = [attempt EXCEPT ![call.phase.seq] = "reserved"]
              /\ attempt[call.phase.seq] = "none"
          BY <4>3 DEF ReserveAttempt
        <5> QED
          BY <4>1, <5>1
      <4> QED
        BY <1>2, <4>1, <4>2, <4>3, MarkMoves
    <3> QED
      BY <3>1, <3>2
  <2>2. CASE WriteTerminalStatus
    <3>1. /\ call.phase \in Of("terminal") /\ s = call.phase.target
          /\ attempt'[call.phase.seq] = call.phase.to
      BY <1>1, <2>2, TerminalWrites
    <3> QED
      BY <1>1, <3>1, TerminalParts DEF TerminalShape
  <2>3. CASE AcceptUntracked /\ status' = [status EXCEPT !.st = "ingested"]
    <3>1. In("accept") /\ status.st = "ingesting" /\ evidence[status.claim] = "bound"
      BY <2>3, Where DEF AcceptUntracked, Placed, Working
    <3>2. PICK c \in Of("ingest") : c.target = status
      BY <3>1 DEF Statused, Sound, SoundClaim
    <3>3. c.seq = status.claim /\ response[status.claim] = "good"
      BY <3>2, ClaimParts
    <3>4. s.claim = status.claim /\ s.mode = "untracked"
      BY <1>1, <2>3 DEF AcceptUntracked, Statuses
    <3> QED
      BY <2>3, <3>1, <3>2, <3>3, <3>4 DEF Answered, AcceptUntracked
  <2>4. ~(Handoff \/ Bind \/ ReserveStatus)
    <3>1. ~Handoff
      BY HandoffStep
    <3>2. ~Bind
      <4> SUFFICES ASSUME Bind PROVE FALSE
        OBVIOUS
      <4>1. status' = [status EXCEPT !.reviewer = call.path] /\ status.st = "submitting"
        BY DEF Bind
      <4> QED
        BY <4>1 DEF Statuses
    <3>3. ~ReserveStatus
      BY ReservationWrites, ReservationParts
    <3> QED
      BY <3>1, <3>2, <3>3
  <2>5. ~(In("submit") /\ status' = call.phase.target)
    BY InHand, AutomatedParts
  <2>6. ~(\E c \in Of("ingest") : status' = c.target)
    BY ClaimParts
  <2> QED
    BY <1>2, <2>1, <2>2, <2>3, <2>4, <2>5, <2>6, StatusMoves
<1>4. Answered(s)'
  BY <1>1, <1>3, AnsweredStays
<1> QED
  BY <1>1, <1>3, <1>4 DEF Answered

-----------------------------------------------------------------------------
(* A call keeps its kind, and an ingest has something to read.              *)

Readable == IF call.path = 0 THEN call.text \in {"good", "bad"} ELSE response[call.path] # "none"

LEMMA ReadableKept ==
    ASSUME AInv, [Next]_vars, Keeps, call.kind = "ingest"
    PROVE  Readable'
<1>1. call.path \in Responses \cup {0} /\ Readable
  BY Parts, ResponsesTyped DEF AInv, IInv, Kinds, Readable, Calls
<1>2. call.path # 0 => response'[call.path] # "none"
  BY <1>1, TextsStay DEF AInv, IInv, Readable
<1> QED
  BY <1>1, <1>2 DEF Keeps, Readable

\* What a call has read is a text of the job.
LEMMA ReadableRead ==
    ASSUME AInv, [Next]_vars, call'.kind = "ingest",
           \/ ReadAutomated /\ call'.path = status.pend
           \/ ResumeClaim /\ call'.path = status.claim
           \/ ReadReserved /\ call'.path = call.path
           \/ ReadBound /\ call'.path = status.reviewer
           \/ ReadInline /\ call'.path = NextResponse
    PROVE  Readable'
<1> USE Parts, ResponsesTyped DEF AInv, IInv
<1>1. /\ In("read") /\ call.kind = "ingest" /\ Readable /\ status.st # "ingested"
      /\ call.path \in Places
  BY Where DEF Kinds, Readable, Working, Calls
<1>2. Content # "none"
  BY <1>1 DEF Content, Readable
<1>3. Sound(status)
  BY DEF Statused
<1>4. CASE ReadAutomated /\ call'.path = status.pend
  <2>1. /\ status.pend # 0 /\ response' = [response EXCEPT ![status.pend] = Content]
    BY <1>4 DEF ReadAutomated, Automated
  <2>2. status.pend \in Responses
    BY <2>1
  <2>3. response'[status.pend] # "none"
    BY <1>2, <2>1, <2>2
  <2> QED
    BY <1>4, <2>1, <2>3 DEF Readable
<1>5. CASE ResumeClaim /\ call'.path = status.claim
  <2>1. status.st = "ingesting" /\ response' = response
    BY <1>5 DEF ResumeClaim, files
  <2>2. PICK c \in Of("ingest") : c.target = status
    BY <1>3, <2>1 DEF Sound, SoundClaim
  <2>3. status.claim = c.seq /\ response[c.seq] = "good" /\ status.claim # 0
    BY <2>2, ClaimParts
  <2> QED
    BY <1>5, <2>1, <2>3 DEF Readable
<1>6. CASE ReadReserved /\ call'.path = call.path
  <2>1. call.path # 0 /\ response' = response
    BY <1>6 DEF ReadReserved, files
  <2> QED
    BY <1>1, <1>6, <2>1 DEF Readable
<1>7. CASE ReadBound /\ call'.path = status.reviewer
  <2>1. status.reviewer # 0 /\ response' = response
    BY <1>7 DEF ReadBound, files
  <2>2. response[status.reviewer] # "none"
    BY <1>1, <1>3, <2>1 DEF Sound, SoundReviewer
  <2> QED
    BY <1>7, <2>1, <2>2 DEF Readable
<1>8. CASE ReadInline /\ call'.path = NextResponse
  <2>1. /\ NextResponse \in Responses /\ response' = [response EXCEPT ![NextResponse] = call.text]
        /\ call.path = 0
    BY <1>8 DEF ReadInline
  <2>2. call.text # "none"
    BY <1>1, <2>1 DEF Readable
  <2>3. response'[NextResponse] # "none" /\ NextResponse # 0
    BY <2>1, <2>2
  <2> QED
    BY <1>8, <2>3 DEF Readable
<1> QED
  BY <1>4, <1>5, <1>6, <1>7, <1>8

LEMMA ReadableNext ==
    ASSUME AInv, [Next]_vars, call'.kind = "ingest"
    PROVE  Readable'
<1> USE Parts, ResponsesTyped DEF AInv, IInv
<1>1. CASE call' = call
  <2>1. Keeps /\ call.kind = "ingest"
    BY <1>1 DEF Keeps
  <2> QED
    BY <2>1, ReadableKept
<1>2. CASE Keeps
  <2>1. call.kind = "ingest"
    BY <1>2 DEF Keeps
  <2> QED
    BY <1>2, <2>1, ReadableKept
<1>3. CASE Enter
  <2>1. /\ IF call'.path = 0 THEN call'.text \in {"good", "bad"}
           ELSE response[call'.path] # "none"
        /\ response' = response
    BY <1>3, EnterStep, Unmoved DEF OnlyTheCall
  <2> QED
    BY <2>1 DEF Readable
<1>4. ~Return
  BY IdleTyped DEF Return, Idle
<1>5. ~((FindText \/ Review) /\ call'.kind = call.kind)
  BY Where DEF Guarded
<1>6. CASE Finishing
  <2>1. Keeps
    BY <1>6, FinishingStep DEF Ends
  <2> QED
    BY <1>2, <2>1
<1> QED
  BY <1>1, <1>2, <1>3, <1>4, <1>5, <1>6, ReadableRead, Leads
     DEF Settles, Proceeds, Binds, Prepares, Answers, Claims

LEMMA KindsNext ==
    ASSUME AInv, [Next]_vars
    PROVE  Kinds'
<1> USE DEF AInv, IInv
<1>1. CASE call' = call
  <2>1. call'.kind = "ingest" => Readable'
    BY ReadableNext
  <2> QED
    BY <1>1, <2>1 DEF Kinds, Readable, Finalizing, In
<1>2. CASE call' # call
  <2>1. In("reserve") => call.next \in {"idle", "choose"}
    BY DEF InTurn
  <2>2. In("run")' => call'.kind = "run"
    <3>1. Confirm /\ call'.pc = call.next /\ Keeps /\ In("run")' => call'.kind = "run"
      BY Where DEF Kinds, Keeps, Finalizing, In
    <3> QED
      BY <1>2, <2>1, <3>1, EnterStep, Arrives DEF In
  <2>3. In("ingest")' => call'.kind = "ingest"
    <3>1. Confirm /\ call'.pc = call.next /\ Keeps /\ In("ingest")' => call'.kind = "ingest"
      BY Where DEF Kinds, Keeps, Finalizing, In
    <3> QED
      BY <1>2, <2>1, <3>1, EnterStep, Arrives DEF In
  <2>4. Finalizing' => /\ call'.next = "run" => call'.kind = "run"
                       /\ call'.next = "ingest" => call'.kind = "ingest"
    <3>1. Finishing => call'.next \in {"idle", "choose"}
      BY FinishingStep DEF Ends
    <3>2. Binds => /\ call'.next = "run" => call'.kind = "run"
                   /\ call'.next = "ingest" => call'.kind = "ingest"
      BY Where DEF Binds, Kinds, Keeps, Finalizing
    <3> QED
      BY <1>2, <2>1, <3>1, <3>2, EnterStep, Arrives DEF Finalizing, In
  <2>5. In("submit")' => call'.kind \in {"run", "ingest"}
    BY <1>2, <2>1, Arrives, Where DEF Kinds, Keeps
  <2>6. In("bind")' => call'.kind \in {"run", "ingest"}
    BY <1>2, <2>1, Arrives, Where DEF Kinds, Guarded
  <2>7. In("claim")' => call'.kind = "ingest"
    BY <1>2, <2>1, Arrives, Where DEF Kinds, Keeps
  <2>8. In("read")' => call'.kind = "ingest"
    BY <1>2, <2>1, Arrives, Where DEF Kinds, Keeps
  <2>9. In("judge")' => call'.kind = "ingest"
    <3>1. Bind /\ In("judge")' => call.kind # "run"
      BY ReturnTyped DEF Bind, In
    <3> QED
      BY <1>2, <2>1, <3>1, Arrives, Where DEF Kinds
  <2>10. call'.kind = "ingest" => Readable'
    BY ReadableNext
  <2> QED
    BY <2>2, <2>3, <2>4, <2>5, <2>6, <2>7, <2>8, <2>9, <2>10 DEF Kinds, Readable, Finalizing, In
<1> QED
  BY <1>1, <1>2

-----------------------------------------------------------------------------
(* The status is where the call left it.                                    *)

\* A call that stays where it is writes no status while it reviews, reads or judges.
LEMMA StatusRests ==
    ASSUME AInv, [Next]_vars, call' = call,
           In("review") \/ In("bind") \/ In("read") \/ In("judge") \/ In("accept")
    PROVE  status' = status
<1> USE DEF AInv, IInv
<1>1. ~(Handoff \/ WriteTerminalStatus \/ ReserveStatus \/ In("submit") \/ In("claim")
          \/ In("claimed"))
  BY Where DEF In
<1>2. ~Bind
  <2> SUFFICES ASSUME Bind PROVE FALSE
    OBVIOUS
  <2>1. In("bind") /\ (Return \/ Goto("judge"))
    BY DEF Bind
  <2> QED
    BY <2>1, ReturnTyped, GotoTyped DEF In, Pcs
<1>3. ~AcceptUntracked
  <2> SUFFICES ASSUME AcceptUntracked PROVE FALSE
    OBVIOUS
  <2>1. In("accept") /\ Return
    BY DEF AcceptUntracked, Accept
  <2> QED
    BY <2>1, ReturnTyped DEF In
<1>4. ~Undo
  BY UndoTyped DEF In
<1> QED
  BY <1>1, <1>2, <1>3, <1>4, StatusMoves

LEMMA FollowsNext ==
    ASSUME AInv, [Next]_vars, In("submit")'
    PROVE  Follows(call.phase)'
<1> USE DEF AInv, IInv
<1>1. In("reserve") => call.next \in {"idle", "choose"}
  BY DEF InTurn
<1>2. CASE call' # call
  BY <1>1, <1>2, Arrives DEF Following
<1>3. CASE call' = call
  <2>1. In("submit")
    BY <1>3 DEF In
  <2>2. Follows(call.phase) /\ status' \in {status, call.phase.target}
    <3>1. ~(Handoff \/ Bind \/ WriteTerminalStatus \/ ReserveStatus \/ AcceptUntracked
              \/ In("claim") \/ In("claimed"))
      BY <2>1, Where DEF AcceptUntracked, In
    <3>2. ~Undo
      BY <1>3, <2>1, UndoTyped DEF In
    <3> QED
      BY <2>1, <3>1, <3>2, StatusMoves DEF Working
  <2> QED
    BY <1>3, <2>2 DEF Follows
<1> QED
  BY <1>2, <1>3

LEMMA WholeNext ==
    ASSUME AInv, [Next]_vars, In("review")'
    PROVE  status'.st = "submitting" /\ status'.pend = call'.phase.seq
<1> USE Parts DEF AInv, IInv
<1>1. In("reserve") => call.next \in {"idle", "choose"}
  BY DEF InTurn
<1>2. CASE call' = call
  BY <1>2, StatusRests DEF Working, In
<1>3. CASE call' # call
  <2>1. Submit /\ call'.phase = call.phase
    BY <1>1, <1>3, Arrives
  <2>2. Follows(call.phase) /\ call.phase \in Of("automated")
    BY <2>1, Where, InHand DEF Working
  <2>3. status' = call.phase.target \/ status' = [call.phase.target EXCEPT !.reviewer = status.reviewer]
    BY <2>1, <2>2 DEF Submit, Follows
  <2>4. /\ call.phase.target \in Statuses /\ call.phase.target.st = "submitting"
        /\ call.phase.target.pend = call.phase.seq
    BY <2>2, AutomatedParts
  <2> QED
    BY <2>1, <2>3, <2>4 DEF Statuses
<1> QED
  BY <1>2, <1>3

LEMMA BindNext ==
    ASSUME AInv, [Next]_vars, In("bind")'
    PROVE  /\ status'.st = "submitting" /\ status'.pend = call'.path
           /\ response'[call'.path] # "none"
<1> USE Parts, ResponsesTyped DEF AInv, IInv
<1>1. In("reserve") => call.next \in {"idle", "choose"}
  BY DEF InTurn
<1>2. CASE call' = call
  <2>1. /\ In("bind") /\ status.st = "submitting" /\ status.pend = call.path
        /\ response[call.path] # "none" /\ call.path \in Responses
    BY <1>2 DEF Working, Placed, In
  <2> QED
    BY <1>2, <2>1, StatusRests, TextsStay
<1>3. CASE (FindText \/ Review) /\ call'.path = call.phase.seq
  <2>1. /\ In("review") /\ status' = status /\ status.st = "submitting"
        /\ status.pend = call.phase.seq
    BY <1>3, Where, Unmoved DEF OnlyTheCall, TheResponses, Working
  <2>2. call.phase.seq \in Responses
    BY <2>1, InHand, AutomatedParts
  <2>3. response'[call.phase.seq] # "none"
    <3>1. CASE FindText
      BY <3>1 DEF FindText, Planned, files
    <3>2. CASE Review
      <4>1. PICK text \in {"good", "bad"} : response' = [response EXCEPT ![call.phase.seq] = text]
        BY <3>2 DEF Review, Planned
      <4> QED
        BY <2>2, <4>1
    <3> QED
      BY <1>3, <3>1, <3>2
  <2> QED
    BY <1>3, <2>1, <2>3
<1>4. CASE ReadAutomated /\ call'.path = status.pend
  <2>1. /\ In("read") /\ status.st # "ingesting" /\ status.pend # 0 /\ status' = status
        /\ response' = [response EXCEPT ![status.pend] = Content]
    BY <1>4 DEF ReadAutomated, Automated
  <2>2. status.st = "submitting" /\ status.pend \in Responses
    BY <2>1 DEF Legal
  <2>3. call.kind = "ingest" /\ call.path \in Places
    BY <2>1 DEF Kinds, Calls
  <2>4. Content # "none"
    BY <2>3 DEF Kinds, Content
  <2>5. response'[status.pend] # "none"
    BY <2>1, <2>2, <2>4
  <2> QED
    BY <1>4, <2>1, <2>2, <2>5
<1> QED
  BY <1>1, <1>2, <1>3, <1>4, Arrives

\* A text brought along gets a number that no reservation has used.
LEMMA InlineIsFresh ==
    ASSUME AInv, [Next]_vars, ReadInline
    PROVE  \A k : k = NextResponse => Fresh(k)'
<1> USE DEF AInv, IInv
<1>1. In("read") /\ NextResponse \in Responses /\ phases' = phases
  BY Where DEF ReadInline
<1>2. response[NextResponse] = "none"
  BY <1>1, NextIsFree
<1>3. Of("reservation")' = Of("reservation")
  BY <1>1 DEF Of
<1>4. ASSUME NEW p \in Of("reservation"), p.target.curResp = NextResponse
      PROVE  Dead(p)'
  <2>1. Dead(p)
    BY <1>2, <1>4 DEF Marked
  <2> QED
    BY <1>1, <2>1, DeadStays DEF In
<1> QED
  BY <1>3, <1>4 DEF Fresh

LEMMA JudgeNext ==
    ASSUME AInv, [Next]_vars, In("judge")'
    PROVE  /\ status'.st # "ingested"
           /\ IF status'.st = "ingesting" THEN call'.path = status'.claim
              ELSE IF status'.pend # 0 THEN call'.path = status'.pend
              ELSE Reserved' \/ response'[call'.path] # "good" \/ Fresh(call.path)'
<1> USE Parts, ResponsesTyped DEF AInv, IInv
<1>1. In("reserve") => call.next \in {"idle", "choose"}
  BY DEF InTurn
<1>2. Sound(status)
  BY DEF Statused
<1>3. CASE call' = call
  <2>1. /\ In("judge") /\ status' = status /\ call.path \in Responses /\ call.kind = "ingest"
        /\ status.st # "ingested"
    BY <1>3, StatusRests DEF In, Placed, Kinds, Working
  <2>2. CASE status.st = "ingesting" \/ status.pend # 0
    BY <1>3, <2>1, <2>2 DEF Working
  <2>3. CASE Reserved
    BY <1>3, <2>1, <2>3 DEF Reserved, Working
  <2>4. CASE status.st # "ingesting" /\ status.pend = 0 /\ ~Reserved
    <3>1. response[call.path] # "none" /\ call.path # 0
      BY <2>1 DEF Kinds
    <3>2. ~(Answer /\ call.path = status.curResp)
      BY <2>4 DEF Answer, Reserved, Legal
    <3>3. response'[call.path] = response[call.path]
      BY <2>1, <3>1, <3>2, TextsStay
    <3>4. Fresh(call.path) => Fresh(call.path)'
      <4>1. ASSUME NEW k \in Responses, k = call.path, Fresh(k) PROVE Fresh(k)'
        BY <2>1, <3>1, <4>1, FreshStays DEF In
      <4> QED
        BY <1>3, <2>1, <4>1 DEF Fresh
    <3>5. response[call.path] # "good" \/ Fresh(call.path)
      BY <2>1, <2>4 DEF Working
    <3> QED
      BY <1>3, <2>1, <2>4, <3>3, <3>4, <3>5
  <2> QED
    BY <2>2, <2>3, <2>4
<1>4. CASE Bind /\ call'.path = call.path
  <2>1. /\ In("bind") /\ status.st = "submitting" /\ status.pend = call.path
        /\ call.path \in Responses /\ status' = [status EXCEPT !.reviewer = call.path]
    BY <1>4, Where DEF Bind, Working, Placed
  <2>2. status'.st = "submitting" /\ status'.pend = call.path
    BY <2>1 DEF Statuses
  <2> QED
    BY <1>4, <2>1, <2>2
<1>5. CASE ResumeClaim /\ call'.path = status.claim
  BY <1>5 DEF ResumeClaim
<1>6. CASE ReadReserved /\ call'.path = call.path
  <2>1. /\ In("read") /\ status.st # "ingesting" /\ (manual \/ ~Automated)
        /\ call.path # 0 /\ Acceptable(call.path) /\ status' = status /\ response' = response
        /\ status.st # "ingested"
    BY <1>6, Where DEF ReadReserved, files, Working
  <2>2. Of("ingest") = {}
    BY <2>1 DEF Guarded
  <2>3. CASE IsReserved(call.path)
    BY <1>6, <2>1, <2>3 DEF IsReserved, Legal, Reserved
  <2>4. CASE ~manual /\ call.path = status.reviewer
    BY <1>2, <1>6, <2>1, <2>4 DEF Automated, Sound, SoundReviewer
  <2> QED
    BY <2>1, <2>2, <2>3, <2>4 DEF Acceptable, At
<1>7. CASE ReadBound /\ call'.path = status.reviewer
  <2>1. /\ In("read") /\ status.st # "ingesting" /\ status.pend # 0 /\ status.reviewer # 0
        /\ status' = status /\ status.st # "ingested"
    BY <1>7, Where DEF ReadBound, Automated, Working
  <2> QED
    BY <1>2, <1>7, <2>1 DEF Sound, SoundReviewer
<1>8. CASE ReadInline /\ call'.path = NextResponse
  <2>1. /\ In("read") /\ status.st # "ingesting" /\ status.pend = 0 /\ status' = status
        /\ status.st # "ingested"
    BY <1>8, Where DEF ReadInline, Automated, Working
  <2>2. \A k : k = NextResponse => Fresh(k)'
    BY <1>8, InlineIsFresh
  <2>3. Fresh(call.path)'
    BY <1>8, <2>2 DEF Fresh
  <2> QED
    BY <2>1, <2>3
<1> QED
  BY <1>1, <1>3, <1>4, <1>5, <1>6, <1>7, <1>8, Arrives

LEMMA WorkingNext ==
    ASSUME AInv, [Next]_vars
    PROVE  Working'
<1> USE Parts, ResponsesTyped DEF AInv, IInv
<1>1. In("reserve") => call.next \in {"idle", "choose"}
  BY DEF InTurn
<1>2. ASSUME In("read")' PROVE status'.st # "ingested"
  <2>1. CASE call' = call
    BY <1>2, <2>1, StatusRests DEF Working, In
  <2>2. CASE AdoptClaim
    <3>1. status.st # "ingested" /\ (status' = status \/ \E c \in Of("ingest") : status' = c.target)
      BY <2>2 DEF AdoptClaim
    <3> QED
      BY <3>1, ClaimParts
  <2> QED
    BY <1>1, <1>2, <2>1, <2>2, Arrives
<1>3. ASSUME In("claimed")' PROVE status' \in {call'.phase.prior, call'.phase.target}
  <2>1. CASE call' = call
    <3>1. /\ In("claimed") /\ call.phase \in Of("ingest")
          /\ status \in {call.phase.prior, call.phase.target}
      BY <1>3, <2>1, InHand DEF Working, In
    <3>2. ~(Handoff \/ Bind \/ WriteTerminalStatus \/ ReserveStatus \/ AcceptUntracked
              \/ In("submit"))
      BY <3>1, Where DEF AcceptUntracked, In
    <3>3. ~Undo
      BY <2>1, <3>1, UndoTyped DEF In
    <3>4. (\E c \in Of("ingest") : status' = c.target) => status' = call.phase.target
      BY <3>1 DEF OneIngest
    <3> QED
      BY <2>1, <3>1, <3>2, <3>3, <3>4, StatusMoves
  <2>2. CASE call' # call
    <3>1. Claim \/ ClaimAgain \/ Derive => status' = status
      BY Unmoved DEF ThePhases, OnlyTheCall
    <3>2. Derive => status \in {call.phase.prior, call.phase.target}
      BY Where DEF Working
    <3> QED
      BY <1>1, <1>3, <2>2, <3>1, <3>2, Arrives
  <2> QED
    BY <2>1, <2>2
<1>4. ASSUME In("accept")' PROVE evidence'[status'.claim] = "bound"
  <2>1. CASE call' = call
    <3>1. /\ In("accept") /\ status' = status /\ evidence[status.claim] = "bound"
          /\ status.claim \in Responses
      BY <1>4, <2>1, StatusRests DEF Working, In, Placed, Statuses
    <3> QED
      BY <3>1, EvidenceStays
  <2>2. CASE call' # call
    <3>1. Derive /\ evidence'[status.claim] = "bound"
      BY <1>1, <1>4, <2>2, Arrives
    <3> QED
      BY <3>1, Unmoved
  <2> QED
    BY <2>1, <2>2
<1> QED
  BY <1>2, <1>3, <1>4, FollowsNext, WholeNext, BindNext, JudgeNext DEF Working

-----------------------------------------------------------------------------
(* The theorems.                                                            *)

LEMMA AnswersInit ==
    ASSUME Init
    PROVE  AInv
<1>1. /\ status = Prepared /\ phases = {} /\ rows = {} /\ call.pc = "idle" /\ ~call.undo.on
      /\ call.kind = "none"
  BY DEF Init, Idle, NoUndo
<1>2. IInv
  BY <1>1, TypedInit DEF IInv, Guarded, In, OneIngest, OneReservation, Of
<1>3. \A kind : Of(kind) = {}
  BY <1>1 DEF Of
<1>4. Shapes /\ Marked
  BY <1>1, <1>3 DEF Shapes, Marked
<1>5. InTurn
  BY <1>1, <1>3 DEF InTurn, Finalizing, In, AllRows
<1>6. /\ status.st = "prepared" /\ status.reviewer = 0 /\ status.cur = 0 /\ status.pend = 0
  BY <1>1 DEF Prepared
<1>7. Statused
  BY <1>1, <1>3, <1>6 DEF Statused, Sound, SoundReviewer, SoundCur, SoundPend, SoundClaim
<1>8. Sealing /\ Committed
  BY <1>1, <1>3 DEF Sealing, Committed, HasRow, Init, Finalizing, In
<1>9. Accepted /\ Kinds /\ Working
  BY <1>1, <1>6 DEF Accepted, Kinds, Working, Finalizing, In
<1> QED
  BY <1>2, <1>4, <1>5, <1>7, <1>8, <1>9 DEF AInv

LEMMA AnswersNext ==
    ASSUME AInv, [Next]_vars
    PROVE  AInv'
  BY InvariantNext, ShapesNext, InTurnNext, MarkedNext, StatusedNext, SealingNext,
     CommittedNext, AcceptedNext, KindsNext, WorkingNext DEF AInv

\* The inductive invariant behind what a job accepts, for any number of operations and
\* of attempts, whatever calls of review-browser-attempt-start, review-run and
\* review-ingest come in whatever order, and wherever one of them dies, fails or raises.
THEOREM AnswersInvariance == Spec => []AInv
<1>1. Init => AInv
  BY AnswersInit
<1>2. AInv /\ [Next]_vars => AInv'
  BY AnswersNext
<1> QED
  BY <1>1, <1>2, PTL DEF Spec

\* A response is accepted for the attempt that it was reserved for: ingest_review_result
\* never leaves a job with the text of one attempt under the number of another, nor
\* accepts without a reservation a text that some attempt of the job has its rows for.
THEOREM AnswersFit == Spec => []AcceptedAnswersItsAttempt
<1>1. AInv => AcceptedAnswersItsAttempt
  <2> SUFFICES ASSUME AInv, status.st = "ingested"
               PROVE  AcceptedAnswersItsAttempt
    BY DEF AcceptedAnswersItsAttempt
  <2>1. /\ Answered(status)
        /\ status.mode # "untracked" => attempt[status.count] = "ingested"
    BY DEF AInv, Accepted
  <2>2. status.mode = "untracked" =>
            \A p \in Of("reservation") : p.seq \in rows => p.target.curResp # status.claim
    <3> SUFFICES ASSUME status.mode = "untracked", NEW p \in Of("reservation"),
                        p.target.curResp = status.claim
                 PROVE  p.seq \notin rows
      OBVIOUS
    <3>1. PICK c \in Of("ingest") : c.target.mode = "untracked" /\ c.seq = status.claim
      BY <2>1 DEF Answered
    <3>2. Fresh(status.claim)
      BY <3>1, ClaimParts DEF ClaimShape
    <3> QED
      BY <3>2 DEF Fresh, Dead
  <2> QED
    BY <2>1, <2>2 DEF AcceptedAnswersItsAttempt, Answered
<1> QED
  BY <1>1, AnswersInvariance, PTL

-----------------------------------------------------------------------------
(* History: what a bound receipt seals.                                     *)

\* A receipt is bound for an attempt that has ended as its phase says; behind a row
\* everything is sealed; and whatever a failed finalization took back, the record of an
\* attempt that is not sealed is one that its phase still knows.
History ==
    /\ \A t \in Of("terminal") : receipt[t.seq] = "bound" => attempt[t.seq] = t.to
    /\ \A n \in Attempts : HasRow(n) => \A m \in 1 .. n : m = n \/ Bound(m)
    /\ \A t \in Of("terminal") : ~Bound(t.seq) => attempt[t.seq] \in {t.from, t.to}
    /\ call.undo.on => call.undo.attempt = call.phase.from

\* No call writes the record of a sealed attempt.
LEMMA SealedRecordStays ==
    ASSUME AInv, History, [Next]_vars, NEW n \in Attempts, Sealed(n)
    PROVE  attempt'[n] = attempt[n]
<1> USE Parts DEF AInv, IInv
<1>1. PICK t \in Of("terminal") : t.seq = n /\ attempt[n] = t.to
  BY DEF History, Committed, Sealed, HasRow
<1>2. attempt[n] \in Final
  BY <1>1, TerminalParts DEF TerminalShape
<1>3. CASE WriteAttempt
  <2>1. /\ call.phase \in Of("terminal") /\ attempt[call.phase.seq] # call.phase.to
        /\ attempt' = [attempt EXCEPT ![call.phase.seq] = call.phase.to]
    BY <1>3, InHand DEF WriteAttempt
  <2>2. call.phase.seq # n
    BY <2>1 DEF History, Sealed
  <2> QED
    BY <2>1, <2>2
<1>4. CASE ReserveAttempt
  <2>1. /\ attempt[call.phase.seq] = "none"
        /\ attempt' = [attempt EXCEPT ![call.phase.seq] = "reserved"]
    BY <1>4 DEF ReserveAttempt
  <2> QED
    BY <1>2, <2>1 DEF Final, Failed
<1>5. CASE Undo /\ call.undo.on
  <2>1. /\ call.phase.seq # n
        /\ attempt' = [attempt EXCEPT ![call.phase.seq] = call.undo.attempt]
    BY <1>5, InHand DEF Undo, Sealed, Undoable
  <2> QED
    BY <2>1
<1> QED
  BY <1>3, <1>4, <1>5, MarkMoves

\* The status of an accepted job is not written again once its attempt is sealed.
LEMMA AcceptedRests ==
    ASSUME AInv, [Next]_vars, status.st = "ingested", status.count > 0, Sealed(status.count)
    PROVE  status' = status
<1> USE Parts DEF AInv, IInv
<1>1. ~Handoff
  <2>1. Handoff => status'.st = "handoff_ready" /\ status'.mode = status.mode /\ Legal(status)'
    BY HandoffStep, TypedNext DEF Typed, TypeOK
  <2> QED
    BY <2>1 DEF Legal
<1>2. ~Bind
  BY DEF Bind
<1>3. ~WriteTerminalStatus
  BY TerminalWrites, TerminalParts DEF TerminalShape
<1>4. ~ReserveStatus
  BY ReservationWrites, ReservationParts
<1>5. ~(In("submit") /\ status = call.phase.prior)
  <2> SUFFICES ASSUME In("submit"), status = call.phase.prior PROVE FALSE
    OBVIOUS
  <2>1. call.phase \in Of("automated")
    BY InHand
  <2> QED
    BY <2>1 DEF Shapes, AutomatedShape
<1>6. ~(\E c \in Of("ingest") : status = c.prior)
  BY ClaimParts
<1>7. ~AcceptUntracked
  BY Where DEF AcceptUntracked, Placed
<1>8. ~(Undo /\ call.undo.on)
  <2> SUFFICES ASSUME call.undo.on PROVE FALSE
    OBVIOUS
  <2>1. /\ call.phase \in Of("terminal") /\ Finalizing
        /\ status \in {call.phase.prior, call.phase.target}
    BY InHand DEF Sealing
  <2>2. call.phase.prior.st # "ingested" /\ call.phase.target.count = call.phase.seq
    BY <2>1, TerminalParts DEF TerminalShape
  <2>3. Undoable(status.count)
    BY <2>1, <2>2 DEF Undoable
  <2> QED
    BY <2>3 DEF Sealed
<1> QED
  BY <1>1, <1>2, <1>3, <1>4, <1>5, <1>6, <1>7, <1>8, StatusMoves

\* The record of an attempt that has ended is written from and to what its phase says.
LEMMA RecordsKnown ==
    ASSUME AInv, History, [Next]_vars, NEW t \in Of("terminal")', ~Bound(t.seq)'
    PROVE  attempt'[t.seq] \in {t.from, t.to}
<1> USE Parts DEF AInv, IInv
<1>1. CASE t \notin Of("terminal")
  <2>1. Finishing
    BY <1>1, Grown
  <2>2. PICK u : Ends(u)
    BY <2>1, FinishingStep
  <2>3. t = u /\ attempt[t.seq] = t.from
    BY <1>1, <2>2 DEF Ends, Of
  <2>4. attempt' = attempt
    BY <2>1, Unmoved DEF ThePhases
  <2> QED
    BY <2>3, <2>4
<1>2. CASE t \in Of("terminal")
  <2>1. t.seq \in Attempts /\ ~Bound(t.seq)
    BY <1>2, BoundStays, TerminalParts
  <2>2. attempt[t.seq] \in {t.from, t.to} /\ (In("idle") \/ (Finalizing /\ call.phase = t))
    BY <1>2, <2>1, OpenEnd DEF History
  <2>3. CASE WriteAttempt
    <3>1. attempt' = [attempt EXCEPT ![t.seq] = t.to]
      BY <2>2, <2>3, Where DEF WriteAttempt, In
    <3> QED
      BY <2>1, <3>1
  <2>4. CASE Undo /\ call.undo.on
    <3>1. attempt' = [attempt EXCEPT ![t.seq] = t.from]
      BY <2>2, <2>4, InHand DEF Undo, History, Finalizing, In
    <3> QED
      BY <2>1, <3>1
  <2>5. ~ReserveAttempt
    BY <2>2, Where DEF Finalizing, In
  <2> QED
    BY <2>2, <2>3, <2>4, <2>5, MarkMoves
<1> QED
  BY <1>1, <1>2

\* A receipt is bound when every attempt before it is.
LEMMA HistoryNext ==
    ASSUME AInv, History, [Next]_vars
    PROVE  History'
<1> USE Parts DEF AInv, IInv
<1>1. ASSUME NEW t \in Of("terminal")', receipt'[t.seq] = "bound"
      PROVE  attempt'[t.seq] = t.to
  <2>1. t \in Of("terminal")
    <3> SUFFICES ASSUME t \notin Of("terminal") PROVE FALSE
      OBVIOUS
    <3>1. Finishing
      BY Grown
    <3>2. PICK u : Ends(u)
      BY <3>1, FinishingStep
    <3>3. t = u /\ receipt[t.seq] = "none"
      BY <3>2 DEF Ends, Of
    <3>4. receipt' = receipt
      BY <3>1, Unmoved DEF ThePhases
    <3> QED
      BY <1>1, <3>3, <3>4
  <2>2. t.seq \in Attempts
    BY <2>1, TerminalParts
  <2>3. CASE WriteReceipt \/ BindReceipt
    <3>1. /\ attempt' = attempt /\ attempt[call.phase.seq] = call.phase.to
          /\ call.phase \in Of("terminal")
          /\ \/ receipt' = [receipt EXCEPT ![call.phase.seq] =
                                 IF @ = "row" THEN "bound" ELSE "file"]
             \/ receipt' = [receipt EXCEPT ![call.phase.seq] = "bound"]
      BY <2>3, InHand, Where DEF WriteReceipt, BindReceipt, AttemptWritten
    <3>2. CASE t.seq = call.phase.seq
      BY <2>1, <3>1, <3>2 DEF Sealing
    <3>3. CASE t.seq # call.phase.seq
      <4>1. receipt[t.seq] = "bound"
        BY <1>1, <2>2, <3>1, <3>3
      <4> QED
        BY <2>1, <3>1, <4>1 DEF History
    <3> QED
      BY <3>2, <3>3
  <2>4. CASE Undo /\ call.undo.on
    <3>1. /\ receipt' = [receipt EXCEPT ![call.phase.seq] =
                              IF HasRow(call.phase.seq) THEN "row" ELSE "none"]
          /\ attempt' = [attempt EXCEPT ![call.phase.seq] = call.undo.attempt]
      BY <2>4 DEF Undo
    <3>2. t.seq # call.phase.seq
      BY <1>1, <2>2, <3>1
    <3>3. receipt[t.seq] = "bound" /\ attempt'[t.seq] = attempt[t.seq]
      BY <1>1, <2>2, <3>1, <3>2
    <3> QED
      BY <2>1, <3>3 DEF History
  <2>5. CASE receipt' = receipt /\ ~Undo
    <3>1. attempt[t.seq] = t.to /\ t.to \in Final
      BY <1>1, <2>1, <2>5, TerminalParts DEF History, TerminalShape
    <3>2. CASE WriteAttempt
      <4>1. /\ attempt' = [attempt EXCEPT ![call.phase.seq] = call.phase.to]
            /\ call.phase \in Of("terminal")
        BY <3>2, InHand DEF WriteAttempt
      <4>2. t.seq = call.phase.seq => t = call.phase
        BY <2>1, <4>1 DEF Sealing
      <4> QED
        BY <2>2, <3>1, <4>1, <4>2
    <3>3. CASE ReserveAttempt
      <4>1. /\ attempt' = [attempt EXCEPT ![call.phase.seq] = "reserved"]
            /\ attempt[call.phase.seq] = "none"
        BY <3>3 DEF ReserveAttempt
      <4> QED
        BY <2>2, <3>1, <4>1 DEF Final, Failed
    <3> QED
      BY <2>5, <3>1, <3>2, <3>3, MarkMoves
  <2>6. Undo /\ ~call.undo.on => attempt' = attempt /\ receipt' = receipt
    BY DEF Undo
  <2> QED
    BY <1>1, <2>1, <2>3, <2>4, <2>5, <2>6, MarkMoves DEF History
<1>2. ASSUME NEW n \in Attempts, HasRow(n)', NEW m \in 1 .. n, m # n
      PROVE  Bound(m)'
  <2>1. m \in Attempts /\ m < n
    <3>1. n \in 1 .. MaxAttempts /\ MaxAttempts \in Nat
      BY Bounds DEF Attempts
    <3>2. \A i \in 1 .. MaxAttempts : \A k \in 1 .. i : k \in 1 .. MaxAttempts /\ (k < i \/ k = i)
      BY <3>1
    <3> QED
      BY <1>2, <3>1, <3>2 DEF Attempts
  <2>2. CASE HasRow(n)
    <3>1. Bound(m)
      BY <1>2, <2>2 DEF History
    <3> QED
      BY <2>1, <3>1, BoundStays
  <2>3. CASE ~HasRow(n)
    <3>1. BindReceipt /\ n = call.phase.seq /\ receipt' = [receipt EXCEPT ![n] = "bound"]
      BY <1>2, <2>3, RowBy
    <3>2. call.phase \in Of("terminal") /\ status = call.phase.target /\ Certified
      BY <3>1, InHand, Where DEF BindReceipt, Sealing, Finalizing
    <3>3. status.count = n /\ status.cur = 0
      BY <3>1, <3>2, TerminalParts DEF TerminalShape
    <3>4. m # status.cur /\ m \in 1 .. status.count
      BY <2>1, <3>3 DEF Attempts
    <3>5. receipt[m] = "bound"
      BY <1>2, <3>1, <3>2, <3>4 DEF Certified
    <3>6. PICK u \in Of("terminal") : u.seq = m
      BY <2>1, <3>5 DEF Committed, HasRow
    <3>7. Bound(m)
      BY <2>1, <3>1, <3>2, <3>6 DEF Sealing
    <3> QED
      BY <2>1, <3>7, BoundStays
  <2> QED
    BY <2>2, <2>3
<1>3. ASSUME call'.undo.on PROVE call'.undo.attempt = call'.phase.from
  <2>1. CASE call' = call \/ Binds
    BY <1>3, <2>1 DEF Binds, History
  <2>2. CASE Finishing
    BY <2>2, FinishingStep DEF Ends
  <2> QED
    BY <1>3, <2>1, <2>2, UndoMoves
<1> QED
  BY <1>1, <1>2, <1>3, RecordsKnown DEF History

LEMMA HistoryInit ==
    ASSUME Init
    PROVE  History
  BY DEF Init, History, HasRow, Idle, NoUndo, Of

\* Behind a row everything is bound, and has ended.
LEMMA InOrder ==
    ASSUME AInv, History
    PROVE  SealedInOrder
<1> SUFFICES ASSUME NEW n \in Attempts, HasRow(n), NEW m \in 1 .. n,
                    m < n \/ receipt[n] = "bound"
             PROVE  receipt[m] = "bound" /\ attempt[m] \in Final
  BY DEF SealedInOrder
<1>1. m \in Attempts /\ n \in Nat
  BY Bounds DEF Attempts
<1>2. receipt[m] = "bound"
  <2>1. CASE m = n
    BY <1>1, <2>1
  <2>2. CASE m # n
    BY <2>2 DEF History, Bound, Sealed
  <2> QED
    BY <2>1, <2>2
<1>3. PICK t \in Of("terminal") : t.seq = m
  BY <1>1, <1>2 DEF AInv, Committed, HasRow
<1> QED
  BY <1>2, <1>3, TerminalParts DEF History, TerminalShape

\* History is sealed in order: a receipt is bound under the integrity report of the job,
\* so behind a bound receipt every attempt has ended and has its receipt bound.
THEOREM HistorySealedInOrder == Spec => []SealedInOrder
<1>1. Init => History
  BY HistoryInit
<1>2. AInv /\ History /\ [Next]_vars => History'
  BY HistoryNext
<1>3. AInv /\ History => SealedInOrder
  BY InOrder
<1> QED
  BY <1>1, <1>2, <1>3, AnswersInvariance, PTL DEF Spec

\* A receipt whose file was taken away is of the last attempt that ended.
LEMMA TakenBack ==
    ASSUME AInv, History
    PROVE  TakenBackCanBeFinished
<1> USE Parts DEF AInv, IInv
<1> SUFFICES ASSUME NEW p \in Of("terminal"), receipt[p.seq] = "row"
             PROVE  p = Latest("terminal") /\ EarlierWritten /\ Reconcilable(p)
  BY DEF TakenBackCanBeFinished
<1>1. ~Bound(p.seq) /\ p.seq \in Nat
  BY TerminalParts DEF Bound, Sealed, Attempts
<1>2. \A q \in Of("terminal") : q.seq \in Nat /\ ~(p.seq < q.seq)
  BY <1>1, TerminalParts DEF Sealing, Attempts
<1>3. p = Latest("terminal")
  <2>1. /\ Latest("terminal") \in Of("terminal")
        /\ \A q \in Of("terminal") : q.seq <= Latest("terminal").seq
    BY LatestExists
  <2>2. p.seq = Latest("terminal").seq
    BY <1>1, <1>2, <2>1
  <2> QED
    BY <2>1, <2>2 DEF Sealing
<1>4. EarlierWritten
  <2> SUFFICES ASSUME NEW q \in Of("terminal"), q.seq < p.seq PROVE Written(q)
    BY <1>3 DEF EarlierWritten
  <2>1. receipt[q.seq] = "bound"
    BY DEF Sealing, Bound, Sealed
  <2> QED
    BY <2>1 DEF Written, History
<1>5. Reconcilable(p)
  BY <1>1 DEF Reconcilable, History, Sealing
<1> QED
  BY <1>3, <1>4, <1>5

\* Whatever fails after the row of a receipt was committed, and takes the file away again
\* (_finalize_attempt_with_receipt_binding), leaves a job whose last phase can be written out
\* once more: nothing before it is incomplete, and it still knows the attempt and the status.
THEOREM TakenBackFinishable == Spec => []TakenBackCanBeFinished
<1>1. Init => History
  BY HistoryInit
<1>2. AInv /\ History /\ [Next]_vars => History'
  BY HistoryNext
<1>3. AInv /\ History => TakenBackCanBeFinished
  BY TakenBack
<1> QED
  BY <1>1, <1>2, <1>3, AnswersInvariance, PTL DEF Spec

SealedStays ==
    /\ \A n \in Attempts : Sealed(n) => Sealed(n)' /\ attempt'[n] = attempt[n]
    /\ status.st = "ingested" /\ status.count > 0 /\ Sealed(status.count) =>
           status' = status

LEMMA SealedNext ==
    ASSUME AInv, History, [Next]_vars
    PROVE  SealedStays
  BY SealedKept, SealedRecordStays, AcceptedRests DEF SealedStays

\* What is sealed never changes again.  A finalization may be undone as long as it has not
\* read back the row that it committed; once it has, or has died, neither an exception nor a
\* later call touches the attempt or its receipt, and an accepted job whose attempt is
\* sealed accepts nothing else.
THEOREM SealedStaysSealed == Spec => SealedForGood
<1>1. Init => History
  BY HistoryInit
<1>2. AInv /\ History /\ [Next]_vars => History'
  BY HistoryNext
<1>3. AInv /\ History /\ [Next]_vars => [SealedStays]_vars
  BY SealedNext
<1> QED
  BY <1>1, <1>2, <1>3, AnswersInvariance, PTL DEF Spec, SealedForGood, SealedStays

-----------------------------------------------------------------------------
(* Jobs that are frozen behind a replacement.                               *)

QInside == {"locked", "commit", "write", "link"}
QPlaces == {"idle", "previewed", "lock", "out", "rows"} \cup QInside
QOperations == {"none", "quarantine"} \cup Q!Mutators

\* What a call has seen is anything that a job can be.
QCalls(facts) ==
    [at : QPlaces, kind : QOperations, job : {0} \cup LegacyJobs, behind : {0} \cup LegacyJobs,
     exact : BOOLEAN, expect : facts, saw : facts]

QTyped ==
    /\ \E facts : Q!NoEvidence \in facts /\ caller \in [Callers -> QCalls(facts)]
    /\ lock \in [LegacyJobs -> Callers \cup {Unlocked}]
    /\ DOMAIN quarantine = LegacyJobs /\ quarantine = [j \in LegacyJobs |-> quarantine[j]]
    /\ \A j \in LegacyJobs : quarantine[j].exact \in BOOLEAN

\* A quarantine names two jobs and holds the locks of both from its decision to its
\* file; the one that decided to freeze a job has seen what it will freeze, and was
\* asked to freeze as it pleases only after the operator saw the same.
CallFits(c) ==
    LET k == caller[c] IN
    /\ k.at # "idle" => k.job \in LegacyJobs
    /\ (k.at # "idle" /\ k.kind \in {"none", "quarantine"}) => k.behind \in LegacyJobs \ {k.job}
    /\ k.at = "previewed" => k.kind = "none"
    /\ (k.at \in QInside /\ k.kind = "quarantine") => (lock[k.job] = c /\ lock[k.behind] = c)
    /\ k.at \in {"commit", "write", "link"} => k.kind = "quarantine"
    /\ k.at = "commit" => /\ ~Q!Frozen(k.job) /\ Q!Open(k.behind)
                          /\ k.expect \in {Q!NoEvidence, k.saw}
    /\ (k.at # "idle" /\ k.exact /\ k.expect = Q!NoEvidence) => Q!Frozen(k.job)

QInv ==
    /\ QTyped /\ \A c \in Callers : CallFits(c)
    /\ Q!ReplacementsEnd /\ Q!LegacyIsUnupgradable

LEMMA QInit ==
    ASSUME Q!Init
    PROVE  QInv
<1>1. /\ caller = [c \in Callers |-> Q!Idle] /\ lock = [j \in LegacyJobs |-> Unlocked]
      /\ quarantine = [j \in LegacyJobs |-> Q!NoReceipt]
  BY DEF Q!Init
<1>2. Q!Idle \in QCalls({Q!NoEvidence}) /\ Q!Idle.at = "idle"
  <2> DEFINE e == Q!NoEvidence
  <2> HIDE DEF e
  <2>1. [at |-> "idle", kind |-> "none", job |-> 0, behind |-> 0, exact |-> FALSE, expect |-> e,
         saw |-> e] \in QCalls({e})
    BY DEF QCalls, QPlaces, QOperations
  <2> QED
    BY <2>1 DEF Q!Idle, e
<1>3. QTyped
  BY <1>1, <1>2 DEF QTyped, Q!NoReceipt
<1>4. \A c \in Callers : CallFits(c)
  BY <1>1, <1>2 DEF CallFits, QInside
<1>5. \A j \in LegacyJobs : ~Q!Frozen(j)
  BY <1>1 DEF Q!Frozen
<1>6. Q!ReplacementsEnd /\ Q!LegacyIsUnupgradable
  BY <1>5 DEF Q!ReplacementsEnd, Q!LegacyIsUnupgradable
<1> QED
  BY <1>3, <1>4, <1>6 DEF QInv

\* What the holder of a lock relies on stays as it is.
Respects(d) ==
    \A j \in LegacyJobs : lock[j] = d => /\ lock'[j] = d /\ quarantine'[j] = quarantine[j]
                                         /\ (j \in filed' => j \in filed)
FrozenForGood == \A j \in LegacyJobs : Q!Frozen(j) => Q!Frozen(j)'

LEMMA OthersFit ==
    ASSUME NEW d \in Callers, CallFits(d), caller'[d] = caller[d], Respects(d), FrozenForGood
    PROVE  CallFits(d)'
<1> DEFINE k == caller[d]
<1>1. k.at = "commit" => /\ quarantine'[k.job] = quarantine[k.job]
                         /\ quarantine'[k.behind] = quarantine[k.behind]
                         /\ (k.behind \in filed' => k.behind \in filed)
  BY DEF CallFits, Respects, QInside
<1>2. k.at = "commit" => ~Q!Frozen(k.job)' /\ Q!Open(k.behind)'
  BY <1>1 DEF CallFits, Q!Frozen, Q!Open
<1> QED
  BY <1>2 DEF CallFits, Respects, FrozenForGood, QInside

\* A step of a caller that leaves the receipts alone.
LEMMA CallerMoves ==
    ASSUME QInv, NEW c \in Callers, NEW k, NEW facts, Q!NoEvidence \in facts,
           caller \in [Callers -> QCalls(facts)], k \in QCalls(facts),
           caller' = [caller EXCEPT ![c] = k],
           lock' \in [LegacyJobs -> Callers \cup {Unlocked}],
           UNCHANGED quarantine, \A d \in Callers \ {c} : Respects(d), CallFits(c)'
    PROVE  QInv'
<1>1. caller' \in [Callers -> QCalls(facts)]
  OBVIOUS
<1>2. QTyped'
  BY <1>1 DEF QInv, QTyped
<1>3. FrozenForGood
  BY DEF FrozenForGood, Q!Frozen
<1>4. \A d \in Callers \ {c} : CallFits(d)'
  BY <1>3, OthersFit DEF QInv
<1>5. (Q!ReplacementsEnd /\ Q!LegacyIsUnupgradable)'
  BY DEF QInv, Q!ReplacementsEnd, Q!LegacyIsUnupgradable, Q!Frozen
<1> QED
  BY <1>2, <1>4, <1>5 DEF QInv

\* A call that only goes on.
Same(k, r) == k.kind = r.kind /\ k.job = r.job /\ k.behind = r.behind /\ k.exact = r.exact
              /\ k.expect = r.expect /\ k.saw = r.saw

LEMMA GoesOn ==
    ASSUME NEW facts, NEW r \in QCalls(facts), NEW at \in QPlaces
    PROVE  LET k == [r EXCEPT !.at = at] IN k \in QCalls(facts) /\ k.at = at /\ Same(k, r)
  BY DEF QCalls, Same

LEMMA GotoStep ==
    ASSUME QInv, NEW c \in Callers, NEW at \in QPlaces \ {"previewed"}, Q!Goto(c, at),
           lock' \in [LegacyJobs -> Callers \cup {Unlocked}], UNCHANGED quarantine,
           \A d \in Callers \ {c} : Respects(d),
           caller[c].at # "idle",
           at \in QInside /\ caller[c].kind = "quarantine" =>
               lock'[caller[c].job] = c /\ lock'[caller[c].behind] = c,
           at \in {"write", "link"} => caller[c].kind = "quarantine",
           at # "commit"
    PROVE  QInv'
<1>1. PICK facts : Q!NoEvidence \in facts /\ caller \in [Callers -> QCalls(facts)]
  BY DEF QInv, QTyped
<1>2. PICK r \in QCalls(facts) : r = caller[c]
  BY <1>1
<1> DEFINE k == [r EXCEPT !.at = at]
<1>3. k \in QCalls(facts) /\ k.at = at /\ Same(k, r)
  BY GoesOn
<1>4. caller' = [caller EXCEPT ![c] = k]
  BY <1>1, <1>2 DEF Q!Goto
<1> HIDE DEF k
<1>5. caller'[c] = k
  BY <1>1, <1>4
<1>6. CallFits(c)
  BY DEF QInv
<1>7. \A j : Q!Frozen(j)' <=> Q!Frozen(j)
  BY DEF Q!Frozen
<1>8. CallFits(c)'
  BY <1>2, <1>3, <1>5, <1>6, <1>7 DEF CallFits, Same
<1> QED
  BY <1>1, <1>3, <1>4, <1>8, CallerMoves

\* A call that ends.
LEMMA ReturnStep ==
    ASSUME QInv, NEW c \in Callers, Q!Return(c), UNCHANGED quarantine,
           \A j \in LegacyJobs : j \in filed' => j \in filed \/ lock[j] = c
    PROVE  QInv'
<1>1. PICK facts : Q!NoEvidence \in facts /\ caller \in [Callers -> QCalls(facts)]
  BY DEF QInv, QTyped
<1>2. caller' = [caller EXCEPT ![c] = Q!Idle]
      /\ lock' = [j \in LegacyJobs |-> IF lock[j] = c THEN Unlocked ELSE lock[j]]
  BY DEF Q!Return, Q!Release
<1>3. lock \in [LegacyJobs -> Callers \cup {Unlocked}]
  BY DEF QInv, QTyped
<1>4. lock' \in [LegacyJobs -> Callers \cup {Unlocked}]
  BY <1>2, <1>3
<1>5. \A d \in Callers \ {c} : Respects(d)
  BY <1>2, UnlockedIsNobody DEF Respects
<1>6. Q!Idle \in QCalls(facts) /\ Q!Idle.at = "idle"
  <2> DEFINE e == Q!NoEvidence
  <2> HIDE DEF e
  <2>1. e \in facts => [at |-> "idle", kind |-> "none", job |-> 0, behind |-> 0, exact |-> FALSE,
                        expect |-> e, saw |-> e] \in QCalls(facts)
    BY DEF QCalls, QPlaces, QOperations
  <2> QED
    BY <1>1, <2>1 DEF Q!Idle, e
<1>7. CallFits(c)'
  BY <1>1, <1>2, <1>6 DEF CallFits, QInside
<1> QED
  BY <1>1, <1>2, <1>4, <1>5, <1>6, <1>7, CallerMoves

\* A call that begins: the operator looks, applies what was seen or asks for a legacy
\* shape, and others change a job.
LEMMA PreviewStep ==
    ASSUME QInv, NEW c \in Callers, NEW j \in LegacyJobs, NEW r \in LegacyJobs, Q!Preview(c, j, r)
    PROVE  QInv'
<1>1. PICK facts : Q!NoEvidence \in facts /\ caller \in [Callers -> QCalls(facts)]
  BY DEF QInv, QTyped
<1>2. /\ caller[c] = Q!Idle /\ j # r /\ Q!Finding(j) # {}
      /\ caller' = [caller EXCEPT ![c].at = "previewed", ![c].job = j, ![c].behind = r,
                                  ![c].exact = TRUE, ![c].expect = Q!Evidence(j)]
      /\ UNCHANGED <<quarantine, filed, lock>>
  BY DEF Q!Preview, Q!Acceptable
<1> DEFINE e == Q!Evidence(j)
           wider == facts \cup {e}
           n == Q!NoEvidence
           k == [Q!Idle EXCEPT !.at = "previewed", !.job = j, !.behind = r, !.exact = TRUE,
                               !.expect = e]
<1>3. e # n
  BY <1>2 DEF Q!Evidence, Q!NoEvidence
<1> HIDE DEF e, n
<1>4. n \in facts
  BY <1>1 DEF n
<1>7. caller \in [Callers -> QCalls(wider)]
  <2>1. QCalls(facts) \subseteq QCalls(wider)
    BY DEF QCalls
  <2> QED
    BY <1>1, <2>1
<1>5. caller' = [caller EXCEPT ![c] = k]
  BY <1>1, <1>2 DEF e
<1>6. /\ k \in QCalls(wider) /\ k.at = "previewed" /\ k.kind = "none" /\ k.job = j /\ k.behind = r
      /\ k.expect = e
  <2>1. Q!Idle \in QCalls(wider) /\ e \in wider /\ Q!Idle.kind = "none"
    BY <1>1, <1>2, <1>7 DEF Q!Idle
  <2> HIDE DEF wider
  <2> QED
    BY <2>1 DEF QCalls, QPlaces, QOperations
<1> HIDE DEF k
<1>8. CallFits(c)'
  BY <1>1, <1>2, <1>3, <1>5, <1>6 DEF CallFits, QInside, n
<1>9. n \in wider /\ \A d \in Callers \ {c} : Respects(d)
  BY <1>2, <1>4 DEF Respects
<1>10. lock' \in [LegacyJobs -> Callers \cup {Unlocked}]
  BY <1>2 DEF QInv, QTyped
<1> HIDE DEF wider
<1> QED
  BY <1>2, <1>5, <1>6, <1>7, <1>8, <1>9, <1>10, CallerMoves DEF n

LEMMA BeginStep ==
    ASSUME QInv, NEW c \in Callers,
           \/ Q!BeginApply(c)
           \/ \E j \in LegacyJobs : \/ \E kind \in Q!Mutators : Q!BeginChange(c, kind, j)
                               \/ \E r \in LegacyJobs : Q!BeginLegacy(c, j, r)
    PROVE  QInv'
<1>1. PICK facts : Q!NoEvidence \in facts /\ caller \in [Callers -> QCalls(facts)]
  BY DEF QInv, QTyped
<1>2. UNCHANGED <<quarantine, filed, lock>>
  BY DEF Q!BeginApply, Q!BeginChange, Q!BeginLegacy
<1>3. /\ \A d \in Callers \ {c} : Respects(d)
      /\ lock' \in [LegacyJobs -> Callers \cup {Unlocked}]
  BY <1>2 DEF Respects, QInv, QTyped
<1> DEFINE Begun(k) ==
               /\ caller' = [caller EXCEPT ![c] = k]
               /\ k.at = "lock" /\ k.job \in LegacyJobs
               /\ k.kind \in {"none", "quarantine"} => k.behind \in LegacyJobs \ {k.job}
               /\ (k.exact /\ k.expect = Q!NoEvidence) => Q!Frozen(k.job)
<1>4. \E k \in QCalls(facts) : Begun(k)
  <2>1. CASE Q!BeginApply(c)
    <3>1. PICK r \in QCalls(facts) : r = caller[c]
      BY <1>1
    <3> DEFINE k == [r EXCEPT !.at = "lock", !.kind = "quarantine"]
    <3>2. caller' = [caller EXCEPT ![c] = k] /\ r.at = "previewed"
      BY <1>1, <2>1, <3>1 DEF Q!BeginApply
    <3>3. /\ k \in QCalls(facts) /\ k.at = "lock" /\ k.kind = "quarantine" /\ k.job = r.job
          /\ k.behind = r.behind /\ k.exact = r.exact /\ k.expect = r.expect
      BY DEF QCalls, QPlaces, QOperations
    <3>4. /\ r.job \in LegacyJobs
          /\ r.kind \in {"none", "quarantine"} => r.behind \in LegacyJobs \ {r.job}
          /\ (r.exact /\ r.expect = Q!NoEvidence) => Q!Frozen(r.job)
      BY <3>1, <3>2 DEF QInv, CallFits
    <3>5. r.kind = "none"
      BY <3>1, <3>2 DEF QInv, CallFits
    <3> HIDE DEF k
    <3> QED
      BY <3>2, <3>3, <3>4, <3>5
  <2>2. ASSUME NEW j \in LegacyJobs, NEW kind \in Q!Mutators, Q!BeginChange(c, kind, j)
        PROVE  \E k \in QCalls(facts) : Begun(k)
    <3>1. Q!Idle \in QCalls(facts) /\ caller[c] = Q!Idle
      BY <1>1, <2>2 DEF Q!BeginChange
    <3> DEFINE k == [Q!Idle EXCEPT !.at = "lock", !.kind = kind, !.job = j]
    <3>2. caller' = [caller EXCEPT ![c] = k]
      BY <1>1, <2>2, <3>1 DEF Q!BeginChange
    <3>3. /\ k \in QCalls(facts) /\ k.at = "lock" /\ k.kind = kind /\ k.job = j /\ k.exact = FALSE
      BY <3>1 DEF QCalls, QPlaces, QOperations, Q!Idle
    <3>4. kind \notin {"none", "quarantine"}
      BY DEF Q!Mutators
    <3> HIDE DEF k
    <3> QED
      BY <3>2, <3>3, <3>4
  <2>3. ASSUME NEW j \in LegacyJobs, NEW r \in LegacyJobs, Q!BeginLegacy(c, j, r)
        PROVE  \E k \in QCalls(facts) : Begun(k)
    <3>1. Q!Idle \in QCalls(facts) /\ caller[c] = Q!Idle /\ j # r
      BY <1>1, <2>3 DEF Q!BeginLegacy
    <3> DEFINE x == quarantine[j].exact
               k == [Q!Idle EXCEPT !.at = "lock", !.kind = "quarantine", !.job = j, !.behind = r,
                                   !.exact = x]
    <3>2. caller' = [caller EXCEPT ![c] = k]
      BY <1>1, <2>3, <3>1 DEF Q!BeginLegacy
    <3>3. x \in BOOLEAN /\ (x => Q!Frozen(j))
      BY DEF QInv, QTyped, Q!Frozen, Q!NoReceipt
    <3> HIDE DEF x
    <3>4. /\ k \in QCalls(facts) /\ k.at = "lock" /\ k.kind = "quarantine" /\ k.job = j
          /\ k.behind = r /\ k.exact = x
      BY <3>1, <3>3 DEF QCalls, QPlaces, QOperations, Q!Idle
    <3> HIDE DEF k
    <3> QED
      BY <3>1, <3>2, <3>3, <3>4
  <2> QED
    BY <2>1, <2>2, <2>3
<1>5. PICK k \in QCalls(facts) : Begun(k)
  BY <1>4
<1>6. CallFits(c)'
  BY <1>1, <1>2, <1>5 DEF CallFits, QInside, Q!Frozen
<1> QED
  BY <1>1, <1>2, <1>3, <1>5, <1>6, CallerMoves

\* Both locks of a quarantine are taken one after the other.
LEMMA LockStep ==
    ASSUME QInv, NEW c \in Callers, Q!TakeLock(c)
    PROVE  QInv'
<1>1. PICK facts : Q!NoEvidence \in facts /\ caller \in [Callers -> QCalls(facts)]
  BY DEF QInv, QTyped
<1>2. PICK r \in QCalls(facts) : r = caller[c]
  BY <1>1
<1>3. PICK j : /\ lock[j] = Unlocked /\ lock' = [lock EXCEPT ![j] = c]
               /\ IF Q!Needs(c) \subseteq Q!Held(c) \cup {j} THEN Q!Goto(c, "locked")
                  ELSE UNCHANGED caller
  BY DEF Q!TakeLock
<1>4. caller[c].at = "lock" /\ UNCHANGED <<quarantine, filed>> /\ CallFits(c)
  BY DEF Q!TakeLock, QInv
<1>5. lock \in [LegacyJobs -> Callers \cup {Unlocked}]
  BY DEF QInv, QTyped
<1>6. /\ \A d \in Callers \ {c} : Respects(d)
      /\ lock' \in [LegacyJobs -> Callers \cup {Unlocked}]
  BY <1>3, <1>4, <1>5, UnlockedIsNobody DEF Respects
<1>7. CASE UNCHANGED caller
  <2>1. caller' = [caller EXCEPT ![c] = r]
    BY <1>1, <1>2, <1>7
  <2>2. CallFits(c)'
    BY <1>4, <1>7 DEF CallFits, QInside, Q!Frozen
  <2> QED
    BY <1>1, <1>4, <1>6, <2>1, <2>2, CallerMoves
<1>8. CASE Q!Needs(c) \subseteq Q!Held(c) \cup {j} /\ Q!Goto(c, "locked")
  <2>1. ASSUME caller[c].kind = "quarantine"
        PROVE  lock'[caller[c].job] = c /\ lock'[caller[c].behind] = c
    <3>1. Q!Needs(c) = {caller[c].job, caller[c].behind}
      BY <2>1 DEF Q!Needs
    <3>2. caller[c].job \in LegacyJobs /\ caller[c].behind \in LegacyJobs
      BY <1>4, <2>1 DEF CallFits
    <3>3. \A i \in LegacyJobs : i \in Q!Held(c) \cup {j} => lock'[i] = c
      BY <1>3, <1>5 DEF Q!Held
    <3> QED
      BY <1>8, <3>1, <3>2, <3>3
  <2> QED
    BY <1>4, <1>6, <1>8, <2>1, GotoStep DEF QPlaces, QInside
<1> QED
  BY <1>3, <1>7, <1>8

\* What is decided under the locks is what will be frozen.
LEMMA FreezeStep ==
    ASSUME QInv, NEW c \in Callers, Q!Freeze(c)
    PROVE  QInv'
<1>1. PICK facts : Q!NoEvidence \in facts /\ caller \in [Callers -> QCalls(facts)]
  BY DEF QInv, QTyped
<1>2. PICK r \in QCalls(facts) : r = caller[c]
  BY <1>1
<1> DEFINE e == Q!Evidence(r.job)
           wider == facts \cup {e}
           k == [r EXCEPT !.saw = e, !.at = "commit"]
<1>3. /\ r.kind = "quarantine" /\ r.at = "locked" /\ Q!Open(r.behind)
      /\ ~Q!Frozen(r.job) /\ r.expect \in {Q!NoEvidence, e}
      /\ UNCHANGED <<quarantine, filed, lock>>
      /\ caller' = [caller EXCEPT ![c] = k]
  BY <1>1, <1>2 DEF Q!Freeze, Q!Expected
<1> HIDE DEF e
<1>4. e \in wider /\ r \in QCalls(wider) /\ caller \in [Callers -> QCalls(wider)]
  <2>1. QCalls(facts) \subseteq QCalls(wider)
    BY DEF QCalls
  <2> QED
    BY <1>1, <2>1
<1>5. Q!NoEvidence \in wider
  BY <1>1
<1> HIDE DEF wider
<1>6. /\ k \in QCalls(wider) /\ k.at = "commit" /\ k.kind = r.kind /\ k.job = r.job
      /\ k.behind = r.behind /\ k.exact = r.exact /\ k.expect = r.expect /\ k.saw = e
  BY <1>4 DEF QCalls, QPlaces, QInside
<1> HIDE DEF k
<1>7. CallFits(c)
  BY DEF QInv
<1>8. CallFits(c)'
  BY <1>1, <1>2, <1>3, <1>6, <1>7 DEF CallFits, QInside, Q!Frozen, Q!Open
<1>9. /\ \A d \in Callers \ {c} : Respects(d)
      /\ lock' \in [LegacyJobs -> Callers \cup {Unlocked}]
  BY <1>3 DEF Respects, QInv, QTyped
<1> QED
  BY <1>3, <1>4, <1>5, <1>6, <1>8, <1>9, CallerMoves

\* What a commit freezes could not have been upgraded.
LEMMA LegacyShapes ==
    ASSUME NEW j \in LegacyJobs, NEW exact, ~exact, Q!Acceptable(j, exact)
    PROVE  ~Q!Upgradable(tree[j])
<1>1. CASE Q!ActiveLegacy(j)
  BY <1>1 DEF Q!ActiveLegacy, Q!Upgradable
<1>2. CASE Q!FailedLegacy(j)
  <2>1. tree[j].count >= 2
    BY <1>2 DEF Q!FailedLegacy
  <2> QED
    BY <2>1 DEF Q!Upgradable
<1> QED
  BY <1>1, <1>2 DEF Q!Acceptable

\* What a commit does, and what is so when it does it.
Committing(c, j, r, k) ==
    /\ k = caller[c] /\ j = k.job /\ r = k.behind /\ j \in LegacyJobs /\ r \in LegacyJobs /\ j # r
    /\ lock[j] = c /\ ~Q!Frozen(j) /\ Q!Open(r) /\ Q!Ok(r)
    /\ Q!Evidence(j) = k.saw /\ Q!Acceptable(j, k.exact)
    /\ k.exact => k.expect = k.saw
    /\ quarantine' = [quarantine EXCEPT ![j] = [exact |-> k.exact, behind |-> r, saw |-> k.saw]]
    /\ UNCHANGED <<tree, bindings, filed, lock>>

LEMMA CommitFinds ==
    ASSUME QInv, NEW c \in Callers, Q!Commit(c)
    PROVE  Committing(c, caller[c].job, caller[c].behind, caller[c])
<1>1. CallFits(c) /\ DOMAIN quarantine = LegacyJobs
  BY DEF QInv, QTyped
<1>2. PICK facts : caller \in [Callers -> QCalls(facts)]
  BY DEF QInv, QTyped
<1>3. caller[c] \in QCalls(facts)
  BY <1>2
<1>4. caller[c].at = "commit"
  BY DEF Q!Commit
<1>5. caller[c].job \in {0} \cup LegacyJobs /\ caller[c].exact \in BOOLEAN
  BY <1>3 DEF QCalls
<1> QED
  BY <1>1, <1>4, <1>5 DEF Q!Commit, CallFits, Committing, QInside

LEMMA CommitStep ==
    ASSUME QInv, NEW c \in Callers, Q!Commit(c)
    PROVE  QInv'
<1>1. PICK facts : Q!NoEvidence \in facts /\ caller \in [Callers -> QCalls(facts)]
  BY DEF QInv, QTyped
<1>2. PICK r \in QCalls(facts) : r = caller[c]
  BY <1>1
<1> DEFINE k == [r EXCEPT !.at = "write"]
           j == r.job
           new == [exact |-> r.exact, behind |-> r.behind, saw |-> r.saw]
<1>3. Committing(c, j, r.behind, r) /\ r.kind = "quarantine" /\ CallFits(c)
  <2>1. r.at = "commit"
    BY <1>2 DEF Q!Commit
  <2> QED
    BY <1>2, <2>1, CommitFinds DEF CallFits, QInv
<1>4. "write" \in QPlaces
  BY DEF QPlaces, QInside
<1>5. k \in QCalls(facts) /\ k.at = "write" /\ Same(k, r)
  BY <1>4, GoesOn
<1>6. caller' = [caller EXCEPT ![c] = k]
  BY <1>1, <1>2 DEF Q!Commit, Q!Goto
<1> HIDE DEF k
<1>7. /\ j \in LegacyJobs /\ quarantine' = [quarantine EXCEPT ![j] = new]
      /\ \A i \in LegacyJobs : i # j => quarantine'[i] = quarantine[i]
      /\ quarantine'[j] = new /\ UNCHANGED <<filed, lock>> /\ lock[j] = c
  BY <1>3 DEF Committing, QInv, QTyped
<1>8. Q!Frozen(j)' /\ \A i \in LegacyJobs : i # j => (Q!Frozen(i)' <=> Q!Frozen(i))
  <2>1. new # Q!NoReceipt
    <3>1. new.behind # 0
      BY <1>3, LegacyJobsNumbered DEF Committing
    <3> QED
      BY <3>1 DEF Q!NoReceipt
  <2> QED
    BY <1>7, <2>1 DEF Q!Frozen
<1>9. FrozenForGood /\ \A d \in Callers \ {c} : Respects(d)
  BY <1>7, <1>8 DEF FrozenForGood, Respects
<1>10. \A d \in Callers \ {c} : CallFits(d)'
  <2>1. \A d \in Callers \ {c} : caller'[d] = caller[d]
    BY <1>1, <1>6
  <2> QED
    BY <1>9, <2>1, OthersFit DEF QInv
<1>11. CallFits(c)'
  <2>1. caller'[c] = k
    BY <1>1, <1>6
  <2>2. Same(k, r) /\ k.at = "write" /\ r.at = "commit"
    BY <1>2, <1>5 DEF Q!Commit
  <2> QED
    BY <1>2, <1>3, <1>7, <1>8, <2>1, <2>2 DEF CallFits, Same, QInside
<1>12. QTyped'
  <2>1. caller' \in [Callers -> QCalls(facts)]
    BY <1>1, <1>5, <1>6
  <2>2. r.exact \in BOOLEAN
    BY DEF QCalls
  <2> HIDE DEF j
  <2>3. /\ DOMAIN quarantine' = LegacyJobs /\ quarantine' = [i \in LegacyJobs |-> quarantine'[i]]
        /\ \A i \in LegacyJobs : quarantine'[i].exact \in BOOLEAN
    BY <1>7, <2>2 DEF QInv, QTyped
  <2> QED
    BY <1>1, <1>7, <2>1, <2>3 DEF QInv, QTyped
<1>13. Q!ReplacementsEnd'
  <2>1. SUFFICES ASSUME NEW S \in SUBSET {i \in LegacyJobs : Q!Frozen(i)'}, S # {}
                 PROVE  \E i \in S : quarantine'[i].behind \notin S
    BY DEF Q!ReplacementsEnd
  <2>2. CASE j \in S
    <3>1. r.behind \in LegacyJobs /\ r.behind # j /\ ~Q!Frozen(r.behind)
      BY <1>3 DEF Committing, Q!Open
    <3>2. r.behind \notin S /\ quarantine'[j].behind = r.behind
      BY <1>7, <1>8, <3>1
    <3> QED
      BY <2>2, <3>2
  <2>3. CASE j \notin S
    <3>1. S \in SUBSET {i \in LegacyJobs : Q!Frozen(i)} /\ \A i \in S : quarantine'[i] = quarantine[i]
      BY <1>7, <1>8, <2>3
    <3>2. \E i \in S : quarantine[i].behind \notin S
      BY <2>1, <3>1 DEF QInv, Q!ReplacementsEnd
    <3> QED
      BY <3>1, <3>2
  <2> QED
    BY <2>2, <2>3
<1>14. Q!LegacyIsUnupgradable'
  <2>1. SUFFICES ASSUME NEW i \in LegacyJobs, Q!Frozen(i)', ~quarantine'[i].exact
                 PROVE  ~Q!Upgradable(quarantine'[i].saw.tree)
    BY DEF Q!LegacyIsUnupgradable, Q!Upgradable, Q!Lifecycle, Q!CountFitsState, Q!Numbers
  <2>2. CASE i = j
    <3>1. ~r.exact /\ quarantine'[i].saw = r.saw
      BY <1>7, <2>1, <2>2
    <3>2. Q!Evidence(j) = r.saw /\ Q!Evidence(j).tree = tree[j] /\ Q!Acceptable(j, r.exact)
      BY <1>3 DEF Committing, Q!Evidence
    <3>3. ~Q!Upgradable(tree[j])
      BY <1>7, <3>1, <3>2, LegacyShapes
    <3> QED
      BY <3>1, <3>2, <3>3
  <2>3. CASE i # j
    BY <1>7, <1>8, <2>1, <2>3 DEF QInv, Q!LegacyIsUnupgradable
  <2> QED
    BY <2>2, <2>3
<1> QED
  BY <1>10, <1>11, <1>12, <1>13, <1>14 DEF QInv

\* The other steps of a call: they go on, or they end.
LEMMA WorkStep ==
    ASSUME QInv, NEW c \in Callers, Q!Work(c)
    PROVE  QInv'
<1>1. lock \in [LegacyJobs -> Callers \cup {Unlocked}] /\ CallFits(c)
  BY DEF QInv, QTyped
<1>2. ASSUME UNCHANGED <<quarantine, filed, lock>>
      PROVE  /\ \A d \in Callers \ {c} : Respects(d)
             /\ lock' \in [LegacyJobs -> Callers \cup {Unlocked}]
  BY <1>1, <1>2 DEF Respects
<1>3. CASE Q!Freeze(c)
  BY <1>3, FreezeStep
<1>4. CASE Q!Commit(c)
  BY <1>4, CommitStep
<1>5. CASE Q!Again(c)
  <2>1. /\ caller[c].at = "locked" /\ caller[c].kind = "quarantine"
        /\ UNCHANGED <<quarantine, filed>>
        /\ Q!Return(c) \/ (Q!Goto(c, "write") /\ UNCHANGED lock)
    BY <1>5 DEF Q!Again
  <2>2. CASE Q!Return(c)
    BY <2>1, <2>2, ReturnStep
  <2>3. CASE Q!Goto(c, "write") /\ UNCHANGED lock
    <3>1. lock'[caller[c].job] = c /\ lock'[caller[c].behind] = c
      BY <1>1, <2>1, <2>3 DEF CallFits, QInside
    <3> QED
      BY <1>2, <2>1, <2>3, <3>1, GotoStep DEF QPlaces, QInside
  <2> QED
    BY <2>1, <2>2, <2>3
<1>6. CASE Q!WriteTemp(c)
  <2>1. /\ caller[c].at = "write" /\ Q!Goto(c, "link") /\ UNCHANGED <<quarantine, filed, lock>>
    BY <1>6 DEF Q!WriteTemp
  <2>2. caller[c].kind = "quarantine" /\ lock'[caller[c].job] = c /\ lock'[caller[c].behind] = c
    BY <1>1, <2>1 DEF CallFits, QInside
  <2> QED
    BY <1>2, <2>1, <2>2, GotoStep DEF QPlaces, QInside
<1>7. CASE Q!Link(c)
  <2>1. /\ caller[c].at = "link" /\ Q!Return(c) /\ UNCHANGED quarantine
        /\ filed' = filed \cup {caller[c].job}
    BY <1>7 DEF Q!Link
  <2>2. lock[caller[c].job] = c
    BY <1>1, <2>1 DEF CallFits, QInside
  <2> QED
    BY <2>1, <2>2, ReturnStep
<1>8. CASE Q!StartPhase(c) \/ Q!StartOutputs(c) \/ Q!UpgradePhase(c)
  <2>1. /\ caller[c].at \in {"locked", "out"} /\ UNCHANGED <<quarantine, filed, lock>>
        /\ Q!Goto(c, "out") \/ Q!Goto(c, "rows")
    BY <1>8 DEF Q!StartPhase, Q!StartOutputs, Q!UpgradePhase, Q!Busy
  <2> QED
    BY <1>2, <2>1, GotoStep DEF QPlaces, QInside
<1>9. CASE Q!Handoff(c) \/ Q!StartRows(c) \/ Q!UpgradeOutputs(c)
  <2>1. Q!Return(c) /\ UNCHANGED <<quarantine, filed>>
    BY <1>9 DEF Q!Handoff, Q!StartRows, Q!UpgradeOutputs
  <2> QED
    BY <2>1, ReturnStep
<1> QED
  BY <1>3, <1>4, <1>5, <1>6, <1>7, <1>8, <1>9 DEF Q!Work

LEMMA QStep ==
    ASSUME QInv, Q!Next \/ UNCHANGED frozenVars
    PROVE  QInv'
<1>1. ASSUME UNCHANGED <<quarantine, filed, lock, caller>>
      PROVE  QInv'
  <2>1. QTyped'
    BY <1>1 DEF QInv, QTyped
  <2>2. \A c \in Callers : CallFits(c)'
    BY <1>1 DEF QInv, CallFits, Q!Frozen, Q!Open
  <2>3. (Q!ReplacementsEnd /\ Q!LegacyIsUnupgradable)'
    BY <1>1 DEF QInv, Q!ReplacementsEnd, Q!LegacyIsUnupgradable, Q!Frozen
  <2> QED
    BY <2>1, <2>2, <2>3 DEF QInv
<1>2. CASE UNCHANGED frozenVars \/ \E j \in LegacyJobs : Q!Answer(j)
  BY <1>1, <1>2 DEF frozenVars, Q!Answer
<1>3. ASSUME NEW c \in Callers, Q!Begin(c)
      PROVE  QInv'
  BY <1>3, BeginStep, PreviewStep DEF Q!Begin
<1>4. ASSUME NEW c \in Callers, Q!Raise(c) \/ Q!Die(c)
      PROVE  QInv'
  <2>1. Q!Return(c) /\ UNCHANGED <<quarantine, filed>>
    BY <1>4 DEF Q!Raise, Q!Die
  <2> QED
    BY <2>1, ReturnStep
<1>5. ASSUME Q!Next
      PROVE  \/ \E j \in LegacyJobs : Q!Answer(j)
             \/ \E c \in Callers : Q!Begin(c) \/ Q!TakeLock(c) \/ Q!Work(c) \/ Q!Raise(c) \/ Q!Die(c)
  BY <1>5 DEF Q!Next
<1> QED
  BY <1>2, <1>3, <1>4, <1>5, LockStep, WorkStep

\* Only a commit makes a receipt.
BornTrueStep ==
    \A j \in LegacyJobs : quarantine'[j] # quarantine[j] =>
        /\ ~Q!Frozen(j) /\ Q!Undrifted(j)'
        /\ Q!Open(quarantine'[j].behind) /\ Q!Finding(quarantine'[j].behind) = {}
        /\ quarantine'[j].exact => \E c \in Callers : caller[c].expect = quarantine'[j].saw

LEMMA ReceiptsBornTrue ==
    ASSUME QInv, Q!Next
    PROVE  BornTrueStep
<1>1. CASE UNCHANGED quarantine
  BY <1>1 DEF BornTrueStep
<1>2. ASSUME NEW c \in Callers, Q!Commit(c)
      PROVE  BornTrueStep
  <2>1. PICK j, r, k : Committing(c, j, r, k)
    BY <1>2, CommitFinds
  <2>2. /\ quarantine' = [quarantine EXCEPT ![j] = [exact |-> k.exact, behind |-> r, saw |-> k.saw]]
        /\ j \in LegacyJobs /\ UNCHANGED <<tree, bindings>> /\ k = caller[c]
    BY <2>1 DEF Committing
  <2>3. /\ \A i \in LegacyJobs : i # j => quarantine'[i] = quarantine[i]
        /\ quarantine'[j] = [exact |-> k.exact, behind |-> r, saw |-> k.saw]
    BY <2>2 DEF QInv, QTyped
  <2>4. /\ quarantine'[j].exact <=> k.exact
        /\ quarantine'[j].behind = r /\ quarantine'[j].saw = k.saw
    BY <2>3
  <2>5. k.saw.tree = tree[j] /\ k.saw.rows = bindings[j]
    <3>1. Q!Evidence(j) = k.saw
      BY <2>1 DEF Committing
    <3>2. Q!Evidence(j).tree = tree[j] /\ Q!Evidence(j).rows = bindings[j]
      BY DEF Q!Evidence
    <3> QED
      BY <3>1, <3>2
  <2>6. Q!Undrifted(j)'
    BY <2>2, <2>4, <2>5 DEF Q!Undrifted
  <2>7. Q!Open(r) /\ Q!Finding(r) = {} /\ ~Q!Frozen(j)
    BY <2>1 DEF Committing, Q!Ok, Q!Open
  <2>8. k.exact => caller[c].expect = k.saw
    BY <2>1, <2>2 DEF Committing
  <2> QED
    BY <2>3, <2>4, <2>6, <2>7, <2>8 DEF BornTrueStep
<1>3. ASSUME Q!Next
      PROVE  UNCHANGED quarantine \/ \E c \in Callers : Q!Commit(c)
  <2>1. ASSUME NEW c \in Callers, Q!Begin(c)
        PROVE  UNCHANGED quarantine
    BY <2>1 DEF Q!Begin, Q!BeginApply, Q!BeginChange, Q!BeginLegacy, Q!Preview
  <2>2. ASSUME NEW c \in Callers, Q!TakeLock(c) \/ Q!Raise(c) \/ Q!Die(c)
        PROVE  UNCHANGED quarantine
    BY <2>2 DEF Q!TakeLock, Q!Raise, Q!Die
  <2>3. ASSUME NEW c \in Callers, Q!Work(c), ~Q!Commit(c)
        PROVE  UNCHANGED quarantine
    BY <2>3 DEF Q!Work, Q!Freeze, Q!Again, Q!WriteTemp, Q!Link, Q!Handoff, Q!StartPhase,
       Q!StartOutputs, Q!StartRows, Q!UpgradePhase, Q!UpgradeOutputs
  <2>4. ASSUME NEW j, Q!Answer(j)
        PROVE  UNCHANGED quarantine
    BY <2>4 DEF Q!Answer
  <2> QED
    BY <1>3, <2>1, <2>2, <2>3, <2>4 DEF Q!Next
<1> QED
  BY <1>1, <1>2, <1>3

-----------------------------------------------------------------------------
(* The results for both parts of a run.                                     *)

ReviewInv == AInv /\ History /\ QInv

LEMMA ReviewInvInit ==
    ASSUME ReviewInit
    PROVE  ReviewInv
  BY AnswersInit, HistoryInit, QInit DEF ReviewInit, ReviewInv

LEMMA ReviewParts ==
    ASSUME [ReviewNext]_allVars
    PROVE  [Next]_vars /\ (Q!Next \/ UNCHANGED frozenVars)
  BY DEF ReviewNext, OfAttempts, OfQuarantine, allVars

LEMMA ReviewInvNext ==
    ASSUME ReviewInv, [ReviewNext]_allVars
    PROVE  ReviewInv'
<1>1. [Next]_vars /\ (Q!Next \/ UNCHANGED frozenVars)
  BY ReviewParts
<1>2. AInv' /\ History'
  BY <1>1, AnswersNext, HistoryNext DEF ReviewInv
<1>3. QInv'
  BY <1>1, QStep DEF ReviewInv
<1> QED
  BY <1>2, <1>3 DEF ReviewInv

\* Behind a bound receipt every attempt of a job has ended and has its receipt bound; and
\* however many callers freeze jobs at once, frozen jobs do not stand behind one another,
\* and none is frozen as legacy that could have been upgraded.
THEOREM HistoryStaysInOrder == ReviewSpec => []HistoryInOrder
<1>1. ReviewInit => ReviewInv
  BY ReviewInvInit
<1>2. ReviewInv /\ [ReviewNext]_allVars => ReviewInv'
  BY ReviewInvNext
<1>3. ReviewInv => HistoryInOrder
  BY InOrder DEF ReviewInv, HistoryInOrder, QInv
<1> QED
  BY <1>1, <1>2, <1>3, PTL DEF ReviewSpec

\* What a bound receipt seals stays so.  A quarantine receipt is made once; tree and rows
\* are then what it says, its replacement is clean and open, and what is not of a legacy
\* shape was shown to the operator before, though others look and wait around it.
THEOREM SealedForGoodAndBornTrue == ReviewSpec => SealedForGoodAndTrue
<1>1. ReviewInit => ReviewInv
  BY ReviewInvInit
<1>2. ReviewInv /\ [ReviewNext]_allVars => ReviewInv'
  BY ReviewInvNext
<1>3. ASSUME ReviewInv, [ReviewNext]_allVars
      PROVE  [SealedStays]_vars /\ [BornTrueStep]_Q!vars
  <2>1. [Next]_vars /\ (Q!Next \/ UNCHANGED frozenVars)
    BY <1>3, ReviewParts
  <2>2. SealedStays
    BY <1>3, <2>1, SealedNext DEF ReviewInv
  <2>3. [BornTrueStep]_Q!vars
    BY <1>3, <2>1, ReceiptsBornTrue DEF ReviewInv, frozenVars, Q!vars
  <2> QED
    BY <2>2, <2>3
<1> QED
  BY <1>1, <1>2, <1>3, PTL DEF ReviewSpec, SealedForGoodAndTrue, SealedForGood, SealedStays,
     Q!BornTrue, BornTrueStep
=============================================================================
