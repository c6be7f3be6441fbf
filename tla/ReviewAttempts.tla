--------------------------- MODULE ReviewAttempts ---------------------------
(***************************************************************************)
(* The attempts of one review job (src/continuum/core/review_bridge.py).    *)
(* A job is reviewed in a browser, by an automated transport or by hand;    *)
(* each call (review-browser-attempt-start, review-run, review-ingest)      *)
(* holds the job's lock, but a call consists of many durable writes: an     *)
(* envelope of the phase is committed in the catalog first and everything   *)
(* it says is written out afterwards.  A process may die between any two    *)
(* writes; the next call, which may be another one, finds what is there.    *)
(***************************************************************************)
EXTENDS Naturals, FiniteSets, FiniteSetsExt

CONSTANTS
    MaxOps,       \* bound on operation ids of callers
    MaxAttempts,  \* bound on attempts of the job
    MaxDeaths,    \* bound on deaths of a caller
    MaxHandoffs   \* bound on manual handoffs that leave a new time in the status

ASSUME ReviewBounds == {MaxOps, MaxAttempts, MaxDeaths, MaxHandoffs} \subseteq Nat

Attempts == 1 .. MaxAttempts
Responses == 1 .. MaxAttempts + 1
Failed == {"review_failed", "transport_failed"}
Final == Failed \cup {"browser_attempt_superseded", "ingested"}

VARIABLES
    manual,     \* the job was prepared for the manual transport
    status,     \* status.json
    attempt,    \* attempt[n]: "none", "reserved", or the final state of its record
    receipt,    \* receipt[n]: "none", a "file", "bound" by a certified artifacts row, or
                \* the "row" of a file that was taken away
    rows,       \* browser reservations whose artifacts rows exist
    response,   \* response[k]: "none", "empty", or the quality of the text
    evidence,   \* evidence[k]: "none", "files", or "bound" by artifacts rows
    phases,     \* phase envelopes of the catalog
    call,       \* the call that holds the job lock
    deaths

vars == <<manual, status, attempt, receipt, rows, response, evidence, phases, call, deaths>>
files == <<attempt, receipt, rows, response, evidence>>

Prepared == [st |-> "prepared", count |-> 0, cur |-> 0, curResp |-> 0, pend |-> 0,
             reviewer |-> 0, claim |-> 0, mode |-> "none", at |-> 0]
NoPhase == [kind |-> "none", seq |-> 0, op |-> 0, prior |-> Prepared,
            target |-> Prepared, from |-> "none", to |-> "none"]
NoUndo == [attempt |-> "none", status |-> Prepared, on |-> FALSE]
Idle == [kind |-> "none", op |-> 0, path |-> 0, text |-> "none", pc |-> "idle",
         phase |-> NoPhase, next |-> "idle", settled |-> FALSE, undo |-> NoUndo]

Of(kind) == {p \in phases : p.kind = kind}
At(kind, n) == {p \in Of(kind) : p.seq = n}
Latest(kind) == CHOOSE p \in Of(kind) : \A q \in Of(kind) : q.seq <= p.seq
In(pc) == call.pc = pc
Goto(pc) == call' = [call EXCEPT !.pc = pc]
Return == call' = Idle

\* A status that _write_status accepts.
Legal(s) ==
    /\ s.st = "pending_browser_upload" => s.cur # 0
    /\ s.cur # 0 => s.st \in {"pending_browser_upload", "ingesting"} /\ s.cur = s.count
    /\ s.pend # 0 => s.st \in {"submitting", "ingesting"} /\ s.pend = s.count + 1
    /\ s.st = "ingesting" => /\ s.mode = "automated" <=> s.pend # 0
                             /\ s.mode = "browser_reserved" <=> s.cur # 0
    /\ s.mode # "none" <=> s.st \in {"ingesting", "ingested"}
    /\ s.st \in Failed => s.count > 0

\* The ledger of attempt records is contiguous, and has room.
Contiguous == \A n \in Attempts : attempt[n] # "none" <=> n <= status.count
HasNext == Contiguous /\ status.count < MaxAttempts
NextResponse == 1 + Max({0} \cup {k \in Responses : response[k] # "none"})

Init ==
    /\ manual \in BOOLEAN
    /\ status = Prepared
    /\ attempt = [n \in Attempts |-> "none"]
    /\ receipt = [n \in Attempts |-> "none"]
    /\ rows = {}
    /\ response = [k \in Responses |-> "none"]
    /\ evidence = [k \in Responses |-> "none"]
    /\ phases = {} /\ call = Idle /\ deaths = 0

\* The operation ids that a caller may use: one that has phases, or the next
\* new one (which of the new ones it is makes no difference).
Ops == 1 .. Min({MaxOps, 1 + Max({0} \cup {p.op : p \in phases})})

\* The reviewer saves an answer at the reserved path.
Answer ==
    /\ status.st = "pending_browser_upload" /\ response[status.curResp] = "empty"
    /\ \E text \in {"good", "bad"} : response' = [response EXCEPT ![status.curResp] = text]
    /\ UNCHANGED <<manual, status, attempt, receipt, rows, evidence, phases, call, deaths>>

----------------------------------------------------------------------------
(* Terminal phases: the end of one attempt.                                  *)

Progressed(p) ==
    /\ p.target.st = "pending_browser_upload"
    /\ status.st \in {"pending_browser_upload", "ingesting", "ingested"}
    /\ status.count >= p.target.count

\* The file of the receipt is there; its row is, which no undo takes back.
HasFile(n) == receipt[n] \in {"file", "bound"}
HasRow(n) == receipt[n] \in {"row", "bound"}
Written(p) == attempt[p.seq] = p.to /\ receipt[p.seq] = "bound"

\* What a later phase may have made of the status.
Authorised(p) ==
    \/ /\ status.st = "pending_browser_upload" /\ status.count > p.seq
       /\ attempt[status.cur] = "reserved"
    \/ \E q \in Of("automated") \cup Of("ingest") :
           /\ q.target.count >= p.seq
           /\ \/ status = q.target
              \/ q.kind = "automated" /\ status = [q.target EXCEPT !.reviewer = status.reviewer]

Settled(p) ==
    Written(p) /\ (status = p.target \/ Progressed(p) \/ (status # p.prior /\ Authorised(p)))

\* _materialize_terminal_phase goes on from any of its own writes only.
Reconcilable(p) ==
    /\ attempt[p.seq] \in {p.from, p.to}
    /\ \/ status \in {p.prior, p.target}
       \/ Progressed(p) /\ attempt[p.seq] = p.to /\ HasFile(p.seq)

AfterTerminal(kind) == IF kind = "start" THEN "reservation" ELSE kind

Open == Of("terminal") # {} /\ ~Settled(Latest("terminal"))
EarlierWritten == \A p \in Of("terminal") : p.seq < Latest("terminal").seq => Written(p)

\* Every call first completes the last terminal phase, or finds it settled.
Reconciled(new) ==
    /\ Of("terminal") # {} => EarlierWritten
    /\ IF Open
       THEN LET p == Latest("terminal") IN
            /\ Reconcilable(p) /\ (new.kind = "start" \/ p.op = new.op)
            /\ call' = [new EXCEPT !.pc = "terminal", !.phase = p, !.settled = TRUE,
                                   !.next = AfterTerminal(new.kind)]
       ELSE call' = [new EXCEPT !.pc = AfterTerminal(new.kind)]

\* A caller takes the lock.  An ingest names a response file of the job, or
\* brings a text along (path 0).
Call(kind, op, k, text) ==
    /\ In("idle")
    /\ k # 0 => response[k] # "none"
    /\ Reconciled([Idle EXCEPT !.kind = kind, !.op = op, !.path = k, !.text = text])
    /\ UNCHANGED <<manual, status, files, phases, deaths>>

Enter == \E op \in Ops :
    \/ \E kind \in {"start", "handoff", "run"} : Call(kind, op, 0, "none")
    \/ \E k \in Responses : Call("ingest", op, k, "none")
    \/ \E text \in {"good", "bad"} : Call("ingest", op, 0, text)

\* FAULT: a certification that asks nothing of the other attempts.
Uncertified == TRUE

\* The receipt's row is committed with the integrity report of the job as its
\* condition: no attempt but the current one is open, none lacks its rows.
Certified ==
    /\ \A p \in Of("reservation") : p.seq \in rows
    /\ \A n \in 1 .. status.count :
           IF n = status.cur THEN attempt[n] = "reserved"
           ELSE attempt[n] \in Final /\ (receipt[n] = "bound" \/ n = call.phase.seq)

WriteAttempt ==
    /\ In("terminal") /\ attempt[call.phase.seq] # call.phase.to
    /\ attempt' = [attempt EXCEPT ![call.phase.seq] = call.phase.to]
    /\ UNCHANGED <<manual, status, receipt, rows, response, evidence, phases, call, deaths>>

AttemptWritten == In("terminal") /\ attempt[call.phase.seq] = call.phase.to

WriteReceipt ==
    /\ AttemptWritten /\ ~HasFile(call.phase.seq)
    /\ receipt' = [receipt EXCEPT ![call.phase.seq] = IF @ = "row" THEN "bound" ELSE "file"]
    /\ UNCHANGED <<manual, status, attempt, rows, response, evidence, phases, call, deaths>>

WriteTerminalStatus ==
    /\ AttemptWritten /\ HasFile(call.phase.seq)
    /\ status = call.phase.prior /\ Legal(call.phase.target)
    /\ status' = call.phase.target
    /\ UNCHANGED <<manual, files, phases, call, deaths>>

BindReceipt ==
    /\ AttemptWritten /\ HasFile(call.phase.seq) /\ status # call.phase.prior /\ Certified
    /\ receipt' = [receipt EXCEPT ![call.phase.seq] = "bound"]
    /\ Goto("sealed")
    /\ UNCHANGED <<manual, status, attempt, rows, response, evidence, phases, deaths>>

\* FAULT: the undo of a finalization outlives it.
ConfirmInTheUndo ==
    /\ In("sealed") /\ Goto(call.next)
    /\ UNCHANGED <<manual, status, files, phases, deaths>>

\* The committed row and the job are read again; an error of this still undoes the files.
Confirm ==
    /\ In("sealed")
    /\ call' = IF call.next = "idle" THEN Idle ELSE [call EXCEPT !.pc = call.next, !.undo = NoUndo]
    /\ UNCHANGED <<manual, status, files, phases, deaths>>

\* _finalize_attempt_with_receipt_binding: a phase that is already there is
\* completed; a new one is undone when its outputs cannot be written.
Ending(n) == IF At("terminal", n) = {} THEN TRUE
             ELSE \A p \in At("terminal", n) : p.op = call.op /\ Reconcilable(p)
Startable(n, from) == At("terminal", n) = {} => attempt[n] = from /\ ~HasFile(n)
Finalize(n, from, to, target, next) ==
    /\ Ending(n) /\ Startable(n, from)
    /\ IF At("terminal", n) # {}
       THEN \E p \in At("terminal", n) :
            /\ call' = [call EXCEPT !.next = next, !.phase = p,
                            !.pc = IF Written(p) /\ status # p.prior THEN "sealed" ELSE "terminal"]
            /\ UNCHANGED phases
       ELSE LET p == [kind |-> "terminal", seq |-> n, op |-> call.op, prior |-> status,
                      target |-> target, from |-> from, to |-> to] IN
            /\ phases' = phases \cup {p}
            /\ call' = [call EXCEPT !.pc = "terminal", !.next = next, !.phase = p,
                            !.undo = [attempt |-> from, status |-> status, on |-> TRUE]]

\* The status of a job whose attempt n has ended.
Ended(st, n) == [status EXCEPT !.st = st, !.count = n, !.cur = 0, !.curResp = 0, !.pend = 0]

----------------------------------------------------------------------------
(* review_browser_attempt_start.                                             *)

Reservation == Latest("reservation")

\* The status is what a later phase made of a reservation.
PastReservation ==
    \/ \E p \in Of("terminal") : p.target = status /\ status.count >= Reservation.seq
    \/ \E p \in Of("ingest") : p.target = status /\ status.count >= Reservation.seq

\* The files of a reservation can still be written, or are there.
Reservable(p) ==
    /\ response[p.target.curResp] \in {"none", "empty"}
    /\ attempt[p.seq] \in {"none", "reserved"}

ReconcileReservation ==
    /\ In("reservation")
    /\ IF Of("reservation") = {} THEN Goto("choose") /\ UNCHANGED rows
       ELSE IF status = Reservation.prior
       THEN /\ Reservable(Reservation)
            /\ call' = [call EXCEPT !.pc = "reserve", !.phase = Reservation, !.next = "choose"]
            /\ UNCHANGED rows
       ELSE /\ status = Reservation.target \/ PastReservation
            /\ rows' = rows \cup {Reservation.seq}
            /\ Goto("choose")
    /\ UNCHANGED <<manual, status, attempt, receipt, response, evidence, phases, deaths>>

\* FAULT: a start that does not look up the operation's own reservation.
MineForgotten == {}

\* The attempt that this operation already has.
Mine == {p \in Of("reservation") : p.op = call.op}
Active(p) == status.st = "pending_browser_upload" /\ status.count = p.seq

StartAgain ==
    /\ In("choose") /\ Mine # {}
    /\ \A p \in Mine : p = Reservation /\ Active(p)
    /\ Return
    /\ UNCHANGED <<manual, status, files, phases, deaths>>

Unaccepted == status.st \notin {"ingesting", "ingested"}

Supersede ==
    /\ In("choose") /\ Mine = {}
    /\ Unaccepted /\ HasNext /\ status.cur # 0 /\ attempt[status.cur] = "reserved"
    /\ Finalize(status.count, "reserved", "browser_attempt_superseded",
                [Ended("handoff_ready", status.count) EXCEPT !.pend = status.pend], "choose")
    /\ UNCHANGED <<manual, status, files, deaths>>

\* What the phase of a reservation binds: the number, the operation, the status it
\* follows and the one it leads to, which names the attempt and its response.
ReservationPhase ==
    LET n == status.count + 1 IN
    [NoPhase EXCEPT !.kind = "reservation", !.seq = n, !.op = call.op, !.prior = status,
         !.target = [status EXCEPT !.st = "pending_browser_upload", !.count = n, !.cur = n,
                                   !.curResp = NextResponse]]

Reserve ==
    /\ In("choose") /\ Mine = {}
    /\ Unaccepted /\ HasNext /\ status.cur = 0 /\ NextResponse \in Responses
    /\ At("reservation", ReservationPhase.seq) = {}
    /\ phases' = phases \cup {ReservationPhase}
    /\ call' = [call EXCEPT !.pc = "reserve", !.phase = ReservationPhase, !.next = "idle"]
    /\ UNCHANGED <<manual, status, files, deaths>>

\* The outputs of a reservation, in the order in which they are written.
ReserveResponse ==
    /\ In("reserve") /\ response[call.phase.target.curResp] = "none"
    /\ response' = [response EXCEPT ![call.phase.target.curResp] = "empty"]
    /\ UNCHANGED <<manual, status, attempt, receipt, rows, evidence, phases, call, deaths>>

ReserveAttempt ==
    /\ In("reserve") /\ response[call.phase.target.curResp] # "none"
    /\ attempt[call.phase.seq] = "none"
    /\ attempt' = [attempt EXCEPT ![call.phase.seq] = "reserved"]
    /\ UNCHANGED <<manual, status, receipt, rows, response, evidence, phases, call, deaths>>

ReserveStatus ==
    /\ In("reserve") /\ attempt[call.phase.seq] = "reserved"
    /\ status = call.phase.prior /\ Legal(call.phase.target)
    /\ status' = call.phase.target
    /\ UNCHANGED <<manual, files, phases, call, deaths>>

ReserveRows ==
    /\ In("reserve") /\ status = call.phase.target
    /\ rows' = rows \cup {call.phase.seq}
    /\ IF call.next = "idle" THEN Return ELSE Goto(call.next)
    /\ UNCHANGED <<manual, status, attempt, receipt, response, evidence, phases, deaths>>

----------------------------------------------------------------------------
(* run_review_job.                                                           *)

\* An operation whose attempt has failed fails again; so does the call that
\* completed the failure.
Repeats == \/ \E p \in Of("terminal") : p.op = call.op /\ p.target.st \in Failed
           \/ call.settled /\ status.st \in Failed

Handoff ==
    /\ In("handoff") /\ ~Repeats
    /\ status.cur = 0
    /\ \E time \in {status.at, Min({status.at + 1, MaxHandoffs})} :
           LET s == [status EXCEPT !.st = "handoff_ready", !.at = time] IN
           Legal(s) /\ status' = s
    /\ Return
    /\ UNCHANGED <<manual, files, phases, deaths>>

\* The status still follows the reservation of an automated attempt.
Follows(p) == status \in {p.prior, p.target}
              \/ /\ status.st = "submitting"
                 /\ status = [p.target EXCEPT !.reviewer = status.reviewer]
Submitting(n) == [status EXCEPT !.st = "submitting", !.pend = n, !.reviewer = 0]
Due(n) == At("automated", n)

ReserveAutomated ==
    /\ In("run") /\ ~Repeats
    /\ Unaccepted /\ HasNext
    /\ LET n == status.count + 1 IN
       IF Due(n) = {}
       THEN LET p == [NoPhase EXCEPT !.kind = "automated", !.seq = n, !.op = call.op,
                          !.prior = status, !.target = Submitting(n)] IN
            /\ status.st # "submitting"
            /\ phases' = phases \cup {p}
            /\ call' = [call EXCEPT !.pc = "submit", !.phase = p]
       ELSE \E p \in Due(n) :
            /\ p.op = call.op /\ Follows(p)
            /\ UNCHANGED phases
            /\ call' = [call EXCEPT !.pc = "submit", !.phase = p]
    /\ UNCHANGED <<manual, status, files, deaths>>

\* The reservation's status, for a run and for an ingest that finds one.
Submit ==
    /\ In("submit")
    /\ IF status = call.phase.prior
       THEN Legal(call.phase.target) /\ status' = call.phase.target
       ELSE UNCHANGED status
    /\ Goto(IF call.kind = "run" THEN "review" ELSE "claim")
    /\ UNCHANGED <<manual, files, phases, deaths>>

\* A text that is already at the planned path is the reviewer's; otherwise the
\* transport is asked, and may fail.
Planned == call.phase.seq
AtHand == [call EXCEPT !.pc = "bind", !.path = Planned]

FindText ==
    /\ In("review") /\ response[Planned] # "none"
    /\ call' = AtHand
    /\ UNCHANGED <<manual, status, files, phases, deaths>>

Review ==
    /\ In("review") /\ response[Planned] = "none"
    /\ \E text \in {"good", "bad"} : response' = [response EXCEPT ![Planned] = text]
    /\ call' = AtHand
    /\ UNCHANGED <<manual, status, attempt, receipt, rows, evidence, phases, deaths>>

TransportFails ==
    /\ In("review") /\ response[Planned] = "none"
    /\ Finalize(Planned, "none", "transport_failed", Ended("transport_failed", Planned), "idle")
    /\ UNCHANGED <<manual, status, files, deaths>>

\* The text is bound to the reservation.  A run then gives the lock back and
\* ingests that path: the call after it is an ingest like any other.
Bind ==
    /\ In("bind")
    /\ status.st = "submitting" /\ status.reviewer \in {0, call.path}
    /\ status' = [status EXCEPT !.reviewer = call.path]
    /\ IF call.kind = "run" THEN Return ELSE Goto("judge")
    /\ UNCHANGED <<manual, files, phases, deaths>>

----------------------------------------------------------------------------
(* ingest_review_result.                                                     *)

\* An automated reservation of the next attempt, then a claim that was
\* committed, must be this operation's, and is applied first.
AdoptReservation ==
    /\ In("ingest")
    /\ LET due == IF status.st = "ingested" THEN {} ELSE Due(status.count + 1) IN
       IF due = {} THEN Goto("claim")
       ELSE \E p \in due :
            /\ p.op = call.op
            /\ IF status.st = "ingesting" THEN Goto("claim")
               ELSE Follows(p) /\ call' = [call EXCEPT !.pc = "submit", !.phase = p]
    /\ UNCHANGED <<manual, status, files, phases, deaths>>

AdoptClaim ==
    /\ In("claim") /\ status.st # "ingested"
    /\ IF status.st = "ingesting" \/ Of("ingest") = {} THEN UNCHANGED status
       ELSE \E p \in Of("ingest") :
            /\ Cardinality(Of("ingest")) = 1
            /\ p.op = call.op /\ status = p.prior /\ Legal(p.target)
            /\ status' = p.target
    /\ ~(call.settled /\ status'.st = "review_failed")
    /\ Goto("read")
    /\ UNCHANGED <<manual, files, phases, deaths>>

Content == IF call.path = 0 THEN call.text ELSE response[call.path]
Automated == status.pend # 0
\* The answer keeps to the schema and to the job it was asked for.
Valid == Content = "good"
Read(k) == [call EXCEPT !.pc = "judge", !.path = k, !.text = "none"]

\* FAULT: a path that is not compared with the current reservation.
AnyPath(k) == TRUE

\* The response file of the job that may be read as it is.
IsReserved(k) == k = status.curResp /\ status.st = "pending_browser_upload"
Acceptable(k) ==
    \/ ~manual /\ k = status.reviewer
    \/ IsReserved(k)
    \/ ~manual /\ At("ingest", k) # {}

ResumeClaim ==
    /\ In("read") /\ status.st = "ingesting"
    /\ call.path \in {0, status.claim} /\ (manual => call.path # 0)
    /\ Content = response[status.claim]
    /\ call' = Read(status.claim)
    /\ UNCHANGED <<manual, status, files, phases, deaths>>

ReadReserved ==
    /\ In("read") /\ status.st # "ingesting" /\ (manual \/ ~Automated)
    /\ call.path # 0 /\ Acceptable(call.path)
    /\ call' = Read(call.path)
    /\ UNCHANGED <<manual, status, files, phases, deaths>>

\* An automated attempt has one path.  A text that is bound to it already is read;
\* one that is brought along is written there first, and then bound.
ReadBound ==
    /\ In("read") /\ status.st # "ingesting" /\ ~manual /\ Automated
    /\ status.reviewer # 0 /\ call.path \in {0, status.reviewer}
    /\ Content = response[status.reviewer]
    /\ call' = Read(status.reviewer)
    /\ UNCHANGED <<manual, status, files, phases, deaths>>

ReadAutomated ==
    /\ In("read") /\ status.st # "ingesting" /\ ~manual /\ Automated
    /\ status.reviewer = 0 /\ call.path \in {0, status.pend}
    /\ response[status.pend] \in {"none", Content}
    /\ response' = [response EXCEPT ![status.pend] = Content]
    /\ call' = [Read(status.pend) EXCEPT !.pc = "bind"]
    /\ UNCHANGED <<manual, status, attempt, receipt, rows, evidence, phases, deaths>>

\* A text brought along to a job that is not manual gets the next number.
ReadInline ==
    /\ In("read") /\ status.st # "ingesting" /\ ~manual /\ ~Automated
    /\ call.path = 0 /\ NextResponse \in Responses
    /\ response' = [response EXCEPT ![NextResponse] = call.text]
    /\ call' = Read(NextResponse)
    /\ UNCHANGED <<manual, status, attempt, receipt, rows, evidence, phases, deaths>>

Reserved == status.cur # 0 /\ status.curResp = call.path
FailedAttempt == IF Reserved THEN status.count ELSE status.count + 1

Reject ==
    /\ In("judge") /\ ~Valid
    /\ Reserved \/ HasNext
    /\ Finalize(FailedAttempt, IF Reserved THEN "reserved" ELSE "none", "review_failed",
                [Ended("review_failed", FailedAttempt) EXCEPT !.claim = 0, !.mode = "none"],
                "idle")
    /\ UNCHANGED <<manual, status, files, deaths>>

Mode == IF Reserved THEN "browser_reserved" ELSE IF Automated THEN "automated"
        ELSE "untracked"

Claim ==
    /\ In("judge") /\ Valid /\ status.st # "ingesting"
    /\ ~(Reserved /\ Automated)
    /\ LET p == [NoPhase EXCEPT !.kind = "ingest", !.seq = call.path, !.op = call.op,
                     !.prior = status,
                     !.target = [status EXCEPT !.st = "ingesting", !.claim = call.path,
                                               !.mode = Mode]] IN
       /\ At("ingest", call.path) = {}
       /\ phases' = phases \cup {p}
       /\ call' = [call EXCEPT !.pc = "claimed", !.phase = p]
    /\ UNCHANGED <<manual, status, files, deaths>>

\* FAULT: only a claim whose status is not written yet is taken up again.
ClaimAgainUnwritten ==
    /\ In("judge") /\ Valid
    /\ \E p \in At("ingest", call.path) :
           /\ p.op = call.op /\ status = p.prior
           /\ call' = [call EXCEPT !.pc = "claimed", !.phase = p]
    /\ UNCHANGED <<manual, status, files, phases, deaths>>

\* The claim of the response is there, and must be this operation's.
ClaimAgain ==
    /\ In("judge") /\ Valid
    /\ \E p \in At("ingest", call.path) :
           /\ p.op = call.op /\ status \in {p.prior, p.target}
           /\ call' = [call EXCEPT !.pc = "claimed", !.phase = p]
    /\ UNCHANGED <<manual, status, files, phases, deaths>>

WriteClaim ==
    /\ In("claimed") /\ status = call.phase.prior /\ Legal(call.phase.target)
    /\ status' = call.phase.target
    /\ UNCHANGED <<manual, files, phases, call, deaths>>

Derive ==
    /\ In("claimed") /\ status = call.phase.target
    /\ evidence' = [evidence EXCEPT ![status.claim] =
                       IF @ = "none" THEN "files" ELSE "bound"]
    /\ Goto(IF evidence'[status.claim] = "bound" THEN "accept" ELSE "claimed")
    /\ UNCHANGED <<manual, status, attempt, receipt, rows, response, phases, deaths>>

Accept ==
    /\ In("accept")
    /\ CASE status.mode = "untracked" ->
                /\ status' = [status EXCEPT !.st = "ingested"]
                /\ Return /\ UNCHANGED phases
         [] status.mode = "browser_reserved" ->
                /\ Finalize(status.count, "reserved", "ingested",
                            Ended("ingested", status.count), "idle")
                /\ UNCHANGED status
         [] status.mode = "automated" ->
                /\ HasNext
                /\ Finalize(status.pend, "none", "ingested",
                            Ended("ingested", status.pend), "idle")
                /\ UNCHANGED status
    /\ UNCHANGED <<manual, files, deaths>>

----------------------------------------------------------------------------
(* The end of a call that cannot go on, and deaths.                          *)

Terminal == WriteAttempt \/ WriteReceipt \/ WriteTerminalStatus \/ BindReceipt \/ Confirm
Start == ReconcileReservation \/ StartAgain \/ Supersede \/ Reserve \/ ReserveResponse
            \/ ReserveAttempt \/ ReserveStatus \/ ReserveRows
Run == Handoff \/ ReserveAutomated \/ Submit \/ FindText \/ Review \/ TransportFails \/ Bind
Ingest == AdoptReservation \/ AdoptClaim \/ ResumeClaim \/ ReadReserved \/ ReadAutomated
             \/ ReadBound \/ ReadInline \/ Reject \/ Claim \/ ClaimAgain \/ WriteClaim \/ Derive \/ Accept
Step == Terminal \/ Start \/ Run \/ Ingest

\* FAULT: the undo removes the attempt's record, also one that was there before.
UndoUnlinks ==
    /\ attempt' = IF call.undo.on THEN [attempt EXCEPT ![call.phase.seq] = "none"] ELSE attempt
    /\ receipt' = IF call.undo.on
                  THEN [receipt EXCEPT ![call.phase.seq] = IF HasRow(call.phase.seq) THEN "row" ELSE "none"]
                  ELSE receipt
    /\ status' = IF call.undo.on THEN call.undo.status ELSE status
    /\ Return
    /\ UNCHANGED <<manual, rows, response, evidence, phases>>

\* An exception takes back the files that a new terminal phase has written, neither the
\* phase nor the row of the receipt.
Undo ==
    /\ attempt' = IF call.undo.on
                  THEN [attempt EXCEPT ![call.phase.seq] = call.undo.attempt] ELSE attempt
    /\ receipt' = IF call.undo.on
                  THEN [receipt EXCEPT ![call.phase.seq] = IF HasRow(call.phase.seq) THEN "row" ELSE "none"]
                  ELSE receipt
    /\ status' = IF call.undo.on THEN call.undo.status ELSE status
    /\ Return
    /\ UNCHANGED <<manual, rows, response, evidence, phases>>

\* No branch of the code accepts what the call finds: it raises.  (A last stage
\* has nothing left to do.)
Raise == ~In("idle") /\ ~ENABLED Step /\ Undo /\ UNCHANGED deaths

\* An input/output error inside a finalization; elsewhere it is like a death.
Fail == call.undo.on /\ deaths < MaxDeaths /\ deaths' = deaths + 1 /\ Undo

Die ==
    /\ ~In("idle") /\ deaths < MaxDeaths
    /\ deaths' = deaths + 1
    /\ Return
    /\ UNCHANGED <<manual, status, files, phases>>

Next == Enter \/ Answer \/ Step \/ Raise \/ Fail \/ Die

Spec == Init /\ [][Next]_vars

\* A call goes on until it ends; whoever claimed a response tries again.
Retry == \E p \in Of("ingest") : Call("ingest", p.op, status.claim, "none")
LiveSpec == Spec /\ WF_vars(Step \/ Raise) /\ SF_vars(Retry)

----------------------------------------------------------------------------
\* The state keeps its shape.
TypeOK ==
    /\ attempt \in [Attempts -> {"none", "reserved"} \cup Final]
    /\ receipt \in [Attempts -> {"none", "file", "row", "bound"}]
    /\ rows \subseteq Attempts
    /\ response \in [Responses -> {"none", "empty", "good", "bad"}]
    /\ evidence \in [Responses -> {"none", "files", "bound"}]
    /\ Legal(status)

\* A response is accepted for the attempt that it was reserved for: whatever calls
\* came in between, an ingested job names a response whose evidence is in place and
\* whose one reservation is the attempt that the job ends with.
AcceptedAnswersItsAttempt ==
    status.st = "ingested" =>
        /\ evidence[status.claim] = "bound" /\ response[status.claim] = "good"
        /\ CASE status.mode = "browser_reserved" ->
                    \E p \in At("reservation", status.count) :
                        p.target.curResp = status.claim /\ attempt[status.count] = "ingested"
             [] status.mode = "automated" ->
                    /\ status.claim = status.count /\ attempt[status.count] = "ingested"
                    /\ At("automated", status.count) # {}
             [] OTHER -> \A p \in Of("reservation") :
                              p.seq \in rows => p.target.curResp # status.claim

\* A job never holds two claims of responses, an operation never two attempts.
OneClaim ==
    /\ Cardinality(Of("ingest")) <= 1
    /\ \A p, q \in Of("reservation") : p.op = q.op => p = q

\* History is sealed in order: behind a receipt that has its row, every attempt has ended
\* and is bound, also when an undo has taken the receipt's file away.
SealedInOrder ==
    \A n \in Attempts : HasRow(n) =>
        \A m \in 1 .. n : m < n \/ receipt[n] = "bound" =>
            receipt[m] = "bound" /\ attempt[m] \in Final

\* A finalization that may still be undone; an attempt that no finalization holds open.
Finalizing == In("terminal") \/ In("sealed")
Undoable(n) == Finalizing /\ call.undo.on /\ call.phase.seq = n
Sealed(n) == receipt[n] = "bound" /\ ~Undoable(n)

\* What is sealed never changes again: once the call that sealed it goes on, returns or
\* dies, no exception and no later call touches the attempt or its receipt, and an accepted
\* job accepts nothing else.
SealedForGood ==
    [][/\ \A n \in Attempts : Sealed(n) => Sealed(n)' /\ attempt'[n] = attempt[n]
       /\ status.st = "ingested" /\ status.count > 0 /\ Sealed(status.count) =>
              status' = status]_vars

\* A receipt whose file is taken away after its row was committed leaves the job on the
\* one phase that says what to write again: the last one, with nothing incomplete before
\* it, an attempt and a status that it still recognises (_finalize_attempt_with_receipt_binding).
TakenBackCanBeFinished ==
    \A p \in Of("terminal") : receipt[p.seq] = "row" =>
        p = Latest("terminal") /\ EarlierWritten /\ Reconcilable(p)

\* A claimed response is accepted in the end, whatever dies, if every reservation
\* has its rows.
ClaimIsDue == status.st = "ingesting" /\ \A p \in Of("reservation") : p.seq \in rows
ClaimCompletes == ClaimIsDue ~> status.st = "ingested"

\* "If the reviewer returns malformed JSON, keep that raw response, run
\* review-browser-attempt-start again with a new operation ID" (docs/review-relay.md):
\* after a rejected answer the job can be started again, unless it was accepted since.
FailureCanBeRetried ==
    In("idle") /\ Unaccepted /\ Of("terminal") # {}
        /\ Latest("terminal").target.st = "review_failed"
    => ~Open \/ Reconcilable(Latest("terminal"))

=============================================================================
