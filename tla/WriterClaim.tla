---------------------------- MODULE WriterClaim ----------------------------
(***************************************************************************)
(* Which runtime may mutate a root (writer_claim.py).  Every write         *)
(* connection first calls ensure_writer_claim: the marker file names one   *)
(* runtime and host; a new root is claimed by its first mutation, a root   *)
(* with state and no marker only by the explicit command, and a marker is  *)
(* replaced only by a forced transfer.                                     *)
(*                                                                         *)
(* Reading and publishing are separate steps.  Where hard links do not     *)
(* work the marker is created empty and written afterwards: others may     *)
(* read it, and a crash may leave it, malformed.                           *)
(***************************************************************************)
CONSTANTS
    Processes,      \* processes that open the root
    Runtimes,       \* runtime and host identities
    RuntimeOf,      \* the identity of a process
    MayAutoClaim,   \* the identities that claim a new root on their own
    Absent, Malformed

ASSUME ClaimConstants ==
    /\ RuntimeOf \in [Processes -> Runtimes]
    /\ MayAutoClaim \subseteq Runtimes
    /\ Absent # Malformed /\ Absent \notin Runtimes /\ Malformed \notin Runtimes

VARIABLES
    marker,     \* the claim on disk: an identity, Absent or Malformed
    state,      \* whether the root holds durable state
    pc,         \* where a process is
    explicit    \* the processes that run the writer-claim command

vars == <<marker, state, pc, explicit>>

Places == {"idle", "status", "new", "old", "claim", "create", "fill", "lost",
           "granted", "writing"}
Claims == Runtimes \cup {Absent, Malformed}

Init ==
    /\ marker = Absent
    /\ state \in BOOLEAN
    /\ pc = [p \in Processes |-> "idle"]
    /\ explicit = {}

Move(p, from, to) == pc[p] \in from /\ pc' = [pc EXCEPT ![p] = to]
\* The command ends with the claim; ensure_writer_claim goes on to connect.
Grant(p, from) ==
    /\ Move(p, from, IF p \in explicit THEN "idle" ELSE "granted")
    /\ explicit' = explicit \ {p}
Refuse(p, from) == Move(p, from, "idle") /\ explicit' = explicit \ {p}

\* connect, init_db, write_config and every receipt start with the check.
Ensure(p) == Move(p, {"idle"}, "status") /\ UNCHANGED <<marker, state, explicit>>
Command(p) ==
    /\ Move(p, {"idle"}, "claim")
    /\ explicit' = explicit \cup {p}
    /\ UNCHANGED <<marker, state>>

\* writer_claim_status looks for durable state, then for the marker.
LookForState(p) ==
    /\ Move(p, {"status"}, IF state THEN "old" ELSE "new")
    /\ UNCHANGED <<marker, state, explicit>>

\* A marker that is there decides, wherever the call meets it.
ReadMarker(p) ==
    /\ marker # Absent
    /\ LET met == {"old", "new", "claim", "lost"} IN
       IF marker = RuntimeOf[p] THEN Grant(p, met) ELSE Refuse(p, met)
    /\ UNCHANGED <<marker, state>>

\* FAULT: state without a claim is no reason to refuse.
NoMarkerAnyState(p) ==
    /\ marker = Absent
    /\ \/ Move(p, {"new", "old"}, "claim") /\ UNCHANGED explicit
       \/ Move(p, {"claim"}, "create") /\ UNCHANGED explicit
    /\ UNCHANGED <<marker, state>>
NoMarker(p) ==
    /\ marker = Absent
    /\ \/ Refuse(p, {"old"})
       \/ RuntimeOf[p] \notin MayAutoClaim /\ Refuse(p, {"new"})
       \/ RuntimeOf[p] \in MayAutoClaim /\ Move(p, {"new"}, "claim") /\ UNCHANGED explicit
       \/ Move(p, {"claim"}, "create") /\ UNCHANGED explicit
    /\ UNCHANGED <<marker, state>>

\* FAULTS: the marker is renamed into place; it is opened without O_EXCL.
LinkOver(p) ==
    /\ Grant(p, {"create"}) /\ marker' = RuntimeOf[p]
    /\ UNCHANGED state
\* os.link publishes a whole marker, or finds another.
Link(p) ==
    /\ \/ marker = Absent /\ Grant(p, {"create"}) /\ marker' = RuntimeOf[p]
       \/ marker # Absent /\ Move(p, {"create"}, "lost") /\ UNCHANGED <<marker, explicit>>
    /\ UNCHANGED state

\* Without hard links: O_EXCL creates it empty, the text follows.
OpenExclusive(p) ==
    /\ \/ marker = Absent /\ Move(p, {"create"}, "fill") /\ marker' = Malformed
       \/ marker # Absent /\ Move(p, {"create"}, "lost") /\ UNCHANGED marker
    /\ UNCHANGED <<state, explicit>>
Fill(p) ==
    /\ Grant(p, {"fill"})
    /\ marker' = RuntimeOf[p]
    /\ UNCHANGED state

Connect(p) ==
    /\ Move(p, {"granted"}, "writing")
    /\ state' = TRUE
    /\ UNCHANGED <<marker, explicit>>
Close(p) == Move(p, {"writing"}, "idle") /\ UNCHANGED <<marker, state, explicit>>

\* The operator stops every process, then transfers: --force
\* --acknowledge-writers-stopped replaces any marker that is not the process's own.
Quiet == \A p \in Processes : pc[p] = "idle"
Transfer(p) ==
    /\ Quiet /\ marker # Absent
    /\ marker' = RuntimeOf[p]
    /\ UNCHANGED <<state, pc, explicit>>

Crash(p) == Refuse(p, Places) /\ UNCHANGED <<marker, state>>

Next ==
    \E p \in Processes :
        \/ Ensure(p) \/ Command(p) \/ LookForState(p) \/ ReadMarker(p) \/ NoMarker(p)
        \/ Link(p) \/ OpenExclusive(p) \/ Fill(p)
        \/ Connect(p) \/ Close(p) \/ Transfer(p) \/ Crash(p)

Spec == Init /\ [][Next]_vars
----------------------------------------------------------------------------
(* The marker and the processes have the shape writer_claim.py gives them, *)
(* and a process that fills a marker fills the one it created empty.       *)
TypeOK ==
    /\ marker \in Claims /\ state \in BOOLEAN
    /\ pc \in [Processes -> Places] /\ explicit \subseteq Processes
    /\ \A p \in Processes : pc[p] = "fill" => marker = Malformed
    /\ \A p, q \in Processes : pc[p] = "fill" /\ pc[q] = "fill" => p = q

(* Two runtimes never have the catalog open for writing at the same time,  *)
(* and whoever may write does so under its own claim: every process may    *)
(* claim at once, see half-written markers, or die in between.             *)
OneRuntimeWrites ==
    \A p \in Processes : pc[p] \in {"granted", "writing"} => marker = RuntimeOf[p]

(* A claim changes hands only by a transfer with every process stopped,    *)
(* and an unclaimed root that has state is claimed only by the explicit    *)
(* command.                                                                *)
ClaimIsChosen ==
    [][marker' # marker =>
        /\ marker \in Runtimes => Quiet
        /\ marker = Absent /\ state =>
              \E p \in explicit : pc[p] = "create" /\ pc'[p] # "create"]_vars
============================================================================
