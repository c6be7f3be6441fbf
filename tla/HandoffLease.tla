---------------------------- MODULE HandoffLease ----------------------------
(***************************************************************************)
(* What a handoff promises its callers: work that one actor at a time may  *)
(* hold, for a lease on the wall clock.  A lease is taken when nobody      *)
(* holds one, kept, given back and closed only by its owner while it       *)
(* lasts, and a completed handoff is closed for good.                      *)
(*                                                                         *)
(* Handoffs implements this with optimistic appends to a log.              *)
(***************************************************************************)
EXTENDS Integers

CONSTANTS Tasks, Actors, MaxLease, Nobody

VARIABLES now, owner, until, done

leaseVars == <<owner, until, done>>

\* Half-open: at its end a lease is over.
Held(t) == owner[t] # Nobody /\ now < until[t]

Init ==
    /\ owner = [t \in Tasks |-> Nobody]
    /\ until = [t \in Tasks |-> 0]
    /\ done = [t \in Tasks |-> FALSE]

Take(t, a) ==
    /\ owner' = [owner EXCEPT ![t] = a]
    /\ \E end \in (now + 1)..(now + MaxLease) : until' = [until EXCEPT ![t] = end]
    /\ UNCHANGED done

Claim(t, a) == ~done[t] /\ ~Held(t) /\ Take(t, a)

Renew(t, a) == Held(t) /\ owner[t] = a /\ Take(t, a)

Leave(t, a) ==
    /\ Held(t) /\ owner[t] = a
    /\ owner' = [owner EXCEPT ![t] = Nobody]
    /\ until' = [until EXCEPT ![t] = 0]
    /\ done' \in {done, [done EXCEPT ![t] = TRUE]}

Next == \E t \in Tasks, a \in Actors : Claim(t, a) \/ Renew(t, a) \/ Leave(t, a)

\* The clock is the environment's: only the leases are constrained.
Spec == Init /\ [][Next]_leaseVars
=============================================================================
