----------------------------- MODULE SeatLedger -----------------------------
(***************************************************************************)
(* What the booking endpoints promise, with no requests, rows, locks or    *)
(* statements: each event has a capacity and a set of seekers who hold a   *)
(* seat.  A seat is taken only while there is one, by somebody who has     *)
(* none, in an event that is offered; an event that is withdrawn takes its *)
(* seats with it.                                                          *)
(***************************************************************************)
EXTENDS Naturals, FiniteSets

CONSTANTS Events, Seekers, Unlimited, Closed

VARIABLES capacity, seats

ledger == <<capacity, seats>>

Capacities == (Nat \ {0}) \cup {Unlimited}

Room(e) == \/ capacity[e] = Unlimited
           \/ capacity[e] \in Nat /\ Cardinality(seats[e]) < capacity[e]

Init == /\ capacity = [e \in Events |-> Closed]
        /\ seats = [e \in Events |-> {}]

(* A facilitator offers an event, or gives it another capacity: nothing    *)
(* stops the new one from being below the seats already held.              *)
Offer(e) ==
    /\ capacity'[e] \in Capacities
    /\ capacity' = [capacity EXCEPT ![e] = capacity'[e]]
    /\ UNCHANGED seats

Withdraw(e) ==
    /\ capacity' = [capacity EXCEPT ![e] = Closed]
    /\ seats' = [seats EXCEPT ![e] = {}]

Take(e, s) ==
    /\ Room(e) /\ s \notin seats[e]
    /\ seats' = [seats EXCEPT ![e] = @ \cup {s}]
    /\ UNCHANGED capacity

Leave(e, s) ==
    /\ s \in seats[e]
    /\ seats' = [seats EXCEPT ![e] = @ \ {s}]
    /\ UNCHANGED capacity

Next == \E e \in Events :
           \/ Offer(e) \/ Withdraw(e)
           \/ \E s \in Seekers : Take(e, s) \/ Leave(e, s)

Spec == Init /\ [][Next]_ledger
=============================================================================
