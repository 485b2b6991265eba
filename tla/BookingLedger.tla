--------------------------- MODULE BookingLedger ---------------------------
(* Booking implements SeatLedger.  Closed stands for an event that has no   *)
(* row: not created yet, or deleted.                                        *)
EXTENDS Booking

CONSTANT Closed

ASSUME LedgerAssumption == Closed \notin Capacities

Offered == [e \in Events |-> IF Live(e) THEN events[e].capacity ELSE Closed]
Holders == [e \in Events |-> {x.seeker : x \in Active(e)}]

Ledger == INSTANCE SeatLedger WITH capacity <- Offered, seats <- Holders

(* However the statements of concurrent enrolls, cancels, PATCHes, DELETEs  *)
(* and crashes interleave, what clients see of the tables is a ledger in    *)
(* which one seat is taken or given up at a time, and none that is not      *)
(* there (services.py, events/views.py).                                    *)
ImplementsLedger == Ledger!Spec
=============================================================================
