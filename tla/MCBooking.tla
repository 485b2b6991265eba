------------------------------ MODULE MCBooking ------------------------------
(* Small instances of Booking.                                              *)
EXTENDS BookingLedger, TLC

(* Events of one and of two seats that start at 1.                          *)
OneSeat == [state |-> "live", capacity |-> 1, starts |-> 1, ends |-> 3]
TwoSeats == [state |-> "live", capacity |-> 2, starts |-> 1, ends |-> 3]

Nothing == [capacity |-> Keep, starts |-> Keep, ends |-> Keep]

(* Alone each change of dates is valid for the events above, both together  *)
(* are not: 2 .. 2.                                                         *)
Later   == [Nothing EXCEPT !.starts = 2]
Shorter == [Nothing EXCEPT !.ends = 2]
ToOne   == [Nothing EXCEPT !.capacity = 1]
ToTwo   == [Nothing EXCEPT !.capacity = 2]

SmallPosts   == {OneSeat}
HerdPosts    == {TwoSeats}
SmallChanges == {ToTwo}
DateChanges  == {Later, Shorter}
SeatChanges  == {ToOne, ToTwo}

SafetySymmetry == Permutations(Requests) \cup Permutations(Seekers)
=============================================================================
