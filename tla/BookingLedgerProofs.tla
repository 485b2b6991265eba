------------------------ MODULE BookingLedgerProofs ------------------------
(***************************************************************************)
(* Booking implements SeatLedger, proved step by step from BookingInv.     *)
(* Statements that write no table, and those that write nothing a ledger   *)
(* shows, are stutters; every other one is a step of SeatLedger.           *)
(***************************************************************************)
EXTENDS BookingLedger, BookingProofs

LEMMA LedgerInit == Init => Ledger!Init
<1> SUFFICES ASSUME Init  PROVE Ledger!Init
  OBVIOUS
<1>1. \A e \in Events : ~Live(e) /\ Active(e) = {}
  BY DEF Init, Live, NoEvent, Active
<1>2. Offered = [e \in Events |-> Closed] /\ Holders = [e \in Events |-> {}]
  BY <1>1 DEF Offered, Holders
<1>3. QED  BY <1>2 DEF Ledger!Init

LEMMA HoldersOf ==
    ASSUME NEW e \in Events
    PROVE  /\ Holders[e] = {x.seeker : x \in Active(e)}
           /\ Holders'[e] = {x.seeker : x \in Active(e)'}
BY DEF Holders, Active

LEMMA OfferedAt ==
    ASSUME NEW e \in Events
    PROVE  /\ Offered[e] = IF events[e].state = "live" THEN events[e].capacity ELSE Closed
           /\ Offered'[e] = IF events'[e].state = "live" THEN events'[e].capacity ELSE Closed
BY DEF Offered, Live

(* The ledger of one event is what changes.                                *)
LEMMA OfferedChange ==
    ASSUME NEW e \in Events, NEW c, Offered'[e] = c,
           \A d \in Events : d # e => events'[d] = events[d]
    PROVE  Offered' = [Offered EXCEPT ![e] = c]
<1>1. \A d \in Events : d # e => Offered'[d] = Offered[d]
  BY OfferedAt
<1>2. /\ Offered = [d \in Events |-> Offered[d]]
      /\ Offered' = [d \in Events |-> Offered'[d]]
  BY DEF Offered, Live
<1>3. QED  BY <1>1, <1>2

LEMMA HoldersChange ==
    ASSUME NEW e \in Events, NEW S, Holders'[e] = S,
           \A x : x.event # e => (x \in enrollments' <=> x \in enrollments)
    PROVE  Holders' = [Holders EXCEPT ![e] = S]
<1>1. ASSUME NEW d \in Events, d # e  PROVE Holders'[d] = Holders[d]
  <2>1. Active(d)' = Active(d)  BY <1>1 DEF Active
  <2>2. QED  BY <2>1, HoldersOf
<1>2. /\ Holders = [d \in Events |-> Holders[d]]
      /\ Holders' = [d \in Events |-> Holders'[d]]
  BY DEF Holders, Active
<1>3. QED  BY <1>1, <1>2

(* As many seekers hold a seat as there are active rows, at the most.      *)
LEMMA HoldersCount ==
    ASSUME TypeOK, NEW e \in Events
    PROVE  /\ IsFiniteSet(Active(e)) /\ IsFiniteSet(Holders[e])
           /\ Cardinality(Active(e)) \in Nat /\ Cardinality(Holders[e]) \in Nat
           /\ Cardinality(Holders[e]) <= Cardinality(Active(e))
<1> DEFINE seeker == [x \in Active(e) |-> x.seeker]
<1>1. IsFiniteSet(Active(e))
  <2>1. Active(e) \subseteq enrollments /\ IsFiniteSet(enrollments)
    BY DEF Active, TypeOK
  <2>2. QED  BY <2>1, FS_Subset
<1>2. seeker \in Surjection(Active(e), Holders[e])
  <2>1. Holders[e] = {x.seeker : x \in Active(e)}
    BY DEF Holders
  <2>2. QED  BY <2>1 DEF Surjection
<1> HIDE DEF seeker
<1>3. IsFiniteSet(Holders[e]) /\ Cardinality(Holders[e]) <= Cardinality(Active(e))
  BY <1>1, <1>2, FS_Surjection
<1>4. QED  BY <1>1, <1>3, FS_CardinalityType

(* enroll's INSERT takes a seat.                                           *)
LEMMA InsertTakes ==
    ASSUME BookingAssumption, BookingInv, NEW r \in Requests, EnrollInsert(r)
    PROVE  [Ledger!Next]_<<Offered, Holders>>
<1>0. TypeOK /\ RowsOK /\ LockedCopyFresh /\ ChecksHold  BY TypeSplit DEF BookingInv
<1>1. PICK e \in Events, s \in Seekers : e = call[r].event /\ s = call[r].seeker
  BY <1>0, CallTyped DEF EnrollInsert, Steps, EnrollSteps
<1>2. /\ ActiveOf(e, s) = {} /\ ~Full(e, copy[r])
      /\ copy[r] = events[e] /\ Live(e)
  BY <1>0, <1>1 DEF EnrollInsert, ChecksHold, LockedCopyFresh, EnrollSteps
<1>3. events' = events /\ enrollments' = enrollments \cup {Booked(r)}
  BY <1>1, <1>2 DEF EnrollInsert, Booked
<1>4. Booked(r).event = e /\ Booked(r).seeker = s /\ Booked(r).status = "enrolled"
  BY <1>1 DEF Booked
<1>5. s \notin Holders[e]
  BY <1>2, HoldersOf DEF ActiveOf
<1>6. Holders'[e] = Holders[e] \cup {s}
  <2>1. Active(e)' = Active(e) \cup {Booked(r)}  BY <1>3, <1>4 DEF Active
  <2>2. QED  BY <1>4, <2>1, HoldersOf
<1>7. Holders' = [Holders EXCEPT ![e] = @ \cup {s}]
  BY <1>3, <1>4, <1>6, HoldersChange
<1>8. Offered' = Offered  BY <1>3 DEF Offered, Live
<1>9. Ledger!Room(e)
  <2>1. Offered[e] = events[e].capacity /\ events[e].capacity \in Capacities
    BY <1>0, <1>2 DEF Offered, Live, RowsOK, EventRow
  <2>2. CASE events[e].capacity = Unlimited
    BY <2>1, <2>2 DEF Ledger!Room
  <2>3. CASE events[e].capacity # Unlimited
    <3>1. events[e].capacity \in Nat  BY <2>1, <2>3 DEF Capacities
    <3>2. Cardinality(Active(e)) < events[e].capacity
      BY <1>0, <1>2, <2>3, <3>1, HoldersCount DEF Full
    <3>3. Cardinality(Holders[e]) < events[e].capacity
      BY <1>0, <3>1, <3>2, HoldersCount
    <3>4. Offered[e] \in Nat /\ Cardinality(Holders[e]) < Offered[e]
      BY <2>1, <3>1, <3>3
    (* SeatLedger counts with the Cardinality of its own FiniteSets.       *)
    <3>5. Ledger!Cardinality(Holders[e]) = Cardinality(Holders[e])
      BY DEF Ledger!Cardinality, Cardinality
    <3>6. QED  BY <3>4, <3>5 DEF Ledger!Room
  <2>4. QED  BY <2>2, <2>3
<1>10. Ledger!Take(e, s)
  BY <1>5, <1>7, <1>8, <1>9 DEF Ledger!Take
<1>11. QED  BY <1>10 DEF Ledger!Next

(* cancel's UPDATE gives the seat of its seeker back.                      *)
LEMMA WriteLeaves ==
    ASSUME BookingInv, NEW r \in Requests, CancelWrite(r)
    PROVE  [Ledger!Next]_<<Offered, Holders>>
<1>0. TypeOK /\ OneActivePerSeeker  BY DEF BookingInv
<1>1. PICK e \in Events, s \in Seekers : e = call[r].event /\ s = call[r].seeker
  BY <1>0, CallTyped DEF CancelWrite, Steps, CancelSteps
<1>2. PICK x \in ActiveOf(e, s) : \A d \in Events : Active(d)' = Active(d) \ {x}
  BY <1>1, CancelWrites
<1>3. x \in Active(e) /\ x.event = e /\ x.seeker = s
  BY DEF ActiveOf, Active
<1>4. \A y \in Active(e) : y.seeker = s => y = x
  BY <1>0, <1>3 DEF OneActivePerSeeker, Active
<1>5. s \in Holders[e]  BY <1>3, HoldersOf
<1>6. ASSUME NEW d \in Events, d # e  PROVE Holders'[d] = Holders[d]
  <2>1. x \notin Active(d)  BY <1>3, <1>6 DEF Active
  <2>2. Active(d)' = Active(d)  BY <1>2, <2>1
  <2>3. QED  BY <2>2, HoldersOf
<1>7. Holders'[e] = Holders[e] \ {s}
  <2>1. Active(e)' = Active(e) \ {x}  BY <1>2
  <2>2. QED  BY <1>3, <1>4, <2>1, HoldersOf
<1>8. Holders' = [Holders EXCEPT ![e] = @ \ {s}]
  <2>1. /\ Holders = [d \in Events |-> Holders[d]]
        /\ Holders' = [d \in Events |-> Holders'[d]]
    BY DEF Holders, Active
  <2>2. QED  BY <1>6, <1>7, <2>1
<1>9. Offered' = Offered  BY DEF CancelWrite, Offered, Live
<1>10. Ledger!Leave(e, s)
  BY <1>5, <1>8, <1>9 DEF Ledger!Leave
<1>11. QED  BY <1>10 DEF Ledger!Next

(* POST, and PATCH's save(), offer an event: also one that was deleted     *)
(* while the PATCH was under way, which has no row left in enrollments.    *)
LEMMA WriteOffers ==
    ASSUME TypeOK, NEW e \in Events, NEW row \in EventRow, row.state = "live",
           events' = [events EXCEPT ![e] = row], enrollments' = enrollments
    PROVE  [Ledger!Next]_<<Offered, Holders>>
<1>1. events \in [Events -> EventRow]  BY DEF TypeOK
<1>2. Holders' = Holders  BY DEF Holders, Active
<1>3. Offered'[e] = row.capacity /\ row.capacity \in Capacities
  BY <1>1, OfferedAt DEF EventRow
<1>4. Offered' = [Offered EXCEPT ![e] = Offered'[e]]
  BY <1>1, OfferedChange
<1>5. Ledger!Offer(e)
  BY <1>2, <1>3, <1>4 DEF Ledger!Offer, Ledger!Capacities, Capacities
<1>6. QED  BY <1>5 DEF Ledger!Next

(* DELETE withdraws its event, with every seat in it and no other.         *)
LEMMA DropWithdraws ==
    ASSUME BookingInv, NEW r \in Requests, DeleteDrop(r)
    PROVE  [Ledger!Next]_<<Offered, Holders>>
<1>0. TypeOK /\ ReadRows  BY DEF BookingInv
<1>1. PICK e \in Events : e = call[r].event
  BY <1>0, CallTyped DEF DeleteDrop, Steps, DeleteSteps
<1>2. \A x \in enrollments : x.id \in ids[r] => x.event = e
  BY <1>0, <1>1 DEF DeleteDrop, ReadRows
<1>3. CASE events' = events /\ enrollments' = enrollments
  BY <1>3 DEF Offered, Holders, Live, Active
<1>4. CASE /\ \A x \in enrollments : x.event = e => x.id \in ids[r]
           /\ enrollments' = {x \in enrollments : x.id \notin ids[r]}
           /\ events' = [events EXCEPT ![e].state = "deleted"]
  <2>1. /\ events'[e].state = "deleted"
        /\ \A d \in Events : d # e => events'[d] = events[d]
    BY <1>0, <1>4 DEF TypeOK, EventRow
  <2>2. Offered' = [Offered EXCEPT ![e] = Closed]
    BY <2>1, OfferedAt, OfferedChange
  <2>3. Active(e)' = {}  BY <1>4 DEF Active
  <2>4. Holders'[e] = {}  BY <2>3, HoldersOf
  <2>5. Holders' = [Holders EXCEPT ![e] = {}]
    BY <1>2, <1>4, <2>4, HoldersChange
  <2>6. QED  BY <2>2, <2>5 DEF Ledger!Next, Ledger!Withdraw
<1>5. QED  BY <1>1, <1>3, <1>4 DEF DeleteDrop

LEMMA LedgerStep ==
    ASSUME BookingAssumption, BookingInv, [Next]_vars
    PROVE  [Ledger!Next]_<<Offered, Holders>>
<1>0. TypeOK /\ LocalsOK /\ PatchedLive  BY TypeSplit DEF BookingInv
<1>1. CASE UNCHANGED <<events, enrollments>>
  BY <1>1 DEF Offered, Holders, Live, Active
<1>2. ASSUME NEW e \in Events, NEW row \in Posts, CreateEvent(e, row)
      PROVE  [Ledger!Next]_<<Offered, Holders>>
  <2>1. row \in EventRow /\ row.state = "live"  BY DEF BookingAssumption
  <2>2. QED  BY <1>0, <1>2, <2>1, WriteOffers DEF CreateEvent
<1>3. ASSUME NEW r \in Requests, PatchSave(r) \/ PatchReinsert(r)
      PROVE  [Ledger!Next]_<<Offered, Holders>>
  <2>1. /\ call[r].event \in Events /\ copy[r] \in EventRow /\ copy[r].state = "live"
        /\ enrollments' = enrollments
    BY <1>0, <1>3, CallTyped DEF PatchSave, PatchReinsert, Steps, PatchSteps, LocalsOK, PatchedLive
  <2>2. CASE events' = [events EXCEPT ![call[r].event] = copy[r]]
    BY <1>0, <2>1, <2>2, WriteOffers
  <2>3. QED  BY <1>1, <1>3, <2>1, <2>2 DEF PatchSave, PatchReinsert, Saved
<1>4. QED
  BY <1>1, <1>2, <1>3, InsertTakes, WriteLeaves, DropWithdraws
     DEF Next, vars, Serve, Enroll, Cancel, Patch, Delete, EnrollLock, EnrollStart,
         EnrollExists, EnrollCount, CancelFind, CancelClaim, CancelProbe, PatchGet,
         PatchValidate, DeleteGet, DeleteCollect, DeleteRows, Crash, Receive, Tick, Database

(* Whatever concurrent enrolls, cancels, PATCHes, DELETEs and crashes do   *)
(* to one another, clients see a ledger of seats: one is taken or given    *)
(* up at a time, none that is not there, by nobody who has one already.    *)
THEOREM RefinesSeatLedger == Spec => ImplementsLedger
<1>1. Init => Ledger!Init  BY LedgerInit
<1>2. BookingInv /\ [Next]_vars => [Ledger!Next]_<<Offered, Holders>>
  BY BookingAssumption, LedgerStep
<1>3. QED  BY <1>1, <1>2, BookingInvariant, PTL
           DEF Spec, ImplementsLedger, Ledger!Spec, Ledger!ledger
=============================================================================
