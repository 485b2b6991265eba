--------------------------- MODULE BookingProofs ---------------------------
(***************************************************************************)
(* Booking, proved for any number of events, seekers, threads and          *)
(* requests, any capacities and any PATCH bodies.  BookingInv is           *)
(* inductive; what the tables and the answers promise follows from it.     *)
(***************************************************************************)
EXTENDS Booking, FiniteSetTheorems, TLAPS

(* A thread past the start of a request knows whose request it serves.     *)
LEMMA CallTyped ==
    ASSUME TypeOK, NEW r \in Requests, pc[r] \in Steps
    PROVE  /\ call[r].event \in Events
           /\ pc[r] \in EnrollSteps \cup CancelSteps => call[r].seeker \in Seekers
           /\ pc[r] \in PatchSteps => call[r].change \in Changes
BY DEF TypeOK, Steps, EnrollSteps, CancelSteps, PatchSteps, DeleteSteps,
       Call, SeatCall, PatchCall, DeleteCall, NoCall

(* Applying the body of a PATCH to a row gives a row of the same state.    *)
LEMMA PatchedTyped ==
    ASSUME BookingAssumption, NEW row \in EventRow, NEW change \in Changes
    PROVE  Patched(row, change) \in EventRow /\ Patched(row, change).state = row.state
<1>1. /\ change.capacity \in Capacities \cup {Keep}
      /\ change.starts \in Nat \cup {Keep}
      /\ change.ends \in Nat \cup {Keep}
  BY DEF BookingAssumption
<1>2. QED  BY <1>1 DEF Patched, EventRow

LEMMA NoEventTyped == NoEvent \in EventRow
BY DEF NoEvent, EventRow, Capacities

(* Leaving a view, by an answer, an exception or a crash, keeps a thread's *)
(* variables typed.                                                        *)
LocalsOK ==
    /\ call \in [Requests -> Call \cup {NoCall}]
    /\ pc \in [Requests -> Steps \cup {"idle"}]
    /\ copy \in [Requests -> EventRow]
    /\ ids \in [Requests -> SUBSET Nat]
    /\ answer \in Codes \cup {"none"}
    /\ \A r \in Requests :
          /\ pc[r] \in EnrollSteps => call[r].op = "enroll"
          /\ pc[r] \in CancelSteps => call[r].op = "cancel"
          /\ pc[r] \in PatchSteps => call[r].op = "patch"
          /\ pc[r] \in DeleteSteps => call[r].op = "delete"

LEMMA FinishTyped ==
    ASSUME LocalsOK, NEW r \in Requests, NEW code \in Codes \cup {"none"}, Finish(r, code)
    PROVE  LocalsOK'
BY NoEventTyped
   DEF LocalsOK, Finish, Steps, EnrollSteps, CancelSteps, PatchSteps, DeleteSteps

LEMMA GotoTyped ==
    ASSUME LocalsOK, NEW r \in Requests, NEW step \in Steps, Goto(r, step),
           \/ pc[r] \in EnrollSteps /\ step \in EnrollSteps
           \/ pc[r] \in CancelSteps /\ step \in CancelSteps
           \/ pc[r] \in PatchSteps /\ step \in PatchSteps
           \/ pc[r] \in DeleteSteps /\ step \in DeleteSteps,
           copy' \in [Requests -> EventRow], ids' \in [Requests -> SUBSET Nat]
    PROVE  LocalsOK'
BY DEF LocalsOK, Goto, Steps, EnrollSteps, CancelSteps, PatchSteps, DeleteSteps

----------------------------------------------------------------------------
(* Type correctness                                                        *)

RowsOK ==
    /\ now \in Nat
    /\ events \in [Events -> EventRow]
    /\ enrollments \subseteq EnrollmentRow
    /\ IsFiniteSet(enrollments)
    /\ nextId \in Nat

LEMMA TypeSplit == TypeOK <=> RowsOK /\ LocalsOK
BY DEF TypeOK, RowsOK, LocalsOK

LEMMA InitTyped == Init => TypeOK
BY NoEventTyped, FS_EmptySet
   DEF Init, TypeOK, Steps, EnrollSteps, CancelSteps, PatchSteps, DeleteSteps

LEMMA EnrollLocals ==
    ASSUME TypeOK, NEW r \in Requests, Enroll(r)  PROVE LocalsOK'
<1> USE DEF Locals
<1>0. RowsOK /\ LocalsOK /\ pc[r] \in EnrollSteps /\ EnrollSteps \subseteq Steps
  BY TypeSplit DEF Enroll, EnrollLock, EnrollStart, EnrollExists, EnrollCount,
                   EnrollInsert, EnrollSteps, Steps
<1>1. call[r].event \in Events /\ events \in [Events -> EventRow]
  BY <1>0, CallTyped DEF RowsOK
<1>2. PICK code \in Codes, step \in EnrollSteps :
        \/ Finish(r, code)
        \/ Goto(r, step) /\ copy' = copy /\ ids' = ids
        \/ Goto(r, step) /\ copy' = [copy EXCEPT ![r] = events[call[r].event]] /\ ids' = ids
  BY DEF Enroll, EnrollLock, EnrollStart, EnrollExists, EnrollCount, EnrollInsert,
         Codes, EnrollSteps
<1>3. CASE Finish(r, code)
  BY <1>0, <1>3, FinishTyped
<1>4. CASE Goto(r, step) /\ ~Finish(r, code)
  <2>1. copy' \in [Requests -> EventRow] /\ ids' \in [Requests -> SUBSET Nat]
    BY <1>0, <1>1, <1>2, <1>4 DEF LocalsOK
  <2>2. QED  BY <1>0, <1>4, <2>1, GotoTyped
<1>5. QED  BY <1>2, <1>3, <1>4

LEMMA CancelLocals ==
    ASSUME TypeOK, NEW r \in Requests, Cancel(r)  PROVE LocalsOK'
<1> USE DEF Locals
<1>0. RowsOK /\ LocalsOK /\ pc[r] \in CancelSteps /\ CancelSteps \subseteq Steps
  BY TypeSplit DEF Cancel, CancelFind, CancelClaim, CancelProbe, CancelWrite,
                   CancelSteps, Steps
<1>1. {x.id : x \in ActiveOf(call[r].event, call[r].seeker)} \subseteq Nat
  BY <1>0 DEF RowsOK, ActiveOf, Active, EnrollmentRow
<1>2. PICK code \in Codes, step \in CancelSteps :
        \/ Finish(r, code)
        \/ /\ Goto(r, step) /\ copy' = copy
           /\ \/ ids' = ids
              \/ ids' = [ids EXCEPT ![r] = {x.id : x \in ActiveOf(call[r].event, call[r].seeker)}]
  BY DEF Cancel, CancelFind, CancelClaim, CancelProbe, CancelWrite, Codes, CancelSteps
<1>3. CASE Finish(r, code)
  BY <1>0, <1>3, FinishTyped
<1>4. CASE Goto(r, step) /\ ~Finish(r, code)
  <2>1. copy' \in [Requests -> EventRow] /\ ids' \in [Requests -> SUBSET Nat]
    BY <1>0, <1>1, <1>2, <1>4 DEF LocalsOK
  <2>2. QED  BY <1>0, <1>4, <2>1, GotoTyped
<1>5. QED  BY <1>2, <1>3, <1>4

LEMMA PatchLocals ==
    ASSUME BookingAssumption, TypeOK, NEW r \in Requests, Patch(r)  PROVE LocalsOK'
<1> USE DEF Locals
<1>0. RowsOK /\ LocalsOK /\ pc[r] \in PatchSteps /\ PatchSteps \subseteq Steps
  BY TypeSplit DEF Patch, PatchGet, PatchValidate, PatchSave, PatchReinsert, PatchSteps, Steps
<1>1. call[r].event \in Events /\ call[r].change \in Changes /\ events \in [Events -> EventRow]
  BY <1>0, CallTyped DEF RowsOK
<1>2. Patched(copy[r], call[r].change) \in EventRow
  BY <1>0, <1>1, PatchedTyped DEF LocalsOK
<1>3. PICK code \in Codes, step \in PatchSteps :
        \/ Finish(r, code)
        \/ /\ Goto(r, step) /\ ids' = ids
           /\ \/ copy' = copy
              \/ copy' = [copy EXCEPT ![r] = events[call[r].event]]
              \/ copy' = [copy EXCEPT ![r] = Patched(copy[r], call[r].change)]
  BY DEF Patch, PatchGet, PatchValidate, PatchSave, PatchReinsert, Codes, PatchSteps
<1>4. CASE Finish(r, code)
  BY <1>0, <1>4, FinishTyped
<1>5. CASE Goto(r, step) /\ ~Finish(r, code)
  <2>1. copy' \in [Requests -> EventRow] /\ ids' \in [Requests -> SUBSET Nat]
    BY <1>0, <1>1, <1>2, <1>3, <1>5 DEF LocalsOK
  <2>2. QED  BY <1>0, <1>5, <2>1, GotoTyped
<1>6. QED  BY <1>3, <1>4, <1>5

LEMMA DeleteLocals ==
    ASSUME TypeOK, NEW r \in Requests, Delete(r)  PROVE LocalsOK'
<1> USE DEF Locals
<1>0. RowsOK /\ LocalsOK /\ pc[r] \in DeleteSteps /\ DeleteSteps \subseteq Steps
  BY TypeSplit DEF Delete, DeleteGet, DeleteCollect, DeleteRows, DeleteDrop, DeleteSteps, Steps
<1>1. {x.id : x \in {y \in enrollments : y.event = call[r].event}} \subseteq Nat
  BY <1>0 DEF RowsOK, EnrollmentRow
<1>2. PICK code \in Codes, step \in DeleteSteps :
        \/ Finish(r, code)
        \/ /\ Goto(r, step) /\ copy' = copy
           /\ \/ ids' = ids
              \/ ids' = [ids EXCEPT ![r] =
                           {x.id : x \in {y \in enrollments : y.event = call[r].event}}]
  BY DEF Delete, DeleteGet, DeleteCollect, DeleteRows, DeleteDrop, Codes, DeleteSteps
<1>3. CASE Finish(r, code)
  BY <1>0, <1>3, FinishTyped
<1>4. CASE Goto(r, step) /\ ~Finish(r, code)
  <2>1. copy' \in [Requests -> EventRow] /\ ids' \in [Requests -> SUBSET Nat]
    BY <1>0, <1>1, <1>2, <1>4 DEF LocalsOK
  <2>2. QED  BY <1>0, <1>4, <2>1, GotoTyped
<1>5. QED  BY <1>2, <1>3, <1>4

(* Only the last statement of a request writes a table.                    *)
LEMMA RowsKept ==
    ASSUME BookingAssumption, TypeOK, NEW r \in Requests, Serve(r)  PROVE RowsOK'
<1> USE DEF Database
<1>0. RowsOK /\ LocalsOK  BY TypeSplit
<1>1. CASE EnrollInsert(r)
  <2> DEFINE new == [id |-> nextId, event |-> call[r].event,
                     seeker |-> call[r].seeker, status |-> "enrolled"]
  <2>1. call[r].event \in Events /\ call[r].seeker \in Seekers
    BY <1>1, CallTyped DEF EnrollInsert, Steps, EnrollSteps
  <2>2. new \in EnrollmentRow  BY <1>0, <2>1 DEF EnrollmentRow, RowsOK
  <2>3. IsFiniteSet(enrollments \cup {new})  BY <1>0, FS_AddElement DEF RowsOK
  <2>4. \/ enrollments' = enrollments /\ nextId' = nextId
        \/ enrollments' = enrollments \cup {new} /\ nextId' = nextId + 1
    BY <1>1 DEF EnrollInsert
  <2>5. events' = events /\ now' = now  BY <1>1 DEF EnrollInsert
  <2> HIDE DEF new
  <2>6. enrollments' \subseteq EnrollmentRow /\ IsFiniteSet(enrollments')
    BY <1>0, <2>2, <2>3, <2>4 DEF RowsOK
  <2>7. nextId' \in Nat  BY <1>0, <2>4 DEF RowsOK
  <2>8. QED  BY <1>0, <2>5, <2>6, <2>7 DEF RowsOK
<1>2. CASE CancelWrite(r)
  <2> DEFINE after == [x \in enrollments |->
                         IF x.id \in ids[r] THEN [x EXCEPT !.status = "canceled"] ELSE x]
             rows == {after[x] : x \in enrollments}
  <2>1. rows \subseteq EnrollmentRow
    BY <1>0 DEF RowsOK, EnrollmentRow
  <2>2. after \in Surjection(enrollments, rows)
    BY DEF Surjection
  <2>3. IsFiniteSet(rows)
    BY <1>0, <2>2, FS_Surjection DEF RowsOK
  <2>4. enrollments' = rows /\ events' = events /\ nextId' = nextId /\ now' = now
    BY <1>2 DEF CancelWrite
  <2> HIDE DEF after, rows
  <2>5. QED  BY <1>0, <2>1, <2>3, <2>4 DEF RowsOK
<1>3. CASE PatchSave(r) \/ PatchReinsert(r)
  <2>1. call[r].event \in Events /\ copy[r] \in EventRow
    BY <1>0, <1>3, CallTyped DEF PatchSave, PatchReinsert, Steps, PatchSteps, LocalsOK
  <2>2. QED  BY <1>0, <1>3, <2>1 DEF PatchSave, PatchReinsert, Saved, RowsOK
<1>4. CASE DeleteDrop(r)
  <2>1. call[r].event \in Events  BY <1>4, CallTyped DEF DeleteDrop, Steps, DeleteSteps
  <2>2. [events[call[r].event] EXCEPT !.state = "deleted"] \in EventRow
    BY <1>0, <2>1 DEF RowsOK, EventRow
  <2>3. events' \in [Events -> EventRow]
    BY <1>0, <1>4, <2>1, <2>2 DEF DeleteDrop, RowsOK
  <2>4. enrollments' \subseteq enrollments  BY <1>4 DEF DeleteDrop
  <2>5. IsFiniteSet(enrollments')  BY <1>0, <2>4, FS_Subset DEF RowsOK
  <2>6. QED  BY <1>0, <1>4, <2>3, <2>4, <2>5 DEF DeleteDrop, RowsOK
<1>5. CASE ~(\/ EnrollInsert(r) \/ CancelWrite(r) \/ PatchSave(r)
             \/ PatchReinsert(r) \/ DeleteDrop(r))
  BY <1>0, <1>5
     DEF Serve, Enroll, Cancel, Patch, Delete, EnrollLock, EnrollStart, EnrollExists,
         EnrollCount, CancelFind, CancelClaim, CancelProbe, PatchGet, PatchValidate,
         DeleteGet, DeleteCollect, DeleteRows, RowsOK
<1>6. QED  BY <1>1, <1>2, <1>3, <1>4, <1>5

LEMMA ReceiveLocals ==
    ASSUME TypeOK, NEW r \in Requests, NEW c \in Call, Receive(r, c)  PROVE LocalsOK'
<1>0. LocalsOK  BY TypeSplit
<1>1. c.op \in {"enroll", "cancel", "patch", "delete"}
  BY DEF Call, SeatCall, PatchCall, DeleteCall
<1>2. \/ c.op = "enroll" /\ FirstStep[c.op] = "lock"
      \/ c.op = "cancel" /\ FirstStep[c.op] = "find"
      \/ c.op = "patch"  /\ FirstStep[c.op] = "get"
      \/ c.op = "delete" /\ FirstStep[c.op] = "fetch"
  BY <1>1 DEF FirstStep
<1>3. /\ FirstStep[c.op] \in Steps
      /\ FirstStep[c.op] \in EnrollSteps => c.op = "enroll"
      /\ FirstStep[c.op] \in CancelSteps => c.op = "cancel"
      /\ FirstStep[c.op] \in PatchSteps => c.op = "patch"
      /\ FirstStep[c.op] \in DeleteSteps => c.op = "delete"
  BY <1>2 DEF Steps, EnrollSteps, CancelSteps, PatchSteps, DeleteSteps
<1>4. QED  BY <1>0, <1>3 DEF Receive, Locals, LocalsOK

LEMMA TypeStep ==
    ASSUME BookingAssumption, TypeOK, [Next]_vars  PROVE TypeOK'
<1>0. RowsOK /\ LocalsOK  BY TypeSplit
<1> SUFFICES RowsOK' /\ LocalsOK'  BY DEF TypeOK, RowsOK, LocalsOK
<1>1. ASSUME NEW r \in Requests, Serve(r)  PROVE RowsOK' /\ LocalsOK'
  BY <1>1, RowsKept, EnrollLocals, CancelLocals, PatchLocals, DeleteLocals DEF Serve
<1>2. ASSUME NEW r \in Requests, Crash(r)  PROVE RowsOK' /\ LocalsOK'
  BY <1>0, <1>2, FinishTyped DEF Crash, Database, RowsOK
<1>3. ASSUME NEW r \in Requests, NEW c \in Call, Receive(r, c)  PROVE RowsOK' /\ LocalsOK'
  <2>1. RowsOK'  BY <1>0, <1>3 DEF Receive, Database, RowsOK
  <2>2. QED  BY <1>3, <2>1, ReceiveLocals
<1>4. ASSUME NEW e \in Events, NEW row \in Posts, CreateEvent(e, row)
      PROVE  RowsOK' /\ LocalsOK'
  <2>1. row \in EventRow  BY DEF BookingAssumption
  <2>2. QED  BY <1>0, <1>4, <2>1 DEF CreateEvent, RowsOK, LocalsOK
<1>5. CASE Tick
  BY <1>0, <1>5 DEF Tick, Database, RowsOK, LocalsOK
<1>6. CASE UNCHANGED vars
  BY <1>0, <1>6 DEF vars, RowsOK, LocalsOK
<1>7. QED  BY <1>1, <1>2, <1>3, <1>4, <1>5, <1>6 DEF Next

(* The tables and the variables of every thread keep their types, whatever *)
(* requests arrive and whichever threads die.                              *)
THEOREM TypeCorrect == Spec => []TypeOK
<1>1. Init => TypeOK  BY InitTyped
<1>2. TypeOK /\ [Next]_vars => TypeOK'  BY BookingAssumption, TypeStep
<1>3. QED  BY <1>1, <1>2, PTL DEF Spec

----------------------------------------------------------------------------
(* What a step may do                                                      *)

(* A thread that has an instance to save.                                  *)
Editing == PatchSteps \ {"get"}

Held == EnrollSteps \ {"lock"}

(* A step of one thread leaves the others where they are.                  *)
LEMMA OthersUntouched ==
    ASSUME TypeOK, NEW r \in Requests, NEW q \in Requests, q # r,
           \/ Serve(r)
           \/ Crash(r)
           \/ \E c \in Call : Receive(r, c)
    PROVE  /\ pc'[q] = pc[q] /\ call'[q] = call[q]
           /\ copy'[q] = copy[q] /\ ids'[q] = ids[q]
<1>0. LocalsOK  BY TypeSplit
<1>1. \E step : pc' = [pc EXCEPT ![r] = step]
  BY DEF Serve, Enroll, Cancel, Patch, Delete, EnrollLock, EnrollStart, EnrollExists,
         EnrollCount, EnrollInsert, CancelFind, CancelClaim, CancelProbe, CancelWrite,
         PatchGet, PatchValidate, PatchSave, PatchReinsert, DeleteGet, DeleteCollect,
         DeleteRows, DeleteDrop, Crash, Receive, Goto, Finish
<1>2. call' = call \/ \E c : call' = [call EXCEPT ![r] = c]
  BY DEF Serve, Enroll, Cancel, Patch, Delete, EnrollLock, EnrollStart, EnrollExists,
         EnrollCount, EnrollInsert, CancelFind, CancelClaim, CancelProbe, CancelWrite,
         PatchGet, PatchValidate, PatchSave, PatchReinsert, DeleteGet, DeleteCollect,
         DeleteRows, DeleteDrop, Crash, Receive, Goto, Finish
<1>3. copy' = copy \/ \E row : copy' = [copy EXCEPT ![r] = row]
  BY DEF Serve, Enroll, Cancel, Patch, Delete, EnrollLock, EnrollStart, EnrollExists,
         EnrollCount, EnrollInsert, CancelFind, CancelClaim, CancelProbe, CancelWrite,
         PatchGet, PatchValidate, PatchSave, PatchReinsert, DeleteGet, DeleteCollect,
         DeleteRows, DeleteDrop, Crash, Receive, Goto, Finish, Locals
<1>4. ids' = ids \/ \E keys : ids' = [ids EXCEPT ![r] = keys]
  BY DEF Serve, Enroll, Cancel, Patch, Delete, EnrollLock, EnrollStart, EnrollExists,
         EnrollCount, EnrollInsert, CancelFind, CancelClaim, CancelProbe, CancelWrite,
         PatchGet, PatchValidate, PatchSave, PatchReinsert, DeleteGet, DeleteCollect,
         DeleteRows, DeleteDrop, Crash, Receive, Goto, Finish, Locals
<1>5. QED  BY <1>0, <1>1, <1>2, <1>3, <1>4 DEF LocalsOK

(* Only EnrollLock makes a thread the holder of an event's row lock; a     *)
(* thread that holds one keeps its request and the row it has loaded.      *)
LEMMA HoldersStep ==
    ASSUME TypeOK, [Next]_vars, NEW q \in Requests, pc'[q] \in Held
    PROVE  /\ call'[q] = call[q]
           /\ \/ pc[q] \in Held /\ copy'[q] = copy[q]
              \/ /\ EnrollLock(q) /\ pc'[q] = "start" /\ Live(call[q].event)
                 /\ copy'[q] = events[call[q].event] /\ events' = events
<1> DEFINE Goal == /\ call'[q] = call[q]
                   /\ \/ pc[q] \in Held /\ copy'[q] = copy[q]
                      \/ /\ EnrollLock(q) /\ pc'[q] = "start" /\ Live(call[q].event)
                         /\ copy'[q] = events[call[q].event] /\ events' = events
<1>0. LocalsOK  BY TypeSplit
<1>1. ASSUME NEW r \in Requests, r # q, Serve(r) \/ Crash(r) \/ \E c \in Call : Receive(r, c)
      PROVE  Goal
  BY <1>1, OthersUntouched
<1>2. CASE Serve(q)
  <2>1. CASE EnrollLock(q)
    BY <1>0, <2>1 DEF EnrollLock, Goto, Finish, Held, EnrollSteps, LocalsOK, Database
  <2>2. CASE EnrollStart(q) \/ EnrollExists(q) \/ EnrollCount(q)
    BY <1>0, <2>2 DEF EnrollStart, EnrollExists, EnrollCount, Goto, Finish, Held,
                      EnrollSteps, LocalsOK, Locals
  <2>3. CASE EnrollInsert(q) \/ Cancel(q) \/ Patch(q) \/ Delete(q)
    <3>1. pc'[q] \notin Held
      BY <1>0, <2>3 DEF EnrollInsert, Cancel, Patch, Delete, CancelFind, CancelClaim,
         CancelProbe, CancelWrite, PatchGet, PatchValidate, PatchSave, PatchReinsert, DeleteGet, DeleteCollect,
         DeleteRows, DeleteDrop, Goto, Finish, Held, EnrollSteps, LocalsOK
    <3>2. QED  BY <3>1
  <2>4. QED  BY <1>2, <2>1, <2>2, <2>3 DEF Serve, Enroll
<1>3. CASE Crash(q) \/ \E c \in Call : Receive(q, c)
  <2>1. CASE Crash(q)
    BY <1>0, <2>1 DEF Crash, Finish, LocalsOK, Held, EnrollSteps
  <2>2. ASSUME NEW c \in Call, Receive(q, c)  PROVE pc'[q] \notin Held
    <3>1. c.op \in {"enroll", "cancel", "patch", "delete"}
      BY DEF Call, SeatCall, PatchCall, DeleteCall
    <3>2. FirstStep[c.op] \in {"lock", "find", "get", "fetch"}
      BY <3>1 DEF FirstStep
    <3>3. QED  BY <1>0, <2>2, <3>2 DEF Receive, LocalsOK, Held, EnrollSteps
  <2>3. QED  BY <1>3, <2>1, <2>2
<1>4. CASE Tick \/ UNCHANGED vars \/ \E e \in Events, row \in Posts : CreateEvent(e, row)
  BY <1>4 DEF Tick, CreateEvent, vars
<1>5. QED  BY <1>1, <1>2, <1>3, <1>4 DEF Next

(* The row of an event whose lock is held does not change.                 *)
LEMMA LockedRowKept ==
    ASSUME TypeOK, LockedCopyFresh, [Next]_vars,
           NEW q \in Requests, pc[q] \in Held
    PROVE  events'[call[q].event] = events[call[q].event]
<1>0. RowsOK /\ LocalsOK  BY TypeSplit
<1>1. call[q].event \in Events /\ Live(call[q].event)
  BY CallTyped DEF LockedCopyFresh, Held, Steps
<1>2. ~EventFree(call[q].event)
  BY DEF EventFree, HoldsEvent, Held
<1>3. CASE UNCHANGED events
  BY <1>3
<1>4. ASSUME NEW r \in Requests, PatchSave(r) \/ DeleteDrop(r)
      PROVE  events'[call[q].event] = events[call[q].event]
  <2>1. EventFree(call[r].event)  BY <1>4 DEF PatchSave, DeleteDrop
  <2>2. call[r].event # call[q].event  BY <1>2, <2>1
  <2>3. QED  BY <1>0, <1>1, <1>4, <2>2 DEF PatchSave, DeleteDrop, RowsOK
<1>5. ASSUME NEW r \in Requests, PatchReinsert(r)
      PROVE  events'[call[q].event] = events[call[q].event]
  BY <1>0, <1>1, <1>5 DEF PatchReinsert, RowsOK
<1>6. ASSUME NEW e \in Events, NEW row \in Posts, CreateEvent(e, row)
      PROVE  events'[call[q].event] = events[call[q].event]
  BY <1>0, <1>1, <1>6 DEF CreateEvent, Live, RowsOK
<1>7. QED
  BY <1>3, <1>4, <1>5, <1>6
     DEF Next, vars, Serve, Enroll, Cancel, Patch, Delete, EnrollLock, EnrollStart,
         EnrollExists, EnrollCount, EnrollInsert, CancelFind, CancelClaim, CancelProbe,
         CancelWrite, PatchGet, PatchValidate, DeleteGet, DeleteCollect, DeleteRows, Crash,
         Receive, Tick, Database

(* The enrolled rows of an event only grow by the INSERT of the thread     *)
(* that holds its lock, and then by one row of that thread's seeker, who   *)
(* had none.                                                               *)
Booked(r) == [id |-> nextId, event |-> call[r].event,
              seeker |-> call[r].seeker, status |-> "enrolled"]

LEMMA ActiveStep ==
    ASSUME BookingAssumption, TypeOK, [Next]_vars
    PROVE  \/ /\ \A x \in enrollments' : x.status = "enrolled" => x \in enrollments
              /\ \A e \in Events : Active(e)' \subseteq Active(e)
           \/ \E r \in Requests :
                /\ pc[r] = "insert" /\ pc'[r] = "idle" /\ call[r].event \in Events
                /\ ActiveOf(call[r].event, call[r].seeker) = {}
                /\ enrollments' = enrollments \cup {Booked(r)}
                /\ events' = events
<1>0. RowsOK /\ LocalsOK  BY TypeSplit
<1>1. SUFFICES ASSUME \/ \E x \in enrollments' : x.status = "enrolled" /\ x \notin enrollments
                      \/ \E e \in Events : ~(Active(e)' \subseteq Active(e))
               PROVE  \E r \in Requests :
                        /\ pc[r] = "insert" /\ pc'[r] = "idle" /\ call[r].event \in Events
                        /\ ActiveOf(call[r].event, call[r].seeker) = {}
                        /\ enrollments' = enrollments \cup {Booked(r)}
                        /\ events' = events
  OBVIOUS
<1>2. \E x \in enrollments' : x.status = "enrolled" /\ x \notin enrollments
  BY <1>1 DEF Active
<1>3. enrollments' # enrollments  BY <1>2
<1>4. PICK r \in Requests : EnrollInsert(r) \/ CancelWrite(r) \/ DeleteDrop(r)
  BY <1>3
     DEF Next, vars, Serve, Enroll, Cancel, Patch, Delete, EnrollLock, EnrollStart,
         EnrollExists, EnrollCount, CancelFind, CancelClaim, CancelProbe, PatchGet,
         PatchValidate, PatchSave, PatchReinsert, DeleteGet, DeleteCollect, DeleteRows, Crash, Receive,
         CreateEvent, Tick, Database
<1>5. ~DeleteDrop(r)
  BY <1>2 DEF DeleteDrop
<1>6. ~CancelWrite(r)
  <2>1. \A x \in enrollments : [x EXCEPT !.status = "canceled"].status = "canceled"
    BY <1>0 DEF RowsOK, EnrollmentRow
  <2>2. PICK y \in enrollments' : y.status = "enrolled" /\ y \notin enrollments
    BY <1>2
  <2>3. ASSUME CancelWrite(r)  PROVE FALSE
    <3>1. PICK x \in enrollments :
            y = IF x.id \in ids[r] THEN [x EXCEPT !.status = "canceled"] ELSE x
      BY <2>2, <2>3 DEF CancelWrite
    <3>2. QED  BY <2>1, <2>2, <3>1
  <2>4. QED  BY <2>3
<1>7. EnrollInsert(r) /\ ActiveOf(call[r].event, call[r].seeker) = {}
  BY <1>3, <1>4, <1>5, <1>6 DEF EnrollInsert
<1>8. call[r].event \in Events
  BY <1>7, CallTyped DEF EnrollInsert, Steps, EnrollSteps
<1>9. QED
  BY <1>0, <1>7, <1>8 DEF EnrollInsert, Finish, Booked, LocalsOK

(* A thread reaches the count having seen no active row of its seeker, and *)
(* the INSERT having seen a free seat; neither step writes a table.        *)
LEMMA ChecksStep ==
    ASSUME TypeOK, [Next]_vars, NEW q \in Requests
    PROVE  /\ pc'[q] = "count" /\ pc[q] # "count" =>
                /\ ActiveOf(call[q].event, call[q].seeker) = {}
                /\ enrollments' = enrollments
           /\ pc'[q] = "insert" /\ pc[q] # "insert" =>
                /\ pc[q] = "count" /\ ~Full(call[q].event, copy[q])
                /\ enrollments' = enrollments
<1>0. LocalsOK  BY TypeSplit
<1>1. SUFFICES ASSUME pc'[q] \in {"count", "insert"}, pc'[q] # pc[q]
               PROVE  /\ pc'[q] = "count" =>
                           /\ ActiveOf(call[q].event, call[q].seeker) = {}
                           /\ enrollments' = enrollments
                      /\ pc'[q] = "insert" =>
                           /\ pc[q] = "count" /\ ~Full(call[q].event, copy[q])
                           /\ enrollments' = enrollments
  OBVIOUS
<1>2. pc[q] \in Held /\ ~EnrollLock(q)
  BY <1>0, <1>1, HoldersStep DEF Held, EnrollSteps, EnrollLock
<1>3. EnrollStart(q) \/ EnrollExists(q) \/ EnrollCount(q) \/ EnrollInsert(q) \/ Crash(q)
  <2>1. ASSUME NEW r \in Requests, r # q, Serve(r) \/ Crash(r) \/ \E c \in Call : Receive(r, c)
        PROVE  FALSE
    BY <1>1, <2>1, OthersUntouched
  <2>2. ~(Cancel(q) \/ Patch(q) \/ Delete(q) \/ \E c \in Call : Receive(q, c))
    BY <1>2 DEF Held, EnrollSteps, Cancel, Patch, Delete, CancelFind, CancelClaim,
       CancelProbe, CancelWrite, PatchGet, PatchValidate, PatchSave, PatchReinsert, DeleteGet, DeleteCollect,
       DeleteRows, DeleteDrop, Receive
  <2>3. ~(Tick \/ UNCHANGED vars \/ \E e \in Events, row \in Posts : CreateEvent(e, row))
    BY <1>1 DEF Tick, CreateEvent, vars
  <2>4. QED  BY <1>2, <2>1, <2>2, <2>3 DEF Next, Serve, Enroll
<1>4. QED
  BY <1>0, <1>1, <1>3
     DEF EnrollStart, EnrollExists, EnrollCount, EnrollInsert, Crash, Goto, Finish,
         LocalsOK, Database

----------------------------------------------------------------------------
(* The invariant, conjunct by conjunct                                     *)

LEMMA LockExclusiveStep ==
    ASSUME BookingInv, [Next]_vars  PROVE LockExclusive'
<1>0. TypeOK /\ LockExclusive  BY DEF BookingInv
<1>1. SUFFICES ASSUME NEW r \in Requests, NEW q \in Requests, r # q,
                      pc'[r] \in Held, pc'[q] \in Held,
                      call'[r].event = call'[q].event
               PROVE  FALSE
  BY DEF LockExclusive, Held
<1>2. call[r].event = call[q].event
  BY <1>0, <1>1, HoldersStep
<1>3. ~(pc[r] \in Held /\ pc[q] \in Held)
  BY <1>0, <1>1, <1>2 DEF LockExclusive, Held
<1>4. ASSUME NEW a \in Requests, NEW b \in Requests, a # b, EnrollLock(a),
             pc'[b] \in Held, call[a].event = call[b].event
      PROVE  FALSE
  <2>1. pc'[b] = pc[b]  BY <1>0, <1>4, OthersUntouched DEF Serve, Enroll
  <2>2. HoldsEvent(b, call[a].event)  BY <1>4, <2>1 DEF HoldsEvent, Held
  <2>3. QED  BY <1>4, <2>2 DEF EnrollLock, EventFree
<1>5. QED  BY <1>0, <1>1, <1>2, <1>3, <1>4, HoldersStep

LEMMA LockedCopyFreshStep ==
    ASSUME BookingInv, [Next]_vars  PROVE LockedCopyFresh'
<1>0. TypeOK /\ LockedCopyFresh  BY DEF BookingInv
<1>1. SUFFICES ASSUME NEW r \in Requests, pc'[r] \in Held
               PROVE  /\ copy'[r] = events'[call'[r].event]
                      /\ events'[call'[r].event].state = "live"
  BY DEF LockedCopyFresh, Live, Held
<1>2. CASE pc[r] \in Held /\ copy'[r] = copy[r] /\ call'[r] = call[r]
  <2>1. copy[r] = events[call[r].event] /\ Live(call[r].event)
    BY <1>0, <1>2 DEF LockedCopyFresh, Held
  <2>2. QED  BY <1>0, <1>2, <2>1, LockedRowKept DEF Live
<1>3. CASE /\ call'[r] = call[r] /\ Live(call[r].event)
           /\ copy'[r] = events[call[r].event] /\ events' = events
  BY <1>3 DEF Live
<1>4. QED  BY <1>0, <1>1, <1>2, <1>3, HoldersStep

(* Fewer active rows leave no fewer seats.                                 *)
LEMMA FullShrinks ==
    ASSUME BookingAssumption, TypeOK, TypeOK', NEW e \in Events, NEW row \in EventRow,
           Active(e)' \subseteq Active(e), Full(e, row)'
    PROVE  Full(e, row)
<1>1. IsFiniteSet(Active(e)) /\ IsFiniteSet(Active(e)')
  <2>1. IsFiniteSet(enrollments) /\ IsFiniteSet(enrollments')  BY DEF TypeOK
  <2>2. Active(e) \subseteq enrollments /\ Active(e)' \subseteq enrollments'
    BY DEF Active
  <2>3. QED  BY <2>1, <2>2, FS_Subset
<1>2. Cardinality(Active(e)') <= Cardinality(Active(e))
  BY <1>1, FS_Subset
<1>3. Cardinality(Active(e)) \in Nat /\ Cardinality(Active(e)') \in Nat
  BY <1>1, FS_CardinalityType
<1>4. row.capacity # Unlimited => row.capacity \in Nat
  BY DEF EventRow, Capacities
<1>5. Full(e, row)' = (row.capacity # Unlimited /\ Cardinality(Active(e)') >= row.capacity)
  BY DEF Full
<1>6. QED  BY <1>2, <1>3, <1>4, <1>5 DEF Full

LEMMA ChecksHoldStep ==
    ASSUME BookingAssumption, BookingInv, TypeOK', [Next]_vars  PROVE ChecksHold'
<1>0. TypeOK /\ LockExclusive /\ ChecksHold /\ LocalsOK  BY TypeSplit DEF BookingInv
<1>1. SUFFICES ASSUME NEW q \in Requests, pc'[q] \in {"count", "insert"}
               PROVE  (/\ ActiveOf(call[q].event, call[q].seeker) = {}
                       /\ pc[q] = "insert" => ~Full(call[q].event, copy[q]))'
  BY DEF ChecksHold
<1>2. pc[q] \in Held /\ call'[q] = call[q] /\ copy'[q] = copy[q]
  BY <1>0, <1>1, HoldersStep DEF Held, EnrollSteps
<1>3. PICK e \in Events, s \in Seekers, row \in EventRow :
        /\ e = call[q].event /\ s = call[q].seeker /\ row = copy[q]
        /\ e = call'[q].event /\ s = call'[q].seeker /\ row = copy'[q]
  BY <1>0, <1>2, CallTyped DEF Held, Steps, LocalsOK
<1>4. SUFFICES ActiveOf(e, s)' = {} /\ (pc'[q] = "insert" => ~Full(e, row)')
  BY <1>3 DEF ActiveOf, Active, Full
<1>5. Active(e)' \subseteq Active(e)
  <2>1. ASSUME NEW r \in Requests, pc[r] = "insert", pc'[r] = "idle",
               enrollments' = enrollments \cup {Booked(r)}
        PROVE  Active(e)' \subseteq Active(e)
    <3>1. r # q  BY <1>1, <2>1
    <3>2. call[r].event # e
      BY <1>0, <1>2, <1>3, <2>1, <3>1 DEF LockExclusive, Held, EnrollSteps
    <3>3. QED  BY <2>1, <3>2 DEF Active, Booked
  <2>2. QED  BY <1>0, <2>1, ActiveStep
<1>6. ActiveOf(e, s)' \subseteq ActiveOf(e, s)
  BY <1>5 DEF ActiveOf
<1>7. ActiveOf(e, s)' = {}
  <2>1. CASE pc[q] \in {"count", "insert"}
    BY <1>0, <1>3, <1>6, <2>1 DEF ChecksHold
  <2>2. CASE pc[q] \notin {"count", "insert"}
    BY <1>0, <1>1, <1>3, <1>6, <2>2, ChecksStep
  <2>3. QED  BY <2>1, <2>2
<1>8. ASSUME pc'[q] = "insert"  PROVE ~Full(e, row)'
  <2>1. ~Full(e, row)
    BY <1>0, <1>3, <1>8, ChecksStep DEF ChecksHold
  <2>2. QED  BY <1>0, <1>5, <2>1, FullShrinks
<1>9. QED  BY <1>7, <1>8

LEMMA PatchedLiveStep ==
    ASSUME BookingAssumption, BookingInv, [Next]_vars  PROVE PatchedLive'
<1> USE DEF Editing, PatchSteps
<1>0. TypeOK /\ PatchedLive /\ LocalsOK  BY TypeSplit DEF BookingInv
<1>1. SUFFICES ASSUME NEW q \in Requests, pc'[q] \in Editing
               PROVE  copy'[q].state = "live"
  BY DEF PatchedLive
<1>2. ASSUME NEW r \in Requests, r # q, Serve(r) \/ Crash(r) \/ \E c \in Call : Receive(r, c)
      PROVE  copy'[q].state = "live"
  BY <1>0, <1>1, <1>2, OthersUntouched DEF PatchedLive
<1>3. CASE Tick \/ UNCHANGED vars \/ \E e \in Events, row \in Posts : CreateEvent(e, row)
  BY <1>0, <1>1, <1>3 DEF Tick, CreateEvent, vars, PatchedLive
<1>4. CASE PatchGet(q)
  BY <1>0, <1>1, <1>4 DEF PatchGet, Finish, Live, LocalsOK
<1>5. CASE PatchValidate(q)
  <2>1. copy[q].state = "live" /\ copy[q] \in EventRow /\ call[q].change \in Changes
    BY <1>0, <1>5, CallTyped DEF PatchValidate, PatchedLive, LocalsOK, Steps
  <2>2. Patched(copy[q], call[q].change).state = "live"
    BY <2>1, PatchedTyped
  <2>3. QED  BY <1>0, <1>1, <1>5, <2>2 DEF PatchValidate, Finish, LocalsOK
<1>6. CASE PatchSave(q)
  BY <1>0, <1>1, <1>6 DEF PatchSave, PatchedLive, Goto, Finish, Locals, LocalsOK
<1>7. ~(Enroll(q) \/ Cancel(q) \/ PatchReinsert(q) \/ Delete(q) \/ Crash(q))
  BY <1>0, <1>1
     DEF Enroll, Cancel, Delete, EnrollLock, EnrollStart, EnrollExists, EnrollCount,
         EnrollInsert, CancelFind, CancelClaim, CancelProbe, CancelWrite, PatchReinsert,
         DeleteGet, DeleteCollect, DeleteRows, DeleteDrop, Crash, Goto, Finish, LocalsOK
<1>8. ASSUME NEW c \in Call, Receive(q, c)  PROVE FALSE
  <2>1. c.op \in {"enroll", "cancel", "patch", "delete"}
    BY DEF Call, SeatCall, PatchCall, DeleteCall
  <2>2. FirstStep[c.op] \notin Editing
    BY <2>1 DEF FirstStep
  <2>3. QED  BY <1>0, <1>1, <1>8, <2>2 DEF Receive, LocalsOK
<1>9. QED  BY <1>2, <1>3, <1>4, <1>5, <1>6, <1>7, <1>8 DEF Next, Serve, Patch

(* Every body a PATCH saves has passed the check of its dates.             *)
LEMMA PatchPassesCheckStep ==
    ASSUME BookingAssumption, BookingInv, [Next]_vars  PROVE PatchPassesCheck'
<1>0. TypeOK /\ PatchPassesCheck /\ LocalsOK  BY TypeSplit DEF BookingInv
<1>1. SUFFICES ASSUME NEW q \in Requests, pc'[q] \in {"save", "reinsert"}
               PROVE  copy'[q].ends > copy'[q].starts
  BY DEF PatchPassesCheck, Saved
<1>2. ASSUME NEW r \in Requests, r # q, Serve(r) \/ Crash(r) \/ \E c \in Call : Receive(r, c)
      PROVE  copy'[q].ends > copy'[q].starts
  BY <1>0, <1>1, <1>2, OthersUntouched DEF PatchPassesCheck, Saved
<1>3. CASE Tick \/ UNCHANGED vars \/ \E e \in Events, row \in Posts : CreateEvent(e, row)
  BY <1>0, <1>1, <1>3 DEF Tick, CreateEvent, vars, PatchPassesCheck, Saved
<1>4. CASE PatchValidate(q)
  <2>1. copy[q] \in EventRow /\ call[q].change \in Changes
    BY <1>0, <1>4, CallTyped DEF PatchValidate, LocalsOK, Steps, PatchSteps
  <2> DEFINE row == Patched(copy[q], call[q].change)
  <2>2. row \in EventRow
    BY <2>1, PatchedTyped
  <2>3. ~(row.ends <= row.starts) /\ copy' = [copy EXCEPT ![q] = row]
    BY <1>0, <1>1, <1>4 DEF PatchValidate, Rejected, Finish, LocalsOK
  <2> HIDE DEF row
  <2>4. QED  BY <1>0, <2>2, <2>3 DEF EventRow, LocalsOK
<1>5. CASE PatchSave(q)
  BY <1>0, <1>1, <1>5 DEF PatchSave, PatchPassesCheck, Saved, Goto, Finish, Locals, LocalsOK
<1>6. ~(Enroll(q) \/ Cancel(q) \/ PatchGet(q) \/ PatchReinsert(q) \/ Delete(q) \/ Crash(q))
  BY <1>0, <1>1
     DEF Enroll, Cancel, Delete, EnrollLock, EnrollStart, EnrollExists, EnrollCount,
         EnrollInsert, CancelFind, CancelClaim, CancelProbe, CancelWrite, PatchGet, PatchReinsert,
         DeleteGet, DeleteCollect, DeleteRows, DeleteDrop, Crash, Goto, Finish, LocalsOK
<1>7. ASSUME NEW c \in Call, Receive(q, c)  PROVE FALSE
  <2>1. c.op \in {"enroll", "cancel", "patch", "delete"}
    BY DEF Call, SeatCall, PatchCall, DeleteCall
  <2>2. FirstStep[c.op] \notin {"save", "reinsert"}
    BY <2>1 DEF FirstStep
  <2>3. QED  BY <1>0, <1>1, <1>7, <2>2 DEF Receive, LocalsOK
<1>8. QED  BY <1>2, <1>3, <1>4, <1>5, <1>6, <1>7 DEF Next, Serve, Patch

LEMMA OneActiveStep ==
    ASSUME BookingAssumption, BookingInv, [Next]_vars  PROVE OneActivePerSeeker'
<1>0. TypeOK /\ OneActivePerSeeker  BY DEF BookingInv
<1>1. SUFFICES ASSUME NEW x \in enrollments', NEW y \in enrollments',
                      x.status = "enrolled", y.status = "enrolled",
                      x.event = y.event, x.seeker = y.seeker
               PROVE  x = y
  BY DEF OneActivePerSeeker
<1>2. CASE \A z \in enrollments' : z.status = "enrolled" => z \in enrollments
  BY <1>0, <1>1, <1>2 DEF OneActivePerSeeker
<1>3. ASSUME NEW r \in Requests, ActiveOf(call[r].event, call[r].seeker) = {},
             enrollments' = enrollments \cup {Booked(r)}
      PROVE  x = y
  <2>1. \A z \in enrollments :
          ~(z.status = "enrolled" /\ z.event = call[r].event /\ z.seeker = call[r].seeker)
    BY <1>3 DEF ActiveOf, Active
  <2>2. QED  BY <1>0, <1>1, <1>3, <2>1 DEF OneActivePerSeeker, Booked
<1>4. QED  BY <1>0, <1>2, <1>3, ActiveStep

LEMMA EnrollmentHasEventStep ==
    ASSUME BookingAssumption, BookingInv, [Next]_vars  PROVE EnrollmentHasEvent'
<1>0. RowsOK /\ LocalsOK /\ TypeOK /\ EnrollmentHasEvent /\ LockedCopyFresh /\ PatchedLive
  BY TypeSplit DEF BookingInv
<1>1. SUFFICES ASSUME NEW x \in enrollments'  PROVE events'[x.event].state = "live"
  BY DEF EnrollmentHasEvent, Live
<1>2. \A y \in enrollments : y.event \in Events /\ events[y.event].state = "live"
  BY <1>0 DEF EnrollmentHasEvent, Live, RowsOK, EnrollmentRow
<1>3. CASE UNCHANGED <<events, enrollments>>
  BY <1>1, <1>2, <1>3
<1>4. ASSUME NEW r \in Requests, EnrollInsert(r)  PROVE events'[x.event].state = "live"
  <2>1. Live(call[r].event)
    BY <1>0, <1>4 DEF EnrollInsert, LockedCopyFresh, EnrollSteps
  <2>2. QED  BY <1>1, <1>2, <1>4, <2>1 DEF EnrollInsert, Live
<1>5. ASSUME NEW r \in Requests, CancelWrite(r)  PROVE events'[x.event].state = "live"
  <2>1. PICK y \in enrollments :
          x = IF y.id \in ids[r] THEN [y EXCEPT !.status = "canceled"] ELSE y
    BY <1>1, <1>5 DEF CancelWrite
  <2>2. x.event = y.event  BY <1>0, <2>1 DEF RowsOK, EnrollmentRow
  <2>3. QED  BY <1>2, <1>5, <2>2 DEF CancelWrite
<1>6. ASSUME NEW r \in Requests, PatchSave(r) \/ PatchReinsert(r)
      PROVE  events'[x.event].state = "live"
  BY <1>0, <1>1, <1>2, <1>6 DEF PatchSave, PatchReinsert, Saved, PatchedLive, PatchSteps, RowsOK
<1>7. ASSUME NEW r \in Requests, DeleteDrop(r)  PROVE events'[x.event].state = "live"
  <2>1. x \in enrollments  BY <1>1, <1>7 DEF DeleteDrop
  <2>2. CASE UNCHANGED <<events, enrollments>>
    BY <1>3, <2>2
  <2>3. CASE ~ UNCHANGED <<events, enrollments>>
    <3>1. x.event # call[r].event
      BY <1>1, <1>7, <2>1, <2>3 DEF DeleteDrop
    <3>2. \E row : events' = [events EXCEPT ![call[r].event] = row]
      BY <1>7, <2>3 DEF DeleteDrop
    <3>3. QED  BY <1>0, <1>2, <2>1, <3>1, <3>2 DEF RowsOK
  <2>4. QED  BY <2>2, <2>3
<1>8. ASSUME NEW e \in Events, NEW row \in Posts, CreateEvent(e, row)
      PROVE  events'[x.event].state = "live"
  <2>1. row.state = "live"  BY DEF BookingAssumption
  <2>2. QED  BY <1>0, <1>1, <1>2, <1>8, <2>1 DEF CreateEvent, RowsOK
<1>9. QED
  BY <1>3, <1>4, <1>5, <1>6, <1>7, <1>8
     DEF Next, vars, Serve, Enroll, Cancel, Patch, Delete, EnrollLock, EnrollStart,
         EnrollExists, EnrollCount, CancelFind, CancelClaim, CancelProbe, PatchGet,
         PatchValidate, DeleteGet, DeleteCollect, DeleteRows, Crash, Receive, Tick, Database

----------------------------------------------------------------------------
(* The rows a cancel or a DELETE has read                                  *)

Reading == {"claim", "write", "rows", "drop"}

(* What a step does to the enrollments.                                    *)
LEMMA RowsStep ==
    ASSUME TypeOK, [Next]_vars
    PROVE  \/ UNCHANGED <<enrollments, nextId>>
           \/ \E r \in Requests :
                 /\ pc[r] = "insert" /\ enrollments' = enrollments \cup {Booked(r)}
                 /\ nextId' = nextId + 1
           \/ \E r \in Requests : CancelWrite(r)
           \/ \E r \in Requests : /\ DeleteDrop(r) /\ nextId' = nextId
                                  /\ enrollments' = {x \in enrollments : x.id \notin ids[r]}
<1>1. ASSUME NEW r \in Requests, EnrollInsert(r)
      PROVE  \/ UNCHANGED <<enrollments, nextId>>
             \/ /\ pc[r] = "insert" /\ enrollments' = enrollments \cup {Booked(r)}
                /\ nextId' = nextId + 1
  BY <1>1 DEF EnrollInsert, Booked
<1>2. ASSUME NEW r \in Requests, DeleteDrop(r)
      PROVE  /\ nextId' = nextId
             /\ \/ enrollments' = enrollments
                \/ enrollments' = {x \in enrollments : x.id \notin ids[r]}
  BY <1>2 DEF DeleteDrop
<1>3. QED
  BY <1>1, <1>2
     DEF Next, vars, Serve, Enroll, Cancel, Patch, Delete, EnrollLock, EnrollStart,
         EnrollExists, EnrollCount, CancelFind, CancelClaim, CancelProbe, PatchGet,
         PatchValidate, PatchSave, PatchReinsert, DeleteGet, DeleteCollect, DeleteRows, Crash, Receive,
         CreateEvent, Tick, Database

(* A row keeps its key, its event and its seeker for life, and a new row   *)
(* has a new key.                                                          *)
LEMMA RowsKeepOwners ==
    ASSUME TypeOK, [Next]_vars
    PROVE  /\ nextId' \in Nat /\ nextId <= nextId'
           /\ \A y \in enrollments' :
                 \/ \E x \in enrollments :
                       x.id = y.id /\ x.event = y.event /\ x.seeker = y.seeker
                 \/ y.id = nextId /\ nextId' = nextId + 1
<1>0. RowsOK  BY TypeSplit
<1>1. CASE UNCHANGED <<enrollments, nextId>>
  BY <1>0, <1>1 DEF RowsOK
<1>2. ASSUME NEW r \in Requests, enrollments' = enrollments \cup {Booked(r)}, nextId' = nextId + 1
      PROVE  /\ nextId' \in Nat /\ nextId <= nextId'
             /\ \A y \in enrollments' : y \in enrollments \/ y.id = nextId
  BY <1>0, <1>2 DEF RowsOK, Booked
<1>3. ASSUME NEW r \in Requests, CancelWrite(r)
      PROVE  /\ nextId' = nextId
             /\ \A y \in enrollments' : \E x \in enrollments :
                   x.id = y.id /\ x.event = y.event /\ x.seeker = y.seeker
  <2> DEFINE after(x) == IF x.id \in ids[r] THEN [x EXCEPT !.status = "canceled"] ELSE x
  <2>1. \A x \in enrollments :
          after(x).id = x.id /\ after(x).event = x.event /\ after(x).seeker = x.seeker
    BY <1>0 DEF RowsOK, EnrollmentRow
  <2>2. enrollments' = {after(x) : x \in enrollments} /\ nextId' = nextId
    BY <1>3 DEF CancelWrite
  <2> HIDE DEF after
  <2>3. QED  BY <2>1, <2>2
<1>4. ASSUME NEW r \in Requests, nextId' = nextId,
             enrollments' = {x \in enrollments : x.id \notin ids[r]}
      PROVE  /\ nextId' \in Nat /\ nextId <= nextId'
             /\ \A y \in enrollments' : y \in enrollments
  BY <1>0, <1>4 DEF RowsOK
<1>5. QED
  <2>1. nextId \in Nat  BY <1>0 DEF RowsOK
  <2>2. QED  BY <2>1, <1>1, <1>2, <1>3, <1>4, RowsStep

LEMMA KeysUniqueStep ==
    ASSUME BookingInv, [Next]_vars  PROVE KeysUnique'
<1>0. TypeOK /\ KeysUnique /\ RowsOK  BY TypeSplit DEF BookingInv
<1>1. \A y \in enrollments' : y.id < nextId'
  <2>1. nextId \in Nat /\ \A x \in enrollments : x.id \in Nat /\ x.id < nextId
    BY <1>0 DEF RowsOK, EnrollmentRow, KeysUnique
  <2>2. QED  BY <1>0, <2>1, RowsKeepOwners
<1>2. \A y, z \in enrollments' : y.id = z.id => y = z
  <2>1. ASSUME NEW r \in Requests, enrollments' = enrollments \cup {Booked(r)}
        PROVE  \A y, z \in enrollments' : y.id = z.id => y = z
    <3>1. \A x \in enrollments : x.id # nextId
      BY <1>0 DEF KeysUnique, RowsOK, EnrollmentRow
    <3>2. QED  BY <1>0, <2>1, <3>1 DEF KeysUnique, Booked
  <2>2. ASSUME NEW r \in Requests, CancelWrite(r)
        PROVE  \A y, z \in enrollments' : y.id = z.id => y = z
    <3> DEFINE after(x) == IF x.id \in ids[r] THEN [x EXCEPT !.status = "canceled"] ELSE x
    <3>1. \A x \in enrollments : after(x).id = x.id
      BY <1>0 DEF RowsOK, EnrollmentRow
    <3>2. enrollments' = {after(x) : x \in enrollments}
      BY <2>2 DEF CancelWrite
    <3> HIDE DEF after
    <3>3. SUFFICES ASSUME NEW x \in enrollments, NEW w \in enrollments, after(x).id = after(w).id
                   PROVE  after(x) = after(w)
      BY <3>2
    <3>4. x = w  BY <1>0, <3>1, <3>3 DEF KeysUnique
    <3>5. QED  BY <3>4
  <2>3. QED  BY <1>0, <2>1, <2>2, RowsStep DEF KeysUnique
<1>3. QED  BY <1>1, <1>2 DEF KeysUnique

(* A thread gets its keys from CancelFind or DeleteCollect and locks them  *)
(* in CancelClaim or DeleteRows; in between it keeps them and its request. *)
LEMMA ReadingStep ==
    ASSUME TypeOK, [Next]_vars, NEW q \in Requests, pc'[q] \in Reading
    PROVE  /\ call'[q] = call[q]
           /\ \/ /\ pc[q] \in Reading /\ ids'[q] = ids[q]
                 /\ \/ pc'[q] = pc[q]
                    \/ CancelClaim(q) /\ pc'[q] = "write"
                    \/ DeleteRows(q) /\ pc'[q] = "drop"
              \/ CancelFind(q) /\ pc'[q] = "claim"
              \/ DeleteCollect(q) /\ pc'[q] = "rows"
<1> DEFINE Goal == /\ call'[q] = call[q]
                   /\ \/ /\ pc[q] \in Reading /\ ids'[q] = ids[q]
                         /\ \/ pc'[q] = pc[q]
                            \/ CancelClaim(q) /\ pc'[q] = "write"
                            \/ DeleteRows(q) /\ pc'[q] = "drop"
                      \/ CancelFind(q) /\ pc'[q] = "claim"
                      \/ DeleteCollect(q) /\ pc'[q] = "rows"
<1>0. LocalsOK  BY TypeSplit
<1>1. ASSUME NEW r \in Requests, r # q, Serve(r) \/ Crash(r) \/ \E c \in Call : Receive(r, c)
      PROVE  Goal
  BY <1>1, OthersUntouched
<1>2. CASE CancelFind(q) \/ DeleteCollect(q)
  BY <1>0, <1>2 DEF CancelFind, DeleteCollect, Goto, Reading, LocalsOK
<1>3. CASE CancelClaim(q) \/ DeleteRows(q)
  BY <1>0, <1>3 DEF CancelClaim, DeleteRows, Goto, Reading, LocalsOK
<1>4. CASE \/ Enroll(q) \/ Patch(q) \/ Crash(q) \/ CancelProbe(q) \/ CancelWrite(q)
           \/ DeleteGet(q) \/ DeleteDrop(q)
  <2>1. pc'[q] \notin Reading
    BY <1>0, <1>4 DEF Enroll, Patch, EnrollLock, EnrollStart, EnrollExists, EnrollCount,
       EnrollInsert, PatchGet, PatchValidate, PatchSave, PatchReinsert, CancelProbe, CancelWrite, DeleteGet,
       DeleteDrop, Crash, Goto, Finish, Reading, LocalsOK
  <2>2. QED  BY <2>1
<1>5. ASSUME NEW c \in Call, Receive(q, c)  PROVE Goal
  <2>1. c.op \in {"enroll", "cancel", "patch", "delete"}
    BY DEF Call, SeatCall, PatchCall, DeleteCall
  <2>2. FirstStep[c.op] \notin Reading
    BY <2>1 DEF FirstStep, Reading
  <2>3. QED  BY <1>0, <1>5, <2>2 DEF Receive, LocalsOK
<1>6. CASE Tick \/ UNCHANGED vars \/ \E e \in Events, row \in Posts : CreateEvent(e, row)
  BY <1>6 DEF Tick, CreateEvent, vars
<1>7. QED  BY <1>1, <1>2, <1>3, <1>4, <1>5, <1>6 DEF Next, Serve, Cancel, Delete

LEMMA ReadRowsStep ==
    ASSUME BookingInv, [Next]_vars  PROVE ReadRows'
<1>0. TypeOK /\ ReadRows /\ KeysUnique /\ OneActivePerSeeker /\ RowsOK /\ LocalsOK
  BY TypeSplit DEF BookingInv
<1>1. SUFFICES ASSUME NEW r \in Requests, pc'[r] \in Reading
               PROVE  /\ \A i \in ids'[r] : i < nextId'
                      /\ \A y \in enrollments' : y.id \in ids'[r] => y.event = call'[r].event
                      /\ pc'[r] \in {"claim", "write"} =>
                            /\ \A i, j \in ids'[r] : i = j
                            /\ \A y \in enrollments' :
                                  y.id \in ids'[r] => y.seeker = call'[r].seeker
  BY DEF ReadRows, Reading
<1>2. ids[r] \subseteq Nat /\ nextId \in Nat /\ \A x \in enrollments : x.id \in Nat
  BY <1>0 DEF RowsOK, LocalsOK, EnrollmentRow
<1>3. CASE /\ pc[r] \in Reading /\ ids'[r] = ids[r] /\ call'[r] = call[r]
           /\ pc'[r] \in {"claim", "write"} => pc[r] \in {"claim", "write"}
  <2>1. \A i \in ids[r] : i < nextId
    BY <1>0, <1>3 DEF ReadRows, Reading
  <2>2. \A y \in enrollments' : y.id \in ids[r] =>
          \E x \in enrollments : x.id = y.id /\ x.event = y.event /\ x.seeker = y.seeker
    BY <1>0, <1>2, <2>1, RowsKeepOwners
  <2>3. \A i \in ids[r] : i < nextId'
    BY <1>0, <1>2, <2>1, RowsKeepOwners
  <2>4. \A y \in enrollments' : y.id \in ids[r] => y.event = call[r].event
    BY <1>0, <1>3, <2>2 DEF ReadRows, Reading
  <2>5. ASSUME pc[r] \in {"claim", "write"}
        PROVE  /\ \A i, j \in ids[r] : i = j
               /\ \A y \in enrollments' : y.id \in ids[r] => y.seeker = call[r].seeker
    BY <1>0, <2>2, <2>5 DEF ReadRows
  <2>6. QED  BY <1>3, <2>3, <2>4, <2>5
<1>4. CASE CancelFind(r)
  <2>1. /\ ids'[r] = {x.id : x \in ActiveOf(call[r].event, call[r].seeker)}
        /\ enrollments' = enrollments /\ nextId' = nextId /\ call'[r] = call[r]
    BY <1>0, <1>4 DEF CancelFind, Goto, Database, LocalsOK
  <2>2. \A i \in ids'[r] : \E x \in ActiveOf(call[r].event, call[r].seeker) : x.id = i
    BY <2>1
  <2>3. \A x \in ActiveOf(call[r].event, call[r].seeker) :
          /\ x \in enrollments /\ x.status = "enrolled"
          /\ x.event = call[r].event /\ x.seeker = call[r].seeker
    BY DEF ActiveOf, Active
  <2>4. \A i, j \in ids'[r] : i = j
    BY <1>0, <2>2, <2>3 DEF OneActivePerSeeker
  <2>5. QED  BY <1>0, <2>1, <2>2, <2>3, <2>4 DEF KeysUnique
<1>5. CASE DeleteCollect(r) /\ pc'[r] = "rows"
  <2>1. /\ ids'[r] = {x.id : x \in {y \in enrollments : y.event = call[r].event}}
        /\ enrollments' = enrollments /\ nextId' = nextId /\ call'[r] = call[r]
    BY <1>0, <1>5 DEF DeleteCollect, Goto, Database, LocalsOK
  <2>2. \A i \in ids'[r] : \E x \in enrollments : x.event = call[r].event /\ x.id = i
    BY <2>1
  <2>3. QED  BY <1>0, <1>5, <2>1, <2>2 DEF KeysUnique
<1>6. CancelClaim(r) => pc[r] = "claim"
  BY DEF CancelClaim
<1>7. QED  BY <1>0, <1>1, <1>3, <1>4, <1>5, <1>6, ReadingStep DEF Reading

(* Whoever locks a row waited until nobody had it.                         *)
LEMMA RowLockExclusiveStep ==
    ASSUME BookingInv, [Next]_vars  PROVE RowLockExclusive'
<1>0. TypeOK /\ RowLockExclusive /\ LocalsOK  BY TypeSplit DEF BookingInv
<1>1. SUFFICES ASSUME NEW r \in Requests, NEW q \in Requests, NEW i, r # q,
                      pc'[r] \in {"write", "drop"}, i \in ids'[r],
                      pc'[q] \in {"write", "drop"}, i \in ids'[q]
               PROVE  FALSE
  BY DEF RowLockExclusive, HoldsRow
<1>2. /\ i \in ids[r] /\ i \in ids[q]
      /\ HoldsRow(r, i) \/ CancelClaim(r) \/ DeleteRows(r)
      /\ HoldsRow(q, i) \/ CancelClaim(q) \/ DeleteRows(q)
  BY <1>0, <1>1, ReadingStep DEF Reading, HoldsRow
<1>3. ~(HoldsRow(r, i) /\ HoldsRow(q, i))
  BY <1>0, <1>1, <1>2 DEF RowLockExclusive
<1>4. ASSUME NEW a \in Requests, NEW b \in Requests, a # b, i \in ids[a], i \in ids[b],
             CancelClaim(a) \/ DeleteRows(a), pc'[b] \in {"write", "drop"}
      PROVE  FALSE
  <2>1. pc'[b] = pc[b]  BY <1>0, <1>4, OthersUntouched DEF Serve, Cancel, Delete
  <2>2. HoldsRow(b, i)  BY <1>4, <2>1 DEF HoldsRow
  <2>3. QED  BY <1>4, <2>2 DEF CancelClaim, DeleteRows, RowFree
<1>5. QED  BY <1>1, <1>2, <1>3, <1>4

(* A locked row is changed by nobody but the holder of the lock.           *)
LEMMA LockedRowStays ==
    ASSUME TypeOK, RowLockExclusive, [Next]_vars, NEW q \in Requests, pc[q] = "write",
           pc'[q] = "write", NEW x \in enrollments, x.id \in ids[q]
    PROVE  x \in enrollments'
<1>0. LocalsOK /\ RowsOK  BY TypeSplit
<1>1. ASSUME NEW r \in Requests, CancelWrite(r) \/ DeleteDrop(r)
      PROVE  x.id \notin ids[r]
  <2>1. r # q
    BY <1>0, <1>1 DEF CancelWrite, DeleteDrop, Finish, LocalsOK
  <2>2. QED  BY <1>1, <2>1 DEF RowLockExclusive, HoldsRow, CancelWrite, DeleteDrop
<1>2. ASSUME NEW r \in Requests, CancelWrite(r)  PROVE x \in enrollments'
  <2>1. x = IF x.id \in ids[r] THEN [x EXCEPT !.status = "canceled"] ELSE x
    BY <1>1, <1>2
  <2>2. QED  BY <1>2, <2>1 DEF CancelWrite
<1>3. QED  BY <1>1, <1>2, RowsStep

LEMMA ClaimedRowStep ==
    ASSUME BookingInv, [Next]_vars  PROVE ClaimedRow'
<1>0. /\ TypeOK /\ ClaimedRow /\ ReadRows /\ RowLockExclusive /\ RowsOK /\ LocalsOK
  BY TypeSplit DEF BookingInv
<1>1. SUFFICES ASSUME NEW r \in Requests, pc'[r] = "write"
               PROVE  \E x \in enrollments' :
                         /\ x.event = call'[r].event /\ x.status = "enrolled"
                         /\ x.seeker = call'[r].seeker /\ x.id \in ids'[r]
  BY DEF ClaimedRow, ActiveOf, Active
<1>2. /\ call'[r] = call[r] /\ ids'[r] = ids[r]
      /\ pc[r] = "write" \/ CancelClaim(r)
  BY <1>0, <1>1, ReadingStep DEF Reading
<1>3. CASE pc[r] = "write"
  <2>1. PICK x \in ActiveOf(call[r].event, call[r].seeker) : x.id \in ids[r]
    BY <1>0, <1>3 DEF ClaimedRow
  <2>2. /\ x \in enrollments /\ x.status = "enrolled"
        /\ x.event = call[r].event /\ x.seeker = call[r].seeker
    BY DEF ActiveOf, Active
  <2>3. x \in enrollments'  BY <1>0, <1>1, <1>3, <2>1, <2>2, LockedRowStays
  <2>4. QED  BY <1>2, <2>1, <2>2, <2>3
<1>4. CASE CancelClaim(r)
  <2>1. PICK x \in Active(call[r].event) : x.id \in ids[r]
    BY <1>0, <1>1, <1>4 DEF CancelClaim, Goto, LocalsOK
  <2>2. x \in enrollments /\ x.status = "enrolled" /\ x.event = call[r].event
    BY DEF Active
  <2>3. x.seeker = call[r].seeker
    BY <1>0, <1>4, <2>1, <2>2 DEF CancelClaim, ReadRows
  <2>4. enrollments' = enrollments  BY <1>4 DEF CancelClaim, Database
  <2>5. QED  BY <1>2, <2>1, <2>2, <2>3, <2>4
<1>5. QED  BY <1>2, <1>3, <1>4

----------------------------------------------------------------------------
LEMMA BookingInit == Init => BookingInv
<1> SUFFICES ASSUME Init  PROVE BookingInv
  OBVIOUS
<1>1. TypeOK  BY InitTyped
<1>2. QED
  BY <1>1
     DEF Init, BookingInv, LockExclusive, LockedCopyFresh, ChecksHold, PatchedLive,
         PatchPassesCheck, OneActivePerSeeker, EnrollmentHasEvent, KeysUnique, ReadRows,
         RowLockExclusive, ClaimedRow, HoldsRow, EnrollSteps, PatchSteps

LEMMA BookingStep == BookingInv /\ [Next]_vars => BookingInv'
<1> SUFFICES ASSUME BookingInv, [Next]_vars  PROVE BookingInv'
  OBVIOUS
<1>1. TypeOK'  BY BookingAssumption, TypeStep DEF BookingInv
<1>2. QED
  BY <1>1, BookingAssumption, LockExclusiveStep, LockedCopyFreshStep, ChecksHoldStep,
     PatchedLiveStep, PatchPassesCheckStep, OneActiveStep, EnrollmentHasEventStep,
     KeysUniqueStep, ReadRowsStep, RowLockExclusiveStep, ClaimedRowStep
     DEF BookingInv

----------------------------------------------------------------------------
(* What the project promises of enroll                                     *)

(* The event's row lock, the row loaded under it and the checks made under *)
(* it stay good until the transaction ends; the tables keep one active row *)
(* per seeker and no row without its event.                                *)
THEOREM BookingInvariant == Spec => []BookingInv
<1>1. Init => BookingInv  BY BookingInit
<1>2. BookingInv /\ [Next]_vars => BookingInv'  BY BookingStep
<1>3. QED  BY <1>1, <1>2, PTL DEF Spec

(* A seeker never holds two active enrollments in one event.               *)
THEOREM OneActiveCorrect == Spec => []OneActivePerSeeker
<1>1. BookingInv => OneActivePerSeeker  BY DEF BookingInv
<1>2. QED  BY <1>1, BookingInvariant, PTL

(* No enrollment is left without its event, whatever a DELETE races with.  *)
THEOREM NoOrphans == Spec => []EnrollmentHasEvent
<1>1. BookingInv => EnrollmentHasEvent  BY DEF BookingInv
<1>2. QED  BY <1>1, BookingInvariant, PTL

LEMMA InsertWithinCapacity ==
    ASSUME BookingAssumption, BookingInv, BookingInv', [Next]_vars, NEW e \in Events,
           Active(e)' \ Active(e) # {}
    PROVE  Within(e, events[e])'
<1>0. TypeOK /\ TypeOK' /\ LockedCopyFresh /\ ChecksHold  BY DEF BookingInv
<1>1. PICK r \in Requests :
        /\ pc[r] = "insert" /\ call[r].event \in Events
        /\ enrollments' = enrollments \cup {Booked(r)}
        /\ events' = events
  BY <1>0, ActiveStep
<1>2. call[r].event = e /\ Active(e)' = Active(e) \cup {Booked(r)}
  BY <1>1 DEF Active, Booked
<1>3. ~Full(e, events[e])
  BY <1>0, <1>1, <1>2 DEF ChecksHold, LockedCopyFresh, EnrollSteps
<1>4. IsFiniteSet(Active(e))
  <2>1. Active(e) \subseteq enrollments /\ IsFiniteSet(enrollments)
    BY <1>0 DEF Active, TypeOK
  <2>2. QED  BY <2>1, FS_Subset
<1>5. Cardinality(Active(e)) \in Nat  BY <1>4, FS_CardinalityType
<1>6. /\ Cardinality(Active(e)') \in Nat
      /\ Cardinality(Active(e)') <= Cardinality(Active(e)) + 1
  <2>1. Cardinality(Active(e) \cup {Booked(r)}) =
          IF Booked(r) \in Active(e) THEN Cardinality(Active(e))
                                     ELSE Cardinality(Active(e)) + 1
    BY <1>4, FS_AddElement
  <2>2. QED  BY <1>2, <1>5, <2>1
<1>7. events[e].capacity # Unlimited => events[e].capacity \in Nat
  BY <1>0 DEF TypeOK, EventRow, Capacities
<1>8. events[e].capacity # Unlimited => Cardinality(Active(e)') <= events[e].capacity
  BY <1>3, <1>5, <1>6, <1>7 DEF Full
<1>9. QED  BY <1>1, <1>8 DEF Within

(* A booking never takes a seat that is not there, whatever cancels,       *)
(* PATCHes and DELETEs of the event run at the same time.                  *)
THEOREM NeverOversells == Spec => EnrollNeverOversells
<1>1. ASSUME BookingInv, BookingInv', [Next]_vars
      PROVE  [\A e \in Events : (Active(e)' \ Active(e) # {}) => Within(e, events[e])']_vars
  BY <1>1, BookingAssumption, InsertWithinCapacity
<1>2. QED  BY <1>1, BookingInvariant, PTL DEF Spec, EnrollNeverOversells

LEMMA TurnedAway ==
    ASSUME BookingInv, [Next]_vars, NEW r \in Requests,
           pc[r] \in EnrollSteps, pc'[r] = "idle", answer' = "event_full"
    PROVE  Full(call[r].event, events[call[r].event])
<1>0. TypeOK /\ LocalsOK /\ LockedCopyFresh  BY TypeSplit DEF BookingInv
<1>1. ASSUME NEW q \in Requests, q # r, Serve(q) \/ Crash(q) \/ \E c \in Call : Receive(q, c)
      PROVE  FALSE
  BY <1>0, <1>1, OthersUntouched DEF EnrollSteps
<1>2. ~(Cancel(r) \/ Patch(r) \/ Delete(r) \/ Crash(r) \/ \E c \in Call : Receive(r, c))
  BY DEF EnrollSteps, Cancel, Patch, Delete, CancelFind, CancelClaim, CancelProbe,
         CancelWrite, PatchGet, PatchValidate, PatchSave, PatchReinsert, DeleteGet, DeleteCollect, DeleteRows,
         DeleteDrop, Crash, Finish, Receive
<1>3. ~(Tick \/ UNCHANGED vars \/ \E e \in Events, row \in Posts : CreateEvent(e, row))
  BY DEF EnrollSteps, Tick, CreateEvent, vars
<1>4. ~(EnrollLock(r) \/ EnrollStart(r) \/ EnrollExists(r) \/ EnrollInsert(r))
  BY <1>0 DEF EnrollLock, EnrollStart, EnrollExists, EnrollInsert, Goto, Finish, LocalsOK
<1>5. EnrollCount(r)
  BY <1>1, <1>2, <1>3, <1>4 DEF Next, Serve, Enroll
<1>6. Full(call[r].event, copy[r])
  BY <1>0, <1>5 DEF EnrollCount, Goto, LocalsOK
<1>7. QED  BY <1>0, <1>5, <1>6 DEF EnrollCount, LockedCopyFresh, EnrollSteps

(* Nobody is turned away as event_full from an event with a seat left.     *)
THEOREM FullIsFull == Spec => FullMeansFull
<1>1. ASSUME BookingInv, [Next]_vars
      PROVE  [\A r \in Requests :
                (pc[r] \in EnrollSteps /\ pc'[r] = "idle" /\ answer' = "event_full")
                    => Full(call[r].event, events[call[r].event])]_vars
  BY <1>1, TurnedAway
<1>2. QED  BY <1>1, BookingInvariant, PTL DEF Spec, FullMeansFull
----------------------------------------------------------------------------
(* What the project promises of cancel and of PATCH                        *)

(* A PATCH never sends a row the CHECK of the table refuses, however many  *)
(* PATCHes of its event save between its validation and its save().        *)
THEOREM PatchesPassCheck == Spec => []PatchPassesCheck
<1>1. BookingInv => PatchPassesCheck  BY DEF BookingInv
<1>2. QED  BY <1>1, BookingInvariant, PTL

(* The UPDATE of a cancel takes the one active row of its seeker, and no   *)
(* other, out of the active rows of its event.                             *)
LEMMA CancelWrites ==
    ASSUME BookingInv, NEW r \in Requests, CancelWrite(r)
    PROVE  \E x \in ActiveOf(call[r].event, call[r].seeker) :
              \A e \in Events : Active(e)' = Active(e) \ {x}
<1>0. TypeOK /\ RowsOK /\ KeysUnique /\ ReadRows /\ ClaimedRow
  BY TypeSplit DEF BookingInv
<1>1. PICK x \in ActiveOf(call[r].event, call[r].seeker) : x.id \in ids[r]
  BY <1>0 DEF ClaimedRow, CancelWrite
<1>2. x \in enrollments  BY DEF ActiveOf, Active
<1>3. \A y \in enrollments : y.id \in ids[r] <=> y = x
  BY <1>0, <1>1, <1>2 DEF ReadRows, KeysUnique, CancelWrite
<1> DEFINE after(y) == IF y.id \in ids[r] THEN [y EXCEPT !.status = "canceled"] ELSE y
<1>4. /\ after(x).status = "canceled"
      /\ \A y \in enrollments : y # x => after(y) = y
  BY <1>0, <1>2, <1>3 DEF RowsOK, EnrollmentRow
<1>5. enrollments' = {after(y) : y \in enrollments}
  BY DEF CancelWrite
<1> HIDE DEF after
<1>6. ASSUME NEW e \in Events  PROVE Active(e)' = Active(e) \ {x}
  <2>1. \A y : y \in Active(e)' => y \in Active(e) \ {x}
    <3>1. SUFFICES ASSUME NEW y \in enrollments', y.event = e, y.status = "enrolled"
                   PROVE  y \in Active(e) \ {x}
      BY DEF Active
    <3>2. PICK z \in enrollments : y = after(z)
      BY <1>5
    <3>3. z # x  BY <1>4, <3>1, <3>2
    <3>4. y = z  BY <1>4, <3>2, <3>3
    <3>5. QED  BY <3>1, <3>3, <3>4 DEF Active
  <2>2. \A y : y \in Active(e) \ {x} => y \in Active(e)'
    BY <1>4, <1>5 DEF Active
  <2>3. QED  BY <2>1, <2>2
<1>7. QED  BY <1>6

LEMMA CanceledOne ==
    ASSUME BookingInv, [Next]_vars, NEW r \in Requests, NEW e \in Events,
           pc[r] \in CancelSteps, call[r].event = e, pc'[r] = "idle", answer' = "ok"
    PROVE  \E x \in ActiveOf(e, call[r].seeker) : Active(e)' = Active(e) \ {x}
<1>0. TypeOK /\ LocalsOK  BY TypeSplit DEF BookingInv
<1>1. ASSUME NEW q \in Requests, q # r, Serve(q) \/ Crash(q) \/ \E c \in Call : Receive(q, c)
      PROVE  FALSE
  BY <1>0, <1>1, OthersUntouched DEF CancelSteps
<1>2. ~(Enroll(r) \/ Patch(r) \/ Delete(r) \/ Crash(r) \/ \E c \in Call : Receive(r, c))
  BY DEF CancelSteps, Enroll, Patch, Delete, EnrollLock, EnrollStart, EnrollExists,
         EnrollCount, EnrollInsert, PatchGet, PatchValidate, PatchSave, PatchReinsert, DeleteGet, DeleteCollect,
         DeleteRows, DeleteDrop, Crash, Finish, Receive
<1>3. ~(Tick \/ UNCHANGED vars \/ \E d \in Events, row \in Posts : CreateEvent(d, row))
  BY DEF CancelSteps, Tick, CreateEvent, vars
<1>4. ~(CancelFind(r) \/ CancelClaim(r) \/ CancelProbe(r))
  BY <1>0 DEF CancelFind, CancelClaim, CancelProbe, Goto, Finish, LocalsOK
<1>5. CancelWrite(r)
  BY <1>1, <1>2, <1>3, <1>4 DEF Next, Serve, Cancel
<1>6. QED  BY <1>5, CancelWrites

(* A cancel answered with success gave back the one seat its caller held:  *)
(* of two cancels, or a cancel and a DELETE, of one row a single one has   *)
(* it.                                                                     *)
THEOREM CancelsFreeOneSeat == Spec => CancelFreesOneSeat
<1>1. ASSUME BookingInv, [Next]_vars
      PROVE  [\A r \in Requests, e \in Events :
                (pc[r] \in CancelSteps /\ call[r].event = e /\ pc'[r] = "idle" /\ answer' = "ok")
                   => \E x \in ActiveOf(e, call[r].seeker) : Active(e)' = Active(e) \ {x}]_vars
  BY <1>1, CanceledOne
<1>2. QED  BY <1>1, BookingInvariant, PTL DEF Spec, CancelFreesOneSeat
----------------------------------------------------------------------------
(* When the comment of EventSerializer.validate holds                      *)

CapacityNeverPatched == \A change \in Changes : change.capacity = Keep

(* An event has the capacity it was created with, and so has every         *)
(* instance of it that a PATCH is about to save.                           *)
CapacityInv ==
    /\ \A e \in Events : Within(e, events[e])
    /\ \A r \in Requests : pc[r] \in Editing =>
          /\ events[call[r].event].state # "unborn"
          /\ copy[r].capacity = events[call[r].event].capacity

(* Once an event is in the table no step writes another capacity to it.    *)
LEMMA CapacityKept ==
    ASSUME BookingAssumption, BookingInv, CapacityInv, [Next]_vars,
           NEW e \in Events, events[e].state # "unborn"
    PROVE  events'[e].state # "unborn" /\ events'[e].capacity = events[e].capacity
<1>0. RowsOK /\ LocalsOK /\ TypeOK /\ PatchedLive  BY TypeSplit DEF BookingInv
<1>1. CASE UNCHANGED events
  BY <1>1
<1>2. ASSUME NEW r \in Requests, PatchSave(r) \/ PatchReinsert(r)
      PROVE  events'[e].state # "unborn" /\ events'[e].capacity = events[e].capacity
  <2>1. copy[r].state = "live" /\ copy[r].capacity = events[call[r].event].capacity
    BY <1>0, <1>2 DEF PatchSave, PatchReinsert, PatchedLive, CapacityInv, Editing, PatchSteps
  <2>2. events' = events \/ events' = [events EXCEPT ![call[r].event] = copy[r]]
    BY <1>2 DEF PatchSave, PatchReinsert, Saved
  <2>3. QED  BY <1>0, <2>1, <2>2 DEF RowsOK
<1>3. ASSUME NEW r \in Requests, DeleteDrop(r)
      PROVE  events'[e].state # "unborn" /\ events'[e].capacity = events[e].capacity
  <2>1. \/ events' = events
        \/ events' = [events EXCEPT ![call[r].event] = [@ EXCEPT !.state = "deleted"]]
    BY <1>3 DEF DeleteDrop
  <2>2. events[e] \in EventRow  BY <1>0 DEF RowsOK
  <2>3. QED  BY <1>0, <2>1, <2>2 DEF RowsOK, EventRow
<1>4. ASSUME NEW d \in Events, NEW row \in Posts, CreateEvent(d, row)
      PROVE  events'[e].state # "unborn" /\ events'[e].capacity = events[e].capacity
  BY <1>0, <1>4 DEF CreateEvent, RowsOK
<1>5. QED
  BY <1>1, <1>2, <1>3, <1>4
     DEF Next, vars, Serve, Enroll, Cancel, Patch, Delete, EnrollLock, EnrollStart,
         EnrollExists, EnrollCount, EnrollInsert, CancelFind, CancelClaim, CancelProbe,
         CancelWrite, PatchGet, PatchValidate, DeleteGet, DeleteCollect, DeleteRows, Crash,
         Receive, Tick, Database

(* A thread comes to validate or to save with the capacity of the row:     *)
(* fresh from it, or through a body that keeps it.                         *)
LEMMA PatchCopyStep ==
    ASSUME BookingAssumption, CapacityNeverPatched, BookingInv, CapacityInv, [Next]_vars,
           NEW q \in Requests, pc'[q] \in Editing
    PROVE  /\ call'[q] = call[q] /\ call[q].event \in Events
           /\ events[call[q].event].state # "unborn"
           /\ copy'[q].capacity = events[call[q].event].capacity
<1> USE DEF Editing, PatchSteps
<1> DEFINE Goal == /\ call'[q] = call[q] /\ call[q].event \in Events
                   /\ events[call[q].event].state # "unborn"
                   /\ copy'[q].capacity = events[call[q].event].capacity
<1>0. TypeOK /\ LocalsOK  BY TypeSplit DEF BookingInv
<1>1. CASE pc[q] \in Editing /\ call'[q] = call[q] /\ copy'[q] = copy[q]
  BY <1>0, <1>1, CallTyped DEF CapacityInv, Steps
<1>2. ASSUME NEW r \in Requests, r # q, Serve(r) \/ Crash(r) \/ \E c \in Call : Receive(r, c)
      PROVE  Goal
  <2>1. pc'[q] = pc[q] /\ call'[q] = call[q] /\ copy'[q] = copy[q]
    BY <1>0, <1>2, OthersUntouched
  <2>2. QED  BY <1>1, <2>1
<1>3. CASE Tick \/ UNCHANGED vars \/ \E e \in Events, row \in Posts : CreateEvent(e, row)
  BY <1>1, <1>3 DEF Tick, CreateEvent, vars
<1>4. CASE PatchGet(q)
  <2>1. call[q].event \in Events
    BY <1>0, <1>4, CallTyped DEF PatchGet, Steps
  <2>2. QED  BY <1>0, <1>4, <2>1 DEF PatchGet, Goto, Finish, Live, LocalsOK
<1>5. CASE PatchValidate(q)
  <2>1. copy[q] \in EventRow /\ call[q].change \in Changes /\ pc[q] = "validate"
    BY <1>0, <1>5, CallTyped DEF PatchValidate, LocalsOK, Steps
  <2>2. Patched(copy[q], call[q].change).capacity = copy[q].capacity
    BY <2>1 DEF Patched, CapacityNeverPatched, EventRow
  <2>3. /\ call'[q] = call[q]
        /\ copy' = [copy EXCEPT ![q] = Patched(copy[q], call[q].change)]
    BY <1>0, <1>1, <1>5 DEF PatchValidate, Goto, Finish, LocalsOK
  <2>4. copy'[q].capacity = copy[q].capacity
    BY <1>0, <2>2, <2>3 DEF LocalsOK
  <2>5. QED  BY <1>0, <2>1, <2>3, <2>4, CallTyped DEF CapacityInv, Steps
<1>6. CASE PatchSave(q)
  BY <1>0, <1>1, <1>6 DEF PatchSave, Goto, Finish, Locals, LocalsOK
<1>7. ~(Enroll(q) \/ Cancel(q) \/ PatchReinsert(q) \/ Delete(q) \/ Crash(q))
  BY <1>0
     DEF Enroll, Cancel, Delete, EnrollLock, EnrollStart, EnrollExists, EnrollCount,
         EnrollInsert, CancelFind, CancelClaim, CancelProbe, CancelWrite, PatchReinsert,
         DeleteGet, DeleteCollect, DeleteRows, DeleteDrop, Crash, Goto, Finish, LocalsOK
<1>8. ASSUME NEW c \in Call, Receive(q, c)  PROVE FALSE
  <2>1. c.op \in {"enroll", "cancel", "patch", "delete"}
    BY DEF Call, SeatCall, PatchCall, DeleteCall
  <2>2. FirstStep[c.op] \notin Editing
    BY <2>1 DEF FirstStep
  <2>3. QED  BY <1>0, <1>8, <2>2 DEF Receive, LocalsOK
<1>9. QED  BY <1>2, <1>3, <1>4, <1>5, <1>6, <1>7, <1>8 DEF Next, Serve, Patch

(* An event keeps within a capacity that nobody changes: bookings respect  *)
(* it, and what else happens to them makes them fewer.                     *)
LEMMA WithinStep ==
    ASSUME BookingAssumption, BookingInv, BookingInv', CapacityInv, [Next]_vars,
           NEW e \in Events
    PROVE  Within(e, events[e])'
<1>0. /\ TypeOK /\ TypeOK' /\ RowsOK /\ LocalsOK /\ EnrollmentHasEvent
  BY TypeSplit DEF BookingInv
<1>1. CASE Active(e)' \ Active(e) # {}
  BY <1>1, InsertWithinCapacity
<1>2. CASE Active(e)' \subseteq Active(e)
  <2>1. IsFiniteSet(Active(e))
    <3>1. IsFiniteSet(enrollments) /\ Active(e) \subseteq enrollments
      BY <1>0 DEF TypeOK, Active
    <3>2. QED  BY <3>1, FS_Subset
  <2>2. /\ Cardinality(Active(e)) \in Nat /\ Cardinality(Active(e)') \in Nat
        /\ Cardinality(Active(e)') <= Cardinality(Active(e))
    BY <1>2, <2>1, FS_Subset, FS_CardinalityType
  <2>3. events'[e].capacity # Unlimited => events'[e].capacity \in Nat
    BY <1>0 DEF TypeOK, EventRow, Capacities
  <2>4. CASE events[e].state # "unborn"
    <3>1. events'[e].capacity = events[e].capacity
      BY <2>4, CapacityKept
    <3>2. events[e].capacity # Unlimited => Cardinality(Active(e)) <= events[e].capacity
      BY DEF CapacityInv, Within
    <3>3. QED  BY <2>2, <2>3, <3>1, <3>2 DEF Within
  <2>5. CASE events[e].state = "unborn"
    <3>1. Active(e) = {}
      BY <2>5 DEF Active, EnrollmentHasEvent, Live, BookingInv
    <3>2. Cardinality(Active(e)') = 0
      <4>1. Active(e)' = {}  BY <1>2, <3>1
      <4>2. QED  BY <4>1, FS_EmptySet
    <3>3. QED  BY <2>3, <3>2 DEF Within
  <2>6. QED  BY <2>4, <2>5
<1>3. QED  BY <1>1, <1>2

(* As long as no PATCH carries a capacity, no active booking ever exceeds  *)
(* the capacity of its event, whatever enrolls, cancels, other PATCHes and *)
(* DELETEs run at once, and however stale the rows that PATCHes save:      *)
(* "Don't let an update strand already-enrolled seekers beyond capacity"   *)
(* (validate of EventSerializer) fails only by the bodies it is there for. *)
THEOREM UnpatchedCapacityRespected ==
    ASSUME CapacityNeverPatched  PROVE Spec => []CapacityRespected
<1>1. Init => CapacityInv
  BY DEF Init, CapacityInv, Within, NoEvent, Editing, PatchSteps
<1>2. BookingInv /\ BookingInv' /\ CapacityInv /\ [Next]_vars => CapacityInv'
  <2>1. SUFFICES ASSUME BookingInv, BookingInv', CapacityInv, [Next]_vars  PROVE CapacityInv'
    OBVIOUS
  <2>2. \A e \in Events : Within(e, events[e])'
    BY <2>1, BookingAssumption, WithinStep
  <2>3. ASSUME NEW q \in Requests, pc'[q] \in Editing
        PROVE  /\ events'[call'[q].event].state # "unborn"
               /\ copy'[q].capacity = events'[call'[q].event].capacity
    BY <2>1, <2>3, BookingAssumption, CapacityNeverPatched, PatchCopyStep, CapacityKept
  <2>4. QED  BY <2>2, <2>3 DEF CapacityInv
<1>3. CapacityInv => CapacityRespected
  BY DEF CapacityInv, CapacityRespected
<1>4. QED  BY <1>1, <1>2, <1>3, BookingInvariant, PTL DEF Spec
=============================================================================
