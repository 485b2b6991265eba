------------------------------ MODULE Booking ------------------------------
(***************************************************************************)
(* Seats of events under concurrent HTTP requests: enroll and cancel       *)
(* (apps/enrollments/services.py) against the facilitator's create, PATCH  *)
(* and DELETE of the same events (apps/events/views.py, serializers.py).   *)
(*                                                                         *)
(* A request is a process.  Each of its SQL statements is one step, since  *)
(* under PostgreSQL's READ COMMITTED every statement reads a new snapshot  *)
(* and other requests run between two of them.  What a transaction wrote   *)
(* is seen only from its commit on, so its writes and its commit are one   *)
(* step.  A row lock is held from the statement that takes it to the end   *)
(* of the transaction: it is a function of the program counters and no     *)
(* variable of its own.                                                    *)
(***************************************************************************)
EXTENDS Integers, FiniteSets

CONSTANTS
    Events,          \* primary keys of event rows
    Seekers,         \* users who may enroll
    Requests,        \* concurrent server threads, each serving one request
    Posts,           \* bodies of POST /events/ that pass the serializer
    Changes,         \* bodies of PATCH /events/{id}/
    Operations,      \* the endpoints clients call
    Unlimited,       \* capacity NULL
    Keep,            \* a field absent from a PATCH body
    MaxTime,         \* bound on the clock
    MaxEnrollments   \* bound on enrollment rows ever inserted

VARIABLES
    now,             \* timezone.now()
    events,          \* events_event
    enrollments,     \* enrollments_enrollment
    nextId,          \* its primary key sequence
    call,            \* the request each thread is serving
    pc,              \* the statement each thread executes next
    copy,            \* the Event instance a thread has loaded
    ids,             \* primary keys of enrollments a thread has read
    answer           \* the last response sent to any client

vars == <<now, events, enrollments, nextId, call, pc, copy, ids, answer>>

Capacities == (Nat \ {0}) \cup {Unlimited}

(* The columns the rules look at.  "unborn" is a key not handed out yet.   *)
EventRow == [state: {"unborn", "live", "deleted"},
             capacity: Capacities, starts: Nat, ends: Nat]

EnrollmentRow == [id: Nat, event: Events, seeker: Seekers,
                  status: {"enrolled", "canceled"}]

SeatCall   == [op: {"enroll", "cancel"} \cap Operations,
               event: Events, seeker: Seekers]
PatchCall  == [op: {"patch"} \cap Operations, event: Events, change: Changes]
DeleteCall == [op: {"delete"} \cap Operations, event: Events]
NoCall     == [op |-> "none"]
Call       == SeatCall \cup PatchCall \cup DeleteCall

EnrollSteps == {"lock", "start", "exists", "count", "insert"}
CancelSteps == {"find", "claim", "write", "probe"}
PatchSteps  == {"get", "validate", "save", "reinsert"}
DeleteSteps == {"fetch", "collect", "rows", "drop"}
Steps == EnrollSteps \cup CancelSteps \cup PatchSteps \cup DeleteSteps

Codes == {"ok", "not_found", "event_already_started", "already_enrolled",
          "event_full", "not_enrolled", "validation_error", "server_error"}

ASSUME BookingAssumption ==
    /\ MaxTime \in Nat /\ MaxEnrollments \in Nat
    /\ Unlimited \notin Nat /\ Keep \notin Nat /\ Keep # Unlimited
    /\ Posts \subseteq {p \in EventRow : p.state = "live" /\ p.ends > p.starts}
    /\ Changes \subseteq [capacity: Capacities \cup {Keep},
                          starts: Nat \cup {Keep}, ends: Nat \cup {Keep}]

----------------------------------------------------------------------------
(* What the queries read                                                   *)

NoEvent == [state |-> "unborn", capacity |-> Unlimited, starts |-> 0, ends |-> 1]

Live(e) == events[e].state = "live"

(* event.enrollments.filter(status=ENROLLED), and the same for one seeker: *)
(* enroll's pre-check, cancel's filter and the partial unique index.       *)
Active(e) == {x \in enrollments : x.event = e /\ x.status = "enrolled"}
ActiveOfWrongStatus(e, s) ==
    {x \in enrollments : x.event = e /\ x.seeker = s /\ x.status = "canceled"}
ActiveOf(e, s) == {x \in Active(e) : x.seeker = s}

(* select_for_update on the event: held until enroll's transaction ends    *)
HoldsEventUnlocked(r, e) == FALSE
HoldsEvent(r, e) ==
    pc[r] \in EnrollSteps \ {"lock"} /\ call[r].event = e

EventFree(e) == \A r \in Requests : ~HoldsEvent(r, e)

(* Enrollment rows locked by cancel's select_for_update or by a DELETE     *)
HoldsRow(r, i) == pc[r] \in {"write", "drop"} /\ i \in ids[r]

RowFree(i) == \A r \in Requests : ~HoldsRow(r, i)

(* serializer.save: the fields of the body over the loaded instance        *)
Patched(row, change) ==
    [row EXCEPT !.capacity = IF change.capacity = Keep THEN @ ELSE change.capacity,
                !.starts   = IF change.starts = Keep THEN @ ELSE change.starts,
                !.ends     = IF change.ends = Keep THEN @ ELSE change.ends]

----------------------------------------------------------------------------
Goto(r, step) ==
    /\ pc' = [pc EXCEPT ![r] = step]
    /\ UNCHANGED <<call, answer>>

(* The view returns, or an exception leaves it: its locals are gone and    *)
(* atomic() has ended either way.                                          *)
Finish(r, code) ==
    /\ pc' = [pc EXCEPT ![r] = "idle"]
    /\ call' = [call EXCEPT ![r] = NoCall]
    /\ copy' = [copy EXCEPT ![r] = NoEvent]
    /\ ids' = [ids EXCEPT ![r] = {}]
    /\ answer' = code

Database == <<events, enrollments, nextId>>
Locals == <<copy, ids>>

Enrolling == {r \in Requests : pc[r] \in EnrollSteps}

FirstStep == [enroll |-> "lock", cancel |-> "find", patch |-> "get", delete |-> "fetch"]

(* A client's request reaches a thread that serves no other.               *)
Receive(r, c) ==
    /\ pc[r] = "idle"
    /\ c.op = "enroll" => nextId + Cardinality(Enrolling) <= MaxEnrollments
    /\ call' = [call EXCEPT ![r] = c]
    /\ pc' = [pc EXCEPT ![r] = FirstStep[c.op]]
    /\ UNCHANGED <<Database, now, Locals, answer>>

(* The server process dies: PostgreSQL rolls the transaction back and      *)
(* drops its locks, and the client gets no answer.                         *)
Crash(r) ==
    /\ pc[r] \in Steps
    /\ Finish(r, "none")
    /\ UNCHANGED <<Database, now>>

----------------------------------------------------------------------------
(* enroll                                                                  *)

EnrollLockPlainRead(r) ==
    /\ pc[r] = "lock"
    /\ IF Live(call[r].event)
       THEN /\ copy' = [copy EXCEPT ![r] = events[call[r].event]]
            /\ Goto(r, "start") /\ UNCHANGED ids
       ELSE Finish(r, "not_found")
    /\ UNCHANGED <<Database, now>>

EnrollLock(r) ==
    /\ pc[r] = "lock"
    /\ EventFree(call[r].event)
    /\ IF Live(call[r].event)
       THEN /\ copy' = [copy EXCEPT ![r] = events[call[r].event]]
            /\ Goto(r, "start") /\ UNCHANGED ids
       ELSE Finish(r, "not_found")
    /\ UNCHANGED <<Database, now>>

EnrollStart(r) ==
    /\ pc[r] = "start"
    /\ IF now >= copy[r].starts
       THEN Finish(r, "event_already_started")
       ELSE Goto(r, "exists") /\ UNCHANGED Locals
    /\ UNCHANGED <<Database, now>>

EnrollExists(r) ==
    /\ pc[r] = "exists"
    /\ IF ActiveOf(call[r].event, call[r].seeker) # {}
       THEN Finish(r, "already_enrolled")
       ELSE Goto(r, "count") /\ UNCHANGED Locals
    /\ UNCHANGED <<Database, now>>

Full(e, row) == row.capacity # Unlimited /\ Cardinality(Active(e)) >= row.capacity

EnrollCountLockingRows(r) ==
    /\ pc[r] = "count"
    /\ \A x \in Active(call[r].event) : RowFree(x.id)
    /\ IF Full(call[r].event, copy[r])
       THEN Finish(r, "event_full")
       ELSE Goto(r, "insert") /\ UNCHANGED Locals
    /\ UNCHANGED <<Database, now>>

EnrollCount(r) ==
    /\ pc[r] = "count"
    /\ IF Full(call[r].event, copy[r])
       THEN Finish(r, "event_full")
       ELSE Goto(r, "insert") /\ UNCHANGED Locals
    /\ UNCHANGED <<Database, now>>

(* INSERT under the partial unique index, and COMMIT.                      *)
EnrollInsert(r) ==
    /\ pc[r] = "insert"
    /\ IF ActiveOf(call[r].event, call[r].seeker) # {}
       THEN Finish(r, "already_enrolled") /\ UNCHANGED <<enrollments, nextId>>
       ELSE /\ enrollments' = enrollments \cup
                 {[id |-> nextId, event |-> call[r].event,
                   seeker |-> call[r].seeker, status |-> "enrolled"]}
            /\ nextId' = nextId + 1
            /\ Finish(r, "ok")
    /\ UNCHANGED <<events, now>>

----------------------------------------------------------------------------
(* cancel.  A SELECT ... FOR UPDATE picks its row from the statement's     *)
(* snapshot, waits for the lock, then looks at the row again: a row that   *)
(* stopped matching meanwhile is dropped from the result.                  *)

CancelFindAnyone(r) ==
    /\ pc[r] = "find"
    /\ LET found == Active(call[r].event)
       IN  /\ ids' = [ids EXCEPT ![r] = {x.id : x \in found}]
           /\ Goto(r, IF found = {} THEN "probe" ELSE "claim")
    /\ UNCHANGED <<Database, now, copy>>

CancelFind(r) ==
    /\ pc[r] = "find"
    /\ LET mine == ActiveOf(call[r].event, call[r].seeker)
       IN  /\ ids' = [ids EXCEPT ![r] = {x.id : x \in mine}]
           /\ Goto(r, IF mine = {} THEN "probe" ELSE "claim")
    /\ UNCHANGED <<Database, now, copy>>

CancelClaimUnchecked(r) ==
    /\ pc[r] = "claim"
    /\ \A i \in ids[r] : RowFree(i)
    /\ Goto(r, "write")
    /\ UNCHANGED <<Database, now, copy, ids>>

CancelClaim(r) ==
    /\ pc[r] = "claim"
    /\ \A i \in ids[r] : RowFree(i)
    /\ Goto(r, IF \E x \in Active(call[r].event) : x.id \in ids[r]
               THEN "write" ELSE "probe")
    /\ UNCHANGED <<Database, now, copy, ids>>

CancelProbe(r) ==
    /\ pc[r] = "probe"
    /\ Finish(r, IF Live(call[r].event) THEN "not_enrolled" ELSE "not_found")
    /\ UNCHANGED <<Database, now>>

CancelWriteUnknownStatus(r) ==
    /\ pc[r] = "write"
    /\ enrollments' = {IF x.id \in ids[r] THEN [x EXCEPT !.status = "cancelled"]
                       ELSE x : x \in enrollments}
    /\ Finish(r, "ok")
    /\ UNCHANGED <<events, nextId, now>>

CancelWrite(r) ==
    /\ pc[r] = "write"
    /\ enrollments' = {IF x.id \in ids[r] THEN [x EXCEPT !.status = "canceled"]
                       ELSE x : x \in enrollments}
    /\ Finish(r, "ok")
    /\ UNCHANGED <<events, nextId, now>>

----------------------------------------------------------------------------
(* The facilitator's writes.  PATCH and DELETE run outside a transaction:  *)
(* the instance loaded first is what they validate, save or collect.       *)

CreateEvent(e, row) ==
    /\ events[e].state = "unborn"
    /\ events' = [events EXCEPT ![e] = row]
    /\ UNCHANGED <<enrollments, nextId, now, call, pc, copy, ids, answer>>

PatchGet(r) ==
    /\ pc[r] = "get"
    /\ IF Live(call[r].event)
       THEN /\ copy' = [copy EXCEPT ![r] = events[call[r].event]]
            /\ Goto(r, "validate") /\ UNCHANGED ids
       ELSE Finish(r, "not_found")
    /\ UNCHANGED <<Database, now>>

Rejected(e, row) ==
    \/ row.ends <= row.starts
    \/ row.capacity # Unlimited /\ row.capacity < Cardinality(Active(e))

PatchValidate(r) ==
    /\ pc[r] = "validate"
    /\ LET row == Patched(copy[r], call[r].change)
       IN  IF Rejected(call[r].event, row)
           THEN Finish(r, "validation_error")
           ELSE /\ copy' = [copy EXCEPT ![r] = row]
                /\ Goto(r, "save") /\ UNCHANGED ids
    /\ UNCHANGED <<Database, now>>

(* What save() sends: every column of the loaded and patched instance.     *)
SavedFieldsOnly(r) == Patched(events[call[r].event], call[r].change)
Saved(r) == copy[r]

(* The UPDATE of save(), in a transaction of its own.  It matches no row   *)
(* when the event was deleted meanwhile.                                   *)
PatchSave(r) ==
    /\ pc[r] = "save"
    /\ EventFree(call[r].event)
    /\ IF ~Live(call[r].event)
       THEN Goto(r, "reinsert") /\ UNCHANGED <<events, Locals>>
       ELSE IF Saved(r).ends > Saved(r).starts
            THEN events' = [events EXCEPT ![call[r].event] = Saved(r)] /\ Finish(r, "ok")
            ELSE Finish(r, "server_error") /\ UNCHANGED events
    /\ UNCHANGED <<enrollments, nextId, now>>

(* Then save() INSERTs the event again, under the key it had: another      *)
(* PATCH that missed it too may have been faster, and the primary key      *)
(* refuses the second row.                                                 *)
PatchReinsert(r) ==
    /\ pc[r] = "reinsert"
    /\ IF ~Live(call[r].event) /\ Saved(r).ends > Saved(r).starts
       THEN events' = [events EXCEPT ![call[r].event] = Saved(r)] /\ Finish(r, "ok")
       ELSE Finish(r, "server_error") /\ UNCHANGED events
    /\ UNCHANGED <<enrollments, nextId, now>>

DeleteGet(r) ==
    /\ pc[r] = "fetch"
    /\ IF Live(call[r].event)
       THEN Goto(r, "collect") /\ UNCHANGED Locals
       ELSE Finish(r, "not_found")
    /\ UNCHANGED <<Database, now>>

(* The collector reads the rows that the cascade will take.                *)
DeleteCollect(r) ==
    /\ pc[r] = "collect"
    /\ ids' = [ids EXCEPT ![r] = {x.id : x \in {y \in enrollments : y.event = call[r].event}}]
    /\ Goto(r, "rows")
    /\ UNCHANGED <<Database, now, copy>>

DeleteRows(r) ==
    /\ pc[r] = "rows"
    /\ \A i \in ids[r] : RowFree(i)
    /\ Goto(r, "drop")
    /\ UNCHANGED <<Database, now, copy, ids>>

(* The event row goes and the deferred foreign key is checked at COMMIT:   *)
(* an enrollment the collector never saw rolls everything back.            *)
DeleteDropNoForeignKey(r) ==
    /\ pc[r] = "drop"
    /\ EventFree(call[r].event)
    /\ enrollments' = {x \in enrollments : x.id \notin ids[r]}
    /\ events' = [events EXCEPT ![call[r].event].state = "deleted"]
    /\ Finish(r, "ok")
    /\ UNCHANGED <<nextId, now>>

DeleteDrop(r) ==
    /\ pc[r] = "drop"
    /\ EventFree(call[r].event)
    /\ IF \E x \in enrollments : x.event = call[r].event /\ x.id \notin ids[r]
       THEN Finish(r, "server_error") /\ UNCHANGED <<events, enrollments>>
       ELSE /\ enrollments' = {x \in enrollments : x.id \notin ids[r]}
            /\ events' = [events EXCEPT ![call[r].event].state = "deleted"]
            /\ Finish(r, "ok")
    /\ UNCHANGED <<nextId, now>>

----------------------------------------------------------------------------
Tick ==
    /\ now < MaxTime
    /\ now' = now + 1
    /\ UNCHANGED <<Database, call, pc, copy, ids, answer>>

Init ==
    /\ now = 0
    /\ events = [e \in Events |-> NoEvent]
    /\ enrollments = {}
    /\ nextId = 1
    /\ call = [r \in Requests |-> NoCall]
    /\ pc = [r \in Requests |-> "idle"]
    /\ copy = [r \in Requests |-> NoEvent]
    /\ ids = [r \in Requests |-> {}]
    /\ answer = "none"

Enroll(r) ==
    \/ EnrollLock(r) \/ EnrollStart(r) \/ EnrollExists(r)
    \/ EnrollCount(r) \/ EnrollInsert(r)
Cancel(r) == CancelFind(r) \/ CancelClaim(r) \/ CancelProbe(r) \/ CancelWrite(r)
Patch(r)  == PatchGet(r) \/ PatchValidate(r) \/ PatchSave(r) \/ PatchReinsert(r)
Delete(r) == DeleteGet(r) \/ DeleteCollect(r) \/ DeleteRows(r) \/ DeleteDrop(r)

Serve(r) == Enroll(r) \/ Cancel(r) \/ Patch(r) \/ Delete(r)

Next ==
    \/ \E r \in Requests : Serve(r) \/ Crash(r)
    \/ \E r \in Requests, c \in Call : Receive(r, c)
    \/ \E e \in Events, row \in Posts : CreateEvent(e, row)
    \/ Tick

Spec == Init /\ [][Next]_vars

(* Every statement a server process has begun is executed.  A statement    *)
(* that waits for a row lock is enabled only while nobody holds it, but    *)
(* PostgreSQL queues the waiters and grants a lock that is released again  *)
(* and again to each of them: strong fairness.  For the other statements,  *)
(* which stay enabled, it is the weak fairness of a scheduled thread.      *)
Fairness == \A r \in Requests : SF_vars(Serve(r))

FairSpec == Spec /\ Fairness

----------------------------------------------------------------------------
(* The types of the tables, of each thread's locals and of its answer.     *)
TypeOK ==
    /\ now \in Nat
    /\ events \in [Events -> EventRow]
    /\ enrollments \subseteq EnrollmentRow
    /\ IsFiniteSet(enrollments)
    /\ nextId \in Nat
    /\ call \in [Requests -> Call \cup {NoCall}]
    /\ pc \in [Requests -> Steps \cup {"idle"}]
    /\ copy \in [Requests -> EventRow]
    /\ ids \in [Requests -> SUBSET Nat]
    /\ answer \in Codes \cup {"none"}
    /\ \A r \in Requests :
          /\ pc[r] \in EnrollSteps => call[r].op = "enroll"
          /\ pc[r] \in CancelSteps => call[r].op = "cancel"
          /\ pc[r] \in PatchSteps => call[r].op = "patch"
          /\ pc[r] \in DeleteSteps => call[r].op = "delete"

Within(e, row) == row.capacity # Unlimited => Cardinality(Active(e)) <= row.capacity

(* Whatever cancels, PATCHes and DELETEs run beside it, a booking never    *)
(* takes a seat that is not there: when enroll's INSERT adds an active row *)
(* the event is within the capacity its row says at that moment            *)
(* (services.py: the lock is held from the count to the commit).           *)
EnrollNeverOversells ==
    [][\A e \in Events : (Active(e)' \ Active(e) # {}) => Within(e, events[e])']_vars

(* A seeker is turned away as event_full only from an event whose row and  *)
(* bookings, at that moment, leave no seat: no PATCH can have raised the   *)
(* capacity between enroll's read of the event and its count.              *)
FullMeansFull ==
    [][\A r \in Requests :
         (pc[r] \in EnrollSteps /\ pc'[r] = "idle" /\ answer' = "event_full")
             => Full(call[r].event, events[call[r].event])]_vars

(* A seeker holds at most one active enrollment in an event, however many  *)
(* enrolls and cancels of theirs run at once (the pre-check under the      *)
(* lock, and the partial unique index behind it).                          *)
OneActivePerSeeker ==
    \A x, y \in enrollments :
        (x.status = "enrolled" /\ y.status = "enrolled"
            /\ x.event = y.event /\ x.seeker = y.seeker) => x = y

(* No enrollment outlives its event, even one booked while a DELETE of     *)
(* the event was under way, after it had collected the rows to cascade to. *)
EnrollmentHasEvent == \A x \in enrollments : Live(x.event)

(* A cancel answered with success freed exactly one seat, the caller's     *)
(* own: of two cancels of one enrollment, only one succeeds.               *)
CancelFreesOneSeat ==
    [][\A r \in Requests, e \in Events :
         (pc[r] \in CancelSteps /\ call[r].event = e /\ pc'[r] = "idle" /\ answer' = "ok")
            => \E x \in ActiveOf(e, call[r].seeker) : Active(e)' = Active(e) \ {x}]_vars

(* Concurrent PATCHes of different fields never send a row that the CHECK  *)
(* event_ends_after_starts refuses, in neither statement of save(): what   *)
(* is sent is the whole row that validate() saw, not its changes.          *)
PatchPassesCheck ==
    \A r \in Requests : pc[r] \in {"save", "reinsert"} => Saved(r).ends > Saved(r).starts

(* No active booking exceeds the capacity of its event: what               *)
(* EventSerializer.validate sets out to keep true when a PATCH lowers it.  *)
CapacityRespected == \A e \in Events : Live(e) => Within(e, events[e])

(* No request waits for ever: neither on a lock that others keep taking    *)
(* nor in a cycle of requests that wait on each other's rows.              *)
EveryRequestEnds == \A r \in Requests : pc[r] \in Steps ~> pc[r] \notin Steps

----------------------------------------------------------------------------
(* Why it works.  These hold between any two statements of any requests.   *)

(* One request at a time is past its select_for_update of an event.        *)
LockExclusive ==
    \A r, q \in Requests :
        (pc[r] \in EnrollSteps \ {"lock"} /\ pc[q] \in EnrollSteps \ {"lock"}
            /\ call[r].event = call[q].event) => r = q

(* The instance that request has loaded is still the row: no PATCH and no  *)
(* DELETE of the event has committed since.                                *)
LockedCopyFresh ==
    \A r \in Requests :
        pc[r] \in EnrollSteps \ {"lock"} =>
            copy[r] = events[call[r].event] /\ Live(call[r].event)

(* What it found in its own statements stays true up to the INSERT.  So    *)
(* the unique index is a backstop only: enroll's IntegrityError handler    *)
(* never runs.                                                             *)
ChecksHold ==
    \A r \in Requests :
        /\ pc[r] \in {"count", "insert"} =>
               ActiveOf(call[r].event, call[r].seeker) = {}
        /\ pc[r] = "insert" => ~Full(call[r].event, copy[r])

(* An instance a PATCH is about to save says that the event exists.        *)
PatchedLive ==
    \A r \in Requests : pc[r] \in PatchSteps \ {"get"} => copy[r].state = "live"

(* The primary key of enrollments_enrollment.                              *)
KeysUnique ==
    /\ \A x \in enrollments : x.id < nextId
    /\ \A x, y \in enrollments : x.id = y.id => x = y

(* The keys a cancel has found are those of one row, its seeker's; the     *)
(* keys a DELETE has collected are of rows of its event.  A key is never   *)
(* handed out again, so this stays true of whatever the others write.      *)
ReadRows ==
    \A r \in Requests :
        /\ pc[r] \in {"claim", "write", "rows", "drop"} =>
               /\ \A i \in ids[r] : i < nextId
               /\ \A x \in enrollments : x.id \in ids[r] => x.event = call[r].event
        /\ pc[r] \in {"claim", "write"} =>
               /\ \A i, j \in ids[r] : i = j
               /\ \A x \in enrollments : x.id \in ids[r] => x.seeker = call[r].seeker

(* A row is locked by one request at a time.                               *)
RowLockExclusive ==
    \A r, q \in Requests : \A i \in ids[r] : HoldsRow(r, i) /\ HoldsRow(q, i) => r = q

(* The row a cancel has locked is still there and still active: whoever    *)
(* else wants to cancel or to delete it waits.                             *)
ClaimedRow ==
    \A r \in Requests :
        pc[r] = "write" => \E x \in ActiveOf(call[r].event, call[r].seeker) : x.id \in ids[r]

(* The pre-checks and the locks keep the tables sound: the inductive       *)
(* invariant of BookingProofs.                                             *)
BookingInv ==
    /\ TypeOK
    /\ LockExclusive /\ LockedCopyFresh /\ ChecksHold /\ PatchedLive /\ PatchPassesCheck
    /\ OneActivePerSeeker /\ EnrollmentHasEvent
    /\ KeysUnique /\ ReadRows /\ RowLockExclusive /\ ClaimedRow
=============================================================================
