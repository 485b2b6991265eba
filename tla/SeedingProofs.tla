--------------------------- MODULE SeedingProofs ---------------------------
(***************************************************************************)
(* Seeding, proved for any number of containers and clients, any script of *)
(* events with distinct titles and any script of enrollments.  SeedInv is  *)
(* inductive; that the command makes no twins of its own and is idempotent *)
(* follows.                                                                *)
(***************************************************************************)
EXTENDS Seeding, SequenceTheorems, TLAPS

----------------------------------------------------------------------------
(* Rows written over rows                                                  *)

Unique(rows) == \A x, y \in rows : x.id = y.id => x = y

LEMMA InOverlay ==
    ASSUME NEW rows, NEW over, NEW z
    PROVE  z \in Overlay(rows, over) <=>
             z \in over \/ (z \in rows /\ \A w \in over : w.id # z.id)
BY DEF Overlay, IdsOf

LEMMA OverlayIds ==
    ASSUME NEW rows, NEW over, NEW i
    PROVE  i \in IdsOf(Overlay(rows, over)) <=> i \in IdsOf(rows) \/ i \in IdsOf(over)
BY DEF Overlay, IdsOf

LEMMA OverlayUnique ==
    ASSUME NEW rows, NEW over, Unique(rows), Unique(over)
    PROVE  Unique(Overlay(rows, over))
BY InOverlay DEF Unique

LEMMA OverlayNothing ==
    ASSUME NEW rows  PROVE Overlay(rows, {}) = rows
BY DEF Overlay, IdsOf

(* Writing one more row over what is written.                              *)
LEMMA OverlayMore ==
    ASSUME NEW rows, NEW over, NEW x, NEW z
    PROVE  z \in Overlay(rows, Overlay(over, {x})) <=>
             z = x \/ (z \in Overlay(rows, over) /\ z.id # x.id)
<1>1. \A w : w \in Overlay(over, {x}) <=> w = x \/ (w \in over /\ w.id # x.id)
  BY InOverlay
<1>2. z \in Overlay(rows, Overlay(over, {x})) <=>
        \/ z \in Overlay(over, {x})
        \/ z \in rows /\ \A w \in Overlay(over, {x}) : w.id # z.id
  BY InOverlay
<1>3. z \in Overlay(rows, over) <=>
        z \in over \/ (z \in rows /\ \A w \in over : w.id # z.id)
  BY InOverlay
<1>4. QED  BY <1>1, <1>2, <1>3

(* Writing rows that are there already changes nothing.                    *)
LEMMA OverlaySame ==
    ASSUME NEW rows, NEW over, Unique(rows), over \subseteq rows
    PROVE  Overlay(rows, over) = rows
<1>1. \A z : z \in Overlay(rows, over) <=> z \in rows
  BY InOverlay DEF Unique
<1>2. QED  BY <1>1

----------------------------------------------------------------------------
(* What a step does                                                        *)

Stays(t) == /\ pc'[t] = pc[t] /\ at'[t] = at[t]
            /\ found'[t] = found[t] /\ wrote'[t] = wrote[t]

LEMMA EndDoes ==
    ASSUME TypeOK, NEW s \in Seeds, End(s)
    PROVE  /\ pc'[s] = "idle" /\ at'[s] = 1 /\ found'[s] = <<>> /\ wrote'[s] = Nothing
           /\ \A t \in Seeds \ {s} : Stays(t)
BY DEF End, TypeOK, Stays

LEMMA AdvanceDoes ==
    ASSUME TypeOK, NEW s \in Seeds, NEW script, NEW next, Len(script) \in Nat,
           Advance(s, script, next), at[s] <= Len(script)
    PROVE  /\ \/ at[s] < Len(script) /\ at'[s] = at[s] + 1 /\ pc'[s] = pc[s]
              \/ at[s] = Len(script) /\ at'[s] = 1 /\ pc'[s] = next
           /\ \A t \in Seeds \ {s} : pc'[t] = pc[t] /\ at'[t] = at[t]
           /\ at' \in [Seeds -> Nat \ {0}]
           /\ pc' = pc \/ pc' = [pc EXCEPT ![s] = next]
<1>1. at[s] \in Nat /\ at \in [Seeds -> Nat \ {0}] /\ pc = [t \in Seeds |-> pc[t]]
  BY DEF TypeOK
<1>2. CASE at[s] < Len(script)
  BY <1>1, <1>2 DEF Advance
<1>3. CASE ~(at[s] < Len(script))
  BY <1>1, <1>3 DEF Advance
<1>4. QED  BY <1>2, <1>3

LEMMA SpecsTyped ==
    ASSUME SeedAssumption
    PROVE  /\ Len(Specs) \in Nat /\ Len(Bookings) \in Nat
           /\ Len(Specs) >= 1 /\ Len(Bookings) >= 1
           /\ \A i \in 1 .. Len(Specs) : /\ Specs[i].title \in Titles
                                         /\ Specs[i].capacity \in Capacities
           /\ \A k \in 1 .. Len(Bookings) : /\ Bookings[k].spec \in 1 .. Len(Specs)
                                            /\ Bookings[k].seeker \in Seekers
<1>1. /\ Specs \in Seq([title: Titles, capacity: Capacities])
      /\ Bookings \in Seq([spec: 1 .. Len(Specs), seeker: Seekers])
      /\ Specs # <<>> /\ Bookings # <<>>
  BY DEF SeedAssumption
<1>2. Len(Specs) \in Nat /\ Len(Bookings) \in Nat /\ Len(Specs) >= 1 /\ Len(Bookings) >= 1
  BY <1>1
<1>3. /\ \A i \in 1 .. Len(Specs) : Specs[i] \in [title: Titles, capacity: Capacities]
      /\ \A k \in 1 .. Len(Bookings) : Bookings[k] \in [spec: 1 .. Len(Specs), seeker: Seekers]
  BY <1>1, ElementOfSeq
<1>4. QED  BY <1>2, <1>3

(* update_or_create writes one row of the title the script names: a new    *)
(* one, or the only one there is over again.                               *)
Written(s, x) ==
    /\ x \in EventRow
    /\ x.title = Specs[at[s]].title /\ x.capacity = Specs[at[s]].capacity
    /\ \/ x.id = nextId /\ nextId' = nextId + 1 /\ x.by = "seed" /\ Matching(s) = {}
       \/ /\ nextId' = nextId
          /\ \E m \in EventRow : /\ Matching(s) = {m}
                                 /\ x.id = m.id /\ x.by = m.by /\ x.title = m.title
                                 /\ x.capacity = m.capacity => x = m

LEMMA PutDoes ==
    ASSUME SeedAssumption, TypeOK, Positions, NEW s \in Seeds, pc[s] = "event",
           NEW x \in EventRow, Put(s, x)
    PROVE  /\ found'[s] = Append(found[s], x.id)
           /\ wrote'[s].rows = Overlay(wrote[s].rows, {x})
           /\ wrote'[s].enrolled = wrote[s].enrolled
           /\ \A t \in Seeds \ {s} : Stays(t)
           /\ \/ at[s] < Len(Specs) /\ at'[s] = at[s] + 1 /\ pc'[s] = "event"
              \/ at[s] = Len(Specs) /\ at'[s] = 1 /\ pc'[s] = "booking"
           /\ at' \in [Seeds -> Nat \ {0}]
           /\ pc' \in [Seeds -> {"idle", "user", "event", "booking", "commit"}]
           /\ found' \in [Seeds -> Seq(Keys)]
           /\ wrote' \in [Seeds -> [rows: SUBSET EventRow, enrolled: SUBSET Enrollment]]
<1>1. at[s] <= Len(Specs) /\ Len(Specs) \in Nat
  BY SpecsTyped DEF Positions
<1>2. Advance(s, Specs, "booking")
  BY DEF Put
<1>3. /\ \/ at[s] < Len(Specs) /\ at'[s] = at[s] + 1 /\ pc'[s] = "event"
         \/ at[s] = Len(Specs) /\ at'[s] = 1 /\ pc'[s] = "booking"
      /\ \A t \in Seeds \ {s} : pc'[t] = pc[t] /\ at'[t] = at[t]
      /\ at' \in [Seeds -> Nat \ {0}]
      /\ pc' = pc \/ pc' = [pc EXCEPT ![s] = "booking"]
  BY <1>1, <1>2, AdvanceDoes
<1>4. pc' \in [Seeds -> {"idle", "user", "event", "booking", "commit"}]
  <2>1. pc \in [Seeds -> {"idle", "user", "event", "booking", "commit"}]
    BY DEF TypeOK
  <2>2. QED  BY <1>3, <2>1
<1>5. /\ found'[s] = Append(found[s], x.id)
      /\ \A t \in Seeds \ {s} : found'[t] = found[t]
      /\ found' \in [Seeds -> Seq(Keys)]
  <2>1. Append(found[s], x.id) \in Seq(Keys)
    BY DEF TypeOK, EventRow
  <2>2. QED  BY <2>1 DEF Put, TypeOK
<1>6. /\ wrote'[s].rows = Overlay(wrote[s].rows, {x})
      /\ wrote'[s].enrolled = wrote[s].enrolled
      /\ \A t \in Seeds \ {s} : wrote'[t] = wrote[t]
      /\ wrote' \in [Seeds -> [rows: SUBSET EventRow, enrolled: SUBSET Enrollment]]
  <2>1. Overlay(wrote[s].rows, {x}) \in SUBSET EventRow
    BY DEF TypeOK, Overlay
  <2>2. wrote' = [wrote EXCEPT ![s].rows = Overlay(wrote[s].rows, {x})]
    BY DEF Put
  <2>3. wrote \in [Seeds -> [rows: SUBSET EventRow, enrolled: SUBSET Enrollment]]
    BY DEF TypeOK
  <2>4. QED  BY <2>1, <2>2, <2>3
<1>7. QED  BY <1>3, <1>4, <1>5, <1>6 DEF Stays

LEMMA EventDoes ==
    ASSUME SeedAssumption, TypeOK, Positions, NEW s \in Seeds, SeedEvent(s)
    PROVE  /\ pc[s] = "event" /\ UNCHANGED <<events, enrolled, starts, known, history>>
           /\ \/ SeedConfused(s)
              \/ \E x \in EventRow : Put(s, x) /\ Written(s, x)
<1>1. pc[s] = "event" /\ UNCHANGED <<events, enrolled, starts, known, history>>
  BY DEF SeedEvent
<1>2. at[s] \in 1 .. Len(Specs)
  BY <1>1, SpecsTyped DEF Positions, TypeOK
<1>3. CASE SeedCreate(s)
  <2> DEFINE x == [id |-> nextId, title |-> Specs[at[s]].title,
                   capacity |-> Specs[at[s]].capacity, by |-> "seed"]
  <2>1. x \in EventRow
    <3>1. nextId \in Keys  BY <1>3 DEF SeedCreate, TypeOK, Keys, SeedAssumption
    <3>2. QED  BY <1>2, <3>1, SpecsTyped DEF EventRow
  <2>2. Put(s, x) /\ Matching(s) = {} /\ nextId' = nextId + 1
    BY <1>3 DEF SeedCreate
  <2>3. QED  BY <1>1, <2>1, <2>2 DEF Written
<1>4. CASE SeedUpdate(s)
  <2>1. PICK m \in Matching(s) :
          Matching(s) = {m} /\ Put(s, [m EXCEPT !.capacity = Specs[at[s]].capacity])
    BY <1>4 DEF SeedUpdate
  <2>2. m \in EventRow /\ m.title = Specs[at[s]].title
    BY DEF Matching, Overlay, TypeOK
  <2> DEFINE x == [m EXCEPT !.capacity = Specs[at[s]].capacity]
  <2>3. /\ x \in EventRow /\ x.capacity = Specs[at[s]].capacity
        /\ x.id = m.id /\ x.by = m.by /\ x.title = m.title
        /\ x.capacity = m.capacity => x = m
    BY <1>2, <2>2, SpecsTyped DEF EventRow
  <2>4. Put(s, x) /\ nextId' = nextId
    BY <1>4, <2>1 DEF SeedUpdate
  <2> HIDE DEF x
  <2>5. QED  BY <1>1, <2>1, <2>2, <2>3, <2>4 DEF Written
<1>5. QED  BY <1>1, <1>3, <1>4 DEF SeedEvent

(* get_or_create adds the enrollment the script names, unless it is there. *)
Enrolls(s) == [event |-> found[s][Bookings[at[s]].spec], seeker |-> Bookings[at[s]].seeker]

LEMMA BookingDoes ==
    ASSUME SeedAssumption, TypeOK, Positions, NEW s \in Seeds, SeedBooking(s)
    PROVE  /\ pc[s] = "booking"
           /\ UNCHANGED <<tables, found, starts, known, history>>
           /\ at[s] \in 1 .. Len(Bookings)
           /\ Bookings[at[s]].spec \in 1 .. Len(found[s])
           /\ Enrolls(s) \in Enrollment
           /\ wrote'[s].rows = wrote[s].rows
           /\ wrote'[s].enrolled = IF Enrolls(s) \in enrolled THEN wrote[s].enrolled
                                   ELSE wrote[s].enrolled \cup {Enrolls(s)}
           /\ \A t \in Seeds \ {s} : Stays(t)
           /\ \/ at[s] < Len(Bookings) /\ at'[s] = at[s] + 1 /\ pc'[s] = "booking"
              \/ at[s] = Len(Bookings) /\ at'[s] = 1 /\ pc'[s] = "commit"
           /\ at' \in [Seeds -> Nat \ {0}]
           /\ pc' \in [Seeds -> {"idle", "user", "event", "booking", "commit"}]
           /\ wrote' \in [Seeds -> [rows: SUBSET EventRow, enrolled: SUBSET Enrollment]]
<1>1. pc[s] = "booking" /\ UNCHANGED <<tables, found, starts, known, history>>
  BY DEF SeedBooking
<1>2. at[s] \in 1 .. Len(Bookings) /\ Len(found[s]) = Len(Specs)
  BY <1>1, SpecsTyped DEF Positions, TypeOK
<1>3. Bookings[at[s]].spec \in 1 .. Len(found[s])
  BY <1>2, SpecsTyped
<1>4. Enrolls(s) \in Enrollment
  <2>1. found[s][Bookings[at[s]].spec] \in Keys
    BY <1>3 DEF TypeOK
  <2>2. QED  BY <1>2, <2>1, SpecsTyped DEF Enrolls, Enrollment
<1>5. /\ \/ at[s] < Len(Bookings) /\ at'[s] = at[s] + 1 /\ pc'[s] = "booking"
         \/ at[s] = Len(Bookings) /\ at'[s] = 1 /\ pc'[s] = "commit"
      /\ \A t \in Seeds \ {s} : pc'[t] = pc[t] /\ at'[t] = at[t]
      /\ at' \in [Seeds -> Nat \ {0}]
      /\ pc' = pc \/ pc' = [pc EXCEPT ![s] = "commit"]
  <2>1. Advance(s, Bookings, "commit")  BY DEF SeedBooking
  <2>2. QED  BY <1>1, <1>2, <2>1, SpecsTyped, AdvanceDoes
<1>6. pc' \in [Seeds -> {"idle", "user", "event", "booking", "commit"}]
  <2>1. pc \in [Seeds -> {"idle", "user", "event", "booking", "commit"}]
    BY DEF TypeOK
  <2>2. QED  BY <1>5, <2>1
<1> DEFINE after == IF Enrolls(s) \in enrolled THEN wrote[s].enrolled
                    ELSE wrote[s].enrolled \cup {Enrolls(s)}
<1>7. after \in SUBSET Enrollment
  BY <1>4 DEF TypeOK
<1>8. wrote' = [wrote EXCEPT ![s].enrolled = after]
  BY DEF SeedBooking, Enrolls
<1> HIDE DEF after
<1>9. /\ wrote'[s].rows = wrote[s].rows /\ wrote'[s].enrolled = after
      /\ \A t \in Seeds \ {s} : wrote'[t] = wrote[t]
      /\ wrote' \in [Seeds -> [rows: SUBSET EventRow, enrolled: SUBSET Enrollment]]
  BY <1>7, <1>8 DEF TypeOK
<1>10. QED  BY <1>1, <1>2, <1>3, <1>4, <1>5, <1>6, <1>9 DEF after, Stays

(* A client inserts, changes or deletes one event, none of which a command *)
(* has written, or one enrollment of an event that exists.                 *)
ClientCreates(row) ==
    /\ row.id = nextId /\ nextId' = nextId + 1 /\ known
    /\ Inside # {} => row.title \in titled'
    /\ events' = events \cup {row} /\ enrolled' = enrolled

ClientChanges(x, row) ==
    /\ ~Locked(x.id) /\ row.id = x.id
    /\ Inside # {} => row.title = x.title \/ row.title \in titled'
    /\ events' = (events \ {x}) \cup {row} /\ enrolled' = enrolled /\ nextId' = nextId

ClientDeletes(x) ==
    /\ ~Locked(x.id)
    /\ events' = events \ {x} /\ enrolled' = enrolled \ Active(x.id) /\ nextId' = nextId

ClientEnrolls ==
    /\ events' = events /\ nextId' = nextId /\ enrolled' \subseteq Enrollment
    /\ \A y \in enrolled' : y \in enrolled \/ y.event \in IdsOf(events)

LEMMA ClientDoes ==
    ASSUME SeedAssumption, TypeOK, Client
    PROVE  /\ UNCHANGED <<pc, at, found, wrote, starts, known>>
           /\ touched' = {"since", "during"}
           /\ titled' \subseteq Titles /\ (Inside # {} => titled \subseteq titled')
           /\ \/ \E row \in EventRow : ClientCreates(row)
              \/ \E x \in events, row \in EventRow : ClientChanges(x, row)
              \/ \E x \in events : ClientDeletes(x)
              \/ ClientEnrolls
<1>1. /\ UNCHANGED <<pc, at, found, wrote, starts, known>>
      /\ touched' = {"since", "during"}
      /\ titled' \subseteq Titles /\ (Inside # {} => titled \subseteq titled')
  BY DEF Client, ByClient, CreateEvent, PatchEvent, DeleteEvent, Enroll, Cancel, TypeOK
<1>2. ASSUME NEW title \in Titles, NEW capacity \in Capacities, CreateEvent(title, capacity)
      PROVE  \E row \in EventRow : ClientCreates(row)
  <2> DEFINE row == [id |-> nextId, title |-> title, capacity |-> capacity, by |-> "client"]
  <2>1. nextId \in Keys
    BY <1>2 DEF CreateEvent, TypeOK, Keys, SeedAssumption
  <2>2. row \in EventRow
    BY <2>1 DEF EventRow
  <2>3. ClientCreates(row)
    BY <1>2 DEF CreateEvent, ClientCreates, ByClient
  <2>4. QED  BY <2>2, <2>3
<1>3. ASSUME NEW x \in events, NEW title \in Titles, NEW capacity \in Capacities,
             PatchEvent(x, title, capacity)
      PROVE  \E row \in EventRow : ClientChanges(x, row)
  <2> DEFINE row == [x EXCEPT !.title = title, !.capacity = capacity]
  <2>1. x \in EventRow  BY DEF TypeOK
  <2>2. row \in EventRow /\ row.id = x.id /\ row.title = title
    BY <2>1 DEF EventRow
  <2>3. ClientChanges(x, row)
    BY <1>3, <2>2 DEF PatchEvent, ClientChanges, ByClient
  <2>4. QED  BY <2>2, <2>3
<1>4. ASSUME NEW x \in events, DeleteEvent(x)  PROVE ClientDeletes(x)
  BY <1>4 DEF DeleteEvent, ClientDeletes
<1>5. ASSUME NEW x \in events, NEW seeker \in Seekers, Enroll(x, seeker)  PROVE ClientEnrolls
  <2>1. x \in EventRow  BY DEF TypeOK
  <2>2. [event |-> x.id, seeker |-> seeker] \in Enrollment
    BY <2>1 DEF EventRow, Enrollment
  <2>3. x.id \in IdsOf(events)  BY DEF IdsOf
  <2>4. QED  BY <1>5, <2>2, <2>3 DEF Enroll, ClientEnrolls, TypeOK
<1>6. ASSUME NEW y \in enrolled, Cancel(y)  PROVE ClientEnrolls
  BY <1>6 DEF Cancel, ClientEnrolls, TypeOK
<1>7. QED  BY <1>1, <1>2, <1>3, <1>4, <1>5, <1>6 DEF Client

LEMMA CommitDoes ==
    ASSUME TypeOK, NEW s \in Seeds, SeedCommit(s)
    PROVE  /\ pc[s] = "commit" /\ nextId' = nextId
           /\ events' = Overlay(events, wrote[s].rows)
           /\ enrolled' = enrolled \cup wrote[s].enrolled
           /\ known' = TRUE /\ touched' = IF "during" \in touched THEN {"since"} ELSE {}
           /\ titled' = titled /\ End(s)
BY DEF SeedCommit

(* The tables change by a commit, by a client or not at all.               *)
LEMMA OtherSteps ==
    ASSUME TypeOK, NEW s \in Seeds, Start(s) \/ Crash(s) \/ SeedUser(s)
    PROVE  /\ UNCHANGED <<tables, known>>
           /\ \A t \in Seeds \ {s} : Stays(t)
           /\ \/ /\ pc[s] = "idle" /\ pc'[s] = "user" /\ UNCHANGED history
                 /\ UNCHANGED <<at, found, wrote>>
              \/ /\ pc[s] = "user" /\ pc'[s] = "event" /\ Inside \ {s} = {}
                 /\ touched' = touched \ {"during"} /\ titled' = {}
                 /\ UNCHANGED <<at, found, wrote>>
              \/ End(s) /\ UNCHANGED history
BY EndDoes DEF Start, Crash, SeedUser, TypeOK, Stays, history

----------------------------------------------------------------------------
(* The invariant, conjunct by conjunct                                     *)

LEMMA TypeStep ==
    ASSUME SeedAssumption, TypeOK, Positions, [Next]_vars  PROVE TypeOK'
<1> DEFINE PCs == [Seeds -> {"idle", "user", "event", "booking", "commit"}]
           Wrotes == [Seeds -> [rows: SUBSET EventRow, enrolled: SUBSET Enrollment]]
<1>0. Nothing \in [rows: SUBSET EventRow, enrolled: SUBSET Enrollment]
  BY DEF Nothing
<1>1. ASSUME NEW s \in Seeds, End(s)
      PROVE  /\ pc' \in PCs /\ at' \in [Seeds -> Nat \ {0}] /\ found' \in [Seeds -> Seq(Keys)]
             /\ wrote' \in Wrotes
  <2>1. <<>> \in Seq(Keys)  OBVIOUS
  <2>2. QED  BY <1>0, <1>1, <2>1 DEF End, TypeOK
<1>2. ASSUME NEW s \in Seeds, Start(s)  PROVE TypeOK'
  BY <1>2 DEF Start, TypeOK, tables, history
<1>3. ASSUME NEW s \in Seeds, Crash(s)  PROVE TypeOK'
  BY <1>1, <1>3 DEF Crash, TypeOK, tables, history
<1>4. ASSUME NEW s \in Seeds, SeedUser(s)  PROVE TypeOK'
  BY <1>4 DEF SeedUser, TypeOK, tables
<1>5. ASSUME NEW s \in Seeds, SeedEvent(s)  PROVE TypeOK'
  <2>1. pc[s] = "event" /\ UNCHANGED <<events, enrolled, starts, known, history>>
    BY <1>5 DEF SeedEvent
  <2>2. CASE SeedConfused(s)
    BY <1>1, <2>1, <2>2 DEF SeedConfused, TypeOK, history
  <2>3. ASSUME NEW x \in EventRow, Put(s, x), Written(s, x)  PROVE TypeOK'
    <3>1. nextId' \in 1 .. MaxEvents + 1
      BY <2>3 DEF Written, TypeOK, EventRow, Keys, SeedAssumption
    <3>2. /\ at' \in [Seeds -> Nat \ {0}] /\ pc' \in PCs
          /\ found' \in [Seeds -> Seq(Keys)] /\ wrote' \in Wrotes
      BY <2>1, <2>3, PutDoes
    <3>3. QED  BY <2>1, <2>3, <3>1, <3>2 DEF TypeOK, history
  <2>4. QED  BY <1>5, <2>2, <2>3, EventDoes
<1>6. ASSUME NEW s \in Seeds, SeedBooking(s)  PROVE TypeOK'
  <2>1. /\ UNCHANGED <<tables, found, starts, known, history>>
        /\ at' \in [Seeds -> Nat \ {0}] /\ pc' \in PCs /\ wrote' \in Wrotes
    BY <1>6, BookingDoes
  <2>2. QED  BY <2>1 DEF TypeOK, tables, history
<1>7. ASSUME NEW s \in Seeds, SeedCommit(s)  PROVE TypeOK'
  <2>1. /\ Overlay(events, wrote[s].rows) \subseteq EventRow
        /\ enrolled \cup wrote[s].enrolled \subseteq Enrollment
    BY DEF TypeOK, Overlay
  <2>2. QED  BY <1>1, <1>7, <2>1 DEF SeedCommit, TypeOK
<1>8. CASE Client
  <2>1. /\ UNCHANGED <<pc, at, found, wrote, starts, known>>
        /\ touched' = {"since", "during"} /\ titled' \subseteq Titles
    BY <1>8, ClientDoes
  <2>2. events' \subseteq EventRow /\ enrolled' \subseteq Enrollment /\ nextId' \in 1 .. MaxEvents + 1
    BY <1>8, ClientDoes
       DEF ClientCreates, ClientChanges, ClientDeletes, ClientEnrolls, TypeOK, EventRow, Keys,
           SeedAssumption
  <2>3. QED  BY <2>1, <2>2 DEF TypeOK
<1>9. CASE UNCHANGED vars
  BY <1>9 DEF vars, TypeOK
<1>10. QED
  BY <1>2, <1>3, <1>4, <1>5, <1>6, <1>7, <1>8, <1>9 DEF Next, Seed

(* Who is inside the transaction: whoever enters waits for the others.     *)
LEMMA OneAtATimeStep ==
    ASSUME SeedInv, [Next]_vars, SeedAssumption  PROVE OneAtATime'
<1>0. TypeOK /\ OneAtATime /\ Positions  BY DEF SeedInv
<1>1. CASE \A t \in Seeds : t \in Inside' => t \in Inside
  BY <1>0, <1>1 DEF OneAtATime, Inside
<1>2. ASSUME NEW s \in Seeds, Start(s) \/ Crash(s) \/ SeedUser(s)  PROVE OneAtATime'
  <2>0. \A t \in Seeds \ {s} : pc'[t] = pc[t]
    BY <1>0, <1>2, OtherSteps DEF Stays
  <2>1. CASE pc'[s] = "event" /\ Inside \ {s} = {}
    <3>1. \A t \in Seeds : t \in Inside' => t = s
      BY <2>0, <2>1 DEF Inside
    <3>2. Inside' \subseteq Seeds  BY DEF Inside
    <3>3. QED  BY <3>1, <3>2 DEF OneAtATime
  <2>2. CASE pc'[s] \in {"user", "idle"}
    <3>1. \A t \in Seeds : t \in Inside' => t \in Inside
      BY <2>0, <2>2 DEF Inside
    <3>2. QED  BY <1>1, <3>1
  <2>3. QED  BY <1>0, <1>2, <2>1, <2>2, OtherSteps, EndDoes
<1>3. ASSUME NEW s \in Seeds, SeedEvent(s)  PROVE \A t \in Seeds : t \in Inside' => t \in Inside
  <2>1. pc[s] = "event"  BY <1>3 DEF SeedEvent
  <2>2. \A t \in Seeds \ {s} : Stays(t)
    <3>1. CASE SeedConfused(s)
      BY <1>0, <3>1, EndDoes DEF SeedConfused
    <3>2. ASSUME NEW x \in EventRow, Put(s, x)  PROVE \A t \in Seeds \ {s} : Stays(t)
      BY <1>0, <2>1, <3>2, PutDoes
    <3>3. QED  BY <1>0, <1>3, <3>1, <3>2, EventDoes
  <2>3. QED  BY <2>1, <2>2 DEF Inside, Stays
<1>4. ASSUME NEW s \in Seeds, SeedBooking(s)  PROVE \A t \in Seeds : t \in Inside' => t \in Inside
  BY <1>0, <1>4, BookingDoes DEF Inside, Stays
<1>5. ASSUME NEW s \in Seeds, SeedCommit(s)  PROVE \A t \in Seeds : t \in Inside' => t \in Inside
  BY <1>0, <1>5, CommitDoes, EndDoes DEF Inside, Stays
<1>6. CASE Client \/ UNCHANGED vars
  BY <1>0, <1>6, ClientDoes DEF OneAtATime, Inside, vars
<1>7. QED  BY <1>1, <1>2, <1>3, <1>4, <1>5, <1>6 DEF Next, Seed

LEMMA PositionsStep ==
    ASSUME SeedInv, [Next]_vars, SeedAssumption  PROVE Positions'
<1> DEFINE P(t) == /\ pc[t] \in {"idle", "user"} => at[t] = 1 /\ found[t] = <<>>
                   /\ pc[t] = "event" => at[t] <= Len(Specs) /\ Len(found[t]) = at[t] - 1
                   /\ pc[t] \in {"booking", "commit"} => Len(found[t]) = Len(Specs)
                   /\ pc[t] = "booking" => at[t] <= Len(Bookings)
           Q(t) == /\ pc'[t] \in {"idle", "user"} => at'[t] = 1 /\ found'[t] = <<>>
                   /\ pc'[t] = "event" => at'[t] <= Len(Specs) /\ Len(found'[t]) = at'[t] - 1
                   /\ pc'[t] \in {"booking", "commit"} => Len(found'[t]) = Len(Specs)
                   /\ pc'[t] = "booking" => at'[t] <= Len(Bookings)
<1>0. TypeOK /\ Positions /\ \A t \in Seeds : P(t)  BY DEF SeedInv, Positions
<1>1. SUFFICES \A t \in Seeds : Q(t)  BY DEF Positions
<1>2. ASSUME NEW t \in Seeds, Stays(t)  PROVE Q(t)
  BY <1>0, <1>2 DEF Stays
<1>3. ASSUME NEW s \in Seeds, End(s)  PROVE \A t \in Seeds : Q(t)
  <2>1. Q(s)  BY <1>0, <1>3, EndDoes
  <2>2. QED  BY <1>0, <1>2, <1>3, <2>1, EndDoes
<1>4. ASSUME NEW s \in Seeds, Start(s) \/ Crash(s) \/ SeedUser(s)  PROVE \A t \in Seeds : Q(t)
  <2>1. CASE pc[s] \in {"idle", "user"} /\ pc'[s] \in {"user", "event"} /\ UNCHANGED <<at, found, wrote>>
    <3>1. Q(s)  BY <1>0, <2>1, SpecsTyped
    <3>2. QED  BY <1>0, <1>2, <1>4, <3>1, OtherSteps
  <2>2. QED  BY <1>0, <1>3, <1>4, <2>1, OtherSteps
<1>5. ASSUME NEW s \in Seeds, SeedEvent(s)  PROVE \A t \in Seeds : Q(t)
  <2>1. ASSUME NEW x \in EventRow, Put(s, x)  PROVE \A t \in Seeds : Q(t)
    <3>0. pc[s] = "event" /\ at[s] \in Nat /\ found[s] \in Seq(Keys) /\ x.id \in Keys
      BY <1>0, <1>5 DEF SeedEvent, TypeOK, EventRow
    <3>1. /\ found'[s] = Append(found[s], x.id)
          /\ \A t \in Seeds \ {s} : Stays(t)
          /\ \/ at[s] < Len(Specs) /\ at'[s] = at[s] + 1 /\ pc'[s] = "event"
             \/ at[s] = Len(Specs) /\ at'[s] = 1 /\ pc'[s] = "booking"
      BY <1>0, <2>1, <3>0, PutDoes
    <3>2. Len(found'[s]) = at[s]
      <4>1. Len(Append(found[s], x.id)) = Len(found[s]) + 1  BY <3>0
      <4>2. Len(found[s]) = at[s] - 1  BY <1>0, <3>0
      <4>3. QED  BY <3>0, <3>1, <4>1, <4>2
    <3>3. Q(s)  BY <3>0, <3>1, <3>2, SpecsTyped
    <3>4. QED  BY <1>2, <3>1, <3>3
  <2>2. QED  BY <1>0, <1>3, <1>5, <2>1, EventDoes DEF SeedConfused
<1>6. ASSUME NEW s \in Seeds, SeedBooking(s)  PROVE \A t \in Seeds : Q(t)
  <2>1. /\ pc[s] = "booking" /\ found' = found /\ at[s] \in 1 .. Len(Bookings)
        /\ \A t \in Seeds \ {s} : Stays(t)
        /\ \/ at[s] < Len(Bookings) /\ at'[s] = at[s] + 1 /\ pc'[s] = "booking"
           \/ at[s] = Len(Bookings) /\ at'[s] = 1 /\ pc'[s] = "commit"
    BY <1>0, <1>6, BookingDoes
  <2>2. Q(s)  BY <1>0, <2>1, SpecsTyped
  <2>3. QED  BY <1>2, <2>1, <2>2
<1>7. ASSUME NEW s \in Seeds, SeedCommit(s)  PROVE \A t \in Seeds : Q(t)
  BY <1>0, <1>3, <1>7, CommitDoes
<1>8. CASE Client \/ UNCHANGED vars
  <2>1. \A t \in Seeds : Stays(t)  BY <1>0, <1>8, ClientDoes DEF vars, Stays
  <2>2. QED  BY <1>2, <2>1
<1>9. QED  BY <1>4, <1>5, <1>6, <1>7, <1>8 DEF Next, Seed

(* Events change by a commit and by clients; keys only grow; and an event  *)
(* a command has written stays, for its row is locked.                     *)
LEMMA EventsStep ==
    ASSUME SeedAssumption, SeedInv, [Next]_vars
    PROVE  /\ nextId' \in Nat /\ nextId' >= nextId
           /\ \/ UNCHANGED <<events, enrolled, known>>
              \/ \E s \in Seeds : SeedCommit(s)
              \/ Client
           /\ \A t \in Seeds : \A i \in IdsOf(wrote[t].rows) :
                 i \in IdsOf(events) => i \in IdsOf(events')
<1>0. TypeOK /\ Positions /\ nextId \in Nat  BY DEF SeedInv, TypeOK, SeedAssumption
<1>1. \/ UNCHANGED <<events, enrolled, known>>
      \/ \E s \in Seeds : SeedCommit(s)
      \/ Client
  BY DEF Next, Seed, Start, Crash, SeedUser, SeedEvent, SeedBooking, vars, tables
<1>2. nextId' \in Nat /\ nextId' >= nextId
  <2>1. ASSUME NEW s \in Seeds, SeedEvent(s)  PROVE nextId' = nextId \/ nextId' = nextId + 1
    BY <2>1 DEF SeedEvent, SeedCreate, SeedUpdate, SeedConfused
  <2>2. Client => nextId' = nextId \/ nextId' = nextId + 1
    BY DEF Client, CreateEvent, PatchEvent, DeleteEvent, Enroll, Cancel
  <2>3. \/ nextId' = nextId
        \/ Client
        \/ \E s \in Seeds : SeedEvent(s)
    BY DEF Next, Seed, Start, Crash, SeedUser, SeedBooking, SeedCommit, vars, tables
  <2>4. QED  BY <1>0, <2>1, <2>2, <2>3
<1>3. ASSUME NEW t \in Seeds, NEW i \in IdsOf(wrote[t].rows), i \in IdsOf(events)
      PROVE  i \in IdsOf(events')
  <2>1. CASE events' = events
    BY <1>3, <2>1
  <2>2. ASSUME NEW s \in Seeds, SeedCommit(s)  PROVE i \in IdsOf(events')
    BY <1>0, <1>3, <2>2, CommitDoes, OverlayIds
  <2>3. Locked(i)  BY <1>3 DEF Locked
  <2>4. PICK z \in events : z.id = i  BY <1>3 DEF IdsOf
  <2>5. CASE Client
    <3>1. CASE \E row \in EventRow : ClientCreates(row)
      BY <2>4, <3>1 DEF ClientCreates, IdsOf
    <3>2. CASE \E x \in events, row \in EventRow : ClientChanges(x, row)
      BY <2>3, <2>4, <3>2 DEF ClientChanges, IdsOf
    <3>3. CASE \E x \in events : ClientDeletes(x)
      BY <2>3, <2>4, <3>3 DEF ClientDeletes, IdsOf
    <3>4. QED  BY <1>0, <1>3, <2>1, <2>5, <3>1, <3>2, <3>3, ClientDoes DEF ClientEnrolls
  <2>6. QED  BY <1>1, <2>1, <2>2, <2>5
<1>4. QED  BY <1>1, <1>2, <1>3

LEMMA TablesStep ==
    ASSUME SeedAssumption, SeedInv, [Next]_vars  PROVE TablesInv'
<1>0. TypeOK /\ TablesInv /\ WroteInv /\ Unique(events) /\ nextId \in Nat
  BY DEF SeedInv, TablesInv, Unique, TypeOK, SeedAssumption
<1>1. CASE UNCHANGED <<events, enrolled, known>>
  <2>1. \A x \in events : x.id \in Nat  BY <1>0 DEF TypeOK, EventRow, Keys
  <2>2. nextId' \in Nat /\ nextId' >= nextId  BY EventsStep
  <2>3. \A x \in events : x.id < nextId'
    BY <1>0, <2>1, <2>2 DEF TablesInv
  <2>4. QED  BY <1>0, <1>1, <2>3 DEF TablesInv
<1>2. ASSUME NEW s \in Seeds, SeedCommit(s)  PROVE TablesInv'
  <2>1. /\ events' = Overlay(events, wrote[s].rows) /\ nextId' = nextId
        /\ enrolled' = enrolled \cup wrote[s].enrolled /\ known'
    BY <1>0, <1>2, CommitDoes
  <2>2. \A x \in events' : x.id < nextId'
    BY <1>0, <2>1, InOverlay DEF TablesInv, WroteInv
  <2>3. Unique(events')
    BY <1>0, <2>1, OverlayUnique DEF WroteInv, Unique
  <2>4. \A y \in enrolled' : y.event \in IdsOf(events')
    BY <1>0, <2>1, OverlayIds DEF TablesInv, WroteInv
  <2>5. QED  BY <2>1, <2>2, <2>3, <2>4 DEF TablesInv, Unique
<1>3. CASE Client
  <2>0. /\ known' = known
        /\ \A x \in events : x.id \in Nat /\ x.id < nextId
    BY <1>0, <1>3, ClientDoes DEF TypeOK, EventRow, Keys, TablesInv
  <2>1. ASSUME NEW row \in EventRow, ClientCreates(row)  PROVE TablesInv'
    <3>1. \A x \in events' : x.id < nextId'
      BY <1>0, <2>0, <2>1 DEF ClientCreates
    <3>2. \A x, y \in events' : x.id = y.id => x = y
      BY <1>0, <2>0, <2>1 DEF ClientCreates, TablesInv
    <3>3. \A y \in enrolled' : y.event \in IdsOf(events')
      BY <1>0, <2>1 DEF ClientCreates, TablesInv, IdsOf
    <3>4. QED  BY <2>0, <2>1, <3>1, <3>2, <3>3 DEF TablesInv, ClientCreates
  <2>2. ASSUME NEW x \in events, NEW row \in EventRow, ClientChanges(x, row)  PROVE TablesInv'
    <3>1. \A y \in events' : y.id < nextId'
      BY <2>0, <2>2 DEF ClientChanges
    <3>2. \A y, z \in events' : y.id = z.id => y = z
      BY <1>0, <2>2 DEF ClientChanges, TablesInv
    <3>3. IdsOf(events) \subseteq IdsOf(events')
      BY <2>2 DEF ClientChanges, IdsOf
    <3>4. QED  BY <1>0, <2>0, <2>2, <3>1, <3>2, <3>3 DEF TablesInv, ClientChanges
  <2>3. ASSUME NEW x \in events, ClientDeletes(x)  PROVE TablesInv'
    <3>1. \A y \in enrolled' : y.event \in IdsOf(events')
      <4>1. SUFFICES ASSUME NEW y \in enrolled, y.event # x.id
                     PROVE  y.event \in IdsOf(events \ {x})
        BY <2>3 DEF ClientDeletes, Active
      <4>2. PICK z \in events : z.id = y.event  BY <1>0 DEF TablesInv, IdsOf
      <4>3. QED  BY <4>1, <4>2 DEF IdsOf
    <3>2. QED  BY <1>0, <2>0, <2>3, <3>1 DEF TablesInv, ClientDeletes
  <2>4. CASE ClientEnrolls
    BY <1>0, <2>0, <2>4 DEF TablesInv, ClientEnrolls
  <2>5. QED  BY <1>0, <1>3, <2>1, <2>2, <2>3, <2>4, ClientDoes
<1>4. QED  BY <1>1, <1>2, <1>3, EventsStep

(* The row of an update_or_create is new, or takes the place of one row.   *)
LEMMA WrittenFacts ==
    ASSUME SeedAssumption, SeedInv, NEW s \in Seeds, NEW x \in EventRow, Written(s, x)
    PROVE  /\ x.id < nextId' /\ nextId' \in Nat
           /\ x.by = "client" => x.id \in IdsOf(events)
           /\ \A z \in Overlay(events, wrote[s].rows) :
                 /\ z.title = x.title => z.id = x.id
                 /\ z.id = x.id => z.title = x.title /\ z.by = x.by
                 /\ z.id = x.id /\ x.capacity = z.capacity => x = z
           /\ x.id = nextId \/ \E m \in Overlay(events, wrote[s].rows) : m.id = x.id
<1>0. /\ TypeOK /\ TablesInv /\ WroteInv /\ nextId \in Nat
      /\ \A z \in events \cup wrote[s].rows : z.id \in Nat /\ z.id < nextId
      /\ Unique(Overlay(events, wrote[s].rows))
  <2>1. \A z \in events \cup wrote[s].rows : z \in EventRow
    BY DEF SeedInv, TypeOK
  <2>2. TypeOK /\ TablesInv /\ WroteInv /\ nextId \in Nat
    BY DEF SeedInv, TypeOK, SeedAssumption
  <2>3. \A z \in events \cup wrote[s].rows : z.id \in Nat /\ z.id < nextId
    BY <2>1, <2>2 DEF TablesInv, WroteInv, EventRow, Keys
  <2>4. Unique(events) /\ Unique(wrote[s].rows)
    BY <2>2 DEF TablesInv, WroteInv, Unique
  <2>5. QED  BY <2>2, <2>3, <2>4, OverlayUnique
<1> DEFINE over == Overlay(events, wrote[s].rows)
<1>1. /\ \A z \in over : z.id < nextId /\ z.id \in Nat
      /\ \A z \in over : z.title = x.title => z \in Matching(s)
      /\ Matching(s) \subseteq over
  BY <1>0, InOverlay DEF Written, Matching
<1>2. CASE x.id = nextId /\ nextId' = nextId + 1 /\ x.by = "seed" /\ Matching(s) = {}
  BY <1>0, <1>1, <1>2
<1>3. ASSUME NEW m \in EventRow, Matching(s) = {m}, nextId' = nextId,
             x.id = m.id, x.by = m.by, x.title = m.title, x.capacity = m.capacity => x = m
      PROVE  /\ x.id < nextId' /\ nextId' \in Nat
             /\ x.by = "client" => x.id \in IdsOf(events)
             /\ \A z \in over :
                   /\ z.title = x.title => z.id = x.id
                   /\ z.id = x.id => z.title = x.title /\ z.by = x.by
                   /\ z.id = x.id /\ x.capacity = z.capacity => x = z
             /\ m \in over /\ m.id = x.id
  <2>1. m \in over /\ \A z \in over : z.id = m.id => z = m
    BY <1>0, <1>1, <1>3 DEF Unique
  <2>2. x.by = "client" => x.id \in IdsOf(events)
    <3>1. m \in events \/ m \in wrote[s].rows  BY <2>1, InOverlay
    <3>2. m.by = "client" => m.id \in IdsOf(events)  BY <1>0, <3>1 DEF WroteInv, IdsOf
    <3>3. QED  BY <1>3, <3>2
  <2>3. x.id < nextId' /\ nextId' \in Nat
    BY <1>0, <1>1, <1>3, <2>1
  <2>4. QED  BY <1>1, <1>3, <2>1, <2>2, <2>3
<1>4. QED  BY <1>2, <1>3 DEF Written

LEMMA WroteStep ==
    ASSUME SeedAssumption, SeedInv, [Next]_vars  PROVE WroteInv'
<1> DEFINE P(t) == /\ t \notin Inside => wrote[t] = Nothing
                   /\ Unique(wrote[t].rows)
                   /\ \A x \in wrote[t].rows : /\ x.id < nextId
                                               /\ x.by = "client" => x.id \in IdsOf(events)
                   /\ \A i \in 1 .. Len(found[t]) : found[t][i] \in IdsOf(wrote[t].rows)
                   /\ \A y \in wrote[t].enrolled : y.event \in IdsOf(wrote[t].rows)
           Q(t) == /\ pc'[t] \notin {"event", "booking", "commit"} => wrote'[t] = Nothing
                   /\ Unique(wrote'[t].rows)
                   /\ \A x \in wrote'[t].rows : /\ x.id < nextId'
                                                /\ x.by = "client" => x.id \in IdsOf(events')
                   /\ \A i \in 1 .. Len(found'[t]) : found'[t][i] \in IdsOf(wrote'[t].rows)
                   /\ \A y \in wrote'[t].enrolled : y.event \in IdsOf(wrote'[t].rows)
<1>0. TypeOK /\ Positions /\ OneAtATime /\ WroteInv /\ nextId \in Nat
  BY DEF SeedInv, TypeOK, SeedAssumption
<1>1. \A t \in Seeds : P(t)  BY <1>0 DEF WroteInv, Unique
<1>2. SUFFICES \A t \in Seeds : Q(t)  BY DEF WroteInv, Inside, Unique
<1>3. /\ nextId' \in Nat /\ nextId' >= nextId
      /\ \A t \in Seeds : \A i \in IdsOf(wrote[t].rows) :
            i \in IdsOf(events) => i \in IdsOf(events')
  BY EventsStep
<1>4. \A t \in Seeds : \A x \in wrote[t].rows :
        /\ x.id < nextId' /\ x.id \in Nat
        /\ x.by = "client" => x.id \in IdsOf(events')
  <2>1. SUFFICES ASSUME NEW t \in Seeds, NEW x \in wrote[t].rows
                 PROVE  /\ x.id < nextId' /\ x.id \in Nat
                        /\ x.by = "client" => x.id \in IdsOf(events')
    OBVIOUS
  <2>2. x.id \in Nat /\ x.id \in IdsOf(wrote[t].rows)
    BY <1>0 DEF TypeOK, EventRow, Keys, IdsOf
  <2>3. P(t)  BY <1>1
  <2>4. QED  BY <1>0, <1>3, <2>2, <2>3
<1>5. ASSUME NEW t \in Seeds, Stays(t)  PROVE Q(t)
  BY <1>1, <1>4, <1>5 DEF Stays, Inside
<1>6. ASSUME NEW s \in Seeds, End(s)  PROVE \A t \in Seeds : Q(t)
  <2>1. found'[s] = <<>> /\ wrote'[s] = Nothing /\ \A t \in Seeds \ {s} : Stays(t)
    BY <1>0, <1>6, EndDoes
  <2>2. Q(s)  BY <2>1 DEF Nothing, Unique
  <2>3. QED  BY <1>5, <2>1, <2>2
<1>7. ASSUME NEW s \in Seeds, Start(s) \/ Crash(s) \/ SeedUser(s)  PROVE \A t \in Seeds : Q(t)
  <2>1. CASE pc[s] \in {"idle", "user"} /\ UNCHANGED <<at, found, wrote>>
    <3>1. Q(s)  BY <1>1, <1>4, <2>1 DEF Inside
    <3>2. QED  BY <1>0, <1>5, <1>7, <3>1, OtherSteps
  <2>2. QED  BY <1>0, <1>6, <1>7, <2>1, OtherSteps
<1>8. ASSUME NEW s \in Seeds, SeedEvent(s)  PROVE \A t \in Seeds : Q(t)
  <2>1. ASSUME NEW x \in EventRow, Put(s, x), Written(s, x)  PROVE \A t \in Seeds : Q(t)
    <3>0. pc[s] = "event"  BY <1>8 DEF SeedEvent
    <3>1. /\ found'[s] = Append(found[s], x.id)
          /\ wrote'[s].rows = Overlay(wrote[s].rows, {x})
          /\ wrote'[s].enrolled = wrote[s].enrolled
          /\ \A t \in Seeds \ {s} : Stays(t)
          /\ pc'[s] \in {"event", "booking"}
      BY <1>0, <2>1, <3>0, PutDoes
    <3>2. /\ x.id < nextId'
          /\ x.by = "client" => x.id \in IdsOf(events)
      BY <2>1, WrittenFacts
    <3>3. events' = events  BY <1>8 DEF SeedEvent
    <3>4. Unique(Overlay(wrote[s].rows, {x}))
      <4>1. Unique({x}) /\ Unique(wrote[s].rows)  BY <1>1 DEF Unique
      <4>2. QED  BY <4>1, OverlayUnique
    <3>5. \A z \in Overlay(wrote[s].rows, {x}) : z = x \/ z \in wrote[s].rows
      BY InOverlay
    <3>6. \A i : i \in IdsOf(Overlay(wrote[s].rows, {x})) <=> i \in IdsOf(wrote[s].rows) \/ i = x.id
      <4>1. \A i : i \in IdsOf({x}) <=> i = x.id  BY DEF IdsOf
      <4>2. QED  BY <4>1, OverlayIds
    <3>7. \A i \in 1 .. Len(found'[s]) : found'[s][i] \in IdsOf(wrote'[s].rows)
      <4>1. found[s] \in Seq(Keys) /\ x.id \in Keys  BY <1>0 DEF TypeOK, EventRow
      <4>2. SUFFICES ASSUME NEW i \in 1 .. Len(Append(found[s], x.id))
                     PROVE  Append(found[s], x.id)[i] \in IdsOf(wrote'[s].rows)
        BY <3>1
      <4>3. \/ i \in 1 .. Len(found[s]) /\ Append(found[s], x.id)[i] = found[s][i]
            \/ Append(found[s], x.id)[i] = x.id
        BY <4>1
      <4>4. \A j \in 1 .. Len(found[s]) : found[s][j] \in IdsOf(wrote[s].rows)
        BY <1>1
      <4>5. QED  BY <3>1, <3>6, <4>3, <4>4
    <3>8. \A y \in wrote'[s].enrolled : y.event \in IdsOf(wrote'[s].rows)
      BY <1>1, <3>1, <3>6
    <3>9. \A z \in wrote'[s].rows : /\ z.id < nextId'
                                    /\ z.by = "client" => z.id \in IdsOf(events')
      BY <1>4, <3>1, <3>2, <3>3, <3>5
    <3>10. Q(s)  BY <3>1, <3>4, <3>7, <3>8, <3>9
    <3>11. QED  BY <1>5, <3>1, <3>10
  <2>2. QED  BY <1>0, <1>6, <1>8, <2>1, EventDoes DEF SeedConfused
<1>9. ASSUME NEW s \in Seeds, SeedBooking(s)  PROVE \A t \in Seeds : Q(t)
  <2>1. /\ found' = found /\ Bookings[at[s]].spec \in 1 .. Len(found[s])
        /\ wrote'[s].rows = wrote[s].rows
        /\ wrote'[s].enrolled \subseteq wrote[s].enrolled \cup {Enrolls(s)}
        /\ \A t \in Seeds \ {s} : Stays(t)
        /\ pc'[s] \in {"booking", "commit"}
    BY <1>0, <1>9, BookingDoes
  <2>2. Enrolls(s).event \in IdsOf(wrote[s].rows)
    BY <1>1, <2>1 DEF Enrolls
  <2>3. Q(s)  BY <1>1, <1>4, <2>1, <2>2
  <2>4. QED  BY <1>5, <2>1, <2>3
<1>10. ASSUME NEW s \in Seeds, SeedCommit(s)  PROVE \A t \in Seeds : Q(t)
  BY <1>0, <1>6, <1>10, CommitDoes
<1>11. CASE Client \/ UNCHANGED vars
  <2>1. \A t \in Seeds : Stays(t)  BY <1>0, <1>11, ClientDoes DEF vars, Stays
  <2>2. QED  BY <1>5, <2>1
<1>12. QED  BY <1>7, <1>8, <1>9, <1>10, <1>11 DEF Next, Seed

----------------------------------------------------------------------------
(* No twins                                                                *)

LEMMA TwinsInvStep ==
    ASSUME SeedAssumption, SeedInv, [Next]_vars  PROVE TwinsInv'
<1> DEFINE P(t) == \A x \in wrote[t].rows, y \in Overlay(events, wrote[t].rows) :
                      x.title = y.title => x = y \/ x.title \in titled
           Q(t) == \A x \in wrote'[t].rows, y \in Overlay(events', wrote'[t].rows) :
                      x.title = y.title => x = y \/ x.title \in titled'
<1>0. /\ TypeOK /\ Positions /\ OneAtATime /\ WroteInv
      /\ \A t \in Seeds : P(t)
      /\ \A t \in Seeds : t \notin Inside => wrote[t].rows = {}
  BY DEF SeedInv, TwinsInv, WroteInv, Nothing
<1>1. SUFFICES \A t \in Seeds : Q(t)
  BY DEF TwinsInv
<1>2. ASSUME NEW t \in Seeds, wrote'[t] = wrote[t], events' = events, titled' = titled
      PROVE  Q(t)
  BY <1>0, <1>2
<1>3. ASSUME NEW t \in Seeds, wrote'[t].rows = {}  PROVE Q(t)
  BY <1>3
<1>4. ASSUME NEW s \in Seeds, End(s), events' = events, titled' = titled
      PROVE  \A t \in Seeds : Q(t)
  <2>1. wrote'[s].rows = {} /\ \A t \in Seeds \ {s} : wrote'[t] = wrote[t]
    BY <1>0, <1>4, EndDoes DEF Nothing, Stays
  <2>2. QED  BY <1>2, <1>3, <1>4, <2>1
<1>5. ASSUME NEW s \in Seeds, Start(s) \/ Crash(s) \/ SeedUser(s)  PROVE \A t \in Seeds : Q(t)
  <2>1. CASE UNCHANGED history /\ UNCHANGED wrote
    BY <1>0, <1>2, <1>5, <2>1, OtherSteps DEF tables, history
  <2>2. CASE pc[s] = "user" /\ Inside \ {s} = {} /\ UNCHANGED wrote
    <3>1. \A t \in Seeds : wrote[t].rows = {}
      BY <1>0, <2>2 DEF Inside
    <3>2. QED  BY <1>3, <2>2, <3>1
  <2>3. CASE End(s) /\ UNCHANGED history
    BY <1>0, <1>4, <1>5, <2>3, OtherSteps DEF tables, history
  <2>4. QED  BY <1>0, <1>5, <2>1, <2>2, <2>3, OtherSteps
<1>6. ASSUME NEW s \in Seeds, SeedEvent(s)  PROVE \A t \in Seeds : Q(t)
  <2>0. pc[s] = "event" /\ events' = events /\ titled' = titled
    BY <1>6 DEF SeedEvent, history
  <2>1. ASSUME NEW x \in EventRow, Put(s, x), Written(s, x)  PROVE \A t \in Seeds : Q(t)
    <3>1. /\ wrote'[s].rows = Overlay(wrote[s].rows, {x})
          /\ \A t \in Seeds \ {s} : wrote'[t] = wrote[t]
      BY <1>0, <2>0, <2>1, PutDoes DEF Stays
    <3> DEFINE over == Overlay(events, wrote[s].rows)
    <3>2. \A z \in over : z.title = x.title => z.id = x.id
      BY <2>1, WrittenFacts
    <3>3. \A z \in Overlay(events', wrote'[s].rows) : z = x \/ (z \in over /\ z.id # x.id)
      <4>1. \A z : z \in Overlay(events, Overlay(wrote[s].rows, {x})) <=>
              z = x \/ (z \in over /\ z.id # x.id)
        BY OverlayMore
      <4>2. QED  BY <2>0, <3>1, <4>1
    <3>4. \A z \in wrote'[s].rows : z = x \/ (z \in wrote[s].rows /\ z \in over /\ z.id # x.id)
      BY <3>1, InOverlay
    <3>5. P(s)  BY <1>0
    <3>6. Q(s)  BY <2>0, <3>2, <3>3, <3>4, <3>5
    <3>7. QED  BY <1>2, <2>0, <3>1, <3>6
  <2>2. QED  BY <1>0, <1>4, <1>6, <2>0, <2>1, EventDoes DEF SeedConfused
<1>7. ASSUME NEW s \in Seeds, SeedBooking(s)  PROVE \A t \in Seeds : Q(t)
  <2>1. /\ events' = events /\ titled' = titled
        /\ wrote'[s].rows = wrote[s].rows /\ \A t \in Seeds \ {s} : wrote'[t] = wrote[t]
    BY <1>0, <1>7, BookingDoes DEF Stays, tables, history
  <2>2. QED  BY <1>0, <1>2, <2>1
<1>8. ASSUME NEW s \in Seeds, SeedCommit(s)  PROVE \A t \in Seeds : Q(t)
  <2>1. pc[s] = "commit" /\ End(s)
    BY <1>0, <1>8, CommitDoes
  <2>2. wrote'[s].rows = {} /\ \A t \in Seeds \ {s} : wrote'[t] = wrote[t]
    BY <1>0, <2>1, EndDoes DEF Nothing, Stays
  <2>3. \A t \in Seeds : wrote'[t].rows = {}
    BY <1>0, <2>1, <2>2 DEF OneAtATime, Inside
  <2>4. QED  BY <1>3, <2>3
<1>9. ASSUME Client, NEW t \in Seeds  PROVE Q(t)
  <2>1. wrote' = wrote /\ (Inside # {} => titled \subseteq titled')
    BY <1>0, <1>9, ClientDoes
  <2>2. SUFFICES ASSUME NEW x \in wrote[t].rows,
                        NEW y \in Overlay(events', wrote[t].rows), x.title = y.title
                 PROVE  x = y \/ x.title \in titled'
    BY <2>1
  <2>3. Inside # {} /\ titled \subseteq titled'
    BY <1>0, <2>1
  <2>4. P(t)  BY <1>0
  <2>5. CASE y \in Overlay(events, wrote[t].rows)
    BY <2>2, <2>3, <2>4, <2>5
  <2>6. CASE y \notin Overlay(events, wrote[t].rows)
    <3>1. y \in events' /\ y \notin events
      BY <2>2, <2>6, InOverlay
    <3>2. CASE \E row \in EventRow : ClientCreates(row)
      BY <2>2, <2>3, <3>1, <3>2 DEF ClientCreates
    <3>3. ASSUME NEW z \in events, NEW row \in EventRow, ClientChanges(z, row)
          PROVE  x.title \in titled'
      <4>1. y = row /\ ~Locked(z.id)
        BY <3>1, <3>3 DEF ClientChanges
      <4>2. \A w \in wrote[t].rows : w.id # z.id
        BY <4>1 DEF Locked, IdsOf
      <4>3. z \in Overlay(events, wrote[t].rows) /\ z # x
        BY <4>2, InOverlay
      <4>4. CASE row.title = z.title
        BY <2>2, <2>3, <2>4, <4>1, <4>3, <4>4
      <4>5. QED  BY <2>2, <2>3, <3>3, <4>1, <4>4 DEF ClientChanges
    <3>4. QED
      BY <1>0, <1>9, <3>1, <3>2, <3>3, ClientDoes DEF ClientDeletes, ClientEnrolls
  <2>7. QED  BY <2>5, <2>6
<1>10. CASE UNCHANGED vars
  BY <1>2, <1>10 DEF vars
<1>11. QED  BY <1>5, <1>6, <1>7, <1>8, <1>9, <1>10 DEF Next, Seed

----------------------------------------------------------------------------
(* The script                                                              *)

(* Event i of the script is written, and is the only one of its title.     *)
Done(i, key, rows, over) ==
    \E x \in rows : /\ x.id = key
                    /\ x.title = Specs[i].title /\ x.capacity = Specs[i].capacity
                    /\ TheOne(x, over)

BookedAs(k, keys) == [event |-> keys[Bookings[k].spec], seeker |-> Bookings[k].seeker]

ScriptOf(s) ==
    /\ \A i \in 1 .. Len(found[s]) :
          Done(i, found[s][i], wrote[s].rows, Overlay(events, wrote[s].rows))
    /\ \A k \in 1 .. Len(Bookings) :
          pc[s] = "commit" \/ (pc[s] = "booking" /\ k < at[s]) =>
             BookedAs(k, found[s]) \in enrolled \cup wrote[s].enrolled

LEMMA ScriptByEvent ==
    ASSUME SeedAssumption, SeedInv, NEW s \in Seeds, SeedEvent(s), ScriptOf(s),
           NEW x \in EventRow, Put(s, x), Written(s, x)
    PROVE  ScriptOf(s)'
<1>0. TypeOK /\ Positions /\ pc[s] = "event" /\ events' = events
  BY DEF SeedInv, SeedEvent
<1>1. /\ found'[s] = Append(found[s], x.id)
      /\ wrote'[s].rows = Overlay(wrote[s].rows, {x})
      /\ pc'[s] = "event" \/ (pc'[s] = "booking" /\ at'[s] = 1)
  BY <1>0, PutDoes
<1> DEFINE over == Overlay(events, wrote[s].rows)
           now == Overlay(events, Overlay(wrote[s].rows, {x}))
<1>2. \A z : z \in now <=> z = x \/ (z \in over /\ z.id # x.id)
  BY OverlayMore
<1>3. \A z \in over : /\ z.title = x.title => z.id = x.id
                      /\ z.id = x.id => z.title = x.title
  BY WrittenFacts
<1>4. wrote[s].rows \subseteq over
  BY InOverlay
<1>5. /\ found[s] \in Seq(Keys) /\ x.id \in Keys
      /\ at[s] \in 1 .. Len(Specs) /\ Len(found[s]) = at[s] - 1
      /\ x.title = Specs[at[s]].title /\ x.capacity = Specs[at[s]].capacity
  <2>1. found[s] \in Seq(Keys) /\ x.id \in Keys /\ at[s] \in Nat \ {0}
    BY <1>0 DEF TypeOK, EventRow
  <2>2. Len(found[s]) = at[s] - 1 /\ at[s] <= Len(Specs)
    BY <1>0 DEF Positions
  <2>3. QED  BY <2>1, <2>2, SpecsTyped DEF Written
<1>6. \A i \in 1 .. Len(found[s]) : i \in 1 .. Len(Specs) /\ Specs[i].title # x.title
  BY <1>5 DEF SeedAssumption
<1>7. TheOne(x, now)
  BY <1>2, <1>3 DEF TheOne
<1> HIDE DEF over, now
<1>8. \A i \in 1 .. Len(found[s]) : Done(i, found[s][i], Overlay(wrote[s].rows, {x}), now)
  <2>1. SUFFICES ASSUME NEW i \in 1 .. Len(found[s])
                 PROVE  Done(i, found[s][i], Overlay(wrote[s].rows, {x}), now)
    OBVIOUS
  <2>2. PICK y \in wrote[s].rows : /\ y.id = found[s][i]
                                   /\ y.title = Specs[i].title /\ y.capacity = Specs[i].capacity
                                   /\ TheOne(y, over)
    BY DEF ScriptOf, Done, over
  <2>3. y \in over /\ y.id # x.id /\ y.title # x.title
    BY <1>3, <1>4, <1>6, <2>2
  <2>4. y \in Overlay(wrote[s].rows, {x})
    BY <2>3, InOverlay
  <2>5. TheOne(y, now)
    BY <1>2, <2>2, <2>3 DEF TheOne
  <2>6. QED  BY <2>2, <2>4, <2>5 DEF Done
<1>9. Done(at[s], x.id, Overlay(wrote[s].rows, {x}), now)
  <2>1. x \in Overlay(wrote[s].rows, {x})  BY InOverlay
  <2>2. QED  BY <1>5, <1>7, <2>1 DEF Done
<1>10. \A i \in 1 .. Len(found'[s]) : Done(i, found'[s][i], Overlay(wrote[s].rows, {x}), now)
  <2>1. SUFFICES ASSUME NEW i \in 1 .. Len(Append(found[s], x.id))
                 PROVE  Done(i, Append(found[s], x.id)[i], Overlay(wrote[s].rows, {x}), now)
    BY <1>1
  <2>2. \/ i \in 1 .. Len(found[s]) /\ Append(found[s], x.id)[i] = found[s][i]
        \/ i = at[s] /\ Append(found[s], x.id)[i] = x.id
    BY <1>5
  <2>3. QED  BY <1>8, <1>9, <2>2
<1>11. \A i \in 1 .. Len(found'[s]) :
         Done(i, found'[s][i], wrote'[s].rows, Overlay(events', wrote'[s].rows))
  BY <1>0, <1>1, <1>10 DEF now
<1>12. \A k \in 1 .. Len(Bookings) : ~(pc'[s] = "commit" \/ (pc'[s] = "booking" /\ k < at'[s]))
  BY <1>1
<1>13. QED  BY <1>11, <1>12 DEF ScriptOf, Done, BookedAs

LEMMA ScriptByBooking ==
    ASSUME SeedAssumption, SeedInv, NEW s \in Seeds, SeedBooking(s), ScriptOf(s)
    PROVE  ScriptOf(s)'
<1>0. TypeOK /\ Positions  BY DEF SeedInv
<1>1. /\ pc[s] = "booking" /\ UNCHANGED <<events, enrolled, found>>
      /\ at[s] \in 1 .. Len(Bookings)
      /\ wrote'[s].rows = wrote[s].rows
      /\ wrote'[s].enrolled = IF Enrolls(s) \in enrolled THEN wrote[s].enrolled
                              ELSE wrote[s].enrolled \cup {Enrolls(s)}
      /\ \/ at[s] < Len(Bookings) /\ at'[s] = at[s] + 1 /\ pc'[s] = "booking"
         \/ at[s] = Len(Bookings) /\ at'[s] = 1 /\ pc'[s] = "commit"
  BY <1>0, BookingDoes DEF tables
<1>2. \A i \in 1 .. Len(found'[s]) :
         Done(i, found'[s][i], wrote'[s].rows, Overlay(events', wrote'[s].rows))
  BY <1>1 DEF ScriptOf
<1>3. \A k \in 1 .. Len(Bookings) : k < at[s] =>
         BookedAs(k, found[s]) \in enrolled \cup wrote[s].enrolled
  BY <1>1 DEF ScriptOf
<1>4. /\ wrote[s].enrolled \subseteq wrote'[s].enrolled
      /\ Enrolls(s) \in enrolled' \cup wrote'[s].enrolled
  BY <1>1
<1>5. BookedAs(at[s], found[s]) = Enrolls(s)
  BY DEF BookedAs, Enrolls
<1>6. \A k \in 1 .. Len(Bookings) :
         pc'[s] = "commit" \/ (pc'[s] = "booking" /\ k < at'[s]) => k < at[s] \/ k = at[s]
  BY <1>1, SpecsTyped
<1>7. \A k \in 1 .. Len(Bookings) :
         pc'[s] = "commit" \/ (pc'[s] = "booking" /\ k < at'[s]) =>
            BookedAs(k, found'[s]) \in enrolled' \cup wrote'[s].enrolled
  BY <1>1, <1>3, <1>4, <1>5, <1>6
<1>8. QED  BY <1>2, <1>7 DEF ScriptOf, Done, BookedAs

LEMMA AsScriptedIs == AsScripted <=> \A s \in Inside : "during" \notin touched => ScriptOf(s)
BY DEF AsScripted, ScriptOf, Done, BookedAs

LEMMA AsScriptedStep ==
    ASSUME SeedAssumption, SeedInv, [Next]_vars  PROVE AsScripted'
<1>0. /\ TypeOK /\ Positions /\ OneAtATime /\ WroteInv
      /\ \A s \in Inside : "during" \notin touched => ScriptOf(s)
  BY AsScriptedIs DEF SeedInv
<1>1. SUFFICES ASSUME NEW t \in Seeds, t \in Inside', "during" \notin touched'
               PROVE  ScriptOf(t)'
  <2>1. (\A s \in Inside : "during" \notin touched => ScriptOf(s))' => AsScripted'
    BY DEF AsScripted, ScriptOf, Done, BookedAs
  <2>2. Inside' \subseteq Seeds  BY DEF Inside
  <2>3. QED  BY <1>1, <2>1, <2>2
<1>2. CASE /\ Stays(t) /\ UNCHANGED <<events, enrolled>> /\ "during" \notin touched
  <2>1. t \in Inside  BY <1>1, <1>2 DEF Inside, Stays
  <2>2. ScriptOf(t)  BY <1>0, <1>2, <2>1
  <2>3. QED  BY <1>2, <2>2 DEF ScriptOf, Stays, Done, BookedAs
<1>3. ASSUME NEW s \in Seeds, Start(s) \/ Crash(s) \/ SeedUser(s)  PROVE ScriptOf(t)'
  <2>1. CASE t = s
    <3>1. pc[s] = "user" /\ pc'[s] = "event" /\ UNCHANGED <<at, found, wrote>>
      BY <1>0, <1>1, <1>3, <2>1, OtherSteps, EndDoes DEF Inside
    <3>2. found'[s] = <<>>  BY <1>0, <3>1 DEF Positions
    <3>3. QED  BY <2>1, <3>1, <3>2 DEF ScriptOf
  <2>2. CASE t # s
    <3>1. Stays(t) /\ UNCHANGED <<events, enrolled>>
      BY <1>0, <1>3, <2>2, OtherSteps DEF tables
    <3>2. t \in Inside  BY <1>1, <3>1 DEF Inside, Stays
    <3>3. "during" \notin touched
      BY <1>0, <1>1, <1>3, <2>2, <3>2, OtherSteps DEF history
    <3>4. QED  BY <1>2, <3>1, <3>3
  <2>3. QED  BY <2>1, <2>2
<1>4. ASSUME NEW s \in Seeds, SeedEvent(s)  PROVE ScriptOf(t)'
  <2>1. pc[s] = "event" /\ UNCHANGED <<events, enrolled, touched>>
    BY <1>4 DEF SeedEvent, history
  <2>2. CASE SeedConfused(s)
    <3>1. pc'[s] = "idle" /\ \A u \in Seeds \ {s} : Stays(u)
      BY <1>0, <2>2, EndDoes DEF SeedConfused
    <3>2. Stays(t)  BY <1>1, <3>1 DEF Inside
    <3>3. QED  BY <1>1, <1>2, <2>1, <3>2
  <2>3. ASSUME NEW x \in EventRow, Put(s, x), Written(s, x)  PROVE ScriptOf(t)'
    <3>1. CASE t # s
      <4>1. Stays(t)  BY <1>0, <2>1, <2>3, <3>1, PutDoes
      <4>2. QED  BY <1>1, <1>2, <2>1, <4>1
    <3>2. CASE t = s
      <4>1. ScriptOf(s)  BY <1>0, <1>1, <2>1 DEF Inside
      <4>2. QED  BY <1>4, <2>3, <3>2, <4>1, ScriptByEvent
    <3>3. QED  BY <3>1, <3>2
  <2>4. QED  BY <1>0, <1>4, <2>2, <2>3, EventDoes
<1>5. ASSUME NEW s \in Seeds, SeedBooking(s)  PROVE ScriptOf(t)'
  <2>1. /\ pc[s] = "booking" /\ UNCHANGED <<events, enrolled, touched>>
        /\ \A u \in Seeds \ {s} : Stays(u)
    BY <1>0, <1>5, BookingDoes DEF tables, history
  <2>2. CASE t # s
    BY <1>1, <1>2, <2>1, <2>2
  <2>3. CASE t = s
    <3>1. ScriptOf(s)  BY <1>0, <1>1, <2>1 DEF Inside
    <3>2. QED  BY <1>5, <2>3, <3>1, ScriptByBooking
  <2>4. QED  BY <2>2, <2>3
<1>6. ASSUME NEW s \in Seeds, SeedCommit(s)  PROVE FALSE
  <2>1. pc[s] = "commit" /\ End(s)
    BY <1>0, <1>6, CommitDoes
  <2>2. pc'[s] = "idle" /\ \A u \in Seeds \ {s} : Stays(u)
    BY <1>0, <2>1, EndDoes
  <2>3. t # s /\ t \in Inside /\ s \in Inside
    BY <1>1, <2>1, <2>2 DEF Inside, Stays
  <2>4. QED  BY <1>0, <2>3 DEF OneAtATime
<1>7. ~Client
  BY <1>0, <1>1, ClientDoes
<1>8. CASE UNCHANGED vars
  BY <1>1, <1>2, <1>8 DEF vars, Stays
<1>9. QED  BY <1>3, <1>4, <1>5, <1>6, <1>7, <1>8 DEF Next, Seed

----------------------------------------------------------------------------
(* What holds since a command committed undisturbed                        *)

LEMMA SettledByCommit ==
    ASSUME SeedAssumption, SeedInv, NEW s \in Seeds, SeedCommit(s)
    PROVE  Settled'
<1>0. TypeOK /\ Positions /\ OneAtATime /\ WroteInv
  BY DEF SeedInv
<1>1. SUFFICES ASSUME "since" \notin touched'  PROVE Settled'
  BY DEF Settled
<1>2. /\ pc[s] = "commit" /\ events' = Overlay(events, wrote[s].rows)
      /\ enrolled' = enrolled \cup wrote[s].enrolled
      /\ touched' = IF "during" \in touched THEN {"since"} ELSE {}
      /\ End(s)
  BY <1>0, CommitDoes
<1>3. "during" \notin touched /\ touched' = {}
  BY <1>1, <1>2
<1>4. ScriptOf(s) /\ Len(found[s]) = Len(Specs) /\ found[s] \in Seq(Keys)
  BY <1>0, <1>2, <1>3, AsScriptedIs DEF SeedInv, Inside, Positions, TypeOK
<1>5. \A i \in 1 .. Len(Specs) :
        \E x \in events' : /\ x.id = found[s][i]
                           /\ x.title = Specs[i].title /\ x.capacity = Specs[i].capacity
                           /\ TheOne(x, events')
  <2>1. wrote[s].rows \subseteq events'  BY <1>2, InOverlay
  <2>2. QED  BY <1>2, <1>4, <2>1 DEF ScriptOf, Done
<1>6. \A k \in 1 .. Len(Bookings), x \in events' :
        x.title = Specs[Bookings[k].spec].title =>
           [event |-> x.id, seeker |-> Bookings[k].seeker] \in enrolled'
  <2>1. SUFFICES ASSUME NEW k \in 1 .. Len(Bookings), NEW x \in events',
                        x.title = Specs[Bookings[k].spec].title
                 PROVE  [event |-> x.id, seeker |-> Bookings[k].seeker] \in enrolled'
    OBVIOUS
  <2>2. Bookings[k].spec \in 1 .. Len(Specs)  BY SpecsTyped
  <2>3. x.id = found[s][Bookings[k].spec]
    BY <1>5, <2>1, <2>2 DEF TheOne
  <2>4. BookedAs(k, found[s]) \in enrolled'
    BY <1>2, <1>4 DEF ScriptOf
  <2>5. QED  BY <2>3, <2>4 DEF BookedAs
<1>7. \A t \in Seeds : wrote'[t] = Nothing
  <2>1. wrote'[s] = Nothing /\ \A t \in Seeds \ {s} : wrote'[t] = wrote[t]
    BY <1>0, <1>2, EndDoes DEF Stays
  <2>2. \A t \in Seeds \ {s} : wrote[t] = Nothing
    BY <1>0, <1>2 DEF OneAtATime, Inside, WroteInv
  <2>3. QED  BY <2>1, <2>2
<1>8. \A i \in 1 .. Len(Specs) : \E x \in events' :
        x.title = Specs[i].title /\ x.capacity = Specs[i].capacity
           /\ \A y \in events' : y.title = x.title => y = x
  BY <1>5 DEF TheOne
<1>9. \A t \in Seeds : wrote'[t].rows \subseteq events' /\ wrote'[t].enrolled = {}
  BY <1>7 DEF Nothing
<1>10. QED  BY <1>3, <1>6, <1>8, <1>9 DEF Settled, TheOne

(* A command that runs over settled tables finds each event of its script, *)
(* and writes it over again as it is; and it finds each enrollment.        *)
LEMMA SettledStep ==
    ASSUME SeedAssumption, SeedInv, [Next]_vars  PROVE Settled'
<1>0. TypeOK /\ Positions /\ OneAtATime /\ WroteInv /\ TablesInv /\ Unique(events) /\ Settled
  BY DEF SeedInv, TablesInv, Unique
<1>1. SUFFICES ASSUME "since" \notin touched', ~(\E s \in Seeds : SeedCommit(s))
               PROVE  Settled'
  BY SettledByCommit DEF Settled
<1>2. ~Client  BY <1>0, <1>1, ClientDoes
<1>3. touched' \subseteq touched /\ (touched' = touched \/ touched' = touched \ {"during"})
  BY <1>1, <1>2 DEF Next, Seed, Start, Crash, SeedUser, SeedEvent, SeedBooking, vars, history
<1>4. UNCHANGED <<events, enrolled>>
  BY <1>1, <1>2, EventsStep
<1>5. "since" \notin touched /\ "during" \notin touched'
  BY <1>0, <1>1, <1>3 DEF Settled
<1>6. /\ \A i \in 1 .. Len(Specs) : \E x \in events :
            x.title = Specs[i].title /\ x.capacity = Specs[i].capacity /\ TheOne(x, events)
      /\ \A k \in 1 .. Len(Bookings), x \in events :
            x.title = Specs[Bookings[k].spec].title =>
               [event |-> x.id, seeker |-> Bookings[k].seeker] \in enrolled
      /\ \A s \in Seeds : wrote[s].rows \subseteq events /\ wrote[s].enrolled = {}
  BY <1>0, <1>5 DEF Settled
<1>7. SUFFICES \A t \in Seeds : wrote'[t].rows \subseteq events /\ wrote'[t].enrolled = {}
  BY <1>4, <1>5, <1>6 DEF Settled, TheOne
<1> DEFINE Goal == \A t \in Seeds : wrote'[t].rows \subseteq events /\ wrote'[t].enrolled = {}
<1>8. ASSUME NEW s \in Seeds, \A t \in Seeds \ {s} : Stays(t),
             wrote'[s].rows \subseteq events, wrote'[s].enrolled = {}
      PROVE  Goal
  BY <1>6, <1>8 DEF Stays
<1>9. ASSUME NEW s \in Seeds, End(s)  PROVE Goal
  <2>1. wrote'[s] = Nothing /\ \A t \in Seeds \ {s} : Stays(t)
    BY <1>0, <1>9, EndDoes
  <2>2. QED  BY <1>8, <2>1 DEF Nothing
<1>10. ASSUME NEW s \in Seeds, SeedEvent(s)  PROVE Goal
  <2>1. ASSUME NEW x \in EventRow, Put(s, x), Written(s, x)  PROVE Goal
    <3>1. pc[s] = "event"  BY <1>10 DEF SeedEvent
    <3>2. at[s] \in 1 .. Len(Specs)
      BY <1>0, <3>1, SpecsTyped DEF Positions, TypeOK
    <3>3. PICK y \in events : y.title = Specs[at[s]].title /\ y.capacity = Specs[at[s]].capacity
      BY <1>6, <3>2
    <3>4. y \in Overlay(events, wrote[s].rows)
      BY <1>0, <1>6, OverlaySame
    <3>5. x = y
      <4>1. x.title = y.title /\ x.capacity = y.capacity  BY <2>1, <3>3 DEF Written
      <4>2. QED  BY <2>1, <3>4, <4>1, WrittenFacts
    <3>6. /\ wrote'[s].rows = Overlay(wrote[s].rows, {x})
          /\ wrote'[s].enrolled = wrote[s].enrolled
          /\ \A t \in Seeds \ {s} : Stays(t)
      BY <1>0, <2>1, <3>1, PutDoes
    <3>7. wrote'[s].rows \subseteq events
      BY <1>6, <3>5, <3>6, InOverlay
    <3>8. QED  BY <1>6, <1>8, <3>6, <3>7
  <2>2. QED  BY <1>0, <1>9, <1>10, <2>1, EventDoes DEF SeedConfused
<1>11. ASSUME NEW s \in Seeds, SeedBooking(s)  PROVE Goal
  <2>1. /\ pc[s] = "booking" /\ at[s] \in 1 .. Len(Bookings)
        /\ Bookings[at[s]].spec \in 1 .. Len(found[s])
        /\ wrote'[s].rows = wrote[s].rows
        /\ wrote'[s].enrolled = IF Enrolls(s) \in enrolled THEN wrote[s].enrolled
                                ELSE wrote[s].enrolled \cup {Enrolls(s)}
        /\ \A t \in Seeds \ {s} : Stays(t)
    BY <1>0, <1>11, BookingDoes
  <2>2. s \in Inside /\ ("during" \notin touched => ScriptOf(s))
    BY <2>1, AsScriptedIs DEF SeedInv, Inside
  <2>3. ScriptOf(s)  BY <1>0, <1>5, <2>2 DEF Settled
  <2>4. PICK x \in wrote[s].rows : /\ x.id = found[s][Bookings[at[s]].spec]
                                   /\ x.title = Specs[Bookings[at[s]].spec].title
    BY <2>1, <2>3 DEF ScriptOf, Done
  <2>5. Enrolls(s) \in enrolled
    BY <1>6, <2>1, <2>4 DEF Enrolls
  <2>6. QED  BY <1>6, <1>8, <2>1, <2>5
<1>12. ASSUME NEW s \in Seeds, Start(s) \/ Crash(s) \/ SeedUser(s)  PROVE Goal
  <2>1. \/ wrote' = wrote
        \/ End(s)
    BY <1>0, <1>12, OtherSteps
  <2>2. QED  BY <1>6, <1>9, <2>1
<1>13. CASE UNCHANGED vars
  BY <1>6, <1>13 DEF vars
<1>14. QED
  BY <1>1, <1>2, <1>10, <1>11, <1>12, <1>13 DEF Next, Seed

----------------------------------------------------------------------------
LEMMA SeedInit == SeedAssumption /\ Init => SeedInv
<1> SUFFICES ASSUME SeedAssumption, Init  PROVE SeedInv
  OBVIOUS
<1>1. TypeOK
  <2>1. Nothing \in [rows: SUBSET EventRow, enrolled: SUBSET Enrollment]
    BY DEF Nothing
  <2>2. <<>> \in Seq(Keys)  OBVIOUS
  <2>3. 1 \in 1 .. MaxEvents + 1  BY DEF SeedAssumption
  <2>4. /\ pc \in [Seeds -> {"idle", "user", "event", "booking", "commit"}]
        /\ at \in [Seeds -> Nat \ {0}] /\ found \in [Seeds -> Seq(Keys)]
        /\ wrote \in [Seeds -> [rows: SUBSET EventRow, enrolled: SUBSET Enrollment]]
    BY <2>1, <2>2 DEF Init
  <2>5. /\ events \subseteq EventRow /\ enrolled \subseteq Enrollment
        /\ nextId \in 1 .. MaxEvents + 1 /\ starts \in Nat /\ known \in BOOLEAN
        /\ touched \subseteq {"since", "during"} /\ titled \subseteq Titles
    BY <2>3 DEF Init
  <2>6. QED  BY <2>4, <2>5 DEF TypeOK
<1>2. \A s \in Seeds : /\ pc[s] = "idle" /\ at[s] = 1 /\ found[s] = <<>>
                       /\ wrote[s] = Nothing /\ wrote[s].rows = {} /\ wrote[s].enrolled = {}
  BY DEF Init, Nothing
<1>3. Inside = {}  BY <1>2 DEF Inside
<1>4. events = {} /\ enrolled = {} /\ touched = {"since"}  BY DEF Init
<1>5. OneAtATime /\ Positions /\ TablesInv /\ WroteInv
  BY <1>2, <1>3, <1>4 DEF OneAtATime, Positions, TablesInv, WroteInv
<1>6. TwinsInv
  BY <1>2 DEF TwinsInv
<1>7. AsScripted /\ Settled
  BY <1>3, <1>4 DEF AsScripted, Settled
<1>8. QED  BY <1>1, <1>5, <1>6, <1>7 DEF SeedInv

LEMMA SeedStep == SeedAssumption /\ SeedInv /\ [Next]_vars => SeedInv'
<1> SUFFICES ASSUME SeedAssumption, SeedInv, [Next]_vars  PROVE SeedInv'
  OBVIOUS
<1>1. TypeOK'  BY TypeStep DEF SeedInv
<1>2. QED
  BY <1>1, OneAtATimeStep, PositionsStep, TablesStep, WroteStep, TwinsInvStep, AsScriptedStep,
     SettledStep
     DEF SeedInv

(* Containers that start together run the command one after the other; and *)
(* what each has read and written of the events stays good until it        *)
(* commits, whatever clients do and whichever containers die.              *)
THEOREM SeedInvariant == Spec => []SeedInv
<1>1. Init => SeedInv  BY SeedAssumption, SeedInit
<1>2. SeedInv /\ [Next]_vars => SeedInv'  BY SeedAssumption, SeedStep
<1>3. QED  BY <1>1, <1>2, PTL DEF Spec

LEMMA CommitFacts ==
    ASSUME SeedInv, NEW s \in Seeds, SeedCommit(s)
    PROVE  /\ \A x \in wrote[s].rows, y \in events' :
                 x.title = y.title => x = y \/ x.title \in titled
           /\ "since" \notin touched => UNCHANGED <<events, enrolled>>
<1>0. TypeOK /\ Unique(events) /\ TwinsInv /\ Settled
  BY DEF SeedInv, TablesInv, Unique
<1>1. /\ events' = Overlay(events, wrote[s].rows)
      /\ enrolled' = enrolled \cup wrote[s].enrolled
  BY <1>0, CommitDoes
<1>2. ASSUME "since" \notin touched  PROVE UNCHANGED <<events, enrolled>>
  <2>1. wrote[s].rows \subseteq events /\ wrote[s].enrolled = {}
    BY <1>0, <1>2 DEF Settled
  <2>2. QED  BY <1>0, <1>1, <2>1, OverlaySame
<1>3. QED  BY <1>0, <1>1, <1>2 DEF TwinsInv

(* However many containers start at once, an event that a command commits  *)
(* is the only one of its title, unless a client gave another event that   *)
(* title while the command ran.                                            *)
THEOREM NoDemoTwins == Spec => SeedsMakeNoTwins
<1>1. ASSUME SeedInv, [Next]_vars
      PROVE  [\A s \in Seeds : SeedCommit(s) =>
                \A x \in wrote[s].rows, y \in events' :
                   x.title = y.title => x = y \/ x.title \in titled]_vars
  BY <1>1, CommitFacts
<1>2. QED  BY <1>1, SeedInvariant, PTL DEF Spec, SeedsMakeNoTwins

(* Running the command again, with nobody writing since it last began,     *)
(* leaves events and enrollments as they are.                              *)
THEOREM SeedingTwiceIsOnce == Spec => SeedIsIdempotent
<1>1. ASSUME SeedInv, [Next]_vars
      PROVE  [\A s \in Seeds :
                SeedCommit(s) /\ "since" \notin touched => UNCHANGED <<events, enrolled>>]_vars
  BY <1>1, CommitFacts
<1>2. QED  BY <1>1, SeedInvariant, PTL DEF Spec, SeedIsIdempotent
=============================================================================
