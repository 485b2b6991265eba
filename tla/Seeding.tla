------------------------------ MODULE Seeding ------------------------------
(***************************************************************************)
(* The management command seed_demo (apps/common/management/commands/      *)
(* seed_demo.py), which web containers with SEED_DEMO=1 run as they start, *)
(* beside the API.  The command is one transaction: what it writes is its  *)
(* own until it commits, and rows it has written stay locked.  The API's   *)
(* calls are one step each: Booking takes them apart.                      *)
(*                                                                         *)
(* Events are those of the demo facilitator, for update_or_create matches  *)
(* on title and creator.  Dates are left out: every run sets them from its *)
(* own clock.                                                              *)
(***************************************************************************)
EXTENDS Integers, Sequences, FiniteSets

CONSTANTS
    Seeds,       \* containers that run the command
    Specs,       \* the command's events: a sequence of [title, capacity]
    Bookings,    \* its enrollments: a sequence of [spec, seeker]
    Seekers,     \* the demo seekers and others
    Titles,      \* what the facilitator may call an event
    Capacities,  \* and give it as capacity
    Unlimited,   \* capacity NULL
    MaxEvents,   \* bound on primary keys
    MaxStarts    \* bound on starts of containers

VARIABLES
    events,      \* committed rows
    enrolled,    \* committed active enrollments
    nextId,      \* the primary key sequence, which no rollback resets
    pc,          \* the statement each command executes next
    at,          \* its position in Specs, then in Bookings
    found,       \* the events list of handle: their keys
    wrote,       \* what it has written and not committed
    starts,      \* containers started so far
    known,       \* does the demo facilitator exist, and so may act as a client?
    touched,     \* did a client write "since" the command that committed last
                 \* began, or "during" the one that runs? (history)
    titled       \* titles clients gave to events during that one (history)

vars == <<events, enrolled, nextId, pc, at, found, wrote, starts, known, touched, titled>>

history == <<touched, titled>>

tables == <<events, enrolled, nextId>>

Keys == 1 .. MaxEvents

EventRow == [id: Keys, title: Titles, capacity: Capacities,
             by: {"seed", "client"}]   \* who inserted it (history)

Enrollment == [event: Keys, seeker: Seekers]

Nothing == [rows |-> {}, enrolled |-> {}]

ASSUME SeedAssumption ==
    /\ Specs \in Seq([title: Titles, capacity: Capacities])
    /\ Bookings \in Seq([spec: 1 .. Len(Specs), seeker: Seekers])
    /\ Specs # <<>> /\ Bookings # <<>>
    /\ \A i, j \in 1 .. Len(Specs) : Specs[i].title = Specs[j].title => i = j
    /\ Capacities \subseteq (Nat \ {0}) \cup {Unlimited}
    /\ MaxEvents \in Nat /\ MaxStarts \in Nat

----------------------------------------------------------------------------
IdsOf(rows) == {x.id : x \in rows}

Overlay(rows, over) == {x \in rows : x.id \notin IdsOf(over)} \cup over

Locked(id) == \E s \in Seeds : id \in IdsOf(wrote[s].rows)

LockedByOther(s, id) == \E t \in Seeds \ {s} : id \in IdsOf(wrote[t].rows)

(* From its first _user on a command holds the facilitator's profile.      *)
Inside == {s \in Seeds : pc[s] \in {"event", "booking", "commit"}}

End(s) ==
    /\ pc' = [pc EXCEPT ![s] = "idle"]
    /\ at' = [at EXCEPT ![s] = 1]
    /\ found' = [found EXCEPT ![s] = <<>>]
    /\ wrote' = [wrote EXCEPT ![s] = Nothing]

(* The entrypoint of a container.                                          *)
Start(s) ==
    /\ pc[s] = "idle" /\ starts < MaxStarts
    /\ starts' = starts + 1
    /\ pc' = [pc EXCEPT ![s] = "user"]
    /\ UNCHANGED <<tables, at, found, wrote, known, history>>

Crash(s) ==
    /\ pc[s] # "idle"
    /\ End(s)
    /\ UNCHANGED <<tables, starts, known, history>>

SeedUserAtOnce(s) ==
    /\ pc[s] = "user"
    /\ pc' = [pc EXCEPT ![s] = "event"]
    /\ touched' = touched \ {"during"} /\ titled' = {}
    /\ UNCHANGED <<tables, at, found, wrote, starts, known>>

(* _user: get_or_create of the user waits for one in flight under the      *)
(* unique index, update_or_create of the profile for its row.              *)
SeedUser(s) ==
    /\ pc[s] = "user"
    /\ Inside \ {s} = {}
    /\ pc' = [pc EXCEPT ![s] = "event"]
    /\ touched' = touched \ {"during"} /\ titled' = {}
    /\ UNCHANGED <<tables, at, found, wrote, starts, known>>

(* On to the next event or enrollment, or to what follows the last.        *)
Advance(s, script, next) ==
    IF at[s] < Len(script)
    THEN at' = [at EXCEPT ![s] = @ + 1] /\ UNCHANGED pc
    ELSE at' = [at EXCEPT ![s] = 1] /\ pc' = [pc EXCEPT ![s] = next]

Put(s, row) ==
    /\ wrote' = [wrote EXCEPT ![s].rows = Overlay(@, {row})]
    /\ found' = [found EXCEPT ![s] = Append(@, row.id)]
    /\ Advance(s, Specs, "booking")

Matching(s) ==
    {x \in Overlay(events, wrote[s].rows) : x.title = Specs[at[s]].title}

SeedCreate(s) ==
    /\ Matching(s) = {}
    /\ nextId <= MaxEvents
    /\ Put(s, [id |-> nextId, title |-> Specs[at[s]].title,
               capacity |-> Specs[at[s]].capacity, by |-> "seed"])
    /\ nextId' = nextId + 1

SeedUpdate(s) ==
    /\ \E x \in Matching(s) :
         /\ Matching(s) = {x}
         /\ Put(s, [x EXCEPT !.capacity = Specs[at[s]].capacity])
    /\ UNCHANGED nextId

(* MultipleObjectsReturned: handle's transaction rolls back.               *)
SeedConfused(s) ==
    /\ Cardinality(Matching(s)) > 1
    /\ End(s)
    /\ UNCHANGED nextId

(* Event.objects.update_or_create: SELECT FOR UPDATE, then INSERT or       *)
(* UPDATE.                                                                 *)
SeedEvent(s) ==
    /\ pc[s] = "event"
    /\ \A x \in Matching(s) : ~LockedByOther(s, x.id)
    /\ SeedCreate(s) \/ SeedUpdate(s) \/ SeedConfused(s)
    /\ UNCHANGED <<events, enrolled, starts, known, history>>

(* Enrollment.objects.get_or_create, which asks neither for the capacity   *)
(* nor for the start of the event.                                         *)
SeedBooking(s) ==
    /\ pc[s] = "booking"
    /\ LET b == Bookings[at[s]]
           x == [event |-> found[s][b.spec], seeker |-> b.seeker]
       IN  wrote' = [wrote EXCEPT ![s].enrolled =
                        IF x \in enrolled THEN @ ELSE @ \cup {x}]
    /\ Advance(s, Bookings, "commit")
    /\ UNCHANGED <<tables, found, starts, known, history>>

SeedCommit(s) ==
    /\ pc[s] = "commit"
    /\ events' = Overlay(events, wrote[s].rows)
    /\ enrolled' = enrolled \cup wrote[s].enrolled
    /\ known' = TRUE
    /\ touched' = IF "during" \in touched THEN {"since"} ELSE {}
    /\ End(s)
    /\ UNCHANGED <<nextId, starts, titled>>

----------------------------------------------------------------------------
(* What the API does meanwhile                                             *)

Active(id) == {x \in enrolled : x.event = id}

ByClient(given) ==
    /\ touched' = {"since", "during"}
    /\ titled' = IF Inside = {} THEN {} ELSE titled \cup given
    /\ UNCHANGED <<pc, at, found, wrote, starts, known>>

CreateEvent(title, capacity) ==
    /\ known
    /\ nextId <= MaxEvents
    /\ events' = events \cup
         {[id |-> nextId, title |-> title, capacity |-> capacity, by |-> "client"]}
    /\ nextId' = nextId + 1
    /\ ByClient({title}) /\ UNCHANGED enrolled

(* save() writes every field, those the client did not send from the copy  *)
(* that the request read: any title and any capacity.                      *)
PatchEvent(x, title, capacity) ==
    LET row == [x EXCEPT !.title = title, !.capacity = capacity] IN
    /\ ~Locked(x.id)
    /\ capacity # Unlimited => Cardinality(Active(x.id)) <= capacity
    /\ row # x
    /\ events' = (events \ {x}) \cup {row}
    /\ ByClient({title} \ {x.title}) /\ UNCHANGED <<enrolled, nextId>>

DeleteEvent(x) ==
    /\ ~Locked(x.id)
    /\ events' = events \ {x}
    /\ enrolled' = enrolled \ Active(x.id)
    /\ ByClient({}) /\ UNCHANGED nextId

Enroll(x, seeker) ==
    /\ ~Locked(x.id)
    /\ \A y \in Active(x.id) : y.seeker # seeker
    /\ x.capacity # Unlimited => Cardinality(Active(x.id)) < x.capacity
    /\ enrolled' = enrolled \cup {[event |-> x.id, seeker |-> seeker]}
    /\ ByClient({}) /\ UNCHANGED <<events, nextId>>

Cancel(y) ==
    /\ enrolled' = enrolled \ {y}
    /\ ByClient({}) /\ UNCHANGED <<events, nextId>>

----------------------------------------------------------------------------
Init ==
    /\ events = {} /\ enrolled = {} /\ nextId = 1
    /\ pc = [s \in Seeds |-> "idle"]
    /\ at = [s \in Seeds |-> 1]
    /\ found = [s \in Seeds |-> <<>>]
    /\ wrote = [s \in Seeds |-> Nothing]
    /\ starts = 0
    /\ known = FALSE /\ touched = {"since"} /\ titled = {}

Seed(s) == SeedUser(s) \/ SeedEvent(s) \/ SeedBooking(s) \/ SeedCommit(s)

Client ==
    \/ \E title \in Titles, capacity \in Capacities : CreateEvent(title, capacity)
    \/ \E x \in events :
         \/ \E title \in Titles, capacity \in Capacities : PatchEvent(x, title, capacity)
         \/ DeleteEvent(x)
         \/ \E seeker \in Seekers : Enroll(x, seeker)
    \/ \E y \in enrolled : Cancel(y)

Next == (\E s \in Seeds : Start(s) \/ Crash(s) \/ Seed(s)) \/ Client

Spec == Init /\ [][Next]_vars

----------------------------------------------------------------------------
TypeOK ==
    /\ events \subseteq EventRow
    /\ enrolled \subseteq Enrollment
    /\ nextId \in 1 .. MaxEvents + 1
    /\ pc \in [Seeds -> {"idle", "user", "event", "booking", "commit"}]
    /\ at \in [Seeds -> Nat \ {0}]
    /\ found \in [Seeds -> Seq(Keys)]
    /\ wrote \in [Seeds -> [rows: SUBSET EventRow, enrolled: SUBSET Enrollment]]
    /\ starts \in Nat /\ known \in BOOLEAN /\ touched \subseteq {"since", "during"}
    /\ titled \subseteq Titles

(* Commands run one after the other although nothing says so but a profile *)
(* they all write.                                                         *)
OneAtATime == \A s, t \in Inside : s = t

(* Where a command is in its script, and what it remembers of it.          *)
Positions ==
    \A s \in Seeds :
        /\ pc[s] \in {"idle", "user"} => at[s] = 1 /\ found[s] = <<>>
        /\ pc[s] = "event" => at[s] <= Len(Specs) /\ Len(found[s]) = at[s] - 1
        /\ pc[s] \in {"booking", "commit"} => Len(found[s]) = Len(Specs)
        /\ pc[s] = "booking" => at[s] <= Len(Bookings)

(* Keys are unique, and no committed enrollment is without its event.      *)
TablesInv ==
    /\ \A x \in events : x.id < nextId
    /\ \A x, y \in events : x.id = y.id => x = y
    /\ \A y \in enrolled : y.event \in IdsOf(events)
    /\ ~known => events = {}

(* What a command has written refers to rows that will be there when it    *)
(* commits: a client's event it has updated cannot be deleted meanwhile.   *)
WroteInv ==
    \A s \in Seeds :
        /\ s \notin Inside => wrote[s] = Nothing
        /\ \A x, y \in wrote[s].rows : x.id = y.id => x = y
        /\ \A x \in wrote[s].rows : /\ x.id < nextId
                                    /\ x.by = "client" => x.id \in IdsOf(events)
        /\ \A i \in 1 .. Len(found[s]) : found[s][i] \in IdsOf(wrote[s].rows)
        /\ \A y \in wrote[s].enrolled : y.event \in IdsOf(wrote[s].rows)

(* Where an event that a command has written shares its title with another *)
(* row, a client has given a row that title since the command began.       *)
TwinsInv ==
    \A s \in Seeds : \A x \in wrote[s].rows, y \in Overlay(events, wrote[s].rows) :
        x.title = y.title => x = y \/ x.title \in titled

TheOne(x, rows) == \A y \in rows : y.title = x.title => y = x

(* While no client writes, a command has done its script up to where it    *)
(* is.                                                                     *)
AsScripted ==
    \A s \in Inside : "during" \notin touched =>
        /\ \A i \in 1 .. Len(found[s]) : \E x \in wrote[s].rows :
              /\ x.id = found[s][i]
              /\ x.title = Specs[i].title /\ x.capacity = Specs[i].capacity
              /\ TheOne(x, Overlay(events, wrote[s].rows))
        /\ \A k \in 1 .. Len(Bookings) :
              pc[s] = "commit" \/ (pc[s] = "booking" /\ k < at[s]) =>
                 [event |-> found[s][Bookings[k].spec], seeker |-> Bookings[k].seeker]
                    \in enrolled \cup wrote[s].enrolled

(* Since then the tables hold what the script says, and a command that     *)
(* runs writes what is there already.                                      *)
Settled ==
    "since" \notin touched =>
        /\ "during" \notin touched
        /\ \A i \in 1 .. Len(Specs) : \E x \in events :
              x.title = Specs[i].title /\ x.capacity = Specs[i].capacity /\ TheOne(x, events)
        /\ \A k \in 1 .. Len(Bookings) : \A x \in events :
              x.title = Specs[Bookings[k].spec].title =>
                 [event |-> x.id, seeker |-> Bookings[k].seeker] \in enrolled
        /\ \A s \in Seeds : wrote[s].rows \subseteq events /\ wrote[s].enrolled = {}

(* So what a command has read of the events stays true until it commits,   *)
(* but for what clients insert: the inductive invariant of SeedingProofs.  *)
SeedInv ==
    /\ TypeOK
    /\ OneAtATime /\ Positions /\ TablesInv /\ WroteInv
    /\ TwinsInv
    /\ AsScripted /\ Settled

(* Containers that start together do not double the demo events, although  *)
(* no constraint makes (title, created_by) unique: an event that a command *)
(* commits has no twin but by a client who created or renamed one while    *)
(* the command ran.                                                        *)
SeedsMakeNoTwins ==
    [][\A s \in Seeds : SeedCommit(s) =>
         \A x \in wrote[s].rows, y \in events' :
            x.title = y.title => x = y \/ x.title \in titled]_vars

(* "Idempotent": a command that commits after another one, with no client  *)
(* writing since that one began, changes nothing (but the dates, which     *)
(* move on).                                                               *)
SeedIsIdempotent ==
    [][\A s \in Seeds :
         SeedCommit(s) /\ "since" \notin touched => UNCHANGED <<events, enrolled>>]_vars
=============================================================================
