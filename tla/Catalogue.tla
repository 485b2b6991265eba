------------------------------ MODULE Catalogue ------------------------------
(***************************************************************************)
(* What a client sees of the events while others change them: the list of  *)
(* events with its default order and filters (apps/events/views.py,        *)
(* filters.py), the facilitator's own events (mine), and a seeker's        *)
(* enrollments split into upcoming and past (apps/enrollments/views.py),   *)
(* page by page (apps/common/pagination.py).                               *)
(*                                                                         *)
(* A page takes two statements, a COUNT and a SELECT of the slice, after   *)
(* the queryset has taken its own reading of the clock.  A client reads    *)
(* all pages, or the two halves of its enrollments, one after the other.   *)
(* Writers are taken one statement each, as Booking justifies.  Of the     *)
(* enrollments only the active ones of the seeker who reads are here: the  *)
(* seats of an event, which are counted over everyone's, are in Booking.   *)
(* The tables start with whatever earlier traffic may have left in them.   *)
(***************************************************************************)
EXTENDS Integers, FiniteSets

CONSTANTS
    Keys,        \* primary keys of events
    Posts,       \* [state |-> "live", starts, ends] rows of events
    Windows,     \* [from, to]: the filters starts_after and starts_before
    PageSize,    \* page_size of a client that reads page by page
    MaxPageSize, \* max_page_size, which the two halves are asked for in
    MaxTime,     \* bound on the clock
    MaxWrites    \* bound on what others write while a client reads

VARIABLES
    now,
    events,
    enrolled,    \* the events the seeker is enrolled in
    writes,
    ask,         \* the client's present request, or its last
    pc,          \* the statement it executes next
    at,          \* its reading of the clock
    count,       \* the result of its COUNT
    seen,        \* events sent to the client since it began to read (history)
    must         \* those that nothing excuses the server from sending (history)

vars == <<now, events, enrolled, writes, ask, pc, at, count, seen, must>>

tables == <<events, enrolled>>
reading == <<ask, pc, at, count, seen>>

Unborn == [state |-> "unborn", starts |-> 0, ends |-> 0]

EventRow == [state: {"unborn", "live", "deleted"}, starts: Nat, ends: Nat]

ASSUME CatalogueAssumption ==
    /\ IsFiniteSet(Keys)
    /\ Posts \subseteq {row \in EventRow : row.state = "live" /\ row.starts < row.ends}
    /\ Windows \subseteq [from: Nat, to: Nat]
    /\ PageSize \in Nat \ {0} /\ MaxPageSize \in Nat
    /\ Cardinality(Keys) <= MaxPageSize
    /\ MaxTime \in Nat /\ MaxWrites \in Nat

(* The pages a client asks for: one by one, or, of each of the two halves, *)
(* a single one of max_page_size rows, which holds it as assumed above.    *)
Request == [list: {"events"}, window: Windows, size: {PageSize}, page: Nat \ {0}]
               \cup [list: {"mine"}, size: {PageSize}, page: Nat \ {0}]
               \cup [list: {"upcoming", "past"}, size: {MaxPageSize}, page: {1}]
NoRequest == [list |-> "none"]

----------------------------------------------------------------------------
(* The queries                                                             *)

Live == {e \in Keys : events[e].state = "live"}

StartsWithin(e, window) == window.from <= events[e].starts /\ events[e].starts <= window.to

RowsStrictly ==
    CASE ask.list = "events"   -> {e \in Live : StartsWithin(e, ask.window)}
      [] ask.list = "mine"     -> Live
      [] ask.list = "upcoming" -> {e \in enrolled : events[e].ends > at}
      [] ask.list = "past"     -> {e \in enrolled : events[e].ends < at}

Rows ==
    CASE ask.list = "events"   -> {e \in Live : StartsWithin(e, ask.window)}
      [] ask.list = "mine"     -> Live
      [] ask.list = "upcoming" -> {e \in enrolled : events[e].ends >= at}
      [] ask.list = "past"     -> {e \in enrolled : events[e].ends < at}

IsPast(t, e) == events[e].starts <= t

BeforeUnordered(t, x, y) == FALSE

(* x comes before y in the list's order, as of time t.                     *)
Before(t, x, y) ==
    CASE ask.list = "events" ->
             \/ ~IsPast(t, x) /\ IsPast(t, y)
             \/ (IsPast(t, x) <=> IsPast(t, y)) /\ events[x].starts < events[y].starts
      [] ask.list = "upcoming"        -> events[x].starts < events[y].starts
      [] ask.list \in {"past", "mine"} -> events[x].starts > events[y].starts

(* The database puts rows that start together in any order, each time anew.*)
Orders(S) ==
    {f \in [1 .. Cardinality(S) -> S] :
        \A i, j \in DOMAIN f : i < j => f[i] # f[j] /\ ~Before(at, f[j], f[i])}

----------------------------------------------------------------------------
(* The client                                                              *)

DistinctStarts(S) == \A x, y \in S : events[x].starts = events[y].starts => x = y

(* Rows that start together may be missed on the way from page to page.    *)
Begin(request, promised) ==
    /\ pc = "idle"
    /\ ask' = request /\ pc' = "query"
    /\ seen' = {}
    /\ must' = promised
    /\ UNCHANGED <<now, tables, writes, at, count>>

BeginEvents ==
    \E window \in Windows :
        LET S == {e \in Live : StartsWithin(e, window)}
        IN  Begin([list |-> "events", window |-> window, size |-> PageSize, page |-> 1],
                  IF DistinctStarts(S) THEN S ELSE {})

BeginMine ==
    Begin([list |-> "mine", size |-> PageSize, page |-> 1],
          IF DistinctStarts(Live) THEN Live ELSE {})

BeginSplit ==
    Begin([list |-> "upcoming", size |-> MaxPageSize, page |-> 1], enrolled)

(* get_queryset and the filters: no statement yet, but timezone.now().     *)
Query ==
    /\ pc = "query"
    /\ at' = now /\ pc' = "count"
    /\ UNCHANGED <<now, tables, writes, ask, count, seen, must>>

PageExists(n) == ask.page = 1 \/ (ask.page - 1) * ask.size < n

(* Paginator.count.  A page past the last is answered not_found.           *)
Count ==
    /\ pc = "count"
    /\ count' = Cardinality(Rows)
    /\ pc' = IF PageExists(count') THEN "slice" ELSE "idle"
    /\ UNCHANGED <<now, tables, writes, ask, at, seen, must>>

HasNext == ask.page * ask.size < count

(* The SELECT, whose LIMIT ends at the count taken before; then the client *)
(* follows "next", or asks for what it has upcoming and then for the past. *)
Slice ==
    /\ pc = "slice"
    /\ \E f \in Orders(Rows) :
         seen' = seen \cup
             {f[i] : i \in {j \in DOMAIN f : /\ (ask.page - 1) * ask.size < j
                                            /\ j <= ask.page * ask.size /\ j <= count}}
    /\ IF HasNext
       THEN ask' = [ask EXCEPT !.page = @ + 1] /\ pc' = "query"
       ELSE IF ask.list = "upcoming"
       THEN ask' = [ask EXCEPT !.list = "past"] /\ pc' = "query"
       ELSE pc' = "idle" /\ UNCHANGED ask
    /\ UNCHANGED <<now, tables, writes, at, count, must>>

----------------------------------------------------------------------------
(* The others, and what of theirs excuses an incomplete reading: rows that *)
(* go or move push those behind them onto a page already read, and a row   *)
(* that comes between COUNT and SELECT pushes the last one off the page;   *)
(* one that starts together with another may change places with it, and    *)
(* one that starts while a page is read changes sides for the next.        *)

Paging == ask.list \in {"events", "mine"}
Write == writes < MaxWrites /\ writes' = writes + 1 /\ UNCHANGED <<now, reading>>

CreateEvent(e, row) ==
    /\ Write
    /\ events[e].state = "unborn"
    /\ events' = [events EXCEPT ![e] = row]
    /\ must' = IF Paging /\ \/ pc = "slice"
                            \/ pc = "count" /\ at < row.starts /\ row.starts <= now
                            \/ \E x \in Live : events[x].starts = row.starts
               THEN {} ELSE must
    /\ UNCHANGED enrolled

MoveEvent(e, row) ==
    /\ Write
    /\ events[e].state = "live"
    /\ events' = [events EXCEPT ![e].starts = row.starts, ![e].ends = row.ends]
    /\ must' = IF Paging \/ pc = "slice" THEN {} ELSE must \ {e}
    /\ UNCHANGED enrolled

(* The cascade forgotten.                                                  *)
DeleteEventKeepsBookings(e) ==
    /\ Write
    /\ events[e].state = "live"
    /\ events' = [events EXCEPT ![e] = [Unborn EXCEPT !.state = "deleted"]]
    /\ must' = IF Paging THEN {} ELSE must \ {e}
    /\ UNCHANGED enrolled

DeleteEvent(e) ==
    /\ Write
    /\ events[e].state = "live"
    /\ events' = [events EXCEPT ![e] = [Unborn EXCEPT !.state = "deleted"]]
    /\ enrolled' = enrolled \ {e}
    /\ must' = IF Paging THEN {} ELSE must \ {e}

(* Refused besides when the others have taken every seat: not a step here. *)
Enroll(e) ==
    /\ Write
    /\ events[e].state = "live" /\ now < events[e].starts
    /\ e \notin enrolled
    /\ enrolled' = enrolled \cup {e}
    /\ must' = IF ~Paging /\ pc = "slice" THEN {} ELSE must
    /\ UNCHANGED events

Cancel(e) ==
    /\ Write
    /\ e \in enrolled
    /\ enrolled' = enrolled \ {e}
    /\ must' = IF Paging THEN must ELSE must \ {e}
    /\ UNCHANGED events

(* An event that starts changes its place in the default order.            *)
Tick ==
    /\ now < MaxTime
    /\ now' = now + 1
    /\ must' = IF ask.list = "events" /\ \E e \in Live : events[e].starts = now'
               THEN {} ELSE must
    /\ UNCHANGED <<tables, writes, reading>>

Init ==
    /\ now = 0 /\ writes = 0
    /\ events \in [Keys -> Posts \cup {Unborn}]
    /\ enrolled \in SUBSET Live
    /\ ask = NoRequest /\ pc = "idle"
    /\ at = 0 /\ count = 0
    /\ seen = {} /\ must = {}

Read == BeginEvents \/ BeginMine \/ BeginSplit \/ Query \/ Count \/ Slice

Next ==
    \/ Read
    \/ \E e \in Keys :
         \/ \E row \in Posts : CreateEvent(e, row) \/ MoveEvent(e, row)
         \/ DeleteEvent(e) \/ Enroll(e) \/ Cancel(e)
    \/ Tick

Spec == Init /\ [][Next]_vars

----------------------------------------------------------------------------
(* The types; an active enrollment is one in an event that exists, and what *)
(* a client was promised is still there.                                   *)
TypeOK ==
    /\ now \in Nat /\ at \in Nat /\ at <= now /\ writes \in Nat
    /\ events \in [Keys -> EventRow]
    /\ enrolled \subseteq Live
    /\ ask \in Request \cup {NoRequest}
    /\ ask = NoRequest => pc = "idle"
    /\ pc \in {"idle", "query", "count", "slice"}
    /\ count \in 0 .. Cardinality(Keys)
    /\ seen \subseteq Keys /\ must \subseteq Live

(* How many rows stand before e in a walk's order: as of the clock that the *)
(* next statement of its page will use or has used.                        *)
Clock == IF pc = "query" THEN now ELSE at
Ahead(e) == {x \in Rows : Before(Clock, x, e)}
Rank(e) == Cardinality(Ahead(e))

(* A walk that promises something: no event has changed sides since the    *)
(* page's reading of the clock, the slice is that of the count, and an     *)
(* event not yet seen has all the pages already read before it.            *)
WalkInv ==
    Paging /\ must # {} =>
        /\ pc = "idle" => must \subseteq seen
        /\ pc # "idle" =>
              /\ must \subseteq Rows /\ DistinctStarts(Rows)
              /\ \A e \in must \ seen : Rank(e) >= (ask.page - 1) * ask.size
        /\ pc \in {"count", "slice"} /\ ask.list = "events" =>
              \A e \in Live : events[e].starts <= at \/ events[e].starts > now
        /\ pc = "slice" => count = Cardinality(Rows)

(* A reading of the two halves: what the first has not shown had ended at  *)
(* its reading of the clock, and a slice leaves out no row.                *)
SplitInv ==
    ask.list \in {"upcoming", "past"} =>
        /\ ask.list = "upcoming" => pc # "idle"
        /\ pc # "idle" => must \subseteq enrolled
        /\ pc = "slice" /\ must # {} => Cardinality(Rows) <= count
        /\ ask.list = "past" =>
              \A e \in must : e \in seen \/ (pc # "idle" /\ events[e].ends < at)

(* The inductive invariant of the listings: the types, and what a reading  *)
(* on its way may rely on, whatever the others write between its           *)
(* statements (get_queryset, the paginator).                               *)
CatalogueInv == TypeOK /\ WalkInv /\ SplitInv

(* A client that reads the list of events, or its own ones, to the last    *)
(* page has seen every event that was there all the time, if no event was  *)
(* deleted, moved, or (in the default order) has started meanwhile; events *)
(* that are added do no harm, unless between the two statements of a page. *)
WalkMissesNone == pc = "idle" /\ Paging => must \subseteq seen

(* A seeker who asks for the upcoming enrollments and then for the past    *)
(* ones finds each that was active all the time among them, even one whose *)
(* event ends in between: the two halves share no gap.                     *)
SplitMissesNone == pc = "idle" /\ ask.list = "past" => must \subseteq seen
=============================================================================
