-------------------------- MODULE CatalogueProofs --------------------------
(***************************************************************************)
(* Catalogue, proved for any set of events, any windows, any page size and *)
(* any bounds.  CatalogueInv is inductive; what a client has seen when it  *)
(* stops reading, and the seats the dashboard shows, follow from it.       *)
(***************************************************************************)
EXTENDS Catalogue, FiniteSetTheorems, TLAPS

----------------------------------------------------------------------------
(* Requests and the rows that answer them                                  *)

LEMMA RequestFields ==
    ASSUME CatalogueAssumption, NEW r \in Request
    PROVE  /\ r.list \in {"events", "mine", "upcoming", "past"}
           /\ r.page \in Nat \ {0} /\ r.size \in Nat
           /\ r.list \in {"upcoming", "past"} => r.page = 1 /\ r.size = MaxPageSize
           /\ r.list \in {"events", "mine"} => r.size = PageSize
           /\ r.list = "events" => r.window \in Windows
           /\ r # NoRequest
BY DEF Request, NoRequest, CatalogueAssumption

LEMMA NextPageIsRequest ==
    ASSUME CatalogueAssumption, NEW r \in Request, r.list \in {"events", "mine"}
    PROVE  /\ [r EXCEPT !.page = @ + 1] \in Request
           /\ [r EXCEPT !.page = @ + 1].list = r.list
           /\ [r EXCEPT !.page = @ + 1].page = r.page + 1
           /\ [r EXCEPT !.page = @ + 1].size = r.size
           /\ r.list = "events" => [r EXCEPT !.page = @ + 1].window = r.window
<1>1. CASE r.list = "events"
  BY <1>1 DEF Request
<1>2. CASE r.list = "mine"
  BY <1>2 DEF Request
<1>3. QED  BY <1>1, <1>2

LEMMA ThenThePast ==
    ASSUME CatalogueAssumption, NEW r \in Request, r.list = "upcoming"
    PROVE  /\ [r EXCEPT !.list = "past"] \in Request
           /\ [r EXCEPT !.list = "past"].list = "past"
<1>1. r \in [list: {"upcoming", "past"}, size: {MaxPageSize}, page: {1}]
  BY DEF Request
<1>2. QED  BY <1>1 DEF Request

LEMMA RowsAreLive ==
    ASSUME CatalogueAssumption, TypeOK, ask \in Request
    PROVE  /\ Rows \subseteq Live /\ Rows \subseteq Keys
           /\ IsFiniteSet(Rows)
           /\ Cardinality(Rows) \in 0 .. Cardinality(Keys)
<1>1. ask.list \in {"events", "mine", "upcoming", "past"}
  BY RequestFields
<1>2. Rows \subseteq Live /\ Live \subseteq Keys
  BY <1>1 DEF Rows, Live, TypeOK
<1>3. Rows \in SUBSET Keys /\ IsFiniteSet(Keys)
  BY <1>2 DEF CatalogueAssumption
<1>4. IsFiniteSet(Rows) /\ Cardinality(Rows) <= Cardinality(Keys)
  BY <1>3, FS_Subset
<1>5. Cardinality(Rows) \in Nat /\ Cardinality(Keys) \in Nat
  BY <1>3, <1>4, FS_CardinalityType
<1>6. QED  BY <1>2, <1>4, <1>5

LEMMA EventTimes ==
    ASSUME TypeOK, NEW e \in Keys
    PROVE  /\ events[e].starts \in Nat /\ events[e].ends \in Nat
           /\ events[e].state \in {"unborn", "live", "deleted"}
<1>1. events[e] \in EventRow
  BY DEF TypeOK
<1>2. QED  BY <1>1 DEF EventRow

----------------------------------------------------------------------------
(* What the database may return as the rows in order                       *)

LEMMA OrderIsOnto ==
    ASSUME NEW S, IsFiniteSet(S), NEW f \in Orders(S)
    PROVE  /\ DOMAIN f = 1 .. Cardinality(S)
           /\ \A i \in DOMAIN f : f[i] \in S
           /\ \A i, j \in DOMAIN f : f[i] = f[j] => i = j
           /\ \A e \in S : \E k \in DOMAIN f : f[k] = e
           /\ Cardinality(S) \in Nat
<1> DEFINE n == Cardinality(S)
<1>1. n \in Nat
  BY FS_CardinalityType
<1>2. f \in [1 .. n -> S] /\ \A i, j \in 1 .. n : i < j => f[i] # f[j]
  BY DEF Orders
<1>3. \A i, j \in 1 .. n : f[i] = f[j] => i = j
  BY <1>1, <1>2
<1>4. f \in Injection(1 .. n, S)
  BY <1>2, <1>3 DEF Injection, IsInjective
<1>5. Cardinality(1 .. n) = n
  BY <1>1, FS_Interval
<1>6. f \in Surjection(1 .. n, S)
  BY <1>4, <1>5, FS_Injection
<1>7. QED  BY <1>1, <1>2, <1>3, <1>6 DEF Surjection

(* The two orders a walk may have, spelled out.                            *)
LEMMA WalkOrder ==
    ASSUME Paging, NEW t, NEW x, NEW y
    PROVE  /\ ask.list = "events" =>
                (Before(t, x, y) <=>
                   \/ ~(events[x].starts <= t) /\ events[y].starts <= t
                   \/ /\ events[x].starts <= t <=> events[y].starts <= t
                      /\ events[x].starts < events[y].starts)
           /\ ask.list # "events" =>
                (Before(t, x, y) <=> events[x].starts > events[y].starts)
<1>1. CASE ask.list = "events"
  BY <1>1 DEF Before, IsPast
<1>2. CASE ask.list = "mine"
  BY <1>2 DEF Before
<1>3. QED  BY <1>1, <1>2 DEF Paging

(* The order is the same by two clocks between which nothing starts.       *)
LEMMA SameSides ==
    ASSUME Paging, NEW t, NEW u, NEW x, NEW y,
           ask.list = "events" =>
             /\ events[x].starts <= t <=> events[x].starts <= u
             /\ events[y].starts <= t <=> events[y].starts <= u
    PROVE  Before(t, x, y) <=> Before(u, x, y)
<1>1. CASE ask.list = "events"
  BY <1>1 DEF Before, IsPast
<1>2. CASE ask.list = "mine"
  BY <1>2 DEF Before
<1>3. QED  BY <1>1, <1>2 DEF Paging

LEMMA WalkOrderIsTotal ==
    ASSUME TypeOK, Paging, NEW t \in Nat, NEW x \in Keys, NEW y \in Keys
    PROVE  /\ ~Before(t, x, x)
           /\ events[x].starts # events[y].starts =>
                Before(t, x, y) \/ Before(t, y, x)
<1>1. events[x].starts \in Nat /\ events[y].starts \in Nat
  BY EventTimes
<1>2. CASE ask.list = "events"
  <2>1. /\ Before(t, x, y) <=>
             \/ ~(events[x].starts <= t) /\ events[y].starts <= t
             \/ /\ events[x].starts <= t <=> events[y].starts <= t
                /\ events[x].starts < events[y].starts
        /\ Before(t, y, x) <=>
             \/ ~(events[y].starts <= t) /\ events[x].starts <= t
             \/ /\ events[y].starts <= t <=> events[x].starts <= t
                /\ events[y].starts < events[x].starts
        /\ Before(t, x, x) <=>
             \/ ~(events[x].starts <= t) /\ events[x].starts <= t
             \/ /\ events[x].starts <= t <=> events[x].starts <= t
                /\ events[x].starts < events[x].starts
    BY <1>2, WalkOrder
  <2>2. QED  BY <1>1, <2>1
<1>3. CASE ask.list # "events"
  <2>1. /\ Before(t, x, y) <=> events[x].starts > events[y].starts
        /\ Before(t, y, x) <=> events[y].starts > events[x].starts
        /\ Before(t, x, x) <=> events[x].starts > events[x].starts
    BY <1>3, WalkOrder
  <2>2. QED  BY <1>1, <2>1
<1>4. QED  BY <1>2, <1>3

(* Where no two rows start together, the row at position k has k - 1 rows  *)
(* before it, whatever order the database chose.                           *)
LEMMA RankIsPosition ==
    ASSUME CatalogueAssumption, TypeOK, ask \in Request, Paging, pc = "slice",
           DistinctStarts(Rows), NEW f \in Orders(Rows), NEW k \in DOMAIN f
    PROVE  Rank(f[k]) = k - 1
<1>1. IsFiniteSet(Rows) /\ Rows \subseteq Keys
  BY RowsAreLive
<1>2. /\ DOMAIN f = 1 .. Cardinality(Rows) /\ Cardinality(Rows) \in Nat
      /\ \A i \in DOMAIN f : f[i] \in Rows
      /\ \A i, j \in DOMAIN f : f[i] = f[j] => i = j
      /\ \A e \in Rows : \E i \in DOMAIN f : f[i] = e
  BY <1>1, OrderIsOnto
<1>3. \A i, j \in DOMAIN f : i < j => ~Before(at, f[j], f[i])
  BY DEF Orders
<1>4. \A x, y \in Rows : x # y => Before(at, x, y) \/ Before(at, y, x)
  <2>1. at \in Nat
    BY DEF TypeOK
  <2>2. QED  BY <1>1, <2>1, WalkOrderIsTotal DEF DistinctStarts
<1>5. \A x \in Rows : ~Before(at, x, x)
  <2>1. at \in Nat
    BY DEF TypeOK
  <2>2. QED  BY <1>1, <2>1, WalkOrderIsTotal
<1>6. \A i \in DOMAIN f : Before(at, f[i], f[k]) <=> i < k
  BY <1>2, <1>3, <1>4, <1>5
<1> DEFINE g == [i \in 1 .. (k - 1) |-> f[i]]
<1>7. k \in Nat /\ k >= 1 /\ k - 1 \in Nat /\ 1 .. (k - 1) \subseteq DOMAIN f
  BY <1>2
<1>8. Ahead(f[k]) = {x \in Rows : Before(at, x, f[k])}
  BY DEF Ahead, Clock
<1>9. g \in [1 .. (k - 1) -> Ahead(f[k])]
  BY <1>2, <1>6, <1>7, <1>8
<1>10. g \in Injection(1 .. (k - 1), Ahead(f[k]))
  BY <1>2, <1>7, <1>9 DEF Injection, IsInjective
<1>11. g \in Surjection(1 .. (k - 1), Ahead(f[k]))
  <2>1. \A x \in Ahead(f[k]) : \E i \in 1 .. (k - 1) : g[i] = x
    <3>1. TAKE x \in Ahead(f[k])
    <3>2. PICK i \in DOMAIN f : f[i] = x
      BY <1>2, <1>8
    <3>3. i < k /\ i \in 1 .. (k - 1)
      BY <1>2, <1>6, <1>7, <1>8, <3>2
    <3>4. QED  BY <3>2, <3>3
  <2>2. QED  BY <1>9, <2>1 DEF Surjection
<1>12. IsFiniteSet(1 .. (k - 1)) /\ Cardinality(1 .. (k - 1)) = k - 1
  BY <1>7, FS_Interval
<1>13. ExistsBijection(1 .. (k - 1), Ahead(f[k]))
  BY <1>10, <1>11 DEF ExistsBijection, Bijection
<1>14. Cardinality(Ahead(f[k])) = k - 1
  BY <1>12, <1>13, FS_Bijection
<1>15. QED  BY <1>14 DEF Rank

----------------------------------------------------------------------------
(* The types                                                               *)

LEMMA InitTypes ==
    ASSUME CatalogueAssumption, Init  PROVE TypeOK
<1>1. Unborn \in EventRow /\ Posts \subseteq EventRow
  BY DEF CatalogueAssumption, Unborn, EventRow
<1>2. events \in [Keys -> EventRow]
  BY <1>1 DEF Init
<1>3. Cardinality(Keys) \in Nat
  BY FS_CardinalityType DEF CatalogueAssumption
<1>4. QED  BY <1>2, <1>3 DEF Init, TypeOK

LEMMA BeginKeepsTypes ==
    ASSUME CatalogueAssumption, TypeOK, NEW request \in Request,
           NEW promised \in SUBSET Live, Begin(request, promised)
    PROVE  TypeOK'
<1>1. Live' = Live
  BY DEF Begin, tables, Live
<1>2. request # NoRequest
  BY RequestFields
<1>3. QED  BY <1>1, <1>2 DEF Begin, tables, TypeOK

LEMMA SliceAsksNext ==
    ASSUME CatalogueAssumption, TypeOK, ask \in Request, Slice
    PROVE  /\ ask' \in Request /\ pc' \in {"idle", "query"}
           /\ Paging => /\ Paging' /\ ask'.size = ask.size /\ ask'.list = ask.list
                        /\ ask.list = "events" => ask'.window = ask.window
                        /\ IF HasNext THEN pc' = "query" /\ ask'.page = ask.page + 1
                                      ELSE pc' = "idle"
           /\ ~Paging => ask'.list = "past" /\ (pc' = "query" <=> ask.list = "upcoming")
<1>1. ask.list \in {"events", "mine", "upcoming", "past"}
  BY RequestFields
<1>2. CASE Paging
  <2>1. ask.list \in {"events", "mine"}
    BY <1>2 DEF Paging
  <2>2. CASE HasNext
    <3>1. ask' = [ask EXCEPT !.page = @ + 1] /\ pc' = "query"
      BY <2>2 DEF Slice
    <3>2. QED  BY <1>2, <2>1, <2>2, <3>1, NextPageIsRequest DEF Paging
  <2>3. CASE ~HasNext
    BY <1>2, <2>1, <2>3 DEF Slice, Paging
  <2>4. QED  BY <2>2, <2>3
<1>3. CASE ~Paging
  <2>1. ask.list \in {"upcoming", "past"}
    BY <1>1, <1>3 DEF Paging
  <2>2. ask.page = 1 /\ ask.size = MaxPageSize
    BY <2>1, RequestFields
  <2>3. ~HasNext
    <3>1. Cardinality(Keys) \in Nat
      BY FS_CardinalityType DEF CatalogueAssumption
    <3>2. count \in Nat /\ count <= Cardinality(Keys)
      BY <3>1 DEF TypeOK
    <3>3. QED  BY <2>2, <3>1, <3>2 DEF HasNext, CatalogueAssumption
  <2>4. CASE ask.list = "upcoming"
    <3>1. ask' = [ask EXCEPT !.list = "past"] /\ pc' = "query"
      BY <2>3, <2>4 DEF Slice
    <3>2. QED  BY <1>3, <2>4, <3>1, ThenThePast
  <2>5. CASE ask.list = "past"
    BY <1>3, <2>3, <2>5 DEF Slice
  <2>6. QED  BY <2>1, <2>4, <2>5
<1>4. QED  BY <1>2, <1>3

LEMMA ReadKeepsTypes ==
    ASSUME CatalogueAssumption, TypeOK, Read
    PROVE  TypeOK'
<1>1. CASE BeginEvents
  <2>1. PICK window \in Windows :
          LET S == {e \in Live : StartsWithin(e, window)}
          IN  Begin([list |-> "events", window |-> window, size |-> PageSize, page |-> 1],
                    IF DistinctStarts(S) THEN S ELSE {})
    BY <1>1 DEF BeginEvents
  <2>2. [list |-> "events", window |-> window, size |-> PageSize, page |-> 1] \in Request
    BY DEF Request
  <2> DEFINE S == {e \in Live : StartsWithin(e, window)}
  <2>3. (IF DistinctStarts(S) THEN S ELSE {}) \in SUBSET Live
    OBVIOUS
  <2>4. QED  BY <2>1, <2>2, <2>3, BeginKeepsTypes
<1>2. CASE BeginMine
  <2>1. [list |-> "mine", size |-> PageSize, page |-> 1] \in Request
    BY DEF Request
  <2>2. (IF DistinctStarts(Live) THEN Live ELSE {}) \in SUBSET Live
    OBVIOUS
  <2>3. QED  BY <1>2, <2>1, <2>2, BeginKeepsTypes DEF BeginMine
<1>3. CASE BeginSplit
  <2>1. [list |-> "upcoming", size |-> MaxPageSize, page |-> 1] \in Request
    BY DEF Request
  <2>2. enrolled \in SUBSET Live
    BY DEF TypeOK
  <2>3. QED  BY <1>3, <2>1, <2>2, BeginKeepsTypes DEF BeginSplit
<1>4. CASE Query
  <2>1. Live' = Live
    BY <1>4 DEF Query, tables, Live
  <2>2. QED  BY <1>4, <2>1 DEF Query, tables, TypeOK
<1>5. CASE Count
  <2>1. ask \in Request
    BY <1>5 DEF Count, TypeOK
  <2>2. Live' = Live
    BY <1>5 DEF Count, tables, Live
  <2>3. count' \in 0 .. Cardinality(Keys)
    BY <1>5, <2>1, RowsAreLive DEF Count
  <2>4. QED  BY <1>5, <2>2, <2>3 DEF Count, tables, TypeOK
<1>6. CASE Slice
  <2>1. ask \in Request
    BY <1>6 DEF Slice, TypeOK
  <2>2. Live' = Live
    BY <1>6 DEF Slice, tables, Live
  <2>3. ask' \in Request /\ pc' \in {"idle", "query"}
    BY <1>6, <2>1, SliceAsksNext
  <2>4. seen' \subseteq Keys
    <3>1. IsFiniteSet(Rows) /\ Rows \subseteq Keys
      BY <2>1, RowsAreLive
    <3>2. PICK f \in Orders(Rows) :
            seen' = seen \cup
              {f[k] : k \in {j \in DOMAIN f : /\ (ask.page - 1) * ask.size < j
                                             /\ j <= ask.page * ask.size /\ j <= count}}
      BY <1>6 DEF Slice
    <3>3. \A k \in DOMAIN f : f[k] \in Rows
      BY <3>1, OrderIsOnto
    <3>4. QED  BY <3>1, <3>2, <3>3 DEF TypeOK
  <2>5. ask' # NoRequest
    BY <2>3, RequestFields
  <2>6. QED  BY <1>6, <2>2, <2>3, <2>4, <2>5 DEF Slice, tables, TypeOK
<1>7. QED  BY <1>1, <1>2, <1>3, <1>4, <1>5, <1>6 DEF Read

LEMMA WriteKeepsTypes ==
    ASSUME CatalogueAssumption, TypeOK, Write,
           events' \in [Keys -> EventRow],
           enrolled' \subseteq Live', must' \subseteq Live'
    PROVE  TypeOK'
BY DEF Write, reading, TypeOK

LEMMA OthersKeepTypes ==
    ASSUME CatalogueAssumption, TypeOK, NEW e \in Keys,
           \/ \E row \in Posts : CreateEvent(e, row) \/ MoveEvent(e, row)
           \/ DeleteEvent(e) \/ Enroll(e) \/ Cancel(e)
    PROVE  TypeOK'
<1>1. /\ \A x \in Live : x \in Keys /\ events[x].state = "live"
      /\ enrolled \subseteq Live /\ must \subseteq Live
      /\ events \in [Keys -> EventRow]
  BY DEF TypeOK, Live
<1>2. ASSUME NEW row \in Posts, CreateEvent(e, row)  PROVE TypeOK'
  <2>1. row \in EventRow /\ row.state = "live"
    BY DEF CatalogueAssumption
  <2>2. Live' = Live \cup {e} /\ events' \in [Keys -> EventRow]
    BY <1>1, <1>2, <2>1 DEF CreateEvent, Live
  <2>3. must' \subseteq must /\ enrolled' = enrolled
    BY <1>2 DEF CreateEvent
  <2>4. Write
    BY <1>2 DEF CreateEvent
  <2>5. QED  BY <1>1, <2>2, <2>3, <2>4, WriteKeepsTypes
<1>3. ASSUME NEW row \in Posts, MoveEvent(e, row)  PROVE TypeOK'
  <2>1. /\ row.starts \in Nat /\ row.ends \in Nat
        /\ events[e] \in EventRow
    BY <1>1 DEF CatalogueAssumption, EventRow
  <2>2. [events[e] EXCEPT !.starts = row.starts, !.ends = row.ends] \in EventRow
    BY <2>1 DEF EventRow
  <2>3. events' = [events EXCEPT ![e] =
                      [events[e] EXCEPT !.starts = row.starts, !.ends = row.ends]]
    BY <1>1, <1>3 DEF MoveEvent
  <2>4. [events[e] EXCEPT !.starts = row.starts, !.ends = row.ends].state = "live"
    BY <1>3, <2>1 DEF MoveEvent, EventRow
  <2>5. Live' = Live /\ events' \in [Keys -> EventRow]
    BY <1>1, <1>3, <2>2, <2>3, <2>4 DEF MoveEvent, Live
  <2>6. must' \subseteq must /\ enrolled' = enrolled
    BY <1>3 DEF MoveEvent
  <2>7. Write
    BY <1>3 DEF MoveEvent
  <2>8. QED  BY <1>1, <2>5, <2>6, <2>7, WriteKeepsTypes
<1>4. CASE DeleteEvent(e)
  <2>1. /\ [Unborn EXCEPT !.state = "deleted"] \in EventRow
        /\ [Unborn EXCEPT !.state = "deleted"].state # "live"
    BY DEF Unborn, EventRow
  <2>2. Live' = Live \ {e} /\ events' \in [Keys -> EventRow]
    BY <1>1, <1>4, <2>1 DEF DeleteEvent, Live
  <2>3. must' \subseteq must \ {e} /\ enrolled' = enrolled \ {e}
    BY <1>1, <1>4 DEF DeleteEvent
  <2>4. Write
    BY <1>4 DEF DeleteEvent
  <2>5. QED  BY <1>1, <2>2, <2>3, <2>4, WriteKeepsTypes
<1>5. CASE Enroll(e)
  <2>1. e \in Live /\ Live' = Live /\ events' = events
    BY <1>5 DEF Enroll, Live
  <2>2. must' \subseteq must /\ enrolled' = enrolled \cup {e}
    BY <1>5 DEF Enroll
  <2>3. Write
    BY <1>5 DEF Enroll
  <2>4. QED  BY <1>1, <2>1, <2>2, <2>3, WriteKeepsTypes
<1>6. CASE Cancel(e)
  <2>1. Live' = Live /\ events' = events
    BY <1>6 DEF Cancel, Live
  <2>2. must' \subseteq must /\ enrolled' = enrolled \ {e}
    BY <1>1, <1>6 DEF Cancel
  <2>3. Write
    BY <1>6 DEF Cancel
  <2>4. QED  BY <1>1, <2>1, <2>2, <2>3, WriteKeepsTypes
<1>7. QED  BY <1>2, <1>3, <1>4, <1>5, <1>6

LEMMA TickKeepsTypes ==
    ASSUME CatalogueAssumption, TypeOK, Tick
    PROVE  TypeOK'
<1>1. Live' = Live
  BY DEF Tick, tables, Live
<1>2. QED  BY <1>1 DEF Tick, tables, reading, TypeOK

LEMMA StepKeepsTypes ==
    ASSUME CatalogueAssumption, TypeOK, [Next]_vars
    PROVE  TypeOK'
<1>1. CASE UNCHANGED vars
  <2>1. Live' = Live
    BY <1>1 DEF vars, tables, Live
  <2>2. QED  BY <1>1, <2>1 DEF vars, TypeOK
<1>2. QED  BY <1>1, ReadKeepsTypes, OthersKeepTypes, TickKeepsTypes DEF Next

----------------------------------------------------------------------------
(* The two halves of the enrollments                                       *)

(* What another's write does to a reading of the two halves.               *)
LEMMA SplitSurvives ==
    ASSUME CatalogueAssumption, TypeOK, TypeOK', SplitInv, ~Paging,
           ask \in Request,
           UNCHANGED reading, must' \subseteq must,
           \A x \in must' : events'[x].ends = events[x].ends,
           pc # "idle" => must' \subseteq enrolled',
           pc = "slice" /\ must' # {} => Rows' \subseteq Rows
    PROVE  SplitInv'
<1>1. ask' = ask /\ pc' = pc /\ at' = at /\ count' = count /\ seen' = seen
  BY DEF reading
<1>2. ask.list \in {"upcoming", "past"}
  BY RequestFields DEF Paging
<1>3. ASSUME pc = "slice", must' # {}
      PROVE  Cardinality(Rows)' <= count'
  <2>1. Rows' \in SUBSET Rows /\ IsFiniteSet(Rows)
    BY <1>3, RowsAreLive
  <2>2. Cardinality(Rows') <= Cardinality(Rows) /\ IsFiniteSet(Rows')
    BY <2>1, FS_Subset
  <2>3. Cardinality(Rows) <= count
    BY <1>2, <1>3 DEF SplitInv
  <2>4. Cardinality(Rows) \in Nat /\ Cardinality(Rows') \in Nat
    BY <2>1, <2>2, FS_CardinalityType
  <2>5. count \in Int /\ count' = count
    BY <1>1 DEF TypeOK
  <2>6. QED  BY <2>2, <2>3, <2>4, <2>5
<1>4. ASSUME ask.list = "past", NEW e \in must'
      PROVE  e \in seen \/ (pc # "idle" /\ events'[e].ends < at)
  BY <1>4 DEF SplitInv
<1>5. ask.list = "upcoming" => pc # "idle"
  BY DEF SplitInv
<1>6. QED  BY <1>1, <1>3, <1>4, <1>5 DEF SplitInv

(* A slice of the two halves leaves out no row.                            *)
LEMMA SliceShowsAll ==
    ASSUME CatalogueAssumption, TypeOK, SplitInv, ~Paging, ask \in Request,
           pc = "slice", must # {}, Slice
    PROVE  Rows \subseteq seen'
<1>1. ask.list \in {"upcoming", "past"}
  BY RequestFields DEF Paging
<1>2. ask.page = 1 /\ ask.size = MaxPageSize
  BY <1>1, RequestFields
<1>3. PICK f \in Orders(Rows) :
        seen' = seen \cup
          {f[k] : k \in {j \in DOMAIN f : /\ (ask.page - 1) * ask.size < j
                                         /\ j <= ask.page * ask.size /\ j <= count}}
  BY DEF Slice
<1>4. IsFiniteSet(Rows) /\ Cardinality(Rows) \in 0 .. Cardinality(Keys)
  BY RowsAreLive
<1>5. /\ DOMAIN f = 1 .. Cardinality(Rows)
      /\ \A e \in Rows : \E k \in DOMAIN f : f[k] = e
  BY <1>4, OrderIsOnto
<1>6. Cardinality(Rows) <= count /\ count \in Nat
  BY <1>1 DEF SplitInv, TypeOK
<1>7. /\ Cardinality(Keys) \in Nat /\ MaxPageSize \in Nat
      /\ Cardinality(Keys) <= MaxPageSize
  BY FS_CardinalityType DEF CatalogueAssumption
<1>8. (ask.page - 1) * ask.size = 0 /\ ask.page * ask.size = MaxPageSize
  BY <1>2, <1>7
<1>9. \A k \in DOMAIN f : /\ (ask.page - 1) * ask.size < k
                          /\ k <= ask.page * ask.size /\ k <= count
  BY <1>4, <1>5, <1>6, <1>7, <1>8
<1>10. QED  BY <1>3, <1>5, <1>9

LEMMA ReadKeepsSplit ==
    ASSUME CatalogueAssumption, TypeOK, TypeOK', SplitInv, Read
    PROVE  SplitInv'
<1>1. CASE BeginEvents
  BY <1>1 DEF BeginEvents, Begin, SplitInv
<1>2. CASE BeginMine
  BY <1>2 DEF BeginMine, Begin, SplitInv
<1>3. CASE BeginSplit
  BY <1>3 DEF BeginSplit, Begin, tables, SplitInv
<1>4. CASE Query
  <2>1. /\ pc = "query" /\ pc' = "count" /\ ask' = ask /\ events' = events
        /\ enrolled' = enrolled /\ must' = must /\ seen' = seen /\ at' = now
    BY <1>4 DEF Query, tables
  <2>2. now \in Nat /\ at \in Nat /\ at <= now /\ must \subseteq Keys
    BY DEF TypeOK, Live
  <2>3. ASSUME ask.list = "past", NEW e \in must
        PROVE  e \in seen \/ events[e].ends < now
    <3>1. e \in seen \/ events[e].ends < at
      BY <2>3 DEF SplitInv
    <3>2. events[e].ends \in Nat
      BY <2>2, EventTimes
    <3>3. QED  BY <2>2, <3>1, <3>2
  <2>4. QED  BY <2>1, <2>3 DEF SplitInv
<1>5. CASE Count
  <2>1. /\ pc = "count" /\ ask' = ask /\ events' = events /\ at' = at
        /\ enrolled' = enrolled /\ must' = must /\ seen' = seen
    BY <1>5 DEF Count, tables
  <2>2. SUFFICES ASSUME ask.list \in {"upcoming", "past"}  PROVE SplitInv'
    BY <2>1 DEF SplitInv
  <2>3. ask \in Request
    BY <2>1 DEF TypeOK
  <2>4. pc' = "slice"
    <3>1. ask.page = 1
      BY <2>2, <2>3, RequestFields
    <3>2. QED  BY <1>5, <3>1 DEF Count, PageExists
  <2>5. Rows' = Rows
    BY <2>1, <2>2 DEF Rows
  <2>6. Cardinality(Rows)' <= count'
    <3>1. count' = Cardinality(Rows)
      BY <1>5 DEF Count
    <3>2. Cardinality(Rows) \in Nat
      BY <2>3, RowsAreLive
    <3>3. QED  BY <2>5, <3>1, <3>2
  <2>7. QED  BY <2>1, <2>4, <2>6 DEF SplitInv
<1>6. CASE Slice
  <2>1. /\ pc = "slice" /\ events' = events /\ at' = at
        /\ enrolled' = enrolled /\ must' = must /\ seen \subseteq seen'
    BY <1>6 DEF Slice, tables
  <2>2. ask \in Request
    BY <2>1 DEF TypeOK
  <2>3. pc' \in {"idle", "query"}
    BY <1>6, <2>2, SliceAsksNext
  <2>4. CASE Paging
    <3>1. Paging'
      BY <1>6, <2>2, <2>4, SliceAsksNext
    <3>2. QED  BY <3>1 DEF Paging, SplitInv
  <2>5. CASE ~Paging
    <3>1. ask'.list = "past" /\ (pc' = "query" <=> ask.list = "upcoming")
      BY <1>6, <2>2, <2>5, SliceAsksNext
    <3>2. ask.list \in {"upcoming", "past"} /\ must \subseteq enrolled
      BY <2>1, <2>2, <2>5, RequestFields DEF Paging, SplitInv
    <3>3. ASSUME NEW e \in must
          PROVE  e \in seen' \/ (pc' # "idle" /\ events[e].ends < at)
      <4>1. Rows \subseteq seen'
        BY <1>6, <2>1, <2>2, <2>5, <3>3, SliceShowsAll
      <4>2. CASE ask.list = "upcoming"
        <5>1. e \in Rows \/ ~(events[e].ends >= at)
          BY <3>2, <4>2 DEF Rows
        <5>2. events[e].ends \in Nat /\ at \in Nat
          BY EventTimes DEF TypeOK, Live
        <5>3. QED  BY <2>3, <3>1, <4>1, <4>2, <5>1, <5>2
      <4>3. CASE ask.list = "past"
        <5>1. e \in seen \/ events[e].ends < at
          BY <4>3 DEF SplitInv
        <5>2. events[e].ends < at => e \in Rows
          BY <3>2, <4>3 DEF Rows
        <5>3. QED  BY <2>1, <4>1, <5>1, <5>2
      <4>4. QED  BY <3>2, <4>2, <4>3
    <3>4. QED  BY <2>1, <2>3, <3>1, <3>2, <3>3 DEF SplitInv
  <2>6. QED  BY <2>4, <2>5
<1>7. QED  BY <1>1, <1>2, <1>3, <1>4, <1>5, <1>6 DEF Read

LEMMA OthersKeepSplit ==
    ASSUME CatalogueAssumption, TypeOK, TypeOK', SplitInv, NEW e \in Keys,
           \/ \E row \in Posts : CreateEvent(e, row) \/ MoveEvent(e, row)
           \/ DeleteEvent(e) \/ Enroll(e) \/ Cancel(e)
    PROVE  SplitInv'
<1>1. UNCHANGED reading
  BY DEF CreateEvent, MoveEvent, DeleteEvent, Enroll, Cancel, Write
<1>2. ask' = ask /\ at' = at
  BY <1>1 DEF reading
<1>3. SUFFICES ASSUME ask.list \in {"upcoming", "past"}  PROVE SplitInv'
  BY <1>2 DEF SplitInv
<1>4. ~Paging /\ ask \in Request
  BY <1>3 DEF Paging, TypeOK, NoRequest
<1>5. /\ must \subseteq Live /\ enrolled \subseteq Live
      /\ \A x \in Live : x \in Keys /\ events[x].state = "live"
      /\ events = [x \in Keys |-> events[x]]
  BY DEF TypeOK, Live
<1>6. pc # "idle" => must \subseteq enrolled
  BY <1>3 DEF SplitInv
<1>7. ASSUME NEW row \in Posts, CreateEvent(e, row)  PROVE SplitInv'
  <2>1. \A x \in Live : x # e
    BY <1>5, <1>7 DEF CreateEvent
  <2>2. \A x \in Live : events'[x] = events[x]
    BY <1>5, <1>7, <2>1 DEF CreateEvent
  <2>3. must' \subseteq must /\ enrolled' = enrolled
    BY <1>7 DEF CreateEvent
  <2>4. Rows' \subseteq Rows
    BY <1>2, <1>3, <1>5, <2>2, <2>3 DEF Rows
  <2>5. QED  BY <1>1, <1>4, <1>5, <1>6, <2>2, <2>3, <2>4, SplitSurvives
<1>8. ASSUME NEW row \in Posts, MoveEvent(e, row)  PROVE SplitInv'
  <2>1. /\ enrolled' = enrolled
        /\ must' = IF pc = "slice" THEN {} ELSE must \ {e}
    BY <1>4, <1>8 DEF MoveEvent
  <2>2. \A x \in must' : events'[x] = events[x]
    BY <1>5, <1>8, <2>1 DEF MoveEvent
  <2>3. QED  BY <1>1, <1>4, <1>5, <1>6, <2>1, <2>2, SplitSurvives
<1>9. CASE DeleteEvent(e)
  <2>1. enrolled' = enrolled \ {e} /\ must' = must \ {e}
    BY <1>4, <1>9 DEF DeleteEvent
  <2>2. \A x \in Live \ {e} : events'[x] = events[x]
    BY <1>5, <1>9 DEF DeleteEvent
  <2>3. Rows' \subseteq Rows
    BY <1>2, <1>3, <1>5, <2>1, <2>2 DEF Rows
  <2>4. QED  BY <1>1, <1>4, <1>5, <1>6, <2>1, <2>2, <2>3, SplitSurvives
<1>10. CASE Enroll(e)
  <2>1. /\ enrolled' = enrolled \cup {e} /\ events' = events
        /\ must' = IF pc = "slice" THEN {} ELSE must
    BY <1>4, <1>10 DEF Enroll
  <2>2. QED  BY <1>1, <1>4, <1>5, <1>6, <2>1, SplitSurvives
<1>11. CASE Cancel(e)
  <2>1. enrolled' = enrolled \ {e} /\ events' = events /\ must' = must \ {e}
    BY <1>4, <1>11 DEF Cancel
  <2>2. Rows' \subseteq Rows
    BY <1>2, <1>3, <2>1 DEF Rows
  <2>3. QED  BY <1>1, <1>4, <1>5, <1>6, <2>1, <2>2, SplitSurvives
<1>12. QED  BY <1>7, <1>8, <1>9, <1>10, <1>11

LEMMA StepKeepsSplit ==
    ASSUME CatalogueAssumption, TypeOK, TypeOK', SplitInv, [Next]_vars
    PROVE  SplitInv'
<1>1. CASE UNCHANGED vars \/ Tick
  <2>1. /\ ask' = ask /\ pc' = pc /\ at' = at /\ count' = count /\ seen' = seen
        /\ must' \subseteq must /\ events' = events /\ enrolled' = enrolled
    BY <1>1 DEF vars, Tick, tables, reading
  <2>2. SUFFICES ASSUME ask.list \in {"upcoming", "past"}  PROVE SplitInv'
    BY <2>1 DEF SplitInv
  <2>3. ~Paging /\ ask \in Request
    BY <2>2 DEF Paging, TypeOK, NoRequest
  <2>4. Rows' = Rows
    BY <2>1, <2>2 DEF Rows
  <2>5. pc # "idle" => must \subseteq enrolled
    BY <2>2 DEF SplitInv
  <2>6. UNCHANGED reading
    BY <2>1 DEF reading
  <2>7. QED  BY <2>1, <2>3, <2>4, <2>5, <2>6, SplitSurvives
<1>2. QED  BY <1>1, ReadKeepsSplit, OthersKeepSplit DEF Next

----------------------------------------------------------------------------
(* A walk from page to page                                                *)

LEMMA AheadAreRows ==
    ASSUME CatalogueAssumption, TypeOK, ask \in Request, NEW e
    PROVE  /\ Ahead(e) \subseteq Rows /\ IsFiniteSet(Ahead(e))
           /\ Rank(e) \in Nat
           /\ Rank(e) <= Cardinality(Rows)
           /\ Rank(e) = Cardinality(Rows) => Ahead(e) = Rows
<1>1. Ahead(e) \in SUBSET Rows
  BY DEF Ahead
<1>2. IsFiniteSet(Rows)
  BY RowsAreLive
<1>3. IsFiniteSet(Ahead(e)) /\ Cardinality(Ahead(e)) <= Cardinality(Rows)
      /\ (Cardinality(Rows) = Cardinality(Ahead(e)) => Rows = Ahead(e))
  BY <1>1, <1>2, FS_Subset
<1>4. Cardinality(Ahead(e)) \in Nat
  BY <1>3, FS_CardinalityType
<1>5. QED  BY <1>1, <1>3, <1>4 DEF Rank

LEMMA RankGrows ==
    ASSUME CatalogueAssumption, TypeOK, ask \in Request, Paging', NEW e,
           Ahead(e) \subseteq Ahead(e)'
    PROVE  Rank(e) <= Rank(e)' /\ Rank(e) \in Nat /\ Rank(e)' \in Nat
<1>1. IsFiniteSet(Ahead(e)) /\ Rank(e) \in Nat
  BY AheadAreRows
<1>2. IsFiniteSet(Ahead(e)')
  <2>1. Rows' \subseteq Keys
    BY DEF Rows, Live, Paging
  <2>2. Ahead(e)' \in SUBSET Keys
    BY <2>1 DEF Ahead
  <2>3. QED  BY <2>2, FS_Subset DEF CatalogueAssumption
<1>3. Cardinality(Ahead(e)) <= Cardinality(Ahead(e)')
  <2>1. Ahead(e) \in SUBSET (Ahead(e)')
    OBVIOUS
  <2>2. QED  BY <1>2, <2>1, FS_Subset
<1>4. Cardinality(Ahead(e)') \in Nat
  BY <1>2, FS_CardinalityType
<1>5. QED  BY <1>1, <1>3, <1>4 DEF Rank

(* What may happen to the tables, and the clock, under a walk: rows may    *)
(* come, each at a time of its own, but those of before keep their order,  *)
(* and none may have changed sides or come between the two statements.     *)
LEMMA WalkSurvives ==
    ASSUME CatalogueAssumption, TypeOK, WalkInv, Paging,
           UNCHANGED reading, must' \subseteq must, must' # {},
           pc # "idle" =>
             /\ Rows \subseteq Rows' /\ DistinctStarts(Rows)'
             /\ \A e \in must' : Ahead(e) \subseteq Ahead(e)',
           pc \in {"count", "slice"} /\ ask.list = "events" =>
             \A e \in Live' : events'[e].starts <= at \/ events'[e].starts > now',
           pc = "slice" => Rows' = Rows
    PROVE  WalkInv'
<1>1. ask' = ask /\ pc' = pc /\ at' = at /\ count' = count /\ seen' = seen
  BY DEF reading
<1>2. ask \in Request /\ Paging'
  BY <1>1 DEF Paging, TypeOK, NoRequest
<1>3. ask.page \in Nat /\ ask.size \in Nat
  BY <1>2, RequestFields
<1>4. (ask.page - 1) * ask.size \in Int
  BY <1>3
<1>5. must # {}
  OBVIOUS
<1>6. ASSUME pc # "idle"
      PROVE  /\ must' \subseteq Rows'
             /\ \A e \in must' \ seen : Rank(e)' >= (ask.page - 1) * ask.size
  <2>1. must \subseteq Rows /\ \A e \in must \ seen : Rank(e) >= (ask.page - 1) * ask.size
    BY <1>5, <1>6 DEF WalkInv
  <2>2. ASSUME NEW e \in must' \ seen
        PROVE  Rank(e)' >= (ask.page - 1) * ask.size
    <3>1. Ahead(e) \subseteq Ahead(e)'
      BY <1>6, <2>2
    <3>2. Rank(e) <= Rank(e)' /\ Rank(e) \in Nat /\ Rank(e)' \in Nat
      BY <1>2, <3>1, RankGrows
    <3>3. Rank(e) >= (ask.page - 1) * ask.size
      BY <2>1, <2>2
    <3>4. QED  BY <1>4, <3>2, <3>3
  <2>3. QED  BY <1>6, <2>1, <2>2
<1>7. pc = "slice" => count' = Cardinality(Rows)'
  BY <1>1, <1>5 DEF WalkInv
<1>8. pc = "idle" => must' \subseteq seen
  BY <1>5 DEF WalkInv
<1>9. QED  BY <1>1, <1>6, <1>7, <1>8 DEF WalkInv

LEMMA BeginStartsWalk ==
    ASSUME CatalogueAssumption, TypeOK, NEW request \in Request,
           request.page = 1, request.list \in {"events", "mine"},
           NEW promised, Begin(request, promised),
           promised # {} => promised \subseteq Rows' /\ DistinctStarts(Rows)'
    PROVE  WalkInv'
<1>1. ask' = request /\ pc' = "query" /\ must' = promised
  BY DEF Begin
<1>2. SUFFICES ASSUME promised # {}  PROVE WalkInv'
  BY <1>1 DEF WalkInv
<1>3. ASSUME NEW e  PROVE Rank(e)' \in Nat
  <2>1. Rows' \subseteq Keys
    BY <1>1 DEF Rows, Live
  <2>2. Ahead(e)' \in SUBSET Keys
    BY <2>1 DEF Ahead
  <2>3. IsFiniteSet(Ahead(e)')
    BY <2>2, FS_Subset DEF CatalogueAssumption
  <2>4. QED  BY <2>3, FS_CardinalityType DEF Rank
<1>4. (ask'.page - 1) * ask'.size = 0
  BY <1>1, RequestFields
<1>5. \A e \in must' \ seen' : Rank(e)' >= (ask'.page - 1) * ask'.size
  BY <1>3, <1>4
<1>6. QED  BY <1>1, <1>2, <1>5 DEF WalkInv

(* A page past the last has nothing left to send.                          *)
LEMMA NoPageNothingLeft ==
    ASSUME CatalogueAssumption, TypeOK, WalkInv, Paging, ask \in Request, must # {},
           pc = "count", ~PageExists(Cardinality(Rows))
    PROVE  must \subseteq seen
<1>1. SUFFICES ASSUME NEW e \in must, e \notin seen  PROVE FALSE
  OBVIOUS
<1>2. e \in Rows /\ Rank(e) >= (ask.page - 1) * ask.size
  BY <1>1 DEF WalkInv
<1>3. /\ Rank(e) \in Nat /\ Cardinality(Rows) \in Nat
      /\ Rank(e) <= Cardinality(Rows)
      /\ Rank(e) = Cardinality(Rows) => Ahead(e) = Rows
  BY AheadAreRows, RowsAreLive
<1>4. (ask.page - 1) * ask.size \in Int
  BY RequestFields
<1>5. ~((ask.page - 1) * ask.size < Cardinality(Rows))
  BY DEF PageExists
<1>6. Ahead(e) = Rows
  BY <1>2, <1>3, <1>4, <1>5
<1>7. ~Before(at, e, e)
  <2>1. at \in Nat /\ e \in Keys
    BY DEF TypeOK, Live
  <2>2. QED  BY <2>1, WalkOrderIsTotal
<1>8. QED  BY <1>2, <1>6, <1>7 DEF Ahead, Clock

(* What a slice leaves unseen stands after the page.                       *)
LEMMA SliceAdvances ==
    ASSUME CatalogueAssumption, TypeOK, WalkInv, Paging, ask \in Request, must # {},
           pc = "slice", Slice, NEW e \in must, e \notin seen'
    PROVE  Rank(e) >= ask.page * ask.size /\ HasNext
<1>1. PICK f \in Orders(Rows) :
        seen' = seen \cup
          {f[k] : k \in {j \in DOMAIN f : /\ (ask.page - 1) * ask.size < j
                                         /\ j <= ask.page * ask.size /\ j <= count}}
  BY DEF Slice
<1>2. /\ must \subseteq Rows /\ DistinctStarts(Rows) /\ count = Cardinality(Rows)
      /\ \A x \in must \ seen : Rank(x) >= (ask.page - 1) * ask.size
  BY DEF WalkInv
<1>3. IsFiniteSet(Rows)
  BY RowsAreLive
<1>4. /\ DOMAIN f = 1 .. Cardinality(Rows) /\ Cardinality(Rows) \in Nat
      /\ \A x \in Rows : \E k \in DOMAIN f : f[k] = x
  BY <1>3, OrderIsOnto
<1>5. PICK k \in DOMAIN f : f[k] = e
  BY <1>2, <1>4
<1>6. Rank(e) = k - 1
  BY <1>2, <1>5, RankIsPosition
<1>7. Rank(e) >= (ask.page - 1) * ask.size
  BY <1>1, <1>2
<1>8. (ask.page - 1) * ask.size \in Int /\ ask.page * ask.size \in Int
  BY RequestFields
<1>9. k \in Nat /\ k <= count
  BY <1>2, <1>4
<1>10. (ask.page - 1) * ask.size < k
  BY <1>6, <1>7, <1>8, <1>9
<1>11. ~(k <= ask.page * ask.size)
  BY <1>1, <1>5, <1>9, <1>10
<1>12. ask.page * ask.size < count
  BY <1>2, <1>4, <1>8, <1>9, <1>11
<1>13. QED  BY <1>6, <1>8, <1>9, <1>11, <1>12 DEF HasNext

LEMMA ReadKeepsWalk ==
    ASSUME CatalogueAssumption, TypeOK, WalkInv, Read
    PROVE  WalkInv'
<1>1. CASE BeginEvents
  <2>1. PICK window \in Windows :
          LET S == {e \in Live : StartsWithin(e, window)}
          IN  Begin([list |-> "events", window |-> window, size |-> PageSize, page |-> 1],
                    IF DistinctStarts(S) THEN S ELSE {})
    BY <1>1 DEF BeginEvents
  <2> DEFINE request == [list |-> "events", window |-> window, size |-> PageSize, page |-> 1]
             S == {e \in Live : StartsWithin(e, window)}
             promised == IF DistinctStarts(S) THEN S ELSE {}
  <2>2. request \in Request /\ request.page = 1 /\ request.list \in {"events", "mine"}
    BY DEF Request
  <2>3. ask' = request /\ events' = events
    BY <2>1 DEF Begin, tables
  <2>4. Rows' = S
    BY <2>3 DEF Rows, Live, StartsWithin
  <2>5. promised # {} => promised \subseteq Rows' /\ DistinctStarts(Rows)'
    BY <2>3, <2>4 DEF DistinctStarts
  <2>6. Begin(request, promised)
    BY <2>1
  <2> HIDE DEF request, promised, S
  <2>7. QED  BY <2>2, <2>5, <2>6, BeginStartsWalk
<1>2. CASE BeginMine
  <2> DEFINE request == [list |-> "mine", size |-> PageSize, page |-> 1]
             promised == IF DistinctStarts(Live) THEN Live ELSE {}
  <2>1. request \in Request /\ request.page = 1 /\ request.list \in {"events", "mine"}
    BY DEF Request
  <2>2. Begin(request, promised)
    BY <1>2 DEF BeginMine
  <2>3. ask' = request /\ events' = events
    BY <2>2 DEF Begin, tables
  <2>4. Rows' = Live
    BY <2>3 DEF Rows, Live
  <2>5. promised # {} => promised \subseteq Rows' /\ DistinctStarts(Rows)'
    BY <2>3, <2>4 DEF DistinctStarts
  <2> HIDE DEF request, promised
  <2>6. QED  BY <2>1, <2>2, <2>5, BeginStartsWalk
<1>3. CASE BeginSplit
  BY <1>3 DEF BeginSplit, Begin, WalkInv, Paging
<1>4. SUFFICES ASSUME Query \/ Count \/ Slice, Paging', must' # {}  PROVE WalkInv'
  BY <1>1, <1>2, <1>3 DEF Read, WalkInv
<1>5. /\ pc # "idle" /\ events' = events /\ must' = must /\ now' = now
      /\ Live' = Live
  BY <1>4 DEF Query, Count, Slice, tables, Live
<1>6. ask \in Request
  BY <1>5 DEF TypeOK
<1>7. Paging
  BY <1>4, <1>6, RequestFields, SliceAsksNext DEF Query, Count, Paging
<1>8. /\ must \subseteq Rows /\ DistinctStarts(Rows) /\ must # {}
      /\ \A e \in must \ seen : Rank(e) >= (ask.page - 1) * ask.size
  BY <1>4, <1>5, <1>7 DEF WalkInv
<1>9. CASE Query
  <2>1. pc = "query" /\ pc' = "count" /\ ask' = ask /\ at' = now /\ seen' = seen
    BY <1>9 DEF Query
  <2>2. Rows' = Rows
    BY <1>5, <1>7, <2>1 DEF Rows, StartsWithin, Paging
  <2>3. DistinctStarts(Rows)'
    BY <1>5, <1>8, <2>2 DEF DistinctStarts
  <2>4. ASSUME NEW e  PROVE Rank(e)' = Rank(e)
    <3>1. Ahead(e)' = Ahead(e)
      BY <1>5, <2>1, <2>2 DEF Ahead, Clock, Before, IsPast
    <3>2. QED  BY <3>1 DEF Rank
  <2>5. \A e \in Live' : events'[e].starts <= at' \/ events'[e].starts > now'
    <3>1. now \in Nat /\ \A e \in Live : events[e].starts \in Nat
      BY EventTimes DEF TypeOK, Live
    <3>2. QED  BY <1>5, <2>1, <3>1
  <2>6. \A e \in must' \ seen' : Rank(e)' >= (ask'.page - 1) * ask'.size
    BY <1>5, <1>8, <2>1, <2>4
  <2>7. QED  BY <1>5, <1>8, <2>1, <2>2, <2>3, <2>5, <2>6 DEF WalkInv
<1>10. CASE Count
  <2>1. /\ pc = "count" /\ ask' = ask /\ at' = at /\ seen' = seen
        /\ count' = Cardinality(Rows)
        /\ pc' = IF PageExists(count') THEN "slice" ELSE "idle"
    BY <1>10 DEF Count
  <2>2. pc' = IF PageExists(Cardinality(Rows)) THEN "slice" ELSE "idle"
    <3>1. PageExists(count') = PageExists(Cardinality(Rows))
      BY <2>1
    <3>2. QED  BY <2>1, <3>1
  <2>3. Rows' = Rows
    BY <1>5, <1>7, <2>1 DEF Rows, StartsWithin, Paging
  <2>4. DistinctStarts(Rows)'
    BY <1>5, <1>8, <2>3 DEF DistinctStarts
  <2>5. ASSUME NEW e, pc' = "slice"  PROVE Rank(e)' = Rank(e)
    <3>1. Ahead(e)' = Ahead(e)
      BY <1>5, <2>1, <2>3, <2>5 DEF Ahead, Clock, Before, IsPast
    <3>2. QED  BY <3>1 DEF Rank
  <2>6. \A e \in must' \ seen' : pc' = "slice" => Rank(e)' >= (ask'.page - 1) * ask'.size
    BY <1>5, <1>8, <2>1, <2>5
  <2>7. ask'.list = "events" =>
          \A e \in Live' : events'[e].starts <= at' \/ events'[e].starts > now'
    BY <1>5, <1>7, <1>8, <2>1 DEF WalkInv
  <2>8. pc' = "idle" => must' \subseteq seen'
    BY <1>5, <1>6, <1>7, <1>8, <2>1, <2>2, NoPageNothingLeft
  <2>9. count' = Cardinality(Rows)'
    BY <2>1, <2>3
  <2>10. QED
    BY <1>5, <1>8, <2>2, <2>3, <2>4, <2>6, <2>7, <2>8, <2>9 DEF WalkInv
<1>11. CASE Slice
  <2>1. pc = "slice" /\ at' = at /\ seen \subseteq seen'
    BY <1>11 DEF Slice
  <2>2. /\ ask'.size = ask.size /\ ask'.list = ask.list
        /\ ask.list = "events" => ask'.window = ask.window
        /\ IF HasNext THEN pc' = "query" /\ ask'.page = ask.page + 1
                      ELSE pc' = "idle"
    BY <1>6, <1>7, <1>11, SliceAsksNext
  <2>3. \A e \in must : e \in seen' \/ (Rank(e) >= ask.page * ask.size /\ HasNext)
    BY <1>6, <1>7, <1>8, <1>11, <2>1, SliceAdvances
  <2>4. Rows' = Rows
    BY <1>5, <1>7, <2>2 DEF Rows, StartsWithin, Paging
  <2>5. DistinctStarts(Rows)'
    BY <1>5, <1>8, <2>4 DEF DistinctStarts
  <2>6. ASSUME NEW e \in must, pc' = "query"  PROVE Rank(e)' = Rank(e)
    <3>1. \A x \in Live : /\ events[x].starts \in Nat /\ x \in Keys
                          /\ ask.list = "events" =>
                               events[x].starts <= at \/ events[x].starts > now
      BY <1>7, <1>8, <2>1, EventTimes DEF WalkInv, Live
    <3>2. Rows \subseteq Live /\ must \subseteq Live
      BY <1>6, RowsAreLive DEF TypeOK
    <3>3. at \in Nat /\ now \in Nat /\ at <= now
      BY DEF TypeOK
    <3>4. \A x \in Live : ask.list = "events" =>
             (events[x].starts <= now <=> events[x].starts <= at)
      BY <3>1, <3>3
    <3>5. \A x \in Rows : Before(now, x, e) <=> Before(at, x, e)
      BY <1>7, <2>6, <3>2, <3>4, SameSides
    <3>6. \A x : Before(now, x, e)' <=> Before(now, x, e)
      BY <1>5, <2>2 DEF Before, IsPast
    <3>7. Ahead(e)' = {x \in Rows : Before(now, x, e)}
      BY <1>5, <2>4, <2>6, <3>6 DEF Ahead, Clock
    <3>8. Ahead(e) = {x \in Rows : Before(at, x, e)}
      BY <2>1 DEF Ahead, Clock
    <3>9. QED  BY <3>5, <3>7, <3>8 DEF Rank
  <2>7. CASE HasNext
    <3>1. (ask'.page - 1) * ask'.size = ask.page * ask.size
      BY <1>6, <2>2, <2>7, RequestFields
    <3>2. \A e \in must' \ seen' : Rank(e)' >= (ask'.page - 1) * ask'.size
      BY <1>5, <2>2, <2>3, <2>6, <2>7, <3>1
    <3>3. QED  BY <1>5, <1>8, <2>2, <2>4, <2>5, <2>7, <3>2 DEF WalkInv
  <2>8. CASE ~HasNext
    BY <1>5, <2>2, <2>3, <2>8 DEF WalkInv
  <2>9. QED  BY <2>7, <2>8
<1>12. QED  BY <1>4, <1>9, <1>10, <1>11

(* Nothing that the walk reads is touched.                                 *)
LEMMA WalkUntouched ==
    ASSUME CatalogueAssumption, TypeOK, WalkInv,
           UNCHANGED reading, UNCHANGED events, now' = now,
           Paging => must' \subseteq must
    PROVE  WalkInv'
<1>1. ask' = ask /\ pc' = pc /\ at' = at /\ Live' = Live
  BY DEF reading, Live
<1>2. SUFFICES ASSUME Paging, must' # {}  PROVE WalkInv'
  BY <1>1 DEF WalkInv, Paging
<1>3. Rows' = Rows
  BY <1>1, <1>2 DEF Rows, StartsWithin, Paging
<1>4. \A e \in must' : Ahead(e) \subseteq Ahead(e)'
  BY <1>1, <1>3 DEF Ahead, Clock, Before, IsPast
<1>5. must # {} /\ must' \subseteq must
  BY <1>2
<1>6. pc # "idle" => DistinctStarts(Rows)'
  BY <1>2, <1>3, <1>5 DEF WalkInv, DistinctStarts
<1>7. pc \in {"count", "slice"} /\ ask.list = "events" =>
        \A e \in Live' : events'[e].starts <= at \/ events'[e].starts > now'
  BY <1>1, <1>2, <1>5 DEF WalkInv
<1>8. QED  BY <1>2, <1>3, <1>4, <1>5, <1>6, <1>7, WalkSurvives

LEMMA CreateKeepsWalk ==
    ASSUME CatalogueAssumption, TypeOK, WalkInv, NEW e \in Keys, NEW row \in Posts,
           CreateEvent(e, row)
    PROVE  WalkInv'
<1>1. /\ UNCHANGED reading /\ now' = now
      /\ ask' = ask /\ pc' = pc /\ at' = at
  BY DEF CreateEvent, Write, reading
<1>2. SUFFICES ASSUME Paging, must' # {}  PROVE WalkInv'
  BY <1>1 DEF WalkInv, Paging
<1>3. /\ must' = must /\ pc # "slice"
      /\ ~(pc = "count" /\ at < row.starts /\ row.starts <= now)
      /\ \A x \in Live : events[x].starts # row.starts
  BY <1>2 DEF CreateEvent
<1>4. ask \in Request
  BY <1>2 DEF Paging, TypeOK, NoRequest
<1>5. e \notin Live /\ must \subseteq Live /\ Live \subseteq Keys
  BY DEF CreateEvent, TypeOK, Live
<1>6. events'[e] = row /\ row.starts \in Nat /\ row.state = "live"
  BY DEF CreateEvent, TypeOK, CatalogueAssumption, EventRow
<1>7. \A x \in Keys \ {e} : events'[x] = events[x]
  BY DEF CreateEvent, TypeOK
<1>8. Live' = Live \cup {e}
  BY <1>6, <1>7 DEF Live, CreateEvent
<1>9. Rows \subseteq Rows' /\ Rows' \subseteq Rows \cup {e} /\ Rows \subseteq Live
  BY <1>1, <1>2, <1>5, <1>7, <1>8 DEF Rows, StartsWithin, Paging
<1>10. ASSUME pc # "idle"
       PROVE  /\ DistinctStarts(Rows)'
              /\ \A y \in must' : Ahead(y) \subseteq Ahead(y)'
  <2>1. DistinctStarts(Rows)
    BY <1>2, <1>3, <1>10 DEF WalkInv
  <2>2. DistinctStarts(Rows)'
    BY <1>3, <1>5, <1>6, <1>7, <1>9, <2>1 DEF DistinctStarts
  <2>3. ASSUME NEW y \in must', NEW x \in Rows, Before(Clock, x, y)
        PROVE  Before(Clock, x, y)'
    <3>1. events'[x] = events[x] /\ events'[y] = events[y]
      BY <1>3, <1>5, <1>7, <1>9, <2>3
    <3>2. Clock' = Clock
      BY <1>1 DEF Clock
    <3>3. QED  BY <1>1, <2>3, <3>1, <3>2 DEF Before, IsPast
  <2>4. \A y \in must' : Ahead(y) \subseteq Ahead(y)'
    BY <1>9, <2>3 DEF Ahead
  <2>5. QED  BY <2>2, <2>4
<1>11. ASSUME pc \in {"count", "slice"}, ask.list = "events", NEW x \in Live'
       PROVE  events'[x].starts <= at \/ events'[x].starts > now'
  <2>1. \A y \in Live : events[y].starts <= at \/ events[y].starts > now
    BY <1>2, <1>3, <1>11 DEF WalkInv
  <2>2. at \in Nat /\ now \in Nat
    BY DEF TypeOK
  <2>3. row.starts <= at \/ row.starts > now
    BY <1>3, <1>6, <1>11, <2>2
  <2>4. QED  BY <1>1, <1>5, <1>6, <1>7, <1>8, <1>11, <2>1, <2>3
<1>12. QED  BY <1>1, <1>2, <1>3, <1>9, <1>10, <1>11, WalkSurvives

LEMMA TickKeepsWalk ==
    ASSUME CatalogueAssumption, TypeOK, WalkInv, Tick
    PROVE  WalkInv'
<1>1. /\ UNCHANGED reading /\ events' = events /\ now' = now + 1
      /\ ask' = ask /\ pc' = pc /\ at' = at /\ Live' = Live
  BY DEF Tick, tables, reading, Live
<1>2. SUFFICES ASSUME Paging, must' # {}  PROVE WalkInv'
  BY <1>1 DEF WalkInv, Paging
<1>3. /\ must' = must
      /\ ask.list = "events" => \A e \in Live : events[e].starts # now + 1
  BY <1>1, <1>2 DEF Tick
<1>4. Rows' = Rows
  BY <1>1, <1>2 DEF Rows, StartsWithin, Paging
<1>5. \A x \in Live : x \in Keys /\ events[x].starts \in Nat
  BY EventTimes DEF Live
<1>6. now \in Nat /\ at \in Nat
  BY DEF TypeOK
<1>7. ask.list = "events" =>
        \A x \in Live : events[x].starts <= now + 1 <=> events[x].starts <= now
  BY <1>3, <1>5, <1>6
<1>8. ASSUME pc # "idle", NEW e \in must'
      PROVE  Ahead(e) \subseteq Ahead(e)'
  <2>1. ask \in Request
    BY <1>8 DEF TypeOK
  <2>2. Rows \subseteq Live /\ e \in Live
    BY <1>3, <1>8, <2>1, RowsAreLive DEF TypeOK
  <2>3. \A x \in Rows : Before(now, x, e) <=> Before(now + 1, x, e)
    BY <1>2, <1>7, <2>2, SameSides
  <2>4. CASE pc = "query"
    <3>1. Ahead(e) = {x \in Rows : Before(now, x, e)}
      BY <2>4 DEF Ahead, Clock
    <3>2. Ahead(e)' = {x \in Rows : Before(now + 1, x, e)}
      BY <1>1, <1>4, <2>4 DEF Ahead, Clock, Before, IsPast
    <3>3. QED  BY <2>3, <3>1, <3>2
  <2>5. CASE pc # "query"
    <3>1. Ahead(e)' = Ahead(e)
      BY <1>1, <1>4, <2>5 DEF Ahead, Clock, Before, IsPast
    <3>2. QED  BY <3>1
  <2>6. QED  BY <2>4, <2>5
<1>9. pc # "idle" => DistinctStarts(Rows)'
  BY <1>1, <1>2, <1>3, <1>4 DEF WalkInv, DistinctStarts
<1>10. ASSUME pc \in {"count", "slice"}, ask.list = "events", NEW x \in Live'
       PROVE  events'[x].starts <= at \/ events'[x].starts > now'
  <2>1. events[x].starts <= at \/ events[x].starts > now
    BY <1>1, <1>2, <1>3, <1>10 DEF WalkInv
  <2>2. QED  BY <1>1, <1>3, <1>5, <1>6, <1>10, <2>1
<1>11. QED
  BY <1>1, <1>2, <1>3, <1>4, <1>8, <1>9, <1>10, WalkSurvives

LEMMA StepKeepsWalk ==
    ASSUME CatalogueAssumption, TypeOK, WalkInv, [Next]_vars
    PROVE  WalkInv'
<1>1. CASE UNCHANGED vars
  BY <1>1, WalkUntouched DEF vars, reading
<1>2. ASSUME NEW e \in Keys, NEW row \in Posts, CreateEvent(e, row)  PROVE WalkInv'
  BY <1>2, CreateKeepsWalk
<1>3. ASSUME NEW e \in Keys,
             (\E row \in Posts : MoveEvent(e, row)) \/ DeleteEvent(e)
      PROVE  WalkInv'
  BY <1>3 DEF MoveEvent, DeleteEvent, Write, reading, WalkInv, Paging
<1>4. ASSUME NEW e \in Keys, Enroll(e) \/ Cancel(e)  PROVE WalkInv'
  <2>1. /\ UNCHANGED reading /\ UNCHANGED events /\ now' = now
        /\ Paging => must' \subseteq must
    BY <1>4 DEF Enroll, Cancel, Write
  <2>2. QED  BY <2>1, WalkUntouched
<1>5. QED
  BY <1>1, <1>2, <1>3, <1>4, ReadKeepsWalk, TickKeepsWalk DEF Next

----------------------------------------------------------------------------
(* The results                                                             *)

(* CatalogueInv holds whatever creates, moves, deletes, enrolls and cancels *)
(* fall between the statements of a listing (get_queryset, the paginator's  *)
(* count and slice), for any set of events and any page size.              *)
THEOREM CatalogueInvariant == Spec => []CatalogueInv
<1>1. ASSUME Init  PROVE CatalogueInv
  <2>1. TypeOK
    BY <1>1, InitTypes, CatalogueAssumption
  <2>2. must = {} /\ ask.list = "none"
    BY <1>1 DEF Init, NoRequest
  <2>3. QED  BY <2>1, <2>2 DEF CatalogueInv, WalkInv, SplitInv
<1>2. ASSUME CatalogueInv, [Next]_vars  PROVE CatalogueInv'
  <2>1. TypeOK /\ WalkInv /\ SplitInv
    BY <1>2 DEF CatalogueInv
  <2>2. TypeOK'
    BY <1>2, <2>1, StepKeepsTypes, CatalogueAssumption
  <2>3. WalkInv'
    BY <1>2, <2>1, StepKeepsWalk, CatalogueAssumption
  <2>4. SplitInv'
    BY <1>2, <2>1, <2>2, StepKeepsSplit, CatalogueAssumption
  <2>5. QED  BY <2>2, <2>3, <2>4 DEF CatalogueInv
<1>3. QED  BY <1>1, <1>2, PTL DEF Spec

(* A client that reads the events, or its own ones, to the last page has   *)
(* seen every event that was there all the time and kept its place: pages  *)
(* of any size, and any number of events that come between the pages.      *)
THEOREM WalksMissNothing == Spec => []WalkMissesNone
<1>1. CatalogueInv => WalkMissesNone
  BY DEF CatalogueInv, WalkInv, WalkMissesNone
<1>2. QED  BY <1>1, CatalogueInvariant, PTL

(* The enrollments listed as upcoming and then as past leave out none that *)
(* was active all the time, though each request reads the clock anew       *)
(* (get_queryset of the enrollments compares ends with >= and <).          *)
THEOREM SplitsMissNothing == Spec => []SplitMissesNone
<1>1. CatalogueInv => SplitMissesNone
  BY DEF CatalogueInv, SplitInv, SplitMissesNone
<1>2. QED  BY <1>1, CatalogueInvariant, PTL
=============================================================================
