---------------------------- MODULE PropertyTable ----------------------------
(***************************************************************************)
(* The page of the web front end: a store of filters and rows (zustand),   *)
(* the drawer in which the filters are set, the form in which a row is     *)
(* edited, and their requests to the server.  The browser runs one handler *)
(* at a time; requests are under way meanwhile, are served in any order    *)
(* and answered in any order, or fail.  A row is edited by its location    *)
(* and its type; its other columns are the constant sheet.                 *)
(***************************************************************************)
EXTENDS Integers, FiniteSets, FiniteSetsExt

CONSTANTS Id, sheet,                \* rows of the database, their columns that stay
          Field, Option(_),         \* columns filtered by "in"; what each offers
          Place, groupBy,           \* locationOptions
          Typed,                    \* prices a user may type or slide to
          minDistance, Ceiling,     \* 100; 99999999, without a maximum
          NoRange, Unset,           \* no price filter; a field of the form not touched
          MaxChanges, MaxRequests   \* bounds

\* What a row may hold: what the page offers, and what the database has already.
Locations == Place \cup {sheet[id].location : id \in Id}
Types == Option("propertyType") \cup {sheet[id].propertyType : id \in Id}

ASSUME TableAssumption ==
  /\ IsFiniteSet(Id) /\ \A id \in Id : sheet[id].priceUsd \in Int
  /\ Typed \subseteq Int /\ minDistance \in Nat /\ Ceiling \in Nat
  /\ "propertyType" \in Field /\ Unset \notin Types
  /\ MaxChanges \in Nat /\ MaxRequests \in Nat \ {0}

VARIABLES rows,     \* of the server: location and type of each row
          filters, nodes, stats,  \* the store; stats is maxValues and average
          chips,    \* FiltersDrawer's selectedOptions
          view,     \* what is open: "table", "drawer" or "form"
          form,     \* PropertyForm's fields
          flight,   \* requests under way
          changes,  \* what the user has done so far
          past      \* history, which no guard reads

store == <<filters, nodes, stats>>
vars == <<rows, filters, nodes, stats, chips, view, form, flight, changes, past>>

initialFilters == [among |-> [f \in Field |-> {}], locations |-> {},
                   priceUsd |-> NoRange, isValid |-> TRUE]

Closed == [id |-> Unset, location |-> Unset, propertyType |-> Unset]
NoRequest == [op |-> "none"]
Request == 1..MaxRequests
UnderWay == {n \in Request : flight[n].op # "none"}

-----------------------------------------------------------------------------
\* The server: rows that pass a filter, their aggregates, and an update.
Cell(id, f) == IF f = "propertyType" THEN rows[id].propertyType ELSE sheet[id][f]

\* fetchDataApi: the query's filter.
Passes(id, filter) ==
  /\ \A f \in Field : filter.among[f] # {} => Cell(id, f) \in filter.among[f]
  /\ filter.locations # {} => rows[id].location \in filter.locations
  /\ sheet[id].isValid = filter.isValid
  /\ filter.priceUsd # NoRange =>
       /\ sheet[id].priceUsd <= filter.priceUsd[1]
       /\ sheet[id].priceUsd >= filter.priceUsd[2]

Answer(filter) ==
  [id \in {i \in Id : Passes(i, filter)} |->
     [location |-> rows[id].location, propertyType |-> rows[id].propertyType,
      leaseYearsLeft |-> TRUE]]

\* A column's average, 0 for the undefined one of an empty answer.
Mean(ids, column) ==
  IF ids = {} THEN 0
  ELSE MapThenSumSet(LAMBDA i : sheet[i][column], ids) \div Cardinality(ids)

Aggregates(ids) ==
  [max |-> IF ids = {} THEN 0 ELSE Max({sheet[i].priceUsd : i \in ids}),
   priceUsd |-> Mean(ids, "priceUsd"), landSize |-> Mean(ids, "landSize"),
   leaseYearsLeft |-> Mean(ids, "leaseYearsLeft")]

Init == /\ rows = [id \in Id |-> [location     |-> sheet[id].location,
                                 propertyType |-> sheet[id].propertyType]]
        /\ filters = initialFilters
        /\ nodes = [id \in {} |-> 0]
        /\ stats = Aggregates({})
        /\ chips = {}
        /\ view = "table"
        /\ form = Closed
        /\ flight = [n \in Request |->
             IF n = 1 THEN [op |-> "fetch", at |-> "sent", filter |-> initialFilters,
                            alone |-> TRUE]
             ELSE NoRequest]
        /\ changes = 0
        /\ past = [sent    |-> 1,               \* requests made
                   newest  |-> 1,               \* the last fetch
                   latest  |-> 0,               \* the newest fetch that was answered
                   filter  |-> initialFilters,  \* what the answer shown was asked for
                   late    |-> FALSE,           \* an older answer came after a newer
                   dirty   |-> FALSE,           \* filters set since the last fetch
                   failed  |-> FALSE,           \* the last fetch failed
                   reset   |-> FALSE,           \* Reset since the locations were set
                   crossed |-> {},              \* rows whose update met another request
                   lost    |-> {}]              \* rows whose update was not answered

Change == changes < MaxChanges /\ changes' = changes + 1

-----------------------------------------------------------------------------
\* A request is made: those under way are no longer alone.
Meets(n, r) ==
  /\ r.op = "update" => flight[n].op = "fetch" \/ flight[n].id = r.id
  /\ r.op = "fetch" => flight[n].op = "update"

Sent(r, before) ==
  LET n == past.sent + 1
      met == {m \in UnderWay : Meets(m, r)}
  IN /\ n \in Request
     /\ flight' = [m \in Request |->
          CASE m = n -> [r EXCEPT !.alone = UnderWay = {}]
            [] m \in UnderWay -> [flight[m] EXCEPT !.alone = FALSE]
            [] OTHER -> flight[m]]
     /\ past' = [before EXCEPT
          !.sent = n,
          !.newest = IF r.op = "fetch" THEN n ELSE @,
          !.dirty = IF r.op = "fetch" THEN FALSE ELSE @,
          !.failed = IF r.op = "fetch" THEN FALSE ELSE @,
          !.crossed = @ \cup {flight[m].id : m \in {k \in met : flight[k].op = "update"}}
                        \cup (IF r.op = "update" /\ met # {} THEN {r.id} ELSE {})]

\* The drawer.  up: one of the store's setters.
up(f) == /\ view = "drawer" /\ Change
         /\ filters' = f
         /\ UNCHANGED <<rows, nodes, stats, view, form, flight>>

Dirty == past' = [past EXCEPT !.dirty = TRUE]

\* upType, upOwnership, upSource, upRoomCount.
UpAmong(f, values) ==
  /\ values # filters.among[f]
  /\ up([filters EXCEPT !.among[f] = values])
  /\ Dirty /\ UNCHANGED chips

UpValid == /\ up([filters EXCEPT !.isValid = ~@])
           /\ Dirty /\ UNCHANGED chips

\* The locations picked one by one.
UpLocation(places) ==
  /\ places # chips
  /\ up([filters EXCEPT !.locations = places])
  /\ chips' = places
  /\ past' = [past EXCEPT !.dirty = TRUE, !.reset = FALSE]

\* Mutant of HandleSelectGroup: the chips do not follow.
HandleSelectGroupUnseen(children) ==
  /\ \A l, m \in children : groupBy[l] = groupBy[m]
  /\ up([filters EXCEPT !.locations = chips \cup children])
  /\ past' = [past EXCEPT !.dirty = TRUE, !.reset = FALSE]
  /\ UNCHANGED chips

\* A click on a group's header: those of its locations that are on offer.
HandleSelectGroup(children) ==
  /\ \A l, m \in children : groupBy[l] = groupBy[m]
  /\ up([filters EXCEPT !.locations = chips \cup children])
  /\ chips' = chips \cup children
  /\ past' = [past EXCEPT !.dirty = TRUE, !.reset = FALSE]

\* RangeSlide: the range it shows, its thumbs and its inputs.
Largest == IF stats.max = 0 THEN Ceiling ELSE stats.max
Slide == IF filters.priceUsd = NoRange THEN <<minDistance, Largest>> ELSE filters.priceUsd

UpPrice(range) == /\ up([filters EXCEPT !.priceUsd = range])
                  /\ Dirty /\ UNCHANGED chips

ChangeMin(v) == UpPrice(<<Min({v, Slide[2] - minDistance}), Slide[2]>>)
ChangeMax(v) == UpPrice(<<Slide[1], Max({v, Slide[1] + minDistance})>>)

BlurMin == \/ Slide[1] < 0 /\ UpPrice(<<0, Slide[2]>>)
           \/ Slide[1] >= 0 /\ Slide[1] > Slide[2]
              /\ UpPrice(<<Slide[2] - minDistance, Slide[2]>>)

BlurMax == \/ Slide[2] > Largest /\ UpPrice(<<Slide[1], Largest>>)
           \/ Slide[2] <= Largest /\ Slide[2] < Slide[1]
              /\ UpPrice(<<Slide[1], Slide[1] + minDistance>>)

ToggleDrawer ==
  /\ view \in {"table", "drawer"}
  /\ view' = IF view = "table" THEN "drawer" ELSE "table"
  /\ UNCHANGED <<rows, store, chips, form, flight, changes, past>>

\* fetchData, with the filters of the moment.
fetchData(filter, before) ==
  Sent([op |-> "fetch", at |-> "sent", filter |-> filter, alone |-> TRUE], before)

HandleApply ==
  /\ view = "drawer" /\ view' = "table"
  /\ fetchData(filters, past)
  /\ UNCHANGED <<rows, store, chips, form, changes>>

\* Mutant of HandleReset: the fetch is made before the reset.
HandleResetAfter ==
  /\ view = "drawer" /\ view' = "table"
  /\ filters' = initialFilters
  /\ fetchData(filters, [past EXCEPT !.reset = TRUE])
  /\ UNCHANGED <<rows, nodes, stats, chips, form, changes>>

\* The store's filters are reset; selectedOptions is not.
HandleReset ==
  /\ view = "drawer" /\ view' = "table"
  /\ filters' = initialFilters
  /\ fetchData(initialFilters, [past EXCEPT !.reset = TRUE])
  /\ UNCHANGED <<rows, nodes, stats, chips, form, changes>>

-----------------------------------------------------------------------------
\* The form: it takes the row's type when it opens, and what the user types.
OpenForm(id) ==
  /\ view = "table" /\ id \in DOMAIN nodes
  /\ view' = "form"
  /\ form' = [id |-> id, location |-> Unset, propertyType |-> nodes[id].propertyType]
  /\ UNCHANGED <<rows, store, chips, flight, changes, past>>

Edit(f) == /\ view = "form" /\ f # form /\ Change
           /\ form' = f
           /\ UNCHANGED <<rows, store, chips, view, flight, past>>

CloseForm ==
  /\ view = "form" /\ view' = "table" /\ form' = Closed
  /\ UNCHANGED <<rows, store, chips, flight, changes, past>>

\* handleApply: an update with every field that is filled in.  A row that has left
\* the table meanwhile has no id: the server refuses the request.
Save ==
  /\ view = "form" /\ view' = "table" /\ form' = Closed
  /\ IF form.id \in DOMAIN nodes
     THEN Sent([op |-> "update", at |-> "sent", id |-> form.id, location |-> form.location,
                propertyType |-> form.propertyType, alone |-> TRUE], past)
     ELSE UNCHANGED <<flight, past>>
  /\ UNCHANGED <<rows, store, chips, changes>>

-----------------------------------------------------------------------------
\* Mutant of Filled: a field that is not sent is emptied.
FilledAlways(value, old) == value

\* A field that is not sent is left as it is.
Filled(value, old) == IF value = Unset THEN old ELSE value

Updated(r) == [location     |-> Filled(r.location, rows[r.id].location),
               propertyType |-> Filled(r.propertyType, rows[r.id].propertyType)]

\* The server runs a request; the answer to an update lacks leaseYearsLeft.
ServeFetch(n) ==
  LET r == flight[n]
      answer == Answer(r.filter)
  IN /\ r.op = "fetch" /\ r.at = "sent"
     /\ flight' = [flight EXCEPT ![n] =
          [op |-> "fetch", at |-> "served", filter |-> r.filter, alone |-> r.alone,
           nodes |-> answer, stats |-> Aggregates(DOMAIN answer)]]
     /\ UNCHANGED <<rows, store, chips, view, form, changes, past>>

ServeUpdate(n) ==
  LET r == flight[n] IN
  /\ r.op = "update" /\ r.at = "sent"
  /\ rows' = [rows EXCEPT ![r.id] = Updated(r)]
  /\ flight' = [flight EXCEPT ![n] =
       [op |-> "update", at |-> "served", id |-> r.id, alone |-> r.alone,
        node |-> [location |-> Updated(r).location, propertyType |-> Updated(r).propertyType,
                  leaseYearsLeft |-> FALSE]]]
  /\ UNCHANGED <<store, chips, view, form, changes, past>>

\* The answer of a fetch becomes the table, whatever was fetched since.
ReceiveFetch(n) ==
  LET r == flight[n] IN
  /\ r.op = "fetch" /\ r.at = "served"
  /\ nodes' = r.nodes /\ stats' = r.stats
  /\ flight' = [flight EXCEPT ![n] = NoRequest]
  /\ past' = [past EXCEPT !.latest = Max({@, n}), !.filter = r.filter,
                          !.late = n < past.latest,
                          !.crossed = IF r.alone THEN {} ELSE @,
                          !.lost = IF r.alone THEN {} ELSE @]
  /\ UNCHANGED <<rows, filters, chips, view, form, changes>>

\* Mutant of ReceiveUpdate: the row's own columns are kept over the answer's.
ReceiveUpdateMerged(n) ==
  /\ flight[n].op = "update" /\ flight[n].at = "served"
  /\ flight' = [flight EXCEPT ![n] = NoRequest]
  /\ UNCHANGED <<rows, store, chips, view, form, changes, past>>

\* The answer of an update replaces the row, if the table still has it.
ReceiveUpdate(n) ==
  LET r == flight[n] IN
  /\ r.op = "update" /\ r.at = "served"
  /\ nodes' = [id \in DOMAIN nodes |-> IF id = r.id THEN r.node ELSE nodes[id]]
  /\ flight' = [flight EXCEPT ![n] = NoRequest]
  /\ UNCHANGED <<rows, filters, stats, chips, view, form, changes, past>>

\* A request fails on its way there or back: the handler throws, the store stays.
Fails(n) ==
  LET r == flight[n] IN
  /\ r.op # "none" /\ r.at # "late"
  /\ flight' = [flight EXCEPT ![n] = NoRequest]
  /\ past' = [past EXCEPT !.failed = @ \/ n = past.newest,
                          !.lost = IF r.op = "update" THEN @ \cup {r.id} ELSE @]
  /\ UNCHANGED <<rows, store, chips, view, form, changes>>

\* The handler throws, and the update still is on its way to the server.
GivesUp(n) ==
  LET r == flight[n] IN
  /\ r.op = "update" /\ r.at = "sent"
  /\ flight' = [flight EXCEPT ![n] = [r EXCEPT !.at = "late"]]
  /\ past' = [past EXCEPT !.lost = @ \cup {r.id}]
  /\ UNCHANGED <<rows, store, chips, view, form, changes>>

\* The server runs it when nobody waits for its answer any more.
ServeLate(n) ==
  LET r == flight[n] IN
  /\ r.op = "update" /\ r.at = "late"
  /\ rows' = [rows EXCEPT ![r.id] = Updated(r)]
  /\ flight' = [flight EXCEPT ![n] = NoRequest]
  /\ past' = [past EXCEPT !.lost = @ \cup {r.id}]
  /\ UNCHANGED <<store, chips, view, form, changes>>

Drawer ==
  \/ \E f \in Field : \E values \in SUBSET Option(f) : UpAmong(f, values)
  \/ UpValid
  \/ \E places \in SUBSET Place : UpLocation(places) \/ HandleSelectGroup(places)
  \/ \E v \in Typed : ChangeMin(v) \/ ChangeMax(v)
  \/ BlurMin \/ BlurMax
  \/ HandleApply \/ HandleReset

Form ==
  \/ \E id \in Id : OpenForm(id)
  \/ \E l \in Place : Edit([form EXCEPT !.location = l])
  \/ \E v \in Option("propertyType") : Edit([form EXCEPT !.propertyType = v])
  \/ Save \/ CloseForm

Serve(n) ==
  \/ ServeFetch(n) \/ ServeUpdate(n) \/ ReceiveFetch(n) \/ ReceiveUpdate(n)
  \/ Fails(n) \/ GivesUp(n) \/ ServeLate(n)

Next == ToggleDrawer \/ Drawer \/ Form \/ \E n \in Request : Serve(n)

Spec == Init /\ [][Next]_vars

-----------------------------------------------------------------------------
Filter == [among : {a \in [Field -> UNION {SUBSET Option(f) : f \in Field}] :
                      \A f \in Field : a[f] \subseteq Option(f)},
           locations : SUBSET Place, priceUsd : {NoRange} \cup (Int \X Int), isValid : BOOLEAN]

Columns == [location : Locations, propertyType : Types]
Node == [location : Locations, propertyType : Types, leaseYearsLeft : BOOLEAN]

\* The state is well-typed; what is shown and what is answered are rows there are.
TypeOK ==
  /\ rows \in [Id -> Columns]
  /\ filters \in Filter
  /\ DOMAIN nodes \subseteq Id /\ \A id \in DOMAIN nodes : nodes[id] \in Node
  /\ chips \subseteq Place
  /\ view \in {"table", "drawer", "form"} /\ (view = "form" <=> form # Closed)
  /\ changes \in 0..MaxChanges /\ past.sent \in Request
  /\ UnderWay \subseteq 1..past.sent
  /\ \A n \in UnderWay : flight[n].op = "fetch" => flight[n].filter \in Filter

\* Once no fetch is under way, the rows shown are those of the filters shown, which
\* the toolbar writes above them, unless a filter was set and not applied, the last
\* fetch failed, or an answer came later than that of a newer fetch (fetchData).
HeadingMatchesRows ==
  (\A n \in UnderWay : flight[n].op # "fetch") =>
    filters = past.filter \/ past.dirty \/ past.failed \/ past.late

\* Once nothing is under way, updates included that nobody waits for, the table
\* shows each row as the server has it, unless the row's update was under way
\* together with a fetch or with another update of it, or was not answered, since
\* the table was last fetched alone (updateProperty).
EditsShown ==
  UnderWay = {} =>
    \A id \in DOMAIN nodes \ (past.crossed \cup past.lost) :
      /\ nodes[id].location = rows[id].location
      /\ nodes[id].propertyType = rows[id].propertyType

\* The locations that the drawer shows as chosen are those of the filter, until
\* Reset, which clears the filter and leaves the chips (FiltersDrawer).
LocationsAsShown == chips = filters.locations \/ past.reset

\* What the labels of the slider say, "Price USD from:" and "Price USD to:": with
\* no other filter, the answer has the valid rows from the one price to the other.
PriceRangeRead ==
  LET range == past.filter.priceUsd IN
  range # NoRange /\ past.filter = [initialFilters EXCEPT !.priceUsd = range] =>
    \A id \in Id :
      sheet[id].isValid /\ sheet[id].priceUsd \in range[1]..range[2] => id \in DOMAIN nodes

-----------------------------------------------------------------------------
\* The toolbar's figures for leasehold land: average price per are (100 square
\* metres), and the one labelled per are and year.  `a || 0 / b / c * 100` reads as
\* `a || (0 / b / c * 100)`.
leaseHoldLandPricePerAre ==
  IF stats.landSize # 0 THEN (stats.priceUsd * 100) \div stats.landSize ELSE 0

leaseHoldLandPricePerArePerYear ==
  IF stats.landSize # 0 /\ stats.leaseYearsLeft # 0
  THEN IF stats.priceUsd # 0 THEN stats.priceUsd ELSE 0
  ELSE 0

\* What the label says, "Average Leasehold Land price per are per year(100sqm):",
\* which is shown with land: this figure times the years is the price per are.
YearlyPriceRead ==
  "land" \in filters.among["propertyType"] /\ stats.leaseYearsLeft # 0 /\ stats.landSize # 0 =>
    LET years == stats.leaseYearsLeft IN
    leaseHoldLandPricePerArePerYear * years
      \in (leaseHoldLandPricePerAre - years)..(leaseHoldLandPricePerAre + years)
=============================================================================
