----------------------------- MODULE TableProofs -----------------------------
(***************************************************************************)
(* Proofs about the page of the web front end, for any rows, filters and   *)
(* number of requests.                                                     *)
(***************************************************************************)
EXTENDS PropertyTable, FiniteSetTheorems, WellFoundedInduction, TLAPS

\* The fields of the records, whatever they hold.
FilterShape(f) ==
  f = [among |-> f.among, locations |-> f.locations, priceUsd |-> f.priceUsd,
       isValid |-> f.isValid]

PastShape(p) ==
  p = [sent |-> p.sent, newest |-> p.newest, latest |-> p.latest, filter |-> p.filter,
       late |-> p.late, dirty |-> p.dirty, failed |-> p.failed, reset |-> p.reset,
       crossed |-> p.crossed, lost |-> p.lost]

FetchSent(r) ==
  /\ r.op = "fetch" /\ r.at = "sent"
  /\ r = [op |-> "fetch", at |-> "sent", filter |-> r.filter, alone |-> r.alone]

FetchServed(r) ==
  /\ r.op = "fetch" /\ r.at = "served"
  /\ r = [op |-> "fetch", at |-> "served", filter |-> r.filter, alone |-> r.alone,
          nodes |-> r.nodes, stats |-> r.stats]
  /\ DOMAIN r.nodes \subseteq Id

UpdateSent(r) ==
  /\ r.op = "update" /\ r.at \in {"sent", "late"}
  /\ r = [op |-> "update", at |-> r.at, id |-> r.id, location |-> r.location,
          propertyType |-> r.propertyType, alone |-> r.alone]
  /\ r.id \in Id

UpdateServed(r) ==
  /\ r.op = "update" /\ r.at = "served"
  /\ r = [op |-> "update", at |-> "served", id |-> r.id, alone |-> r.alone,
          node |-> r.node]
  /\ r.id \in Id

ShapeInv ==
  /\ FilterShape(filters) /\ PastShape(past)
  /\ rows = [id \in Id |-> rows[id]]
  /\ DOMAIN nodes \subseteq Id
  /\ flight = [n \in Request |-> flight[n]]
  /\ \A n \in Request : \/ flight[n] = NoRequest
                        \/ FetchSent(flight[n]) \/ FetchServed(flight[n])
                        \/ UpdateSent(flight[n]) \/ UpdateServed(flight[n])

\* The numbers of the requests.
NumberInv ==
  /\ past.sent \in Request /\ past.newest \in Request /\ past.latest \in Nat
  /\ past.newest <= past.sent /\ past.latest <= past.newest
  /\ flight[past.newest].op # "update"
  /\ \A n \in UnderWay : /\ n <= past.sent
                         /\ flight[n].op = "fetch" => n <= past.newest

\* The newest fetch asks for the filters as they are; once it is answered they
\* are those of the table, until an older answer comes.
FetchInv ==
  ~past.dirty =>
    /\ flight[past.newest].op = "fetch" => flight[past.newest].filter = filters
    /\ \/ flight[past.newest].op = "fetch"
       \/ past.failed
       \/ past.latest = past.newest
    /\ past.latest = past.newest => past.late \/ past.filter = filters

\* Rows whose updates have met nothing, and were answered.
Settled == Id \ (past.crossed \cup past.lost)

Matches(node, row) == node.location = row.location /\ node.propertyType = row.propertyType

Updates(n, id) == flight[n].op = "update" /\ flight[n].id = id
ServedFetch(n) == flight[n].op = "fetch" /\ flight[n].at = "served"

\* A request that is alone is the only one, and its answer is the rows.
AloneInv ==
  \A n \in UnderWay : flight[n].alone =>
    /\ UnderWay = {n}
    /\ ServedFetch(n) =>
         \A id \in DOMAIN flight[n].nodes : Matches(flight[n].nodes[id], rows[id])

\* While an update of a settled row is under way no fetch is, and no other update
\* of it; what the table and every answer have of the row is what the server has.
EditInv ==
  \A id \in Settled :
    /\ \A m, n \in Request : Updates(m, id) =>
         flight[n].op # "fetch" /\ (Updates(n, id) => m = n)
    /\ \A n \in Request : ServedFetch(n) /\ id \in DOMAIN flight[n].nodes =>
         Matches(flight[n].nodes[id], rows[id])
    /\ \A n \in Request : Updates(n, id) /\ flight[n].at = "served" =>
         Matches(flight[n].node, rows[id])
    /\ \/ id \notin DOMAIN nodes \/ Matches(nodes[id], rows[id])
       \/ \E n \in Request : Updates(n, id) /\ flight[n].at = "served"

IInv == ShapeInv /\ NumberInv /\ FetchInv /\ AloneInv /\ EditInv /\ LocationsAsShown

-----------------------------------------------------------------------------
LEMMA InitHolds ==
  ASSUME Init, 1 \in Request
  PROVE  IInv
<1>1. ShapeInv
  BY DEF Init, ShapeInv, FilterShape, PastShape, FetchSent, initialFilters
<1>2. NumberInv
  BY DEF Init, NumberInv, UnderWay, NoRequest, Request
<1>3. FetchInv
  BY DEF Init, FetchInv
<1>4. AloneInv
  BY DEF Init, AloneInv, UnderWay, ServedFetch, NoRequest
<1>5. EditInv
  BY DEF Init, EditInv, Settled, Updates, ServedFetch, NoRequest
<1>6. LocationsAsShown
  BY DEF Init, LocationsAsShown, initialFilters
<1> QED
  BY <1>1, <1>2, <1>3, <1>4, <1>5, <1>6 DEF IInv

-----------------------------------------------------------------------------
\* A request keeps everything but the mark that it is alone.
LEMMA MarkedRequest ==
  ASSUME NEW q, FetchSent(q) \/ FetchServed(q) \/ UpdateSent(q) \/ UpdateServed(q),
         NEW b \in BOOLEAN
  PROVE  LET p == [q EXCEPT !.alone = b] IN
         /\ FetchSent(p) \/ FetchServed(p) \/ UpdateSent(p) \/ UpdateServed(p)
         /\ p.op = q.op /\ p.at = q.at /\ p.alone = b
         /\ q.op = "fetch" => p.filter = q.filter
         /\ q.op = "fetch" /\ q.at = "served" => p.nodes = q.nodes
         /\ q.op = "update" => p.id = q.id
         /\ q.op = "update" /\ q.at = "served" => p.node = q.node
<1>1. CASE FetchSent(q)
  BY <1>1 DEF FetchSent
<1>2. CASE FetchServed(q)
  BY <1>2 DEF FetchServed
<1>3. CASE UpdateSent(q)
  BY <1>3 DEF UpdateSent
<1>4. CASE UpdateServed(q)
  BY <1>4 DEF UpdateServed
<1> QED
  BY <1>1, <1>2, <1>3, <1>4

\* What is under way is a request of one of the four shapes.
LEMMA UnderWayShape ==
  ASSUME ShapeInv, NEW n \in UnderWay
  PROVE  /\ n \in Request
         /\ \/ FetchSent(flight[n]) \/ FetchServed(flight[n])
            \/ UpdateSent(flight[n]) \/ UpdateServed(flight[n])
BY DEF UnderWay, ShapeInv, NoRequest

LEMMA Idle ==
  ASSUME ShapeInv, NEW n \in Request, n \notin UnderWay
  PROVE  flight[n] = NoRequest /\ flight[n].op = "none"
BY DEF UnderWay, ShapeInv, NoRequest, FetchSent, FetchServed, UpdateSent, UpdateServed

\* A new request: it takes the next number, the others lose the mark.
LEMMA SentFacts ==
  ASSUME IInv, NEW r, FetchSent(r) \/ UpdateSent(r),
         NEW before, before \in {past, [past EXCEPT !.reset = TRUE]}, Sent(r, before)
  PROVE  LET n == past.sent + 1 IN
         /\ n \in Request /\ n \notin UnderWay
         /\ flight' = [m \in Request |-> flight'[m]]
         /\ flight'[n] = [r EXCEPT !.alone = (UnderWay = {})]
         /\ \A m \in UnderWay : flight'[m] = [flight[m] EXCEPT !.alone = FALSE]
         /\ \A m \in Request \ {n} : m \notin UnderWay => flight'[m] = flight[m]
         /\ UnderWay' = UnderWay \cup {n}
<1> DEFINE n == past.sent + 1
<1>1. n \in Request /\ n \notin UnderWay
  BY DEF Sent, IInv, NumberInv, Request
<1>2. flight' = [m \in Request |->
          CASE m = n -> [r EXCEPT !.alone = UnderWay = {}]
            [] m \in UnderWay -> [flight[m] EXCEPT !.alone = FALSE]
            [] OTHER -> flight[m]]
  BY DEF Sent
<1> HIDE DEF n
<1>3. flight'[n] = [r EXCEPT !.alone = (UnderWay = {})]
  BY <1>1, <1>2
<1>4. ASSUME NEW m \in UnderWay
      PROVE  flight'[m] = [flight[m] EXCEPT !.alone = FALSE] /\ flight'[m].op # "none"
  <2>1. m \in Request /\ m # n
    BY <1>1 DEF UnderWay
  <2>2. flight'[m] = [flight[m] EXCEPT !.alone = FALSE]
    BY <1>2, <2>1
  <2>3. flight'[m].op = flight[m].op
    BY <2>2, UnderWayShape, MarkedRequest DEF IInv
  <2> QED
    BY <2>2, <2>3 DEF UnderWay
<1>5. ASSUME NEW m \in Request \ {n}, m \notin UnderWay PROVE flight'[m] = flight[m]
  BY <1>2, <1>5
<1>6. flight'[n].op # "none"
  <2>1. flight'[n].op = r.op
    BY <1>3, MarkedRequest
  <2> QED
    BY <2>1 DEF FetchSent, UpdateSent
<1>7. UnderWay' = UnderWay \cup {n}
  BY <1>1, <1>4, <1>5, <1>6 DEF UnderWay
<1> QED
  BY <1>1, <1>2, <1>3, <1>4, <1>5, <1>7 DEF n

LEMMA SentPast ==
  ASSUME IInv, NEW r, FetchSent(r) \/ UpdateSent(r),
         NEW before, before \in {past, [past EXCEPT !.reset = TRUE]}, Sent(r, before)
  PROVE  /\ PastShape(past')
         /\ past'.sent = past.sent + 1
         /\ past'.newest = IF r.op = "fetch" THEN past.sent + 1 ELSE past.newest
         /\ past'.dirty = IF r.op = "fetch" THEN FALSE ELSE past.dirty
         /\ past'.failed = IF r.op = "fetch" THEN FALSE ELSE past.failed
         /\ past'.latest = past.latest /\ past'.filter = past.filter
         /\ past'.late = past.late /\ past'.lost = past.lost
         /\ past'.reset = before.reset
         /\ past.crossed \subseteq past'.crossed
         /\ r.op = "fetch" => \A m \in UnderWay : flight[m].op = "update" =>
                                flight[m].id \in past'.crossed
         /\ r.op = "update" => \A m \in UnderWay :
              flight[m].op = "fetch" \/ flight[m].id = r.id => r.id \in past'.crossed
<1> DEFINE n == past.sent + 1
           met == {m \in UnderWay : Meets(m, r)}
           more == {flight[m].id : m \in {k \in met : flight[k].op = "update"}}
                     \cup (IF r.op = "update" /\ met # {} THEN {r.id} ELSE {})
<1>1. past' = [before EXCEPT
          !.sent = n,
          !.newest = IF r.op = "fetch" THEN n ELSE @,
          !.dirty = IF r.op = "fetch" THEN FALSE ELSE @,
          !.failed = IF r.op = "fetch" THEN FALSE ELSE @,
          !.crossed = @ \cup {flight[m].id : m \in {k \in met : flight[k].op = "update"}}
                        \cup (IF r.op = "update" /\ met # {} THEN {r.id} ELSE {})]
  BY DEF Sent
<1>2. before = [sent |-> past.sent, newest |-> past.newest, latest |-> past.latest,
                filter |-> past.filter, late |-> past.late, dirty |-> past.dirty,
                failed |-> past.failed, reset |-> before.reset,
                crossed |-> past.crossed, lost |-> past.lost]
  BY DEF IInv, ShapeInv, PastShape
<1>3. r.op \in {"fetch", "update"}
  BY DEF FetchSent, UpdateSent
<1>4. r.op = "fetch" => \A m \in UnderWay : flight[m].op = "update" => flight[m].id \in more
  BY DEF Meets
<1>5. r.op = "update" => \A m \in UnderWay :
        flight[m].op = "fetch" \/ flight[m].id = r.id => r.id \in more
  BY DEF Meets
<1> HIDE DEF n, met
<1>6. /\ PastShape(past')
      /\ past'.sent = n
      /\ past'.newest = IF r.op = "fetch" THEN n ELSE past.newest
      /\ past'.dirty = IF r.op = "fetch" THEN FALSE ELSE past.dirty
      /\ past'.failed = IF r.op = "fetch" THEN FALSE ELSE past.failed
      /\ past'.latest = past.latest /\ past'.filter = past.filter
      /\ past'.late = past.late /\ past'.lost = past.lost
      /\ past'.reset = before.reset
      /\ past'.crossed = past.crossed \cup more
  BY <1>1, <1>2 DEF PastShape
<1> HIDE DEF more
<1> QED
  BY <1>4, <1>5, <1>6 DEF n

\* What HandleApply, HandleReset and Save have in common.
Sends(r, before) ==
  /\ FetchSent(r) \/ UpdateSent(r)
  /\ r.at = "sent"
  /\ before \in {past, [past EXCEPT !.reset = TRUE]}
  /\ Sent(r, before)
  /\ UNCHANGED <<rows, nodes, chips>>
  /\ FilterShape(filters')
  /\ r.op = "fetch" => r.filter = filters'
  /\ r.op = "update" => filters' = filters
  /\ before.reset = TRUE \/ (filters' = filters /\ before.reset = past.reset)

\* What a request that is under way already keeps when another is sent.
LEMMA KeptRequest ==
  ASSUME IInv, NEW r, NEW before, Sends(r, before), NEW m \in UnderWay
  PROVE  /\ m \in Request
         /\ \/ FetchSent(flight'[m]) \/ FetchServed(flight'[m])
            \/ UpdateSent(flight'[m]) \/ UpdateServed(flight'[m])
         /\ flight'[m].op = flight[m].op /\ flight'[m].at = flight[m].at
         /\ flight'[m].alone = FALSE
         /\ flight[m].op = "fetch" => flight'[m].filter = flight[m].filter
         /\ ServedFetch(m) => flight'[m].nodes = flight[m].nodes
         /\ flight[m].op = "update" => flight'[m].id = flight[m].id
         /\ flight[m].op = "update" /\ flight[m].at = "served" =>
              flight'[m].node = flight[m].node
<1> DEFINE q == flight[m]
<1>1. flight'[m] = [q EXCEPT !.alone = FALSE]
  BY SentFacts DEF Sends
<1>2. /\ m \in Request
      /\ FetchSent(q) \/ FetchServed(q) \/ UpdateSent(q) \/ UpdateServed(q)
  BY UnderWayShape DEF IInv
<1>3. LET p == [q EXCEPT !.alone = FALSE] IN
      /\ FetchSent(p) \/ FetchServed(p) \/ UpdateSent(p) \/ UpdateServed(p)
      /\ p.op = q.op /\ p.at = q.at /\ p.alone = FALSE
      /\ q.op = "fetch" => p.filter = q.filter
      /\ q.op = "fetch" /\ q.at = "served" => p.nodes = q.nodes
      /\ q.op = "update" => p.id = q.id
      /\ q.op = "update" /\ q.at = "served" => p.node = q.node
  <2> HIDE DEF q
  <2> QED
    BY <1>2, MarkedRequest
<1> QED
  BY <1>1, <1>2, <1>3 DEF ServedFetch

LEMMA NewRequest ==
  ASSUME IInv, NEW r, NEW before, Sends(r, before)
  PROVE  LET n == past.sent + 1 IN
         /\ n \in Request /\ n \notin UnderWay
         /\ FetchSent(flight'[n]) \/ UpdateSent(flight'[n])
         /\ flight'[n].op = r.op /\ flight'[n].at = "sent"
         /\ flight'[n].alone = (UnderWay = {})
         /\ r.op = "fetch" => flight'[n].filter = filters'
         /\ r.op = "update" => flight'[n].id = r.id
<1> DEFINE n == past.sent + 1
<1>1. /\ n \in Request /\ n \notin UnderWay
      /\ flight'[n] = [r EXCEPT !.alone = (UnderWay = {})]
  BY SentFacts DEF Sends
<1> HIDE DEF n
<1>2. LET p == [r EXCEPT !.alone = (UnderWay = {})] IN
      /\ FetchSent(p) \/ FetchServed(p) \/ UpdateSent(p) \/ UpdateServed(p)
      /\ p.op = r.op /\ p.at = r.at /\ p.alone = (UnderWay = {})
      /\ r.op = "fetch" => p.filter = r.filter
      /\ r.op = "update" => p.id = r.id
  <2>1. FetchSent(r) \/ UpdateSent(r)
    BY DEF Sends
  <2> DEFINE b == UnderWay = {}
  <2>2. b \in BOOLEAN
    OBVIOUS
  <2> HIDE DEF b
  <2>3. LET p == [r EXCEPT !.alone = b] IN
        /\ FetchSent(p) \/ FetchServed(p) \/ UpdateSent(p) \/ UpdateServed(p)
        /\ p.op = r.op /\ p.at = r.at /\ p.alone = b
        /\ r.op = "fetch" => p.filter = r.filter
        /\ r.op = "update" => p.id = r.id
    BY <2>1, <2>2, MarkedRequest
  <2> QED
    BY <2>3 DEF b
<1>3. r.at = "sent" /\ (r.op = "fetch" => r.filter = filters')
  BY DEF Sends, FetchSent, UpdateSent
<1>4. FetchSent(flight'[n]) \/ UpdateSent(flight'[n])
  BY <1>1, <1>2, <1>3 DEF FetchServed, UpdateServed
<1> QED
  BY <1>1, <1>2, <1>3, <1>4 DEF n

LEMMA SendKeepsShape ==
  ASSUME IInv, NEW r, NEW before, Sends(r, before)
  PROVE  ShapeInv'
<1>1. FilterShape(filters') /\ PastShape(past')
  BY SentPast DEF Sends
<1>2. rows' = [id \in Id |-> rows'[id]] /\ DOMAIN nodes' \subseteq Id
  BY DEF IInv, ShapeInv, Sends
<1>3. flight' = [n \in Request |-> flight'[n]]
  BY SentFacts DEF Sends
<1>4. ASSUME NEW n \in Request
      PROVE  \/ flight'[n] = NoRequest
             \/ FetchSent(flight'[n]) \/ FetchServed(flight'[n])
             \/ UpdateSent(flight'[n]) \/ UpdateServed(flight'[n])
  <2>1. CASE n = past.sent + 1
    BY <2>1, NewRequest
  <2>2. CASE n \in UnderWay
    BY <2>2, KeptRequest
  <2>3. CASE n # past.sent + 1 /\ n \notin UnderWay
    BY <2>3, SentFacts, Idle DEF Sends, IInv
  <2> QED
    BY <2>1, <2>2, <2>3
<1> QED
  BY <1>1, <1>2, <1>3, <1>4 DEF ShapeInv

LEMMA SendKeepsNumbers ==
  ASSUME IInv, NEW r, NEW before, Sends(r, before)
  PROVE  NumberInv' /\ FetchInv'
<1> DEFINE n == past.sent + 1
<1>1. /\ past.sent \in Request /\ past.newest \in Request /\ past.latest \in Nat
      /\ past.newest <= past.sent /\ past.latest <= past.newest
      /\ flight[past.newest].op # "update"
      /\ \A m \in UnderWay : m <= past.sent /\ (flight[m].op = "fetch" => m <= past.newest)
  BY DEF IInv, NumberInv
<1>2. n \in Request /\ past.sent \in Nat /\ past.newest \in Nat /\ past.newest # n
  BY <1>1, NewRequest DEF Request
<1>3. /\ past'.sent = n
      /\ past'.newest = IF r.op = "fetch" THEN n ELSE past.newest
      /\ past'.dirty = IF r.op = "fetch" THEN FALSE ELSE past.dirty
      /\ past'.failed = IF r.op = "fetch" THEN FALSE ELSE past.failed
      /\ past'.latest = past.latest /\ past'.filter = past.filter /\ past'.late = past.late
  BY SentPast DEF Sends
<1>4. UnderWay' = UnderWay \cup {n}
  BY SentFacts DEF Sends
<1>5. flight'[n].op = r.op /\ (r.op = "fetch" => flight'[n].filter = filters')
  BY NewRequest
<1>6. r.op \in {"fetch", "update"}
  BY DEF Sends, FetchSent, UpdateSent
<1>7. \A m \in UnderWay : /\ flight'[m].op = flight[m].op
                          /\ flight[m].op = "fetch" => flight'[m].filter = flight[m].filter
  BY KeptRequest
<1>8. \A m \in Request \ {n} : m \notin UnderWay => flight'[m] = flight[m]
  BY SentFacts DEF Sends
<1>9. /\ flight'[past.newest].op = flight[past.newest].op
      /\ flight[past.newest].op = "fetch" =>
           flight'[past.newest].filter = flight[past.newest].filter
  BY <1>1, <1>2, <1>7, <1>8
<1> HIDE DEF n
<1>10. NumberInv'
  <2>1. /\ past'.sent \in Request /\ past'.newest \in Request /\ past'.latest \in Nat
        /\ past'.newest <= past'.sent /\ past'.latest <= past'.newest
    BY <1>1, <1>2, <1>3 DEF n
  <2>2. flight'[past'.newest].op # "update"
    BY <1>1, <1>3, <1>5, <1>6, <1>9
  <2>3. ASSUME NEW m \in UnderWay'
        PROVE  m <= past'.sent /\ (flight'[m].op = "fetch" => m <= past'.newest)
    <3>1. CASE m = n
      BY <1>2, <1>3, <1>5, <3>1 DEF n
    <3>2. CASE m \in UnderWay
      <4>1. m \in Nat /\ m <= past.sent /\ (flight[m].op = "fetch" => m <= past.newest)
        BY <1>1, <3>2 DEF UnderWay, Request
      <4> QED
        BY <1>2, <1>3, <1>7, <3>2, <4>1 DEF n
    <3> QED
      BY <1>4, <3>1, <3>2
  <2> QED
    BY <2>1, <2>2, <2>3 DEF NumberInv
<1>11. FetchInv'
  <2>1. CASE r.op = "fetch"
    <3>1. past'.newest = n /\ past'.latest # n
      BY <1>1, <1>2, <1>3, <2>1 DEF n
    <3> QED
      BY <1>5, <2>1, <3>1 DEF FetchInv
  <2>2. CASE r.op = "update"
    <3>1. filters' = filters /\ past'.newest = past.newest /\ past'.failed = past.failed
          /\ past'.dirty = past.dirty
      BY <1>3, <2>2 DEF Sends
    <3> QED
      BY <1>3, <1>9, <3>1 DEF IInv, FetchInv
  <2> QED
    BY <1>6, <2>1, <2>2
<1> QED
  BY <1>10, <1>11

LEMMA SendKeepsAlone ==
  ASSUME IInv, NEW r, NEW before, Sends(r, before)
  PROVE  AloneInv'
<1> DEFINE n == past.sent + 1
<1> SUFFICES ASSUME NEW m \in UnderWay', flight'[m].alone
             PROVE  /\ UnderWay' = {m}
                    /\ ServedFetch(m)' => \A id \in DOMAIN flight'[m].nodes :
                                            Matches(flight'[m].nodes[id], rows'[id])
  BY DEF AloneInv, Matches
<1>1. UnderWay' = UnderWay \cup {n}
  BY SentFacts DEF Sends
<1>2. m \notin UnderWay
  BY KeptRequest
<1>3. m = n /\ flight'[n].at = "sent" /\ flight'[n].alone = (UnderWay = {})
  BY <1>1, <1>2, NewRequest
<1> QED
  BY <1>1, <1>3 DEF ServedFetch

LEMMA SendKeepsEdits ==
  ASSUME IInv, NEW r, NEW before, Sends(r, before)
  PROVE  EditInv'
<1> DEFINE n == past.sent + 1
<1>1. n \in Request /\ flight'[n].op = r.op /\ flight'[n].at = "sent"
      /\ (r.op = "update" => flight'[n].id = r.id)
  BY NewRequest
<1>2. r.op = "fetch" => \A m \in UnderWay : flight[m].op = "update" =>
                                flight[m].id \in past'.crossed
  BY SentPast DEF Sends
<1>3. r.op = "update" => \A m \in UnderWay :
              flight[m].op = "fetch" \/ flight[m].id = r.id => r.id \in past'.crossed
  BY SentPast DEF Sends
<1>4. past.crossed \subseteq past'.crossed /\ past'.lost = past.lost
  BY SentPast DEF Sends
<1>5. r.op \in {"fetch", "update"}
  BY DEF Sends, FetchSent, UpdateSent
<1>6. rows' = rows /\ nodes' = nodes
  BY DEF Sends
<1>7. ASSUME NEW m \in Request, m # n
      PROVE  /\ flight'[m].op = flight[m].op
             /\ flight[m].op \in {"fetch", "update"} => /\ m \in UnderWay
                                                        /\ flight'[m].at = flight[m].at
             /\ ServedFetch(m) => flight'[m].nodes = flight[m].nodes
             /\ flight[m].op = "update" => flight'[m].id = flight[m].id
             /\ flight[m].op = "update" /\ flight[m].at = "served" =>
                  flight'[m].node = flight[m].node
  <2>1. CASE m \in UnderWay
    BY <2>1, KeptRequest
  <2>2. CASE m \notin UnderWay
    BY <1>7, <2>2, SentFacts, Idle DEF Sends, IInv, ServedFetch
  <2> QED
    BY <2>1, <2>2
<1> HIDE DEF n
<1> SUFFICES ASSUME NEW id \in Settled'
             PROVE  /\ \A m, k \in Request : Updates(m, id)' =>
                         flight'[k].op # "fetch" /\ (Updates(k, id)' => m = k)
                    /\ \A m \in Request : ServedFetch(m)' /\ id \in DOMAIN flight'[m].nodes =>
                         Matches(flight'[m].nodes[id], rows'[id])
                    /\ \A m \in Request : Updates(m, id)' /\ flight'[m].at = "served" =>
                         Matches(flight'[m].node, rows'[id])
                    /\ \/ id \notin DOMAIN nodes' \/ Matches(nodes'[id], rows'[id])
                       \/ \E m \in Request : Updates(m, id)' /\ flight'[m].at = "served"
  BY DEF EditInv, Matches
<1>8. id \in Settled /\ id \notin past'.crossed
  BY <1>4 DEF Settled
<1>9. /\ \A m, k \in Request : Updates(m, id) =>
           flight[k].op # "fetch" /\ (Updates(k, id) => m = k)
      /\ \A m \in Request : ServedFetch(m) /\ id \in DOMAIN flight[m].nodes =>
           Matches(flight[m].nodes[id], rows[id])
      /\ \A m \in Request : Updates(m, id) /\ flight[m].at = "served" =>
           Matches(flight[m].node, rows[id])
      /\ \/ id \notin DOMAIN nodes \/ Matches(nodes[id], rows[id])
         \/ \E m \in Request : Updates(m, id) /\ flight[m].at = "served"
  BY <1>8 DEF IInv, EditInv
<1>10. ASSUME NEW m \in Request, NEW k \in Request, Updates(m, id)'
       PROVE  flight'[k].op # "fetch" /\ (Updates(k, id)' => m = k)
  <2>1. CASE m = n /\ k # n
    BY <1>1, <1>3, <1>7, <1>8, <1>10, <2>1 DEF Updates
  <2>2. CASE m # n /\ k = n
    <3>1. Updates(m, id) /\ m \in UnderWay
      BY <1>7, <1>10, <2>2 DEF Updates
    <3> QED
      BY <1>1, <1>2, <1>3, <1>8, <2>2, <3>1 DEF Updates
  <2>3. CASE m # n /\ k # n
    BY <1>7, <1>9, <1>10, <2>3 DEF Updates
  <2>4. CASE m = n /\ k = n
    BY <1>10, <2>4 DEF Updates
  <2> QED
    BY <2>1, <2>2, <2>3, <2>4
<1>11. ASSUME NEW m \in Request, ServedFetch(m)', id \in DOMAIN flight'[m].nodes
       PROVE  Matches(flight'[m].nodes[id], rows'[id])
  <2>1. m # n
    BY <1>1, <1>11 DEF ServedFetch
  <2> QED
    BY <1>6, <1>7, <1>9, <1>11, <2>1 DEF ServedFetch
<1>12. ASSUME NEW m \in Request, Updates(m, id)', flight'[m].at = "served"
       PROVE  Matches(flight'[m].node, rows'[id])
  <2>1. m # n
    BY <1>1, <1>12
  <2> QED
    BY <1>6, <1>7, <1>9, <1>12, <2>1 DEF Updates
<1>13. \/ id \notin DOMAIN nodes' \/ Matches(nodes'[id], rows'[id])
       \/ \E m \in Request : Updates(m, id)' /\ flight'[m].at = "served"
  <2>1. CASE id \notin DOMAIN nodes \/ Matches(nodes[id], rows[id])
    BY <1>6, <2>1
  <2>2. ASSUME NEW m \in Request, Updates(m, id), flight[m].at = "served"
        PROVE  Updates(m, id)' /\ flight'[m].at = "served"
    <3>1. m # n
      BY <2>2, NewRequest DEF Updates, UnderWay, n
    <3> QED
      BY <1>7, <2>2, <3>1 DEF Updates
  <2> QED
    BY <1>9, <2>1, <2>2
<1> QED
  BY <1>10, <1>11, <1>12, <1>13

LEMMA SendKeeps ==
  ASSUME IInv, NEW r, NEW before, Sends(r, before)
  PROVE  IInv'
<1>1. LocationsAsShown'
  <2>1. chips' = chips /\ past'.reset = before.reset
    BY SentPast DEF Sends
  <2> QED
    BY <2>1 DEF IInv, LocationsAsShown, Sends
<1> QED
  BY <1>1, SendKeepsShape, SendKeepsNumbers, SendKeepsAlone, SendKeepsEdits DEF IInv

-----------------------------------------------------------------------------
\* The user's own steps.
LEMMA QuietKeeps ==
  ASSUME IInv, UNCHANGED <<rows, nodes, flight>>, FilterShape(filters'),
         \/ past' = past /\ filters' = filters
         \/ past' = [past EXCEPT !.dirty = TRUE]
         \/ past' = [past EXCEPT !.dirty = TRUE, !.reset = FALSE],
         LocationsAsShown'
  PROVE  IInv'
<1>1. past = [sent |-> past.sent, newest |-> past.newest, latest |-> past.latest,
              filter |-> past.filter, late |-> past.late, dirty |-> past.dirty,
              failed |-> past.failed, reset |-> past.reset,
              crossed |-> past.crossed, lost |-> past.lost]
  BY DEF IInv, ShapeInv, PastShape
<1>2. /\ PastShape(past')
      /\ past'.sent = past.sent /\ past'.newest = past.newest /\ past'.latest = past.latest
      /\ past'.crossed = past.crossed /\ past'.lost = past.lost
      /\ past'.dirty = TRUE \/ (past' = past /\ filters' = filters)
  BY <1>1 DEF PastShape
<1>3. ShapeInv'
  BY <1>2 DEF IInv, ShapeInv
<1>4. NumberInv'
  BY <1>2 DEF IInv, NumberInv, UnderWay
<1>5. FetchInv'
  BY <1>2 DEF IInv, FetchInv
<1>6. AloneInv'
  BY DEF IInv, AloneInv, UnderWay, ServedFetch, Matches
<1>7. EditInv'
  BY <1>2 DEF IInv, EditInv, Settled, Updates, ServedFetch, Matches
<1> QED
  BY <1>3, <1>4, <1>5, <1>6, <1>7 DEF IInv

\* The setters of the drawer.
LEMMA SettersKeep ==
  ASSUME IInv,
         \/ \E f \in Field : \E values \in SUBSET Option(f) : UpAmong(f, values)
         \/ UpValid
         \/ \E places \in SUBSET Place : UpLocation(places) \/ HandleSelectGroup(places)
         \/ \E v \in Typed : ChangeMin(v) \/ ChangeMax(v)
         \/ BlurMin \/ BlurMax
  PROVE  IInv'
<1>1. filters = [among |-> filters.among, locations |-> filters.locations,
                 priceUsd |-> filters.priceUsd, isValid |-> filters.isValid]
  BY DEF IInv, ShapeInv, FilterShape
<1>2. LocationsAsShown
  BY DEF IInv
<1>3. /\ past = [sent |-> past.sent, newest |-> past.newest, latest |-> past.latest,
                 filter |-> past.filter, late |-> past.late, dirty |-> past.dirty,
                 failed |-> past.failed, reset |-> past.reset,
                 crossed |-> past.crossed, lost |-> past.lost]
  BY DEF IInv, ShapeInv, PastShape
<1>4. ASSUME NEW f, up(f), FilterShape(f), f.locations = filters.locations,
             Dirty, chips' = chips
      PROVE  IInv'
  <2>1. UNCHANGED <<rows, nodes, flight>> /\ filters' = f
    BY <1>4 DEF up
  <2>2. past'.reset = past.reset
    BY <1>3, <1>4 DEF Dirty
  <2>3. LocationsAsShown'
    BY <1>2, <1>4, <2>1, <2>2 DEF LocationsAsShown
  <2> QED
    BY <1>4, <2>1, <2>3, QuietKeeps DEF Dirty
<1>5. ASSUME NEW f \in Field, NEW values, UpAmong(f, values) PROVE IInv'
  <2> DEFINE g == [filters EXCEPT !.among[f] = values]
  <2>1. up(g) /\ Dirty /\ chips' = chips
    BY <1>5 DEF UpAmong
  <2>2. FilterShape(g) /\ g.locations = filters.locations
    BY <1>1 DEF FilterShape
  <2> HIDE DEF g
  <2> QED
    BY <1>4, <2>1, <2>2
<1>6. ASSUME UpValid PROVE IInv'
  <2> DEFINE g == [filters EXCEPT !.isValid = ~@]
  <2>1. up(g) /\ Dirty /\ chips' = chips
    BY <1>6 DEF UpValid
  <2>2. FilterShape(g) /\ g.locations = filters.locations
    BY <1>1 DEF FilterShape
  <2> HIDE DEF g
  <2> QED
    BY <1>4, <2>1, <2>2
<1>7. ASSUME NEW range, UpPrice(range) PROVE IInv'
  <2> DEFINE g == [filters EXCEPT !.priceUsd = range]
  <2>1. up(g) /\ Dirty /\ chips' = chips
    BY <1>7 DEF UpPrice
  <2>2. FilterShape(g) /\ g.locations = filters.locations
    BY <1>1 DEF FilterShape
  <2> HIDE DEF g
  <2> QED
    BY <1>4, <2>1, <2>2
<1>8. ASSUME NEW places, up([filters EXCEPT !.locations = places]), chips' = places,
             past' = [past EXCEPT !.dirty = TRUE, !.reset = FALSE]
      PROVE  IInv'
  <2>1. UNCHANGED <<rows, nodes, flight>> /\ filters' = [filters EXCEPT !.locations = places]
    BY <1>8 DEF up
  <2>2. FilterShape(filters') /\ filters'.locations = places
    BY <1>1, <2>1 DEF FilterShape
  <2>3. LocationsAsShown'
    BY <1>8, <2>2 DEF LocationsAsShown
  <2> QED
    BY <1>8, <2>1, <2>2, <2>3, QuietKeeps
<1>9. ASSUME NEW places, UpLocation(places) \/ HandleSelectGroup(places) PROVE IInv'
  BY <1>8, <1>9 DEF UpLocation, HandleSelectGroup
<1>10. ASSUME NEW v, ChangeMin(v) \/ ChangeMax(v) PROVE IInv'
  BY <1>7, <1>10 DEF ChangeMin, ChangeMax
<1>11. ASSUME BlurMin \/ BlurMax PROVE IInv'
  BY <1>7, <1>11 DEF BlurMin, BlurMax
<1> QED
  BY <1>5, <1>6, <1>9, <1>10, <1>11

LEMMA ApplyKeeps ==
  ASSUME IInv, HandleApply \/ HandleReset
  PROVE  IInv'
<1> DEFINE r == [op |-> "fetch", at |-> "sent", filter |-> filters', alone |-> TRUE]
<1>1. FetchSent(r) /\ r.op = "fetch" /\ r.at = "sent" /\ r.filter = filters'
  BY DEF FetchSent
<1>2. CASE HandleApply
  <2>1. filters' = filters /\ Sent(r, past) /\ UNCHANGED <<rows, nodes, chips>>
    BY <1>2 DEF HandleApply, fetchData, store
  <2>2. FilterShape(filters')
    BY <2>1 DEF IInv, ShapeInv
  <2> HIDE DEF r
  <2>3. Sends(r, past)
    BY <1>1, <2>1, <2>2 DEF Sends
  <2> QED
    BY <2>3, SendKeeps
<1>3. CASE HandleReset
  <2> DEFINE before == [past EXCEPT !.reset = TRUE]
  <2>1. filters' = initialFilters /\ Sent(r, before) /\ UNCHANGED <<rows, nodes, chips>>
    BY <1>3 DEF HandleReset, fetchData
  <2>2. FilterShape(filters')
    BY <2>1 DEF FilterShape, initialFilters
  <2>3. before.reset = TRUE
    BY DEF IInv, ShapeInv, PastShape
  <2> HIDE DEF r
  <2>4. Sends(r, before)
    BY <1>1, <2>1, <2>2, <2>3 DEF Sends
  <2> HIDE DEF before
  <2> QED
    BY <2>4, SendKeeps
<1> QED
  BY <1>2, <1>3

LEMMA FormKeeps ==
  ASSUME IInv, Form
  PROVE  IInv'
<1>1. LocationsAsShown /\ FilterShape(filters)
  BY DEF IInv, ShapeInv
<1>2. CASE UNCHANGED <<rows, nodes, flight, filters, past, chips>>
  BY <1>1, <1>2, QuietKeeps DEF LocationsAsShown
<1>3. CASE Save /\ form.id \in DOMAIN nodes
  <2> DEFINE r == [op |-> "update", at |-> "sent", id |-> form.id, location |-> form.location,
                   propertyType |-> form.propertyType, alone |-> TRUE]
  <2>1. Sent(r, past) /\ UNCHANGED <<rows, filters, nodes, chips>>
    BY <1>3 DEF Save, store
  <2>2. UpdateSent(r) /\ r.op = "update" /\ r.at = "sent"
    BY <1>3 DEF UpdateSent, IInv, ShapeInv
  <2> HIDE DEF r
  <2>3. Sends(r, past)
    BY <1>1, <2>1, <2>2 DEF Sends
  <2> QED
    BY <2>3, SendKeeps
<1>4. CASE Save /\ form.id \notin DOMAIN nodes
  BY <1>2, <1>4 DEF Save, store
<1>5. ASSUME NEW id \in Id, OpenForm(id) PROVE IInv'
  BY <1>2, <1>5 DEF OpenForm, store
<1>6. ASSUME NEW f, Edit(f) PROVE IInv'
  BY <1>2, <1>6 DEF Edit, store
<1>7. CASE CloseForm
  BY <1>2, <1>7 DEF CloseForm, store
<1> QED
  BY <1>3, <1>4, <1>5, <1>6, <1>7 DEF Form

-----------------------------------------------------------------------------
\* The server's steps, and the answers.
LEMMA Replaced ==
  ASSUME ShapeInv, NEW n \in UnderWay, NEW q, flight' = [flight EXCEPT ![n] = q],
         q.op \in {"none", flight[n].op}
  PROVE  /\ n \in Request /\ flight'[n] = q
         /\ \A m \in Request \ {n} : flight'[m] = flight[m]
         /\ flight' = [m \in Request |-> flight'[m]]
         /\ UnderWay' = IF q.op = "none" THEN UnderWay \ {n} ELSE UnderWay
<1>1. n \in Request /\ flight = [m \in Request |-> flight[m]] /\ flight[n].op # "none"
  BY DEF ShapeInv, UnderWay
<1>2. /\ flight'[n] = q
      /\ \A m \in Request \ {n} : flight'[m] = flight[m]
      /\ flight' = [m \in Request |-> flight'[m]]
  BY <1>1
<1>3. UnderWay' = {m \in Request : flight'[m].op # "none"}
  BY DEF UnderWay
<1>4. ASSUME q.op = "none" PROVE UnderWay' = UnderWay \ {n}
  BY <1>1, <1>2, <1>3, <1>4 DEF UnderWay
<1>5. ASSUME q.op # "none" PROVE UnderWay' = UnderWay
  BY <1>1, <1>2, <1>3, <1>5 DEF UnderWay
<1> QED
  BY <1>1, <1>2, <1>4, <1>5

LEMMA ServeFetchKeeps ==
  ASSUME IInv, NEW n \in Request, ServeFetch(n)
  PROVE  IInv'
<1> DEFINE r == flight[n]
           answer == Answer(r.filter)
           q == [op |-> "fetch", at |-> "served", filter |-> r.filter, alone |-> r.alone,
                 nodes |-> answer, stats |-> Aggregates(DOMAIN answer)]
<1>1. /\ r.op = "fetch" /\ r.at = "sent" /\ n \in UnderWay
      /\ flight' = [flight EXCEPT ![n] = q]
      /\ UNCHANGED <<rows, filters, nodes, stats, chips, past>>
  BY DEF ServeFetch, UnderWay, store
<1>2. /\ q.op = "fetch" /\ q.at = "served" /\ q.filter = r.filter /\ q.alone = r.alone
      /\ q.nodes = answer
  OBVIOUS
<1>3. /\ DOMAIN answer \subseteq Id
      /\ \A id \in DOMAIN answer : Matches(answer[id], rows[id])
  BY DEF Answer, Matches
<1>4. FetchServed(q)
  BY <1>3 DEF FetchServed
<1> HIDE DEF q, answer
<1>5. /\ flight'[n] = q
      /\ \A m \in Request \ {n} : flight'[m] = flight[m]
      /\ flight' = [m \in Request |-> flight'[m]]
      /\ UnderWay' = UnderWay
  BY <1>1, <1>2, Replaced DEF IInv
<1>6. ShapeInv'
  BY <1>1, <1>4, <1>5 DEF IInv, ShapeInv
<1>7. NumberInv'
  BY <1>1, <1>2, <1>5 DEF IInv, NumberInv
<1>8. FetchInv'
  BY <1>1, <1>2, <1>5 DEF IInv, NumberInv, FetchInv
<1>9. AloneInv'
  <2> SUFFICES ASSUME NEW m \in UnderWay, flight'[m].alone
               PROVE  /\ UnderWay = {m}
                      /\ ServedFetch(m)' => \A id \in DOMAIN flight'[m].nodes :
                                              Matches(flight'[m].nodes[id], rows[id])
    BY <1>1, <1>5 DEF AloneInv, Matches
  <2>1. m \in Request
    BY DEF UnderWay
  <2>2. CASE m = n
    BY <1>1, <1>2, <1>3, <1>5, <2>2 DEF IInv, AloneInv
  <2>3. CASE m # n
    BY <1>5, <2>1, <2>3 DEF IInv, AloneInv, ServedFetch
  <2> QED
    BY <2>2, <2>3
<1>10. EditInv'
  <2> SUFFICES ASSUME NEW id \in Settled
               PROVE  /\ \A m, k \in Request : Updates(m, id)' =>
                           flight'[k].op # "fetch" /\ (Updates(k, id)' => m = k)
                      /\ \A m \in Request : ServedFetch(m)' /\ id \in DOMAIN flight'[m].nodes =>
                           Matches(flight'[m].nodes[id], rows[id])
                      /\ \A m \in Request : Updates(m, id)' /\ flight'[m].at = "served" =>
                           Matches(flight'[m].node, rows[id])
                      /\ \/ id \notin DOMAIN nodes \/ Matches(nodes[id], rows[id])
                         \/ \E m \in Request : Updates(m, id)' /\ flight'[m].at = "served"
    BY <1>1 DEF EditInv, Matches, Settled
  <2>1. \A m \in Request : /\ flight'[m].op = flight[m].op
                           /\ Updates(m, id)' <=> Updates(m, id)
                           /\ flight[m].op = "update" => flight'[m] = flight[m]
    BY <1>1, <1>2, <1>5 DEF Updates
  <2>2. \A m \in Request : ServedFetch(m)' /\ id \in DOMAIN flight'[m].nodes =>
          Matches(flight'[m].nodes[id], rows[id])
    BY <1>2, <1>3, <1>5 DEF IInv, EditInv, ServedFetch
  <2>3. \A m, k \in Request : Updates(m, id)' =>
          flight'[k].op # "fetch" /\ (Updates(k, id)' => m = k)
    BY <2>1 DEF IInv, EditInv
  <2>4. \A m \in Request : Updates(m, id)' /\ flight'[m].at = "served" =>
          Matches(flight'[m].node, rows[id])
    BY <2>1 DEF IInv, EditInv, Updates
  <2>5. \/ id \notin DOMAIN nodes \/ Matches(nodes[id], rows[id])
        \/ \E m \in Request : Updates(m, id)' /\ flight'[m].at = "served"
    BY <2>1 DEF IInv, EditInv, Updates
  <2> QED
    BY <2>2, <2>3, <2>4, <2>5
<1>11. LocationsAsShown'
  BY <1>1 DEF IInv, LocationsAsShown
<1> QED
  BY <1>6, <1>7, <1>8, <1>9, <1>10, <1>11 DEF IInv

LEMMA ServeUpdateKeeps ==
  ASSUME IInv, NEW n \in Request, ServeUpdate(n)
  PROVE  IInv'
<1> DEFINE r == flight[n]
           node == [location |-> Updated(r).location,
                    propertyType |-> Updated(r).propertyType, leaseYearsLeft |-> FALSE]
           q == [op |-> "update", at |-> "served", id |-> r.id, alone |-> r.alone,
                 node |-> node]
<1>1. /\ r.op = "update" /\ r.at = "sent" /\ n \in UnderWay
      /\ flight' = [flight EXCEPT ![n] = q]
      /\ rows' = [rows EXCEPT ![r.id] = Updated(r)]
      /\ UNCHANGED <<filters, nodes, stats, chips, past>>
  BY DEF ServeUpdate, UnderWay, store
<1>2. /\ q.op = "update" /\ q.at = "served" /\ q.id = r.id /\ q.alone = r.alone
      /\ q.node = node /\ Matches(node, Updated(r))
  BY DEF Matches
<1>3. r.id \in Id
  BY <1>1, UnderWayShape DEF IInv, FetchSent, FetchServed, UpdateSent, UpdateServed
<1>4. UpdateServed(q)
  BY <1>3 DEF UpdateServed
<1> HIDE DEF q, node
<1>5. /\ flight'[n] = q
      /\ \A m \in Request \ {n} : flight'[m] = flight[m]
      /\ flight' = [m \in Request |-> flight'[m]]
      /\ UnderWay' = UnderWay
  BY <1>1, <1>2, Replaced DEF IInv
<1>6. /\ rows' = [id \in Id |-> rows'[id]]
      /\ rows'[r.id] = Updated(r)
      /\ \A id \in Id \ {r.id} : rows'[id] = rows[id]
  BY <1>1, <1>3 DEF IInv, ShapeInv
<1>7. ShapeInv'
  BY <1>1, <1>4, <1>5, <1>6 DEF IInv, ShapeInv
<1>8. NumberInv'
  BY <1>1, <1>2, <1>5 DEF IInv, NumberInv
<1>9. FetchInv'
  BY <1>1, <1>2, <1>5 DEF IInv, NumberInv, FetchInv
<1>10. AloneInv'
  <2> SUFFICES ASSUME NEW m \in UnderWay, flight'[m].alone
               PROVE  UnderWay = {m} /\ ~ServedFetch(m)'
    BY <1>5 DEF AloneInv, Matches
  <2>1. m \in Request
    BY DEF UnderWay
  <2>2. CASE m = n
    BY <1>1, <1>2, <1>5, <2>2 DEF IInv, AloneInv, ServedFetch
  <2>3. CASE m # n
    BY <1>1, <1>5, <2>1, <2>3 DEF IInv, AloneInv
  <2> QED
    BY <2>2, <2>3
<1>11. EditInv'
  <2> SUFFICES ASSUME NEW id \in Settled
               PROVE  /\ \A m, k \in Request : Updates(m, id)' =>
                           flight'[k].op # "fetch" /\ (Updates(k, id)' => m = k)
                      /\ \A m \in Request : ServedFetch(m)' /\ id \in DOMAIN flight'[m].nodes =>
                           Matches(flight'[m].nodes[id], rows'[id])
                      /\ \A m \in Request : Updates(m, id)' /\ flight'[m].at = "served" =>
                           Matches(flight'[m].node, rows'[id])
                      /\ \/ id \notin DOMAIN nodes \/ Matches(nodes[id], rows'[id])
                         \/ \E m \in Request : Updates(m, id)' /\ flight'[m].at = "served"
    BY <1>1 DEF EditInv, Matches, Settled
  <2>1. \A m \in Request : /\ flight'[m].op = flight[m].op
                           /\ Updates(m, id)' <=> Updates(m, id)
                           /\ ServedFetch(m)' <=> ServedFetch(m)
                           /\ flight[m].op = "fetch" => flight'[m] = flight[m]
    BY <1>1, <1>2, <1>5 DEF Updates, ServedFetch
  <2>2. \A m, k \in Request : Updates(m, id) =>
          flight[k].op # "fetch" /\ (Updates(k, id) => m = k)
    BY DEF IInv, EditInv
  <2>3. \A m, k \in Request : Updates(m, id)' =>
          flight'[k].op # "fetch" /\ (Updates(k, id)' => m = k)
    BY <2>1, <2>2
  <2>4. CASE id = r.id
    <3>1. Updates(n, id) /\ Updates(n, id)' /\ flight'[n].at = "served"
      BY <1>1, <1>2, <1>5, <2>1, <2>4 DEF Updates
    <3>2. \A m \in Request : ~ServedFetch(m)'
      BY <2>1, <2>2, <3>1 DEF ServedFetch
    <3>3. \A m \in Request : Updates(m, id)' => m = n
      BY <2>1, <2>2, <3>1
    <3>4. Matches(flight'[n].node, rows'[id])
      BY <1>2, <1>5, <1>6, <2>4
    <3> QED
      BY <2>3, <3>1, <3>2, <3>3, <3>4
  <2>5. CASE id # r.id
    <3>1. rows'[id] = rows[id]
      BY <1>6, <2>5 DEF Settled
    <3>2. ~Updates(n, id)
      BY <2>5 DEF Updates
    <3>3. \A m \in Request : Updates(m, id) => flight'[m] = flight[m]
      BY <1>5, <3>2
    <3> QED
      BY <2>1, <2>3, <3>1, <3>3 DEF IInv, EditInv, ServedFetch
  <2> QED
    BY <2>4, <2>5
<1>12. LocationsAsShown'
  BY <1>1 DEF IInv, LocationsAsShown
<1> QED
  BY <1>7, <1>8, <1>9, <1>10, <1>11, <1>12 DEF IInv

\* A request that is over: the others are as they were.
LEMMA Dropped ==
  ASSUME IInv, NEW n \in UnderWay, flight' = [flight EXCEPT ![n] = NoRequest]
  PROVE  /\ n \in Request /\ flight'[n] = NoRequest
         /\ flight' = [m \in Request |-> flight'[m]]
         /\ UnderWay' = UnderWay \ {n}
         /\ \A m \in Request \ {n} : flight'[m] = flight[m]
         /\ \A m \in Request : flight'[m].op # "none" => m # n /\ flight'[m] = flight[m]
         /\ AloneInv'
<1>1. NoRequest.op = "none"
  BY DEF NoRequest
<1>2. /\ n \in Request /\ flight'[n] = NoRequest
      /\ flight' = [m \in Request |-> flight'[m]]
      /\ UnderWay' = UnderWay \ {n}
      /\ \A m \in Request \ {n} : flight'[m] = flight[m]
  BY <1>1, Replaced DEF IInv
<1>3. ASSUME NEW m \in UnderWay', flight'[m].alone PROVE FALSE
  <2>1. m # n /\ m \in UnderWay /\ m \in Request
    BY <1>2 DEF UnderWay
  <2> QED
    BY <1>2, <1>3, <2>1 DEF IInv, AloneInv
<1> QED
  BY <1>1, <1>2, <1>3 DEF AloneInv

LEMMA MaxOfTwo ==
  ASSUME NEW a \in Nat, NEW b \in Nat
  PROVE  Max({a, b}) = IF a < b THEN b ELSE a
<1>1. \E x \in {a, b} : \A y \in {a, b} : x >= y
  <2>1. CASE a < b
    BY <2>1
  <2>2. CASE ~(a < b)
    BY <2>2
  <2> QED
    BY <2>1, <2>2
<1>2. Max({a, b}) \in {a, b} /\ \A y \in {a, b} : Max({a, b}) >= y
  BY <1>1 DEF Max
<1> QED
  BY <1>2

LEMMA ReceiveFetchKeeps ==
  ASSUME IInv, NEW n \in Request, ReceiveFetch(n)
  PROVE  IInv'
<1> DEFINE r == flight[n]
<1>1. /\ ServedFetch(n) /\ r.op = "fetch" /\ n \in UnderWay /\ nodes' = r.nodes
      /\ flight' = [flight EXCEPT ![n] = NoRequest]
      /\ past' = [past EXCEPT !.latest = Max({@, n}), !.filter = r.filter,
                              !.late = n < past.latest,
                              !.crossed = IF r.alone THEN {} ELSE @,
                              !.lost = IF r.alone THEN {} ELSE @]
      /\ UNCHANGED <<rows, filters, chips>>
  BY DEF ReceiveFetch, ServedFetch, UnderWay
<1>2. DOMAIN r.nodes \subseteq Id
  BY <1>1, UnderWayShape
     DEF IInv, ServedFetch, FetchSent, FetchServed, UpdateSent, UpdateServed
<1>3. past = [sent |-> past.sent, newest |-> past.newest, latest |-> past.latest,
              filter |-> past.filter, late |-> past.late, dirty |-> past.dirty,
              failed |-> past.failed, reset |-> past.reset,
              crossed |-> past.crossed, lost |-> past.lost]
  BY DEF IInv, ShapeInv, PastShape
<1>4. /\ past.sent \in Nat /\ past.newest \in Request /\ past.latest \in Nat /\ n \in Nat
      /\ past.newest \in Nat /\ n <= past.newest /\ past.latest <= past.newest
  BY <1>1 DEF IInv, NumberInv, Request
<1>5. /\ PastShape(past')
      /\ past'.sent = past.sent /\ past'.newest = past.newest
      /\ past'.latest = Max({past.latest, n}) /\ past'.filter = r.filter
      /\ past'.late = (n < past.latest)
      /\ past'.dirty = past.dirty /\ past'.failed = past.failed /\ past'.reset = past.reset
      /\ past'.crossed = (IF r.alone THEN {} ELSE past.crossed)
      /\ past'.lost = (IF r.alone THEN {} ELSE past.lost)
  <2> DEFINE most == Max({past.latest, n})
             before == n < past.latest
  <2>1. past' = [past EXCEPT !.latest = most, !.filter = r.filter, !.late = before,
                             !.crossed = IF r.alone THEN {} ELSE @,
                             !.lost = IF r.alone THEN {} ELSE @]
    BY <1>1
  <2> HIDE DEF most, before
  <2>2. /\ PastShape(past')
        /\ past'.sent = past.sent /\ past'.newest = past.newest
        /\ past'.latest = most /\ past'.filter = r.filter
        /\ past'.late = before
        /\ past'.dirty = past.dirty /\ past'.failed = past.failed /\ past'.reset = past.reset
        /\ past'.crossed = (IF r.alone THEN {} ELSE past.crossed)
        /\ past'.lost = (IF r.alone THEN {} ELSE past.lost)
    BY <1>3, <2>1 DEF PastShape
  <2> QED
    BY <2>2 DEF most, before
<1>6. past'.latest = IF past.latest < n THEN n ELSE past.latest
  BY <1>4, <1>5, MaxOfTwo
<1> HIDE DEF r
<1>7. /\ flight'[n] = NoRequest /\ NoRequest.op = "none"
      /\ flight' = [m \in Request |-> flight'[m]]
      /\ UnderWay' = UnderWay \ {n}
      /\ \A m \in Request \ {n} : flight'[m] = flight[m]
      /\ \A m \in Request : flight'[m].op # "none" => m # n /\ flight'[m] = flight[m]
      /\ AloneInv'
  BY <1>1, Dropped DEF NoRequest
<1>8. ShapeInv'
  BY <1>1, <1>2, <1>5, <1>7 DEF IInv, ShapeInv
<1>9. NumberInv'
  <2>1. flight'[past.newest].op # "update"
    BY <1>4, <1>7 DEF IInv, NumberInv
  <2>2. \A m \in UnderWay' : m \in UnderWay /\ flight'[m] = flight[m]
    BY <1>7 DEF UnderWay
  <2> QED
    BY <1>4, <1>5, <1>6, <2>1, <2>2 DEF IInv, NumberInv
<1>10. FetchInv'
  <2> SUFFICES ASSUME ~past.dirty
               PROVE  /\ flight'[past.newest].op = "fetch" =>
                           flight'[past.newest].filter = filters
                      /\ \/ flight'[past.newest].op = "fetch"
                         \/ past.failed
                         \/ past'.latest = past.newest
                      /\ past'.latest = past.newest => past'.late \/ past'.filter = filters
    BY <1>1, <1>5 DEF FetchInv
  <2>1. CASE n = past.newest
    BY <1>1, <1>4, <1>5, <1>6, <1>7, <2>1 DEF IInv, FetchInv, r
  <2>2. CASE n # past.newest
    <3>1. flight'[past.newest] = flight[past.newest]
      BY <1>4, <1>7, <2>2
    <3>2. past'.latest = past.newest <=> past.latest = past.newest
      BY <1>4, <1>6, <2>2
    <3>3. past.latest = past.newest => past'.late
      <4>1. past.latest = past.newest => n < past.latest
        BY <1>4, <2>2
      <4>2. past'.late = (n < past.latest)
        BY <1>5
      <4> QED
        BY <4>1, <4>2, Zenon
    <3> QED
      BY <3>1, <3>2, <3>3 DEF IInv, FetchInv
  <2> QED
    BY <2>1, <2>2
<1>11. EditInv'
  <2>1. CASE r.alone
    <3>1. \A m \in Request : flight'[m].op = "none"
      BY <1>1, <1>7, <2>1 DEF IInv, AloneInv, UnderWay, r
    <3>2. \A id \in DOMAIN nodes' : Matches(nodes'[id], rows'[id])
      BY <1>1, <2>1 DEF IInv, AloneInv, r
    <3> QED
      BY <3>1, <3>2 DEF EditInv, Updates, ServedFetch, Matches
  <2>2. CASE ~r.alone
    <3>1. \A id \in Settled' : id \in Settled
      BY <1>5, <2>2 DEF Settled
    <3>2. \A id \in Settled : id \in DOMAIN nodes' => Matches(nodes'[id], rows'[id])
      BY <1>1 DEF IInv, EditInv, r
    <3>3. rows' = rows
      BY <1>1
    <3> QED
      BY <1>7, <3>1, <3>2, <3>3 DEF IInv, EditInv, Updates, ServedFetch, Matches
  <2> QED
    BY <2>1, <2>2
<1>12. LocationsAsShown'
  BY <1>1, <1>5 DEF IInv, LocationsAsShown
<1> QED
  BY <1>7, <1>8, <1>9, <1>10, <1>11, <1>12 DEF IInv

LEMMA ReceiveUpdateKeeps ==
  ASSUME IInv, NEW n \in Request, ReceiveUpdate(n)
  PROVE  IInv'
<1> DEFINE r == flight[n]
<1>1. /\ r.op = "update" /\ r.at = "served" /\ n \in UnderWay
      /\ nodes' = [id \in DOMAIN nodes |-> IF id = r.id THEN r.node ELSE nodes[id]]
      /\ flight' = [flight EXCEPT ![n] = NoRequest]
      /\ UNCHANGED <<rows, filters, chips, past>>
  BY DEF ReceiveUpdate, UnderWay
<1> HIDE DEF r
<1>2. /\ flight'[n] = NoRequest /\ NoRequest.op = "none"
      /\ flight' = [m \in Request |-> flight'[m]]
      /\ UnderWay' = UnderWay \ {n}
      /\ \A m \in Request \ {n} : flight'[m] = flight[m]
      /\ \A m \in Request : flight'[m].op # "none" => m # n /\ flight'[m] = flight[m]
      /\ AloneInv'
  BY <1>1, Dropped DEF NoRequest
<1>3. ShapeInv'
  BY <1>1, <1>2 DEF IInv, ShapeInv
<1>4. n # past.newest
  BY <1>1 DEF IInv, NumberInv, r
<1>5. NumberInv'
  <2>1. \A m \in UnderWay' : m \in UnderWay /\ flight'[m] = flight[m]
    BY <1>2 DEF UnderWay
  <2> QED
    BY <1>1, <1>2, <1>4, <2>1 DEF IInv, NumberInv
<1>6. FetchInv'
  BY <1>1, <1>2, <1>4 DEF IInv, NumberInv, FetchInv
<1>7. EditInv'
  <2>0. rows' = rows /\ Settled' = Settled
    BY <1>1 DEF Settled
  <2> SUFFICES ASSUME NEW id \in Settled
               PROVE  /\ \A m, k \in Request : Updates(m, id)' =>
                           flight'[k].op # "fetch" /\ (Updates(k, id)' => m = k)
                      /\ \A m \in Request : ServedFetch(m)' /\ id \in DOMAIN flight'[m].nodes =>
                           Matches(flight'[m].nodes[id], rows[id])
                      /\ \A m \in Request : Updates(m, id)' /\ flight'[m].at = "served" =>
                           Matches(flight'[m].node, rows[id])
                      /\ \/ id \notin DOMAIN nodes' \/ Matches(nodes'[id], rows[id])
                         \/ \E m \in Request : Updates(m, id)' /\ flight'[m].at = "served"
    BY <2>0 DEF EditInv, Matches
  <2>1. \A m \in Request : /\ flight'[m].op = "fetch" => flight'[m] = flight[m]
                           /\ Updates(m, id)' => Updates(m, id) /\ flight'[m] = flight[m]
                           /\ ServedFetch(m)' => ServedFetch(m)
    <3> SUFFICES ASSUME NEW m \in Request
                 PROVE  /\ flight'[m].op = "fetch" => flight'[m] = flight[m]
                        /\ Updates(m, id)' => Updates(m, id) /\ flight'[m] = flight[m]
                        /\ ServedFetch(m)' => ServedFetch(m)
      OBVIOUS
    <3>1. flight'[m].op # "none" => flight'[m] = flight[m]
      BY <1>2
    <3>2. flight'[m].op = "fetch" => flight'[m] = flight[m]
      BY <3>1
    <3>3. Updates(m, id)' => Updates(m, id) /\ flight'[m] = flight[m]
      BY <3>1 DEF Updates
    <3>4. ServedFetch(m)' => ServedFetch(m)
      BY <3>2 DEF ServedFetch
    <3> QED
      BY <3>2, <3>3, <3>4
  <2>2. /\ \A m, k \in Request : Updates(m, id)' =>
             flight'[k].op # "fetch" /\ (Updates(k, id)' => m = k)
        /\ \A m \in Request : ServedFetch(m)' /\ id \in DOMAIN flight'[m].nodes =>
             Matches(flight'[m].nodes[id], rows[id])
        /\ \A m \in Request : Updates(m, id)' /\ flight'[m].at = "served" =>
             Matches(flight'[m].node, rows[id])
    BY <2>1 DEF IInv, EditInv, ServedFetch
  <2>3. CASE id = r.id
    <3>1. Matches(r.node, rows[id])
      BY <1>1, <2>3 DEF IInv, EditInv, Updates, r
    <3>2. id \in DOMAIN nodes' => nodes'[id] = r.node
      BY <1>1, <2>3
    <3> QED
      BY <2>2, <3>1, <3>2
  <2>4. CASE id # r.id
    <3>1. /\ DOMAIN nodes' = DOMAIN nodes
          /\ id \in DOMAIN nodes => nodes'[id] = nodes[id]
      BY <1>1, <2>4
    <3>2. \A m \in Request : Updates(m, id) => flight'[m] = flight[m]
      BY <1>2, <2>4 DEF Updates, r
    <3>3. \/ id \notin DOMAIN nodes \/ Matches(nodes[id], rows[id])
          \/ \E m \in Request : Updates(m, id) /\ flight[m].at = "served"
      BY DEF IInv, EditInv
    <3>4. \/ id \notin DOMAIN nodes' \/ Matches(nodes'[id], rows[id])
          \/ \E m \in Request : Updates(m, id)' /\ flight'[m].at = "served"
      BY <3>1, <3>2, <3>3 DEF Updates
    <3> QED
      BY <2>2, <3>4
  <2> QED
    BY <2>3, <2>4
<1>8. LocationsAsShown'
  BY <1>1 DEF IInv, LocationsAsShown
<1> QED
  BY <1>2, <1>3, <1>5, <1>6, <1>7, <1>8 DEF IInv

LEMMA FailsKeeps ==
  ASSUME IInv, NEW n \in Request, Fails(n)
  PROVE  IInv'
<1> DEFINE r == flight[n]
<1>1. /\ r.op # "none" /\ n \in UnderWay
      /\ flight' = [flight EXCEPT ![n] = NoRequest]
      /\ past' = [past EXCEPT !.failed = @ \/ n = past.newest,
                              !.lost = IF r.op = "update" THEN @ \cup {r.id} ELSE @]
      /\ UNCHANGED <<rows, filters, nodes, chips>>
  BY DEF Fails, UnderWay, store
<1> HIDE DEF r
<1>2. past = [sent |-> past.sent, newest |-> past.newest, latest |-> past.latest,
              filter |-> past.filter, late |-> past.late, dirty |-> past.dirty,
              failed |-> past.failed, reset |-> past.reset,
              crossed |-> past.crossed, lost |-> past.lost]
  BY DEF IInv, ShapeInv, PastShape
<1>3. /\ PastShape(past')
      /\ past'.sent = past.sent /\ past'.newest = past.newest
      /\ past'.latest = past.latest /\ past'.filter = past.filter
      /\ past'.late = past.late /\ past'.dirty = past.dirty /\ past'.reset = past.reset
      /\ past'.failed = (past.failed \/ n = past.newest)
      /\ past'.crossed = past.crossed
      /\ past'.lost = IF r.op = "update" THEN past.lost \cup {r.id} ELSE past.lost
  <2> DEFINE fails == past.failed \/ n = past.newest
  <2>1. past' = [past EXCEPT !.failed = fails,
                             !.lost = IF r.op = "update" THEN @ \cup {r.id} ELSE @]
    BY <1>1
  <2> HIDE DEF fails
  <2>2. /\ PastShape(past')
        /\ past'.sent = past.sent /\ past'.newest = past.newest
        /\ past'.latest = past.latest /\ past'.filter = past.filter
        /\ past'.late = past.late /\ past'.dirty = past.dirty /\ past'.reset = past.reset
        /\ past'.failed = fails
        /\ past'.crossed = past.crossed
        /\ past'.lost = IF r.op = "update" THEN past.lost \cup {r.id} ELSE past.lost
    BY <1>2, <2>1 DEF PastShape
  <2> QED
    BY <2>2 DEF fails
<1>4. /\ flight'[n] = NoRequest /\ NoRequest.op = "none"
      /\ flight' = [m \in Request |-> flight'[m]]
      /\ UnderWay' = UnderWay \ {n}
      /\ \A m \in Request \ {n} : flight'[m] = flight[m]
      /\ \A m \in Request : flight'[m].op # "none" => m # n /\ flight'[m] = flight[m]
      /\ AloneInv'
  BY <1>1, Dropped DEF NoRequest
<1>5. ShapeInv'
  BY <1>1, <1>3, <1>4 DEF IInv, ShapeInv
<1>6. NumberInv'
  <2>1. \A m \in UnderWay' : m \in UnderWay /\ flight'[m] = flight[m]
    BY <1>4 DEF UnderWay
  <2>2. past.newest \in Request /\ flight'[past.newest].op # "update"
    BY <1>4 DEF IInv, NumberInv
  <2> QED
    BY <1>3, <2>1, <2>2 DEF IInv, NumberInv
<1>7. FetchInv'
  <2>1. past.newest \in Request
    BY DEF IInv, NumberInv
  <2>2. CASE n = past.newest
    <3>1. past'.failed /\ flight'[past.newest].op # "fetch"
      <4>1. past'.failed = (past.failed \/ n = past.newest)
        BY <1>3
      <4>2. past'.failed
        BY <2>2, <4>1, Zenon
      <4> QED
        BY <1>4, <2>2, <4>2
    <3> QED
      BY <1>1, <1>3, <3>1 DEF IInv, FetchInv
  <2>3. CASE n # past.newest
    <3>1. flight'[past.newest] = flight[past.newest]
      BY <1>4, <2>1, <2>3
    <3>2. past.failed => past'.failed
      <4>1. past'.failed = (past.failed \/ n = past.newest)
        BY <1>3
      <4> QED
        BY <4>1, Zenon
    <3> QED
      BY <1>1, <1>3, <3>1, <3>2 DEF IInv, FetchInv
  <2> QED
    BY <2>2, <2>3
<1>8. EditInv'
  <2> SUFFICES ASSUME NEW id \in Settled'
               PROVE  /\ \A m, k \in Request : Updates(m, id)' =>
                           flight'[k].op # "fetch" /\ (Updates(k, id)' => m = k)
                      /\ \A m \in Request : ServedFetch(m)' /\ id \in DOMAIN flight'[m].nodes =>
                           Matches(flight'[m].nodes[id], rows[id])
                      /\ \A m \in Request : Updates(m, id)' /\ flight'[m].at = "served" =>
                           Matches(flight'[m].node, rows[id])
                      /\ \/ id \notin DOMAIN nodes \/ Matches(nodes[id], rows[id])
                         \/ \E m \in Request : Updates(m, id)' /\ flight'[m].at = "served"
    BY <1>1 DEF EditInv, Matches
  <2>1. id \in Settled /\ ~Updates(n, id)
    BY <1>3 DEF Settled, Updates, r
  <2>2. \A m \in Request : /\ flight'[m].op = "fetch" => flight'[m] = flight[m]
                           /\ Updates(m, id)' => Updates(m, id) /\ flight'[m] = flight[m]
                           /\ Updates(m, id) => Updates(m, id)' /\ flight'[m] = flight[m]
                           /\ ServedFetch(m)' => ServedFetch(m)
    BY <1>4, <2>1 DEF Updates, ServedFetch
  <2>3. /\ \A m, k \in Request : Updates(m, id)' =>
             flight'[k].op # "fetch" /\ (Updates(k, id)' => m = k)
        /\ \A m \in Request : ServedFetch(m)' /\ id \in DOMAIN flight'[m].nodes =>
             Matches(flight'[m].nodes[id], rows[id])
        /\ \A m \in Request : Updates(m, id)' /\ flight'[m].at = "served" =>
             Matches(flight'[m].node, rows[id])
    BY <2>1, <2>2 DEF IInv, EditInv, ServedFetch
  <2>4. \/ id \notin DOMAIN nodes \/ Matches(nodes[id], rows[id])
        \/ \E m \in Request : Updates(m, id) /\ flight[m].at = "served"
    BY <2>1 DEF IInv, EditInv
  <2> QED
    BY <2>2, <2>3, <2>4
<1>9. LocationsAsShown'
  BY <1>1, <1>3 DEF IInv, LocationsAsShown
<1> QED
  BY <1>4, <1>5, <1>6, <1>7, <1>8, <1>9 DEF IInv

LEMMA GivesUpKeeps ==
  ASSUME IInv, NEW n \in Request, GivesUp(n)
  PROVE  IInv'
<1> DEFINE r == flight[n]
           q == [r EXCEPT !.at = "late"]
<1>1. /\ r.op = "update" /\ r.at = "sent" /\ n \in UnderWay
      /\ flight' = [flight EXCEPT ![n] = q]
      /\ past' = [past EXCEPT !.lost = @ \cup {r.id}]
      /\ UNCHANGED <<rows, filters, nodes, chips>>
  BY DEF GivesUp, UnderWay, store
<1>2. UpdateSent(r)
  BY <1>1, UnderWayShape DEF IInv, FetchSent, FetchServed, UpdateServed
<1>3. /\ q.op = "update" /\ q.at = "late" /\ q.id = r.id /\ q.alone = r.alone
      /\ UpdateSent(q)
  BY <1>2 DEF UpdateSent
<1> HIDE DEF q
<1>4. /\ flight'[n] = q
      /\ \A m \in Request \ {n} : flight'[m] = flight[m]
      /\ flight' = [m \in Request |-> flight'[m]]
      /\ UnderWay' = UnderWay
  BY <1>1, <1>3, Replaced DEF IInv
<1>5. /\ PastShape(past')
      /\ past'.sent = past.sent /\ past'.newest = past.newest
      /\ past'.latest = past.latest /\ past'.filter = past.filter
      /\ past'.late = past.late /\ past'.dirty = past.dirty /\ past'.reset = past.reset
      /\ past'.failed = past.failed /\ past'.crossed = past.crossed
      /\ past'.lost = past.lost \cup {r.id}
  BY <1>1 DEF IInv, ShapeInv, PastShape
<1>6. ShapeInv'
  BY <1>1, <1>3, <1>4, <1>5 DEF IInv, ShapeInv
<1>7. NumberInv'
  BY <1>1, <1>3, <1>4, <1>5 DEF IInv, NumberInv
<1>8. FetchInv'
  BY <1>1, <1>3, <1>4, <1>5 DEF IInv, NumberInv, FetchInv
<1>9. AloneInv'
  <2> SUFFICES ASSUME NEW m \in UnderWay, flight'[m].alone
               PROVE  /\ UnderWay = {m}
                      /\ ServedFetch(m)' => \A id \in DOMAIN flight'[m].nodes :
                           Matches(flight'[m].nodes[id], rows[id])
    BY <1>1, <1>4 DEF AloneInv, Matches
  <2>1. m \in Request
    BY DEF UnderWay
  <2>2. CASE m = n
    BY <1>1, <1>3, <1>4, <2>2 DEF IInv, AloneInv, ServedFetch
  <2>3. CASE m # n
    BY <1>1, <1>4, <2>1, <2>3 DEF IInv, AloneInv
  <2> QED
    BY <2>2, <2>3
<1>10. EditInv'
  <2> SUFFICES ASSUME NEW id \in Settled'
               PROVE  /\ \A m, k \in Request : Updates(m, id)' =>
                           flight'[k].op # "fetch" /\ (Updates(k, id)' => m = k)
                      /\ \A m \in Request : ServedFetch(m)' /\ id \in DOMAIN flight'[m].nodes =>
                           Matches(flight'[m].nodes[id], rows[id])
                      /\ \A m \in Request : Updates(m, id)' /\ flight'[m].at = "served" =>
                           Matches(flight'[m].node, rows[id])
                      /\ \/ id \notin DOMAIN nodes \/ Matches(nodes[id], rows[id])
                         \/ \E m \in Request : Updates(m, id)' /\ flight'[m].at = "served"
    BY <1>1 DEF EditInv, Matches
  <2>1. id \in Settled /\ id # r.id
    BY <1>5 DEF Settled
  <2>2. \A m \in Request : /\ flight'[m].op = flight[m].op
                           /\ flight'[m].op = "fetch" => flight'[m] = flight[m]
                           /\ Updates(m, id)' => Updates(m, id) /\ flight'[m] = flight[m]
                           /\ Updates(m, id) => Updates(m, id)' /\ flight'[m] = flight[m]
                           /\ ServedFetch(m)' => ServedFetch(m)
    BY <1>1, <1>3, <1>4, <2>1 DEF Updates, ServedFetch
  <2> QED
    BY <2>1, <2>2 DEF IInv, EditInv, ServedFetch
<1>11. LocationsAsShown'
  BY <1>1, <1>5 DEF IInv, LocationsAsShown
<1> QED
  BY <1>6, <1>7, <1>8, <1>9, <1>10, <1>11 DEF IInv

LEMMA ServeLateKeeps ==
  ASSUME IInv, NEW n \in Request, ServeLate(n)
  PROVE  IInv'
<1> DEFINE r == flight[n]
<1>1. /\ r.op = "update" /\ r.at = "late" /\ n \in UnderWay
      /\ flight' = [flight EXCEPT ![n] = NoRequest]
      /\ rows' = [rows EXCEPT ![r.id] = Updated(r)]
      /\ past' = [past EXCEPT !.lost = @ \cup {r.id}]
      /\ UNCHANGED <<filters, nodes, chips>>
  BY DEF ServeLate, UnderWay, store
<1>2. r.id \in Id
  BY <1>1, UnderWayShape DEF IInv, FetchSent, FetchServed, UpdateSent, UpdateServed
<1>3. /\ rows' = [id \in Id |-> rows'[id]]
      /\ \A id \in Id \ {r.id} : rows'[id] = rows[id]
  BY <1>1, <1>2 DEF IInv, ShapeInv
<1>4. /\ flight'[n] = NoRequest /\ NoRequest.op = "none"
      /\ flight' = [m \in Request |-> flight'[m]]
      /\ UnderWay' = UnderWay \ {n}
      /\ \A m \in Request \ {n} : flight'[m] = flight[m]
      /\ AloneInv'
  BY <1>1, Dropped DEF NoRequest
<1>5. /\ PastShape(past')
      /\ past'.sent = past.sent /\ past'.newest = past.newest
      /\ past'.latest = past.latest /\ past'.filter = past.filter
      /\ past'.late = past.late /\ past'.dirty = past.dirty /\ past'.reset = past.reset
      /\ past'.failed = past.failed /\ past'.crossed = past.crossed
      /\ past'.lost = past.lost \cup {r.id}
  BY <1>1 DEF IInv, ShapeInv, PastShape
<1>6. ShapeInv'
  BY <1>1, <1>3, <1>4, <1>5 DEF IInv, ShapeInv
<1>7. NumberInv'
  <2>1. \A m \in UnderWay' : m \in UnderWay /\ flight'[m] = flight[m]
    BY <1>4 DEF UnderWay
  <2>2. past.newest \in Request /\ flight'[past.newest].op # "update"
    BY <1>4 DEF IInv, NumberInv
  <2> QED
    BY <1>5, <2>1, <2>2 DEF IInv, NumberInv
<1>8. FetchInv'
  <2>1. past.newest \in Request /\ past.newest # n
    BY <1>1 DEF IInv, NumberInv
  <2>2. flight'[past.newest] = flight[past.newest]
    BY <1>4, <2>1
  <2> QED
    BY <1>1, <1>5, <2>2 DEF IInv, FetchInv
<1>9. EditInv'
  <2> SUFFICES ASSUME NEW id \in Settled'
               PROVE  /\ \A m, k \in Request : Updates(m, id)' =>
                           flight'[k].op # "fetch" /\ (Updates(k, id)' => m = k)
                      /\ \A m \in Request : ServedFetch(m)' /\ id \in DOMAIN flight'[m].nodes =>
                           Matches(flight'[m].nodes[id], rows'[id])
                      /\ \A m \in Request : Updates(m, id)' /\ flight'[m].at = "served" =>
                           Matches(flight'[m].node, rows'[id])
                      /\ \/ id \notin DOMAIN nodes \/ Matches(nodes[id], rows'[id])
                         \/ \E m \in Request : Updates(m, id)' /\ flight'[m].at = "served"
    BY <1>1 DEF EditInv, Matches
  <2>1. id \in Settled /\ id # r.id
    BY <1>5 DEF Settled
  <2>2. rows'[id] = rows[id]
    BY <1>3, <2>1 DEF Settled
  <2>3. \A m \in Request : /\ flight'[m].op = "fetch" => flight'[m] = flight[m]
                           /\ Updates(m, id)' => Updates(m, id) /\ flight'[m] = flight[m]
                           /\ Updates(m, id) => Updates(m, id)' /\ flight'[m] = flight[m]
                           /\ ServedFetch(m)' => ServedFetch(m)
    BY <1>4, <2>1 DEF Updates, ServedFetch
  <2>4. /\ \A m, k \in Request : Updates(m, id)' =>
             flight'[k].op # "fetch" /\ (Updates(k, id)' => m = k)
        /\ \A m \in Request : ServedFetch(m)' /\ id \in DOMAIN flight'[m].nodes =>
             Matches(flight'[m].nodes[id], rows[id])
        /\ \A m \in Request : Updates(m, id)' /\ flight'[m].at = "served" =>
             Matches(flight'[m].node, rows[id])
    BY <2>1, <2>3 DEF IInv, EditInv, ServedFetch
  <2>5. \/ id \notin DOMAIN nodes \/ Matches(nodes[id], rows[id])
        \/ \E m \in Request : Updates(m, id) /\ flight[m].at = "served"
    BY <2>1 DEF IInv, EditInv
  <2> QED
    BY <2>2, <2>3, <2>4, <2>5
<1>10. LocationsAsShown'
  BY <1>1, <1>5 DEF IInv, LocationsAsShown
<1> QED
  BY <1>4, <1>6, <1>7, <1>8, <1>9, <1>10 DEF IInv

-----------------------------------------------------------------------------
LEMMA NextKeeps ==
  ASSUME IInv, [Next]_vars
  PROVE  IInv'
<1>1. CASE UNCHANGED <<rows, nodes, flight, filters, past, chips>>
  <2>1. LocationsAsShown /\ FilterShape(filters)
    BY DEF IInv, ShapeInv
  <2> QED
    BY <1>1, <2>1, QuietKeeps DEF LocationsAsShown
<1>2. CASE ToggleDrawer
  BY <1>1, <1>2 DEF ToggleDrawer, store
<1>3. CASE Drawer
  BY <1>3, SettersKeep, ApplyKeeps DEF Drawer
<1>4. CASE Form
  BY <1>4, FormKeeps
<1>5. ASSUME NEW n \in Request, Serve(n) PROVE IInv'
  BY <1>5, ServeFetchKeeps, ServeUpdateKeeps, ReceiveFetchKeeps, ReceiveUpdateKeeps,
     FailsKeeps, GivesUpKeeps, ServeLateKeeps DEF Serve
<1>6. CASE UNCHANGED vars
  BY <1>1, <1>6 DEF vars, store
<1> QED
  BY <1>2, <1>3, <1>4, <1>5, <1>6 DEF Next

LEMMA Invariance == Spec => []IInv
<1>1. 1 \in Request
  BY TableAssumption DEF Request
<1>2. Init => IInv
  BY <1>1, InitHolds
<1>3. IInv /\ [Next]_vars => IInv'
  BY NextKeeps
<1> QED
  BY <1>2, <1>3, PTL DEF Spec

\* Once no fetch is under way, the rows shown answer the filters shown, unless one
\* was set and not applied, the last fetch failed, or an older answer came last.
THEOREM HeadingTrue == Spec => []HeadingMatchesRows
<1>1. IInv => HeadingMatchesRows
  <2> SUFFICES ASSUME IInv, \A n \in UnderWay : flight[n].op # "fetch"
               PROVE  filters = past.filter \/ past.dirty \/ past.failed \/ past.late
    BY DEF HeadingMatchesRows
  <2>1. flight[past.newest].op # "fetch"
    BY DEF IInv, NumberInv, UnderWay
  <2> QED
    BY <2>1 DEF IInv, FetchInv
<1> QED
  BY <1>1, Invariance, PTL

\* Once nothing is under way, the table shows a row as the server has it, unless
\* its update met a fetch or another update of it, or was not answered, since the
\* table was last fetched alone.
THEOREM EditsReachTable == Spec => []EditsShown
<1>1. IInv => EditsShown
  <2> SUFFICES ASSUME IInv, UnderWay = {},
                      NEW id \in DOMAIN nodes \ (past.crossed \cup past.lost)
               PROVE  Matches(nodes[id], rows[id])
    BY DEF EditsShown, Matches
  <2>1. id \in Settled
    BY DEF IInv, ShapeInv, Settled
  <2>2. \A n \in Request : ~Updates(n, id)
    BY DEF Updates, UnderWay
  <2> QED
    BY <2>1, <2>2 DEF IInv, EditInv
<1> QED
  BY <1>1, Invariance, PTL

\* The chips of the drawer are the locations of the filter, until Reset.
THEOREM ChipsMatch == Spec => []LocationsAsShown
<1>1. IInv => LocationsAsShown
  BY DEF IInv
<1> QED
  BY <1>1, Invariance, PTL

-----------------------------------------------------------------------------
\* Types: of the store, of what the requests ask for and answer, and of the form.
Typical(q) ==
  /\ q.op = "fetch" => q.filter \in Filter
  /\ q.op = "fetch" /\ q.at = "served" =>
       (\A id \in DOMAIN q.nodes : q.nodes[id] \in Node) /\ q.stats.max \in Int
  /\ q.op = "update" /\ q.at \in {"sent", "late"} =>
       q.location \in Locations \cup {Unset} /\ q.propertyType \in Types \cup {Unset}
  /\ q.op = "update" /\ q.at = "served" => q.node \in Node

StoreTypes ==
  /\ rows \in [Id -> Columns] /\ filters \in Filter /\ chips \subseteq Place
  /\ \A id \in DOMAIN nodes : nodes[id] \in Node
  /\ stats.max \in Int
  /\ changes \in 0..MaxChanges

FormTypes ==
  /\ view \in {"table", "drawer", "form"}
  /\ view = "form" =>
       form \in [id : Id, location : Locations \cup {Unset}, propertyType : Types]
  /\ view # "form" => form = Closed

FlightTypes == \A n \in Request : Typical(flight[n])

TypeInv == StoreTypes /\ FormTypes /\ FlightTypes

-----------------------------------------------------------------------------
\* A finite set of integers that is not empty has a greatest member: a least set
\* without one would have one without any of its members.
LEMMA MaxExists ==
  ASSUME NEW S, IsFiniteSet(S), S \subseteq Int, S # {}
  PROVE  \E x \in S : \A y \in S : x >= y
<1> DEFINE Without ==
      {U \in FiniteSubsetsOf(S) : U # {} /\ \A x \in U : \E y \in U : ~(x >= y)}
<1> SUFFICES ASSUME \A x \in S : \E y \in S : ~(x >= y) PROVE FALSE
  OBVIOUS
<1>1. FiniteSubsetsOf(S) = SUBSET S
  BY FS_FiniteSubsetsOfFinite
<1>2. S \in Without
  BY <1>1
<1>3. IsWellFoundedOn(StrictSubsetOrdering(S), FiniteSubsetsOf(S))
  BY FS_StrictSubsetOrderingWellFounded
<1>4. PICK U \in Without : \A V \in Without : <<V, U>> \notin StrictSubsetOrdering(S)
  <2> HIDE DEF Without
  <2>1. Without \subseteq FiniteSubsetsOf(S)
    BY DEF Without
  <2> QED
    BY <1>2, <1>3, <2>1, WFMin
<1>5. PICK u \in U : TRUE
  OBVIOUS
<1>6. PICK m \in U : \A y \in U \ {u} : m >= y
  <2>1. CASE U = {u}
    BY <2>1
  <2>2. CASE U # {u}
    <3>1. U \ {u} \in SUBSET S /\ U \ {u} # {} /\ U \in SUBSET S
      BY <1>1, <1>5, <2>2
    <3>2. <<U \ {u}, U>> \in StrictSubsetOrdering(S)
      BY <1>5, <3>1 DEF StrictSubsetOrdering
    <3>3. U \ {u} \notin Without
      BY <1>4, <3>2
    <3> QED
      BY <1>1, <3>1, <3>3
  <2> QED
    BY <2>1, <2>2
<1>7. U \subseteq Int
  BY <1>1
<1> QED
  BY <1>5, <1>6, <1>7

LEMMA MaxIn ==
  ASSUME NEW S, IsFiniteSet(S), S \subseteq Int, S # {}
  PROVE  Max(S) \in S /\ \A y \in S : Max(S) >= y
BY MaxExists DEF Max

LEMMA PairOfInts ==
  ASSUME NEW a \in Int, NEW b \in Int
  PROVE  Max({a, b}) \in Int /\ Min({a, b}) \in Int
<1>1. \E x \in {a, b} : \A y \in {a, b} : x >= y
  OBVIOUS
<1>2. \E x \in {a, b} : \A y \in {a, b} : x <= y
  OBVIOUS
<1>3. Max({a, b}) \in {a, b}
  BY <1>1 DEF Max
<1>4. Min({a, b}) \in {a, b}
  BY <1>2 DEF Min
<1> QED
  BY <1>3, <1>4

\* The greatest price of an answer is a price.
LEMMA AggregatesType ==
  ASSUME NEW ids \in SUBSET Id
  PROVE  Aggregates(ids).max \in Int
<1> DEFINE prices == {sheet[i].priceUsd : i \in ids}
<1>1. Aggregates(ids).max = IF ids = {} THEN 0 ELSE Max(prices)
  BY DEF Aggregates
<1>2. CASE ids # {}
  <2>1. IsFiniteSet(ids)
    BY FS_Subset, TableAssumption
  <2>2. IsFiniteSet(prices)
    <3> DEFINE f == [i \in ids |-> sheet[i].priceUsd]
    <3>1. f \in Surjection(ids, prices)
      BY DEF Surjection
    <3> HIDE DEF f, prices
    <3> QED
      BY <2>1, <3>1, FS_Surjection
  <2>3. prices \subseteq Int /\ prices # {}
    BY <1>2, TableAssumption
  <2> HIDE DEF prices
  <2>4. Max(prices) \in Int
    BY <2>2, <2>3, MaxIn
  <2> QED
    BY <1>1, <1>2, <2>4
<1> QED
  BY <1>1, <1>2

LEMMA InitialFilter == initialFilters \in Filter
<1> DEFINE a == [f \in Field |-> {}]
<1>1. a \in [Field -> UNION {SUBSET Option(f) : f \in Field}]
  <2>1. {} \in UNION {SUBSET Option(f) : f \in Field}
    BY TableAssumption
  <2> QED
    BY <2>1
<1>2. \A f \in Field : a[f] \subseteq Option(f)
  OBVIOUS
<1> HIDE DEF a
<1> QED
  BY <1>1, <1>2 DEF initialFilters, Filter, a

-----------------------------------------------------------------------------
LEMMA InitTypes ==
  ASSUME Init
  PROVE  TypeInv
<1>1. StoreTypes
  <2>1. rows \in [Id -> Columns]
    BY DEF Init, Columns, Locations, Types
  <2>2. stats.max \in Int
    BY AggregatesType DEF Init
  <2>3. changes \in 0..MaxChanges
    BY TableAssumption DEF Init
  <2> QED
    BY <2>1, <2>2, <2>3, InitialFilter DEF Init, StoreTypes
<1>2. FormTypes
  BY DEF Init, FormTypes
<1>3. FlightTypes
  BY InitialFilter DEF Init, FlightTypes, Typical, NoRequest
<1> QED
  BY <1>1, <1>2, <1>3 DEF TypeInv

\* A request that loses the mark that it is alone holds what it held.
LEMMA MarkedTypes ==
  ASSUME NEW q, FetchSent(q) \/ FetchServed(q) \/ UpdateSent(q) \/ UpdateServed(q),
         NEW b \in BOOLEAN, Typical(q)
  PROVE  Typical([q EXCEPT !.alone = b])
<1>1. CASE FetchSent(q)
  BY <1>1 DEF FetchSent, Typical
<1>2. CASE FetchServed(q)
  BY <1>2 DEF FetchServed, Typical
<1>3. CASE UpdateSent(q)
  BY <1>3 DEF UpdateSent, Typical
<1>4. CASE UpdateServed(q)
  BY <1>4 DEF UpdateServed, Typical
<1> QED
  BY <1>1, <1>2, <1>3, <1>4

LEMMA SendKeepsTypes ==
  ASSUME IInv, FlightTypes, NEW r, NEW before, Sends(r, before), Typical(r)
  PROVE  FlightTypes'
<1> DEFINE n == past.sent + 1
           first == UnderWay = {}
<1>1. /\ n \in Request /\ n \notin UnderWay
      /\ flight'[n] = [r EXCEPT !.alone = first]
      /\ \A m \in UnderWay : flight'[m] = [flight[m] EXCEPT !.alone = FALSE]
      /\ \A m \in Request \ {n} : m \notin UnderWay => flight'[m] = flight[m]
  BY SentFacts DEF Sends
<1>2. first \in BOOLEAN /\ (FetchSent(r) \/ UpdateSent(r))
  BY DEF Sends
<1> HIDE DEF n, first
<1> SUFFICES ASSUME NEW m \in Request PROVE Typical(flight'[m])
  BY DEF FlightTypes, Typical
<1>3. CASE m = n
  BY <1>1, <1>2, <1>3, MarkedTypes
<1>4. CASE m \in UnderWay
  <2> DEFINE q == flight[m]
  <2>1. FetchSent(q) \/ FetchServed(q) \/ UpdateSent(q) \/ UpdateServed(q)
    BY <1>4, UnderWayShape DEF IInv
  <2>2. Typical(q) /\ flight'[m] = [q EXCEPT !.alone = FALSE]
    BY <1>1, <1>4 DEF FlightTypes
  <2> HIDE DEF q
  <2> QED
    BY <2>1, <2>2, MarkedTypes
<1>5. CASE m # n /\ m \notin UnderWay
  BY <1>1, <1>5 DEF FlightTypes
<1> QED
  BY <1>3, <1>4, <1>5

\* A setter keeps the filter's type.
LEMMA SettersKeepTypes ==
  ASSUME TypeInv,
         \/ \E f \in Field : \E values \in SUBSET Option(f) : UpAmong(f, values)
         \/ UpValid
         \/ \E places \in SUBSET Place : UpLocation(places) \/ HandleSelectGroup(places)
         \/ \E v \in Typed : ChangeMin(v) \/ ChangeMax(v)
         \/ BlurMin \/ BlurMax
  PROVE  TypeInv'
<1>1. ASSUME NEW f \in Filter, up(f), chips' \subseteq Place PROVE TypeInv'
  <2>1. UNCHANGED <<rows, nodes, stats, view, form, flight>> /\ filters' = f
        /\ changes < MaxChanges /\ changes' = changes + 1
    BY <1>1 DEF up, Change
  <2>2. changes' \in 0..MaxChanges
    BY <2>1, TableAssumption DEF TypeInv, StoreTypes
  <2> QED
    BY <1>1, <2>1, <2>2 DEF TypeInv, StoreTypes, FormTypes, FlightTypes, Typical
<1>2. filters \in Filter /\ chips \subseteq Place /\ stats.max \in Int
  BY DEF TypeInv, StoreTypes
<1>3. ASSUME NEW f \in Field, NEW values \in SUBSET Option(f), UpAmong(f, values)
      PROVE  TypeInv'
  <2> DEFINE g == [filters EXCEPT !.among[f] = values]
             a == [filters.among EXCEPT ![f] = values]
  <2>1. a \in [Field -> UNION {SUBSET Option(h) : h \in Field}]
    BY <1>2 DEF Filter
  <2>2. \A h \in Field : a[h] \subseteq Option(h)
    BY <1>2 DEF Filter
  <2>3. g = [filters EXCEPT !.among = a]
    BY <1>2 DEF Filter
  <2> HIDE DEF a
  <2>4. g \in Filter
    BY <1>2, <2>1, <2>2, <2>3 DEF Filter
  <2>5. up(g) /\ chips' = chips
    BY <1>3 DEF UpAmong
  <2> HIDE DEF g
  <2> QED
    BY <1>1, <1>2, <2>4, <2>5
<1>4. ASSUME UpValid PROVE TypeInv'
  <2> DEFINE g == [filters EXCEPT !.isValid = ~@]
  <2>1. g \in Filter
    BY <1>2 DEF Filter
  <2>2. up(g) /\ chips' = chips
    BY <1>4 DEF UpValid
  <2> HIDE DEF g
  <2> QED
    BY <1>1, <1>2, <2>1, <2>2
<1>5. ASSUME NEW places \in SUBSET Place, UpLocation(places) \/ HandleSelectGroup(places)
      PROVE  TypeInv'
  <2>1. PICK set \in SUBSET Place : up([filters EXCEPT !.locations = set]) /\ chips' = set
    BY <1>2, <1>5 DEF UpLocation, HandleSelectGroup
  <2> DEFINE g == [filters EXCEPT !.locations = set]
  <2>2. g \in Filter
    BY <1>2 DEF Filter
  <2>3. up(g)
    BY <2>1
  <2> HIDE DEF g
  <2> QED
    BY <1>1, <2>1, <2>2, <2>3
<1>6. ASSUME NEW range \in Int \X Int, UpPrice(range) PROVE TypeInv'
  <2> DEFINE g == [filters EXCEPT !.priceUsd = range]
  <2>1. g \in Filter
    BY <1>2 DEF Filter
  <2>2. up(g) /\ chips' = chips
    BY <1>6 DEF UpPrice
  <2> HIDE DEF g
  <2> QED
    BY <1>1, <1>2, <2>1, <2>2
<1>7. Largest \in Int /\ Slide \in Int \X Int /\ minDistance \in Int
  <2>1. Largest \in Int
    BY <1>2, TableAssumption DEF Largest
  <2>2. filters.priceUsd = NoRange \/ filters.priceUsd \in Int \X Int
    BY <1>2 DEF Filter
  <2> QED
    BY <2>1, <2>2, TableAssumption DEF Slide
<1>8. Slide[1] \in Int /\ Slide[2] \in Int
  BY <1>7
<1>9. ASSUME NEW v \in Typed, ChangeMin(v) \/ ChangeMax(v) PROVE TypeInv'
  <2>1. v \in Int /\ Slide[2] - minDistance \in Int /\ Slide[1] + minDistance \in Int
    BY <1>7, <1>8, TableAssumption
  <2>2. /\ Min({v, Slide[2] - minDistance}) \in Int
        /\ Max({v, Slide[1] + minDistance}) \in Int
    BY <2>1, PairOfInts
  <2> QED
    BY <1>6, <1>8, <1>9, <2>2 DEF ChangeMin, ChangeMax
<1>10. ASSUME BlurMin \/ BlurMax PROVE TypeInv'
  <2>1. Slide[2] - minDistance \in Int /\ Slide[1] + minDistance \in Int
    BY <1>7, <1>8
  <2> QED
    BY <1>6, <1>7, <1>8, <1>10, <2>1 DEF BlurMin, BlurMax
<1> QED
  BY <1>3, <1>4, <1>5, <1>9, <1>10

LEMMA ApplyKeepsTypes ==
  ASSUME IInv, TypeInv, HandleApply \/ HandleReset
  PROVE  TypeInv'
<1> DEFINE r == [op |-> "fetch", at |-> "sent", filter |-> filters', alone |-> TRUE]
<1>1. FetchSent(r) /\ r.op = "fetch" /\ r.at = "sent" /\ r.filter = filters'
  BY DEF FetchSent
<1>2. PICK before :
        /\ before \in {past, [past EXCEPT !.reset = TRUE]}
        /\ before.reset = TRUE \/ (filters' = filters /\ before.reset = past.reset)
        /\ Sent(r, before)
  <2>1. CASE HandleApply
    BY <2>1 DEF HandleApply, fetchData, store
  <2>2. CASE HandleReset
    <3> DEFINE b == [past EXCEPT !.reset = TRUE]
    <3>1. b.reset = TRUE
      BY DEF IInv, ShapeInv, PastShape
    <3>2. Sent(r, b)
      BY <2>2 DEF HandleReset, fetchData
    <3> HIDE DEF r
    <3> QED
      BY <3>1, <3>2
  <2> QED
    BY <2>1, <2>2
<1>3. /\ filters' \in {filters, initialFilters}
      /\ view = "drawer" /\ view' = "table"
      /\ UNCHANGED <<rows, nodes, stats, chips, form, changes>>
  BY DEF HandleApply, HandleReset, store
<1>4. filters' \in Filter
  BY <1>3, InitialFilter DEF TypeInv, StoreTypes
<1>5. FilterShape(filters')
  BY <1>4 DEF Filter, FilterShape
<1>6. Typical(r)
  BY <1>4 DEF Typical
<1> HIDE DEF r
<1>7. Sends(r, before)
  BY <1>1, <1>2, <1>3, <1>5 DEF Sends
<1>8. FlightTypes'
  BY <1>6, <1>7, SendKeepsTypes DEF TypeInv
<1> QED
  BY <1>3, <1>4, <1>8 DEF TypeInv, StoreTypes, FormTypes

LEMMA FormKeepsTypes ==
  ASSUME IInv, TypeInv, Form
  PROVE  TypeInv'
<1>1. CASE \E id \in Id : OpenForm(id)
  <2>1. PICK id \in Id : OpenForm(id)
    BY <1>1
  <2>2. nodes[id] \in Node
    BY <2>1 DEF OpenForm, TypeInv, StoreTypes
  <2>3. nodes[id].propertyType \in Types
    BY <2>2 DEF Node
  <2>4. view' = "form" /\ UNCHANGED <<rows, filters, nodes, stats, chips, flight, changes>>
        /\ form' = [id |-> id, location |-> Unset, propertyType |-> nodes[id].propertyType]
    BY <2>1 DEF OpenForm, store
  <2> QED
    BY <2>3, <2>4 DEF TypeInv, StoreTypes, FormTypes, FlightTypes, Typical
<1>2. CASE \/ \E l \in Place : Edit([form EXCEPT !.location = l])
           \/ \E v \in Option("propertyType") : Edit([form EXCEPT !.propertyType = v])
  <2>1. view = "form" /\ view' = view
        /\ UNCHANGED <<rows, filters, nodes, stats, chips, flight>>
        /\ changes < MaxChanges /\ changes' = changes + 1
    BY <1>2 DEF Edit, Change, store
  <2>2. form' \in [id : Id, location : Locations \cup {Unset}, propertyType : Types]
    BY <1>2, <2>1 DEF Edit, TypeInv, FormTypes, Locations, Types
  <2>3. changes' \in 0..MaxChanges
    BY <2>1, TableAssumption DEF TypeInv, StoreTypes
  <2> QED
    BY <2>1, <2>2, <2>3 DEF TypeInv, StoreTypes, FormTypes, FlightTypes, Typical
<1>3. CASE Save
  <2>1. view = "form" /\ view' = "table" /\ form' = Closed
        /\ UNCHANGED <<rows, filters, nodes, stats, chips, changes>>
    BY <1>3 DEF Save, store
  <2>2. FlightTypes'
    <3>1. CASE form.id \notin DOMAIN nodes
      BY <1>3, <3>1 DEF Save, TypeInv, FlightTypes, Typical
    <3>2. CASE form.id \in DOMAIN nodes
      <4> DEFINE r == [op |-> "update", at |-> "sent", id |-> form.id,
                       location |-> form.location, propertyType |-> form.propertyType,
                       alone |-> TRUE]
      <4>1. Sent(r, past)
        BY <1>3, <3>2 DEF Save
      <4>2. UpdateSent(r) /\ r.op = "update" /\ r.at = "sent"
        BY <3>2 DEF UpdateSent, IInv, ShapeInv
      <4>3. Typical(r)
        BY <2>1 DEF Typical, TypeInv, FormTypes
      <4>4. FilterShape(filters)
        BY DEF IInv, ShapeInv
      <4> HIDE DEF r
      <4>5. Sends(r, past)
        BY <2>1, <4>1, <4>2, <4>4 DEF Sends
      <4> QED
        BY <4>3, <4>5, SendKeepsTypes DEF TypeInv
    <3> QED
      BY <3>1, <3>2
  <2> QED
    BY <2>1, <2>2 DEF TypeInv, StoreTypes, FormTypes
<1>4. CASE CloseForm
  BY <1>4 DEF CloseForm, store, TypeInv, StoreTypes, FormTypes, FlightTypes, Typical
<1> QED
  BY <1>1, <1>2, <1>3, <1>4 DEF Form

-----------------------------------------------------------------------------
LEMMA ServeKeepsTypes ==
  ASSUME IInv, TypeInv, NEW n \in Request, Serve(n)
  PROVE  TypeInv'
<1> DEFINE r == flight[n]
<1>1. /\ \A m \in Request : Typical(flight[m])
      /\ Typical(r)
      /\ flight = [m \in Request |-> flight[m]]
  BY DEF TypeInv, FlightTypes, IInv, ShapeInv
<1>2. ASSUME NEW q, Typical(q), flight' = [flight EXCEPT ![n] = q] PROVE FlightTypes'
  <2>1. \A m \in Request : flight'[m] = IF m = n THEN q ELSE flight[m]
    BY <1>1, <1>2
  <2> HIDE DEF r
  <2>2. ASSUME NEW m \in Request PROVE Typical(flight'[m])
    BY <1>1, <1>2, <2>1
  <2> QED
    BY <2>2 DEF FlightTypes, Typical
<1>3. Typical(NoRequest)
  BY DEF Typical, NoRequest
<1>4. CASE ServeFetch(n)
  <2> DEFINE answer == Answer(r.filter)
             q == [op |-> "fetch", at |-> "served", filter |-> r.filter, alone |-> r.alone,
                   nodes |-> answer, stats |-> Aggregates(DOMAIN answer)]
  <2>1. r.op = "fetch" /\ r.at = "sent" /\ flight' = [flight EXCEPT ![n] = q]
        /\ UNCHANGED <<rows, filters, nodes, stats, chips, view, form, changes>>
    BY <1>4 DEF ServeFetch, store
  <2>2. DOMAIN answer \in SUBSET Id /\ \A id \in DOMAIN answer : answer[id] \in Node
    BY DEF Answer, Node, TypeInv, StoreTypes, Columns
  <2>3. Aggregates(DOMAIN answer).max \in Int
    <3> HIDE DEF answer
    <3> QED
      BY <2>2, AggregatesType
  <2>4. Typical(q)
    <3> HIDE DEF answer
    <3> QED
      BY <1>1, <2>1, <2>2, <2>3 DEF Typical
  <2> HIDE DEF q
  <2>5. FlightTypes'
    BY <1>2, <2>1, <2>4
  <2> QED
    BY <2>1, <2>5 DEF TypeInv, StoreTypes, FormTypes
<1>5. CASE ServeUpdate(n)
  <2> DEFINE u == Updated(r)
             q == [op |-> "update", at |-> "served", id |-> r.id, alone |-> r.alone,
                   node |-> [location |-> u.location, propertyType |-> u.propertyType,
                             leaseYearsLeft |-> FALSE]]
  <2>1. r.op = "update" /\ r.at = "sent" /\ flight' = [flight EXCEPT ![n] = q]
        /\ rows' = [rows EXCEPT ![r.id] = u]
        /\ UNCHANGED <<filters, nodes, stats, chips, view, form, changes>>
    BY <1>5 DEF ServeUpdate, store
  <2>2. r.id \in Id
    BY <2>1 DEF IInv, ShapeInv, NoRequest, FetchSent, FetchServed, UpdateSent, UpdateServed
  <2>3. rows \in [Id -> Columns] /\ rows[r.id] \in Columns
    BY <2>2 DEF TypeInv, StoreTypes
  <2>4. u \in Columns
    BY <1>1, <2>1, <2>3 DEF Typical, Updated, Filled, Columns
  <2> HIDE DEF u
  <2>5. rows' \in [Id -> Columns]
    BY <2>1, <2>3, <2>4
  <2>6. Typical(q)
    BY <2>4 DEF Typical, Columns, Node
  <2> HIDE DEF q
  <2>7. FlightTypes'
    BY <1>2, <2>1, <2>6
  <2> QED
    BY <2>1, <2>5, <2>7 DEF TypeInv, StoreTypes, FormTypes
<1>6. CASE ReceiveFetch(n)
  <2>1. r.op = "fetch" /\ r.at = "served" /\ nodes' = r.nodes /\ stats' = r.stats
        /\ flight' = [flight EXCEPT ![n] = NoRequest]
        /\ UNCHANGED <<rows, filters, chips, view, form, changes>>
    BY <1>6 DEF ReceiveFetch
  <2>2. FlightTypes'
    BY <1>2, <1>3, <2>1
  <2> QED
    BY <1>1, <2>1, <2>2 DEF TypeInv, StoreTypes, FormTypes, Typical
<1>7. CASE ReceiveUpdate(n)
  <2>1. r.op = "update" /\ r.at = "served"
        /\ nodes' = [id \in DOMAIN nodes |-> IF id = r.id THEN r.node ELSE nodes[id]]
        /\ flight' = [flight EXCEPT ![n] = NoRequest]
        /\ UNCHANGED <<rows, filters, stats, chips, view, form, changes>>
    BY <1>7 DEF ReceiveUpdate
  <2>2. FlightTypes'
    BY <1>2, <1>3, <2>1
  <2>3. r.node \in Node
    BY <1>1, <2>1 DEF Typical
  <2> HIDE DEF r
  <2>4. \A id \in DOMAIN nodes' : nodes'[id] \in Node
    BY <2>1, <2>3 DEF TypeInv, StoreTypes
  <2> QED
    BY <2>1, <2>2, <2>4 DEF TypeInv, StoreTypes, FormTypes
<1>8. CASE Fails(n)
  <2>1. flight' = [flight EXCEPT ![n] = NoRequest]
        /\ UNCHANGED <<rows, filters, nodes, stats, chips, view, form, changes>>
    BY <1>8 DEF Fails, store
  <2>2. FlightTypes'
    BY <1>2, <1>3, <2>1
  <2> QED
    BY <2>1, <2>2 DEF TypeInv, StoreTypes, FormTypes
<1>9. CASE GivesUp(n)
  <2> DEFINE q == [r EXCEPT !.at = "late"]
  <2>1. r.op = "update" /\ r.at = "sent" /\ flight' = [flight EXCEPT ![n] = q]
        /\ UNCHANGED <<rows, filters, nodes, stats, chips, view, form, changes>>
    BY <1>9 DEF GivesUp, store
  <2>2. UpdateSent(r)
    BY <2>1 DEF IInv, ShapeInv, NoRequest, FetchSent, FetchServed, UpdateSent, UpdateServed
  <2>3. Typical(q)
    BY <1>1, <2>1, <2>2 DEF Typical, UpdateSent
  <2> HIDE DEF q
  <2>4. FlightTypes'
    BY <1>2, <2>1, <2>3
  <2> QED
    BY <2>1, <2>4 DEF TypeInv, StoreTypes, FormTypes
<1>10. CASE ServeLate(n)
  <2> DEFINE u == Updated(r)
  <2>1. r.op = "update" /\ r.at = "late" /\ flight' = [flight EXCEPT ![n] = NoRequest]
        /\ rows' = [rows EXCEPT ![r.id] = u]
        /\ UNCHANGED <<filters, nodes, stats, chips, view, form, changes>>
    BY <1>10 DEF ServeLate, store
  <2>2. r.id \in Id
    BY <2>1 DEF IInv, ShapeInv, NoRequest, FetchSent, FetchServed, UpdateSent, UpdateServed
  <2>3. rows \in [Id -> Columns] /\ rows[r.id] \in Columns
    BY <2>2 DEF TypeInv, StoreTypes
  <2>4. u \in Columns
    BY <1>1, <2>1, <2>3 DEF Typical, Updated, Filled, Columns
  <2> HIDE DEF u
  <2>5. rows' \in [Id -> Columns]
    BY <2>1, <2>3, <2>4
  <2>6. FlightTypes'
    BY <1>2, <1>3, <2>1
  <2> QED
    BY <2>1, <2>5, <2>6 DEF TypeInv, StoreTypes, FormTypes
<1> QED
  BY <1>4, <1>5, <1>6, <1>7, <1>8, <1>9, <1>10 DEF Serve

LEMMA NextKeepsTypes ==
  ASSUME IInv, TypeInv, [Next]_vars
  PROVE  TypeInv'
<1>1. CASE ToggleDrawer
  BY <1>1 DEF ToggleDrawer, store, TypeInv, StoreTypes, FormTypes, FlightTypes, Typical
<1>2. CASE Drawer
  BY <1>2, SettersKeepTypes, ApplyKeepsTypes DEF Drawer
<1>3. CASE Form
  BY <1>3, FormKeepsTypes
<1>4. ASSUME NEW n \in Request, Serve(n) PROVE TypeInv'
  BY <1>4, ServeKeepsTypes
<1>5. CASE UNCHANGED vars
  BY <1>5 DEF vars, TypeInv, StoreTypes, FormTypes, FlightTypes, Typical
<1> QED
  BY <1>1, <1>2, <1>3, <1>4, <1>5 DEF Next

\* The store, the form and the requests under way hold what their fields may hold,
\* whatever the user sets and in whatever order the answers come; what is shown and
\* what is answered are rows there are, and no request has a number not given out.
THEOREM TableTypes == Spec => []TypeOK
<1>1. IInv /\ TypeInv => TypeOK
  <2> SUFFICES ASSUME IInv, TypeInv PROVE TypeOK
    OBVIOUS
  <2>1. view = "form" <=> form # Closed
    <3>1. CASE view = "form"
      <4>1. form.propertyType \in Types /\ Closed.propertyType = Unset
        BY <3>1 DEF TypeInv, FormTypes, Closed
      <4> QED
        BY <3>1, <4>1, TableAssumption
    <3> QED
      BY <3>1 DEF TypeInv, FormTypes
  <2>2. past.sent \in Request /\ UnderWay \subseteq 1..past.sent
    BY DEF IInv, NumberInv, UnderWay, Request
  <2>3. \A n \in UnderWay : flight[n].op = "fetch" => flight[n].filter \in Filter
    BY DEF TypeInv, FlightTypes, Typical, UnderWay
  <2> QED
    BY <2>1, <2>2, <2>3 DEF TypeOK, TypeInv, StoreTypes, FormTypes, IInv, ShapeInv
<1>2. Init => TypeInv
  BY InitTypes
<1>3. IInv /\ TypeInv /\ [Next]_vars => TypeInv'
  BY NextKeepsTypes
<1> QED
  BY <1>1, <1>2, <1>3, Invariance, PTL DEF Spec
=============================================================================
