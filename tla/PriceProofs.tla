----------------------------- MODULE PriceProofs -----------------------------
(***************************************************************************)
(* Proofs about the prices of a crawl, that the two tables of the crawler  *)
(* implement the abstract price history, and that a crawl that ends well   *)
(* stored one price per item its loop reaches.                             *)
(***************************************************************************)
EXTENDS CrawlProofs, FiniteSetTheorems

\* The sources a job has still to crawl, the current one too.
Ahead(j) == {left[j][i] : i \in 1..Len(left[j])}

LeftOnce ==
  \A j \in Job : \A m, n \in 1..Len(left[j]) : left[j][m] = left[j][n] => m = n

\* A row is known by its insert and its place in it.
RidOnce == \A q, r \in rows : Rid(q) = Rid(r) => q = r

\* existedRowsMap holds one row per external id.
KnownOnce ==
  \A j \in Job : \A q, r \in known[j] : ExternalId(q) = ExternalId(r) => q = r

\* The rows that wait for their first price: one per item that was new.
FreshOnce ==
  \A j \in Job : pc[j] = "firstPrices" =>
    \A q \in fresh[j] : /\ q.pos \in New(j)
                        /\ \A r \in fresh[j] : q.pos = r.pos => q = r

\* A price of the crawl that runs: at its rate, and of an earlier page or, once
\* the new items have theirs, of a new item of this page.
Current(p) ==
  /\ pc[p.job] \in Working
  /\ p.source = S(p.job)
  /\ p.rate = rate[p.job]
  /\ \/ p.page < page[p.job]
     \/ p.page = page[p.job] /\ pc[p.job] = "append" /\ p.pos \in New(p.job)

\* No price is of a source whose crawl is yet to begin.
AheadInv == \A p \in prices : p.source \in Ahead(p.job) => Current(p)

PriceInv ==
  /\ LeftOnce /\ RidOnce /\ KnownOnce /\ FreshOnce /\ AheadInv
  /\ OnePricePerItem /\ OneRatePerCrawl

-----------------------------------------------------------------------------
\* What a step may mean for a job, but for the statements of loadToDb.
Rests(i) ==
  /\ pc'[i] = pc[i] /\ left'[i] = left[i] /\ rate'[i] = rate[i] /\ page'[i] = page[i]
  /\ known'[i] = known[i] /\ fresh'[i] = fresh[i]
  /\ batch'[i] = batch[i] /\ urls'[i] = urls[i]

Begins(i) ==
  /\ pc[i] \notin Working
  /\ left'[i] = left[i] /\ pc'[i] \notin Loading /\ known'[i] = {}

Walks(i) ==
  /\ pc[i] \in Working \ Loading /\ pc'[i] \in Working \ Loading
  /\ left'[i] = left[i] /\ rate'[i] = rate[i] /\ page'[i] = page[i]
  /\ known'[i] = {}

Leaves(i) ==
  /\ left[i] # <<>>
  /\ left'[i] \in {Tail(left[i]), <<>>}
  /\ pc'[i] \notin Working /\ known'[i] = {}

Loads(i) == ReadExisting(i) \/ InsertNew(i) \/ InsertFirstPrices(i) \/ AppendPrices(i)

\* The tail of what is left has neither its head nor anything else.
LEMMA TailAhead ==
  ASSUME TypeOK, LeftOnce, NEW j \in Job, left[j] # <<>>
  PROVE  LET s == left[j] IN
         /\ S(j) \in Ahead(j)
         /\ \A i \in 1..Len(Tail(s)) : /\ i + 1 \in 1..Len(s)
                                       /\ Tail(s)[i] = s[i + 1]
                                       /\ Tail(s)[i] # S(j)
         /\ \A m, n \in 1..Len(Tail(s)) : Tail(s)[m] = Tail(s)[n] => m = n
<1> DEFINE s == left[j]
<1>1. s \in Seq(Source) /\ Len(s) \in Nat /\ Len(s) # 0 /\ S(j) = s[1]
  BY LenProperties, EmptySeq DEF TypeOK, S
<1>2. /\ Len(Tail(s)) = Len(s) - 1
      /\ \A i \in 1..Len(Tail(s)) : Tail(s)[i] = s[i + 1]
  BY <1>1, HeadTailProperties
<1>3. \A m, n \in 1..Len(s) : s[m] = s[n] => m = n
  BY DEF LeftOnce
<1>4. 1 \in 1..Len(s)
  BY <1>1
<1> HIDE DEF s
<1>5. \A i \in 1..Len(Tail(s)) : i \in Nat /\ i # 0 /\ i + 1 \in 1..Len(s)
  BY <1>1, <1>2
<1>6. \A i \in 1..Len(Tail(s)) : Tail(s)[i] # S(j)
  <2> SUFFICES ASSUME NEW i \in 1..Len(Tail(s)), s[i + 1] = s[1] PROVE FALSE
    BY <1>1, <1>2
  <2>1. i + 1 = 1
    BY <1>3, <1>4, <1>5
  <2> QED
    BY <1>5, <2>1
<1>7. \A m, n \in 1..Len(Tail(s)) : Tail(s)[m] = Tail(s)[n] => m = n
  <2> SUFFICES ASSUME NEW m \in 1..Len(Tail(s)), NEW n \in 1..Len(Tail(s)),
                      s[m + 1] = s[n + 1]
               PROVE  m = n
    BY <1>2
  <2>1. m + 1 = n + 1
    BY <1>3, <1>5
  <2> QED
    BY <1>5, <2>1
<1>8. S(j) \in Ahead(j)
  BY <1>1, <1>4 DEF Ahead, s
<1> QED
  BY <1>2, <1>5, <1>6, <1>7, <1>8 DEF s

-----------------------------------------------------------------------------
\* Each step is one of these for each job.
LEMMA OtherRests ==
  ASSUME IInv, NEW i \in Job, NEW j \in Job \ {i}, Start(j) \/ Step(j)
  PROVE  Rests(i)
<1>1. /\ pc \in [Job -> Label] /\ left \in [Job -> Seq(Source)]
      /\ rate \in [Job -> Nat] /\ page \in [Job -> Nat \ {0}]
      /\ known \in [Job -> SUBSET RowType] /\ fresh \in [Job -> SUBSET RowType]
      /\ batch \in [Job -> SUBSET Nat] /\ urls \in [Job -> Seq(Listing)]
  BY DEF IInv, TypeOK
<1>2. ASSUME Start(j) PROVE Rests(i)
  BY <1>1, <1>2 DEF Start, Rests, Goto, walk, load
<1>3. ASSUME BeginSource(j) \/ Finish(j) PROVE Rests(i)
  BY <1>1, <1>3 DEF BeginSource, Finish, Rests, Goto, walk, load
<1>4. ASSUME Throw(j) PROVE Rests(i)
  BY <1>1, <1>4 DEF Throw, DropBatch, Rests, Goto
<1>5. ASSUME FetchList(j) PROVE Rests(i)
  BY <1>1, <1>5 DEF FetchList, EndList, RetryList, CollectList, TakeList, ReturnOk,
                    Rests, Goto, walk, load
<1>6. ASSUME ListError(j) PROVE Rests(i)
  BY <1>1, <1>4, <1>6 DEF ListError, ReturnOk, Rests, Goto, load
<1>7. ASSUME NEW k \in todo[j], FetchItem(j, k) \/ SkipItem(j, k) PROVE Rests(i)
  BY <1>1, <1>7 DEF FetchItem, SkipItem, NextItem, Rests, Goto, walk, load
<1>8. ASSUME ItemError(j) \/ DbError(j) PROVE Rests(i)
  BY <1>4, <1>8 DEF ItemError, DbError
<1>9. ASSUME ReadExisting(j) PROVE Rests(i)
  BY <1>1, <1>9 DEF ReadExisting, Rests, Goto, walk
<1>10. ASSUME InsertNew(j) \/ InsertFirstPrices(j) PROVE Rests(i)
  BY <1>1, <1>10 DEF InsertNew, InsertFirstPrices, Rests, Goto, walk, load
<1>11. ASSUME AppendPrices(j) PROVE Rests(i)
  BY <1>1, <1>11 DEF AppendPrices, DropBatch, ReturnOk, Rests, Goto
<1> QED
  BY <1>2, <1>3, <1>5, <1>6, <1>7, <1>8, <1>9, <1>10, <1>11 DEF Step

LEMMA ReturnLeaves ==
  ASSUME IInv, NEW i \in Job, NEW sure, ReturnOk(i, sure), left[i] # <<>>
  PROVE  pc'[i] \notin Working /\ left'[i] = Tail(left[i])
<1>1. pc \in [Job -> Label] /\ left \in [Job -> Seq(Source)]
  BY DEF IInv, TypeOK
<1> QED
  BY <1>1 DEF ReturnOk, Goto, Working, Loading

LEMMA ThrowLeaves ==
  ASSUME IInv, NEW i \in Job, Throw(i), left[i] # <<>>
  PROVE  Leaves(i)
<1>1. /\ pc \in [Job -> Label] /\ left \in [Job -> Seq(Source)]
      /\ known \in [Job -> SUBSET RowType]
  BY DEF IInv, TypeOK
<1> QED
  BY <1>1 DEF Throw, DropBatch, Leaves, Goto, Working, Loading

LEMMA OwnStep ==
  ASSUME IInv, NEW i \in Job, Start(i) \/ Step(i)
  PROVE  Begins(i) \/ Walks(i) \/ Leaves(i) \/ Loads(i)
<1>1. /\ pc \in [Job -> Label] /\ left \in [Job -> Seq(Source)]
      /\ rate \in [Job -> Nat] /\ page \in [Job -> Nat \ {0}]
  BY DEF IInv, TypeOK
<1>2. pc[i] \notin Loading => known[i] = {}
  BY DEF IInv, KnownInv
<1>3. pc[i] \in Working => left[i] # <<>>
  BY DEF IInv, JobInv
<1>4. ASSUME Start(i) \/ BeginSource(i) \/ Finish(i) PROVE Begins(i)
  BY <1>1, <1>2, <1>4 DEF Start, BeginSource, Finish, Begins, Goto, Working, Loading,
                          walk, load
<1>5. ASSUME EndList(i) PROVE Walks(i) \/ Leaves(i)
  <2>1. pc[i] = "list" /\ left[i] # <<>> /\ known[i] = {} /\ known' = known
    BY <1>2, <1>3, <1>5 DEF EndList, Working, Loading, load
  <2>2. CASE list[i] < P(i).lists
    BY <1>1, <1>5, <2>1, <2>2 DEF EndList, Walks, Working, Loading
  <2>3. CASE ~(list[i] < P(i).lists)
    BY <1>5, <2>1, <2>3, ReturnLeaves DEF EndList, Leaves
  <2> QED
    BY <2>2, <2>3
<1>6. ASSUME RetryList(i) \/ CollectList(i) \/ TakeList(i) PROVE Walks(i)
  BY <1>1, <1>2, <1>6 DEF RetryList, CollectList, TakeList, Walks, Goto, Working, Loading,
                          walk, load
<1>7. ASSUME ListError(i) PROVE Leaves(i)
  <2>1. pc[i] = "list" /\ left[i] # <<>> /\ known[i] = {}
    BY <1>2, <1>3, <1>7 DEF ListError, Working, Loading
  <2>2. CASE /\ ReturnOk(i, Shown(i) = <<>>)
             /\ UNCHANGED <<env, db, urls, todo, batch, load>>
    BY <2>1, <2>2, ReturnLeaves DEF Leaves, load
  <2>3. CASE Throw(i)
    BY <2>1, <2>3, ThrowLeaves
  <2> QED
    BY <1>7, <2>2, <2>3 DEF ListError
<1>8. ASSUME NEW k \in todo[i], FetchItem(i, k) \/ SkipItem(i, k) PROVE Walks(i)
  BY <1>1, <1>2, <1>8 DEF FetchItem, SkipItem, NextItem, Walks, Goto, Working, Loading,
                          walk, load
<1>9. ASSUME ItemError(i) \/ DbError(i) PROVE Leaves(i)
  BY <1>3, <1>9, ThrowLeaves DEF ItemError, DbError, Working, Loading
<1> QED
  BY <1>4, <1>5, <1>6, <1>7, <1>8, <1>9 DEF Step, FetchList, Loads

LEMMA JobStep ==
  ASSUME IInv, [Next]_vars, NEW i \in Job
  PROVE  Rests(i) \/ Begins(i) \/ Walks(i) \/ Leaves(i) \/ Loads(i)
<1>1. ASSUME NEW j \in Job, Start(j) \/ Step(j)
      PROVE  Rests(i) \/ Begins(i) \/ Walks(i) \/ Leaves(i) \/ Loads(i)
  BY <1>1, OtherRests, OwnStep
<1>2. CASE Crash
  <2>1. /\ pc'[i] = IF Active(i) THEN "dead" ELSE pc[i]
        /\ left'[i] = IF Active(i) THEN <<>> ELSE left[i]
        /\ known'[i] = {}
    BY <1>2 DEF Crash
  <2>2. CASE Active(i) /\ left[i] # <<>>
    BY <2>1, <2>2 DEF Leaves, Working, Loading
  <2>3. CASE Active(i) /\ left[i] = <<>>
    BY <2>1, <2>3 DEF Begins, Working, Loading, IInv, JobInv
  <2>4. CASE ~Active(i)
    BY <2>1, <2>4 DEF Active, Begins, Working, Loading
  <2> QED
    BY <2>2, <2>3, <2>4
<1>3. ASSUME NEW s \in Source, NEW c \in 1..2, NEW shown \in Lists, ChangeSite(s, c, shown)
      PROVE Rests(i)
  BY <1>3 DEF ChangeSite, Rests, walk, load
<1>4. CASE UpdateRate
  BY <1>4 DEF UpdateRate, Rests, walk, load
<1>5. CASE UNCHANGED vars
  BY <1>5 DEF vars, Rests, walk, load
<1> QED
  BY <1>1, <1>2, <1>3, <1>4, <1>5 DEF Next

-----------------------------------------------------------------------------
\* Where the statements of loadToDb take their job.
LEMMA LoadStep ==
  ASSUME IInv, NEW j \in Job, Loads(j)
  PROVE  /\ left[j] # <<>> /\ pc[j] \in Working /\ S(j) \in Source
         /\ ReadExisting(j) => /\ pc[j] = "read" /\ pc'[j] = "insert"
                               /\ UNCHANGED <<left, rate, page>>
         /\ InsertNew(j) => /\ pc[j] = "insert" /\ pc'[j] \in {"append", "firstPrices"}
                            /\ UNCHANGED <<left, rate, page, known, batch, urls>>
         /\ InsertFirstPrices(j) => /\ pc[j] = "firstPrices" /\ pc'[j] = "append"
                                    /\ UNCHANGED <<left, rate, page, known, batch, urls>>
         /\ AppendPrices(j) => /\ pc[j] = "append" /\ known'[j] = {}
                               /\ \/ /\ pc'[j] = "list" /\ page'[j] = page[j] + 1
                                     /\ left' = left /\ rate' = rate
                                  \/ pc'[j] = "next" /\ left'[j] = Tail(left[j])
<1>1. /\ pc \in [Job -> Label] /\ left \in [Job -> Seq(Source)]
      /\ page \in [Job -> Nat \ {0}] /\ known \in [Job -> SUBSET RowType]
  BY DEF IInv, TypeOK
<1>2. pc[j] \in Working /\ left[j] # <<>>
  BY DEF IInv, JobInv, Loads, ReadExisting, InsertNew, InsertFirstPrices, AppendPrices,
         Working, Loading
<1>3. S(j) \in Source
  BY <1>2, PolicyOf DEF IInv
<1>4. ReadExisting(j) => /\ pc[j] = "read" /\ pc'[j] = "insert"
                         /\ UNCHANGED <<left, rate, page>>
  BY <1>1 DEF ReadExisting, Goto, walk
<1>5. InsertNew(j) => /\ pc[j] = "insert" /\ pc'[j] \in {"append", "firstPrices"}
                      /\ UNCHANGED <<left, rate, page, known, batch, urls>>
  BY <1>1 DEF InsertNew, Goto, walk
<1>6. InsertFirstPrices(j) => /\ pc[j] = "firstPrices" /\ pc'[j] = "append"
                              /\ UNCHANGED <<left, rate, page, known, batch, urls>>
  BY <1>1 DEF InsertFirstPrices, Goto, walk, load
<1>7. ASSUME AppendPrices(j)
      PROVE  /\ pc[j] = "append" /\ known'[j] = {}
             /\ \/ /\ pc'[j] = "list" /\ page'[j] = page[j] + 1
                   /\ left' = left /\ rate' = rate
                \/ pc'[j] = "next" /\ left'[j] = Tail(left[j])
  BY <1>1, <1>7 DEF AppendPrices, DropBatch, ReturnOk, Goto
<1> QED
  BY <1>2, <1>3, <1>4, <1>5, <1>6, <1>7

LEMMA LeftOnceKeeps ==
  ASSUME IInv, LeftOnce, [Next]_vars
  PROVE  LeftOnce'
<1> SUFFICES ASSUME NEW i \in Job
             PROVE  \A m, n \in 1..Len(left'[i]) : left'[i][m] = left'[i][n] => m = n
  BY DEF LeftOnce
<1>1. left'[i] = left[i] \/ (left[i] # <<>> /\ left'[i] \in {Tail(left[i]), <<>>})
  BY JobStep, LoadStep DEF Rests, Begins, Walks, Leaves, Loads
<1>2. CASE left'[i] = left[i]
  BY <1>2 DEF LeftOnce
<1>3. CASE left[i] # <<>> /\ left'[i] = Tail(left[i])
  BY <1>3, TailAhead DEF IInv
<1>4. CASE left'[i] = <<>>
  BY <1>4
<1> QED
  BY <1>1, <1>2, <1>3, <1>4

LEMMA KnownOnceKeeps ==
  ASSUME IInv, KnownOnce, [Next]_vars
  PROVE  KnownOnce'
<1> SUFFICES ASSUME NEW i \in Job, NEW q \in known'[i], NEW r \in known'[i],
                    ExternalId(q) = ExternalId(r)
             PROVE  q = r
  BY DEF KnownOnce, ExternalId
<1>1. known'[i] = known[i] \/ known'[i] = {} \/ ReadExisting(i)
  BY JobStep, LoadStep DEF Rests, Begins, Walks, Leaves, Loads
<1>2. CASE known'[i] = known[i]
  BY <1>2 DEF KnownOnce
<1>3. CASE ReadExisting(i)
  <2>1. PICK map \in SUBSET rows :
          /\ \A p, o \in map : ExternalId(p) = ExternalId(o) => p = o
          /\ known' = [known EXCEPT ![i] = map]
    BY <1>3 DEF ReadExisting
  <2>2. known'[i] = map
    BY <2>1 DEF IInv, TypeOK
  <2> QED
    BY <2>1, <2>2
<1> QED
  BY <1>1, <1>2, <1>3

\* The new items are the same for as long as the batch and its snapshot are.
LEMMA SameNew ==
  ASSUME NEW i \in Job, known'[i] = known[i], batch'[i] = batch[i], urls'[i] = urls[i]
  PROVE  New(i)' = New(i)
BY DEF New, ExternalId

LEMMA FreshOnceKeeps ==
  ASSUME IInv, FreshOnce, [Next]_vars
  PROVE  FreshOnce'
<1> SUFFICES ASSUME NEW i \in Job, pc'[i] = "firstPrices", NEW q \in fresh'[i]
             PROVE  q.pos \in New(i)' /\ \A r \in fresh'[i] : q.pos = r.pos => q = r
  BY DEF FreshOnce
<1>1. Rests(i) \/ InsertNew(i)
  BY JobStep, LoadStep DEF Begins, Walks, Leaves, Loads, Working, Loading
<1>2. CASE Rests(i)
  BY <1>2, SameNew DEF FreshOnce, Rests
<1>3. CASE InsertNew(i)
  <2>1. New(i)' = New(i)
    BY <1>3, LoadStep, SameNew DEF Loads
  <2>2. fresh'[i] = {Row(i, k) : k \in New(i)}
    BY <1>3 DEF InsertNew, IInv, TypeOK
  <2>3. \A k \in New(i) : Row(i, k).pos = k
    BY DEF Row
  <2> QED
    BY <2>1, <2>2, <2>3
<1> QED
  BY <1>1, <1>2, <1>3

LEMMA RidOnceKeeps ==
  ASSUME IInv, RidOnce, [Next]_vars
  PROVE  RidOnce'
<1>1. CASE rows' = rows
  BY <1>1 DEF RidOnce, Rid
<1>2. ASSUME NEW j \in Job, InsertNew(j)
      PROVE  RidOnce'
  <2> SUFFICES ASSUME NEW q \in rows', NEW r \in rows', Rid(q) = Rid(r)
               PROVE  q = r
    BY DEF RidOnce, Rid
  <2>1. q.born = r.born /\ q.pos = r.pos
    BY DEF Rid
  <2>2. pc[j] = "insert" /\ rows' = rows \cup {Row(j, k) : k \in New(j)} /\ clock \in Nat
    BY <1>2 DEF InsertNew, IInv, TypeOK
  <2>3. \A k \in New(j) : Row(j, k).born = clock /\ Row(j, k).pos = k
    BY <2>2, RowOf
  <2>4. \A o \in rows : o.born < clock /\ o.born \in Nat
    BY DEF IInv, RowInv, TypeOK, RowType
  <2>5. CASE q \in rows /\ r \in rows
    BY <2>5 DEF RidOnce
  <2>6. CASE q \notin rows /\ r \notin rows
    BY <2>1, <2>2, <2>3, <2>6
  <2>7. CASE q \in rows <=> r \notin rows
    BY <2>1, <2>2, <2>3, <2>4, <2>7
  <2> QED
    BY <2>5, <2>6, <2>7
<1> QED
  BY <1>1, <1>2, RowsStep

-----------------------------------------------------------------------------
\* The prices a statement adds: all of this page and at the rate of the crawl,
\* one per item; insertGraph adds those of new items, the append those of others.
LEMMA NewPrices ==
  ASSUME IInv, KnownOnce, FreshOnce,
         NEW j \in Job, InsertFirstPrices(j) \/ AppendPrices(j)
  PROVE  /\ \A p \in prices' \ prices :
              /\ p \in PriceType
              /\ p.job = j /\ p.source = S(j) /\ p.page = page[j] /\ p.rate = rate[j]
              /\ InsertFirstPrices(j) => p.pos \in New(j)
              /\ AppendPrices(j) => p.pos \notin New(j)
         /\ \A p, q \in prices' \ prices : p.pos = q.pos => p = q
<1>1. TypeOK /\ left[j] # <<>>
  BY LoadStep DEF IInv, Loads
<1>2. \A k, r : /\ Price(j, k, r).job = j /\ Price(j, k, r).page = page[j]
                /\ Price(j, k, r).rate = rate[j] /\ Price(j, k, r).pos = k
                /\ Price(j, k, r).source = S(j)
  BY DEF Price
<1>3. CASE InsertFirstPrices(j)
  <2>1. pc[j] = "firstPrices" /\ prices' = prices \cup {Price(j, r.pos, r) : r \in fresh[j]}
    BY <1>3 DEF InsertFirstPrices
  <2>2. \A r \in fresh[j] : r \in RowType /\ r.pos \in 1..Len(urls[j])
    BY <1>1, <2>1 DEF IInv, FreshInv, JobInv, TypeOK
  <2>3. \A r \in fresh[j] : Price(j, r.pos, r) \in PriceType
    BY <1>1, <2>2, PriceOf
  <2>4. ~AppendPrices(j)
    BY <2>1 DEF AppendPrices
  <2>5. \A q, r \in fresh[j] : q.pos \in New(j) /\ (q.pos = r.pos => q = r)
    BY <2>1 DEF FreshOnce
  <2> QED
    BY <1>2, <2>1, <2>3, <2>4, <2>5
<1>4. CASE AppendPrices(j)
  <2>1. pc[j] = "append" /\ ~InsertFirstPrices(j)
    BY <1>4 DEF AppendPrices, InsertFirstPrices
  <2>2. \A p \in prices' \ prices : \E k \in batch[j], r \in known[j] :
          /\ p = Price(j, k, r) /\ ExternalId(r) = urls[j][k]
          /\ k \in 1..Len(urls[j]) /\ r \in RowType
    BY <1>4, Appended
  <2>3. \A p \in prices' \ prices : p \in PriceType
    BY <1>1, <2>2, PriceOf
  <2>4. \A k \in batch[j], r \in known[j] : ExternalId(r) = urls[j][k] => k \notin New(j)
    BY DEF New
  <2>5. \A q, r \in known[j] : ExternalId(q) = ExternalId(r) => q = r
    BY DEF KnownOnce
  <2>6. ASSUME NEW p \in prices' \ prices, NEW q \in prices' \ prices, p.pos = q.pos
        PROVE  p = q
    <3>1. PICK k \in batch[j], r \in known[j] :
            p = Price(j, k, r) /\ ExternalId(r) = urls[j][k]
      BY <2>2
    <3>2. PICK m \in batch[j], o \in known[j] :
            q = Price(j, m, o) /\ ExternalId(o) = urls[j][m]
      BY <2>2
    <3>3. k = m
      BY <1>2, <2>6, <3>1, <3>2
    <3> QED
      BY <2>5, <3>1, <3>2, <3>3
  <2> QED
    BY <1>2, <2>1, <2>2, <2>3, <2>4, <2>6
<1> QED
  BY <1>3, <1>4

\* A source a job has left is not ahead of it any more.
LEMMA LeftBehind ==
  ASSUME IInv, LeftOnce, AheadInv, NEW j \in Job, left[j] # <<>>,
         left'[j] \in {Tail(left[j]), <<>>}
  PROVE  /\ S(j) \notin Ahead(j)'
         /\ \A p \in prices : p.job = j => p.source \notin Ahead(j)'
<1>1. Ahead(j)' \subseteq Ahead(j) \ {S(j)}
  <2>1. CASE left'[j] = Tail(left[j])
    BY <2>1, TailAhead DEF IInv, Ahead
  <2>2. CASE left'[j] = <<>>
    BY <2>2 DEF Ahead
  <2> QED
    BY <2>1, <2>2
<1>2. \A p \in prices : p.job = j /\ p.source \in Ahead(j) => p.source = S(j)
  BY DEF AheadInv, Current
<1> QED
  BY <1>1, <1>2

LEMMA AheadInvKeeps ==
  ASSUME IInv, LeftOnce, KnownOnce, FreshOnce, AheadInv, [Next]_vars
  PROVE  AheadInv'
<1> SUFFICES ASSUME NEW p \in prices', p.source \in Ahead(p.job)'
             PROVE  Current(p)'
  BY DEF AheadInv
<1>1. CASE p \in prices
  <2> DEFINE i == p.job
  <2>1. i \in Job /\ p.page \in Nat /\ page[i] \in Nat
    BY <1>1 DEF IInv, TypeOK, PriceType
  <2>2. p.source \in Ahead(i) => Current(p)
    BY <1>1 DEF AheadInv
  <2> HIDE DEF i
  <2>3. CASE left'[i] = left[i]
    <3>1. Current(p) /\ S(i)' = S(i)
      BY <2>2, <2>3 DEF Ahead, S, i
    <3>2. CASE Rests(i)
      BY <2>1, <3>1, <3>2, SameNew DEF Current, Rests, i
    <3>3. CASE Begins(i) \/ Leaves(i)
      <4>1. pc[i] \in Working
        BY <3>1 DEF Current, i
      <4>2. Leaves(i)
        BY <3>3, <4>1 DEF Begins
      <4>3. p.source \notin Ahead(i)'
        BY <1>1, <2>1, <4>2, LeftBehind DEF Leaves, i
      <4> QED
        BY <4>3 DEF i
    <3>4. CASE Walks(i)
      BY <3>1, <3>4 DEF Current, Walks, Loading, i
    <3>5. CASE ReadExisting(i) \/ InsertNew(i) \/ InsertFirstPrices(i)
      <4>1. /\ pc[i] # "append" /\ pc'[i] \in Working
            /\ rate' = rate /\ page' = page
        BY <2>1, <3>5, LoadStep DEF Loads, Working, Loading
      <4> QED
        BY <3>1, <4>1 DEF Current, i
    <3>6. CASE AppendPrices(i)
      <4>1. p.page <= page[i]
        BY <2>1, <3>1 DEF Current, i
      <4>2. CASE pc'[i] = "list" /\ page'[i] = page[i] + 1 /\ rate' = rate
        BY <2>1, <3>1, <4>1, <4>2 DEF Current, Working, i
      <4>3. CASE left'[i] = Tail(left[i])
        BY <1>1, <2>1, <3>6, <4>3, LoadStep, LeftBehind DEF Loads, i
      <4> QED
        BY <2>1, <3>6, <4>2, <4>3, LoadStep DEF Loads
    <3> QED
      BY <2>1, <3>2, <3>3, <3>4, <3>5, <3>6, JobStep DEF Loads
  <2>4. CASE left'[i] # left[i]
    <3>1. left[i] # <<>> /\ left'[i] \in {Tail(left[i]), <<>>}
      BY <2>1, <2>4, JobStep, LoadStep DEF Rests, Begins, Walks, Leaves, Loads
    <3> QED
      BY <1>1, <2>1, <3>1, LeftBehind DEF i
  <2> QED
    BY <2>3, <2>4
<1>2. CASE p \notin prices
  <2>1. PICK j \in Job : InsertFirstPrices(j) \/ AppendPrices(j)
    BY <1>2, PricesStep
  <2>2. /\ p.job = j /\ p.source = S(j) /\ p.page = page[j] /\ p.rate = rate[j]
        /\ InsertFirstPrices(j) => p.pos \in New(j)
    BY <1>2, <2>1, NewPrices
  <2>3. page[j] \in Nat
    BY DEF IInv, TypeOK
  <2>4. CASE InsertFirstPrices(j)
    <3>1. pc'[j] = "append" /\ UNCHANGED <<left, rate, page, known, batch, urls>>
      BY <2>4, LoadStep DEF Loads
    <3>2. New(j)' = New(j) /\ S(j)' = S(j)
      BY <3>1, SameNew DEF S
    <3> QED
      BY <2>2, <2>4, <3>1, <3>2 DEF Current, Working, Loading
  <2>5. CASE AppendPrices(j)
    <3>1. CASE /\ pc'[j] = "list" /\ page'[j] = page[j] + 1
               /\ left' = left /\ rate' = rate
      BY <2>2, <2>3, <3>1 DEF Current, Working, S
    <3>2. CASE left'[j] = Tail(left[j])
      BY <2>2, <2>5, <3>2, LoadStep, LeftBehind DEF Loads
    <3> QED
      BY <2>5, <3>1, <3>2, LoadStep DEF Loads
  <2> QED
    BY <2>1, <2>4, <2>5
<1> QED
  BY <1>1, <1>2

LEMMA PricesKeep ==
  ASSUME IInv, PriceInv, [Next]_vars
  PROVE  OnePricePerItem' /\ OneRatePerCrawl'
<1>1. CASE prices' = prices
  BY <1>1 DEF PriceInv, OnePricePerItem, OneRatePerCrawl
<1>2. ASSUME NEW j \in Job, InsertFirstPrices(j) \/ AppendPrices(j)
      PROVE  OnePricePerItem' /\ OneRatePerCrawl'
  <2> DEFINE added == prices' \ prices
  <2>1. \A p, q \in prices : p.job = q.job /\ p.source = q.source =>
          p.rate = q.rate /\ (p.page = q.page /\ p.pos = q.pos => p = q)
    BY DEF PriceInv, OnePricePerItem, OneRatePerCrawl
  <2>2. /\ \A p \in added : /\ p.job = j /\ p.source = S(j)
                            /\ p.page = page[j] /\ p.rate = rate[j]
                            /\ InsertFirstPrices(j) => p.pos \in New(j)
                            /\ AppendPrices(j) => p.pos \notin New(j)
        /\ \A p, q \in added : p.pos = q.pos => p = q
    BY <1>2, NewPrices DEF PriceInv
  <2>3. ASSUME NEW p \in prices, NEW q \in added, p.job = q.job, p.source = q.source
        PROVE  p.rate = q.rate /\ ~(p.page = q.page /\ p.pos = q.pos)
    <3>1. p.job = j /\ p.source = S(j) /\ q.page = page[j] /\ q.rate = rate[j]
      BY <2>2, <2>3
    <3>2. S(j) \in Ahead(j)
      BY <1>2, LoadStep, TailAhead DEF Loads, IInv, PriceInv
    <3>3. Current(p)
      BY <3>1, <3>2 DEF PriceInv, AheadInv
    <3>4. p.page \in Nat /\ page[j] \in Nat
      BY DEF IInv, TypeOK, PriceType
    <3>5. p.page = page[j] => AppendPrices(j) /\ p.pos \in New(j)
      BY <1>2, <3>1, <3>3, <3>4 DEF Current, InsertFirstPrices
    <3> QED
      BY <2>2, <3>1, <3>3, <3>5 DEF Current
  <2>4. \A p \in prices' : p \in prices \/ p \in added
    OBVIOUS
  <2> HIDE DEF added
  <2>5. ASSUME NEW p \in prices', NEW q \in prices', p.job = q.job, p.source = q.source
        PROVE  p.rate = q.rate /\ (p.page = q.page /\ p.pos = q.pos => p = q)
    <3>1. CASE p \in prices /\ q \in prices
      BY <2>1, <2>5, <3>1
    <3>2. CASE p \in added /\ q \in added
      BY <2>2, <3>2
    <3>3. CASE p \in prices /\ q \in added
      BY <2>3, <2>5, <3>3
    <3>4. CASE p \in added /\ q \in prices
      BY <2>3, <2>5, <3>4
    <3> QED
      BY <2>4, <3>1, <3>2, <3>3, <3>4
  <2> QED
    BY <2>5 DEF OnePricePerItem, OneRatePerCrawl
<1> QED
  BY <1>1, <1>2, PricesStep

LEMMA PriceInvHolds == Spec => []PriceInv
<1>1. Init => PriceInv
  <2> SUFFICES ASSUME Init PROVE PriceInv
    OBVIOUS
  <2>1. LeftOnce
    BY PlansAssumption DEF Init, LeftOnce
  <2> QED
    BY <2>1 DEF Init, PriceInv, RidOnce, KnownOnce, FreshOnce, AheadInv,
                OnePricePerItem, OneRatePerCrawl
<1>2. IInv /\ PriceInv /\ [Next]_vars => PriceInv'
  BY LeftOnceKeeps, RidOnceKeeps, KnownOnceKeeps, FreshOnceKeeps, AheadInvKeeps,
     PricesKeep DEF PriceInv
<1> QED
  BY <1>1, <1>2, InvariantHolds, PTL DEF Spec

\* However jobs overlap, fail or die, an item of a page gets one price from one
\* crawl: insertGraph and the append never both take it.
THEOREM OnePriceEach == Spec => []OnePricePerItem
<1>1. PriceInv => OnePricePerItem
  BY DEF PriceInv
<1> QED
  BY <1>1, PriceInvHolds, PTL

\* A crawl of a source converts all its prices at the rate it began with.
THEOREM OneRateEach == Spec => []OneRatePerCrawl
<1>1. PriceInv => OneRatePerCrawl
  BY DEF PriceInv
<1> QED
  BY <1>1, PriceInvHolds, PTL

-----------------------------------------------------------------------------
\* The refinement.  The rows a history is read from add nothing to what the
\* prices say of themselves.
Filed(k) == {Seen(p) : p \in {q \in prices : <<q.source, Stored[q.listing]>> = k}}

ByKey == \A k \in Keys : HistoryOf(k) = Filed(k)

LEMMA FiledByKey ==
  ASSUME RidOnce, PriceOnItsProperty
  PROVE  ByKey
<1> SUFFICES ASSUME NEW k \in Keys, NEW p \in prices
             PROVE  (\E r \in rows : Rid(r) = p.owner /\ r.source = k[1] /\ ExternalId(r) = k[2])
                      <=> <<p.source, Stored[p.listing]>> = k
  BY DEF ByKey, HistoryOf, Filed
<1>1. k = <<k[1], k[2]>>
  BY DEF Keys
<1>2. PICK r \in rows : /\ Rid(r) = p.owner
                        /\ r.source = p.source
                        /\ ExternalId(r) = Stored[p.listing]
  BY DEF PriceOnItsProperty
<1>3. \A q \in rows : Rid(q) = p.owner => q = r
  BY <1>2 DEF RidOnce
<1> QED
  BY <1>1, <1>2, <1>3

\* A sighting of a new price is new, since an item has one price.
LEMMA NewSighting ==
  ASSUME OnePricePerItem', NEW p \in prices', p \notin prices, prices \subseteq prices',
         NEW q \in prices
  PROVE  Seen(q) # Seen(p)
<1> SUFFICES ASSUME Seen(q) = Seen(p) PROVE FALSE
  OBVIOUS
<1>1. p.job = q.job /\ p.source = q.source /\ p.page = q.page /\ p.pos = q.pos
  BY DEF Seen
<1> QED
  BY <1>1 DEF OnePricePerItem

LEMMA HistoryStep ==
  ASSUME IInv, PriceInv, OnePricePerItem', ByKey, ByKey', [Next]_vars
  PROVE  [History!Record]_([k \in Keys |-> HistoryOf(k)])
<1> DEFINE h == [k \in Keys |-> HistoryOf(k)]
<1>1. \A k \in Keys : h[k] = Filed(k) /\ h'[k] = Filed(k)'
  BY DEF ByKey
<1>2. CASE prices' = prices
  <2>1. \A k \in Keys : HistoryOf(k)' = HistoryOf(k)
    BY <1>2 DEF ByKey, Filed, Seen
  <2> QED
    BY <2>1
<1>3. ASSUME NEW j \in Job, InsertFirstPrices(j) \/ AppendPrices(j)
      PROVE  History!Record
  <2>1. prices \subseteq prices'
    BY <1>3 DEF InsertFirstPrices, AppendPrices
  <2>2. \A p \in prices' \ prices :
          p \in PriceType /\ p.job = j /\ p.source = S(j) /\ p.page = page[j]
    BY <1>3, NewPrices DEF PriceInv
  <2>3. \A k \in Keys : h[k] \subseteq h'[k]
    BY <1>1, <2>1 DEF Filed, Seen
  <2>4. \A k \in Keys : \A o \in h'[k] \ h[k] :
          \E p \in prices' \ prices :
            o = Seen(p) /\ <<p.source, Stored[p.listing]>> = k
    BY <1>1 DEF Filed, Seen
  <2>5. \A o \in UNION {h[k] : k \in Keys} : \E q \in prices : o = Seen(q)
    BY <1>1 DEF Filed
  <2> HIDE DEF h
  <2>6. ASSUME NEW k \in Keys, NEW o \in h'[k] \ h[k]
        PROVE  /\ o \in SightingType /\ o \notin UNION {h[m] : m \in Keys}
               /\ SightingKey(o) = k
               /\ SightingLoad(o) = <<j, S(j), page[j]>>
    <3>1. PICK p \in prices' \ prices :
            o = Seen(p) /\ <<p.source, Stored[p.listing]>> = k
      BY <2>4, <2>6
    <3>2. o \in SightingType
      BY <2>2, <3>1 DEF Seen, SightingType, PriceType
    <3>3. o \notin UNION {h[m] : m \in Keys}
      BY <2>1, <2>5, <3>1, NewSighting
    <3>4. SightingKey(o) = k
      BY <3>1 DEF Seen, SightingKey
    <3>5. SightingLoad(o) = <<j, S(j), page[j]>>
      BY <2>2, <3>1 DEF Seen, SightingLoad
    <3> QED
      BY <3>2, <3>3, <3>4, <3>5
  <2>7. DOMAIN h' = Keys
    BY DEF h
  <2> QED
    BY <2>3, <2>6, <2>7 DEF History!Record, History!Added, History!Recorded, h
<1> QED
  BY <1>2, <1>3, PricesStep

\* The tables implement the price history: whatever overlaps, fails or dies, a
\* step adds sightings of one load, each new and filed under its own listing.
THEOREM HistoryRefined == Spec => ImplementsHistory
<1>1. Init => History!Init
  BY DEF Init, History!Init, HistoryOf
<1>2. RidOnce /\ PriceOnItsProperty => ByKey
  BY FiledByKey
<1>3. PriceInv => RidOnce /\ OnePricePerItem
  BY DEF PriceInv
<1>4. IInv /\ PriceInv /\ OnePricePerItem' /\ ByKey /\ ByKey' /\ [Next]_vars
        => [History!Record]_([k \in Keys |-> HistoryOf(k)])
  BY HistoryStep
<1> QED
  BY <1>1, <1>2, <1>3, <1>4, InvariantHolds, PriceInvHolds, PricesOnTheirProperty, PTL
     DEF Spec, ImplementsHistory, History!Spec

-----------------------------------------------------------------------------
\* A crawl that ends well.  Items before page p of a list, and the item that the
\* price of position k of page p is of, in the terms of Reached.
Before(p) == (p - 1) * PageSize

ListOf(s, shown, p) ==
  IF Policy[s].lists = 2 /\ p > FullPages(shown[1]) THEN 2 ELSE 1

ItemOf(s, shown, p, k) ==
  IF Policy[s].paged THEN <<ListOf(s, shown, p), Before(p) + k>>
  ELSE IF k <= Len(shown[1]) THEN <<1, k>> ELSE <<2, k - Len(shown[1])>>

\* The links of a page, and those followed.
LinksOf(s, shown, c, p) ==
  IF Policy[s].paged THEN PageOf(shown[c], p)
  ELSE IF c = 2 THEN shown[1] \o shown[2] ELSE shown[1]

Chosen(s, links) ==
  {k \in 1..Len(links) : Policy[s].dedup => \A m \in 1..(k - 1) : links[m] # links[k]}

PricesOf(j, s) == {p \in prices : p.job = j /\ p.source = s}

Placed(p, s, shown) ==
  LET i == ItemOf(s, shown, p.page, p.pos) IN
  /\ IF Policy[s].paged THEN p.page # 0 /\ p.pos \in 1..PageSize ELSE p.page = 1
  /\ i \in Reached(s, shown) /\ shown[i[1]][i[2]] = p.listing

Priced(j, s, shown, i) == \E p \in PricesOf(j, s) : ItemOf(s, shown, p.page, p.pos) = i

\* A crawl under way that skipped nothing, on a site that has stood still.
Standing(j) == pc[j] \in Working /\ clean[j]
Site(j) == site[S(j)]

\* A batch is local to an iteration of the loop, and a crawl walks its own lists.
TidyInv(j) ==
  /\ pc[j] \notin Working \ {"list"} => todo[j] = {} /\ batch[j] = {}
  /\ pc[j] \notin Working => urls[j] = <<>>
  /\ pc[j] \in Working => list[j] \in 1..P(j).lists
  /\ pc[j] = "list" /\ (P(j).paged \/ list[j] = 1) => urls[j] = <<>>

LinksInv(j) ==
  /\ ~P(j).paged => page[j] = 1
  /\ pc[j] = "list" /\ ~P(j).paged /\ list[j] = 2 => urls[j] = Site(j)[1]
  /\ pc[j] # "list" =>
       /\ urls[j] = LinksOf(S(j), Site(j), list[j], page[j])
       /\ todo[j] \cup batch[j] = Chosen(S(j), urls[j])
       /\ pc[j] # "item" => todo[j] = {}
       /\ P(j).paged \/ list[j] = P(j).lists

\* Where short pages end a list: the first list's pages are the full ones, and the
\* second one is walked from there on.
PageInv(j) ==
  P(j).paged /\ P(j).stop = "partial" =>
    /\ list[j] = 1 => page[j] <= FullPages(Site(j)[1]) + 1
    /\ list[j] = 2 => page[j] > FullPages(Site(j)[1])
    /\ pc[j] # "list" => page[j] <= FullPages(Site(j)[list[j]])

\* The counter of empty pages counts one page, which is empty.
MissInv(j) ==
  P(j).paged /\ misses[j] # 0 =>
    /\ P(j).retries /\ ~FrontPage(j) /\ P(j).stop # "partial"
    /\ pc[j] = "list" /\ Shown(j) = <<>>

\* Items on the pages that are loaded: each has its price, and no price is of
\* anything else ...
Passed(j, i) ==
  /\ P(j).paged
  /\ i[1] < list[j] \/ (i[1] = list[j] /\ i[2] <= Before(page[j]))

HeldInv(j) ==
  /\ \A p \in PricesOf(j, S(j)) : Placed(p, S(j), Site(j))
  /\ \A i \in Reached(S(j), Site(j)) : Passed(j, i) => Priced(j, S(j), Site(j), i)

\* ... but for the prices of this page's new items.
NewInv(j) ==
  /\ pc[j] = "append" => \A k \in New(j) :
       \E p \in PricesOf(j, S(j)) : p.page = page[j] /\ p.pos = k
  /\ pc[j] = "firstPrices" => \A k \in New(j) : \E r \in fresh[j] : r.pos = k

CrawlInv(j) == LinksInv(j) /\ PageInv(j) /\ MissInv(j) /\ HeldInv(j) /\ NewInv(j)

\* What is on record of a crawl that ended well stays true.
Whole(c) ==
  /\ c.job \in Job /\ c.source \in Source /\ c.shown \in [1..2 -> Lists]
  /\ c.source \notin Ahead(c.job)
  /\ \A p \in PricesOf(c.job, c.source) : Placed(p, c.source, c.shown)
  /\ \A i \in Reached(c.source, c.shown) : Priced(c.job, c.source, c.shown, i)

WholeInv ==
  /\ \A j \in Job : TidyInv(j)
  /\ \A j \in Job : Standing(j) => CrawlInv(j)
  /\ \A c \in complete : Whole(c)

-----------------------------------------------------------------------------
\* Pages and positions.
LEMMA DivFacts ==
  ASSUME NEW n \in Nat, NEW d \in Nat \ {0}
  PROVE  /\ n \div d \in Nat
         /\ (n \div d) * d <= n /\ n < (n \div d) * d + d
OBVIOUS

LEMMA TimesMore ==
  ASSUME NEW a \in Nat, NEW b \in Nat, NEW d \in Nat, a < b
  PROVE  a * d + d <= b * d
<1>1. PICK c \in Nat : b = a + 1 + c
  <2>1. b - a - 1 \in Nat /\ b = a + 1 + (b - a - 1)
    OBVIOUS
  <2> QED
    BY <2>1
<1>2. b * d = a * d + d + c * d
  BY <1>1
<1>3. c * d \in Nat /\ a * d \in Nat /\ b * d \in Nat
  OBVIOUS
<1> QED
  BY <1>2, <1>3

LEMMA DivSame ==
  ASSUME NEW n \in Nat, NEW d \in Nat \ {0}, NEW q \in Nat
  PROVE  n \div d = q <=> q * d <= n /\ n < q * d + d
<1>1. /\ n \div d \in Nat
      /\ (n \div d) * d <= n /\ n < (n \div d) * d + d
  BY DivFacts
<1>2. q < n \div d => q * d + d <= (n \div d) * d
  BY <1>1, TimesMore
<1>3. n \div d < q => (n \div d) * d + d <= q * d
  BY <1>1, TimesMore
<1>4. q * d \in Nat /\ (n \div d) * d \in Nat
  BY <1>1
<1> QED
  BY <1>1, <1>2, <1>3, <1>4

LEMMA BeforeFacts ==
  ASSUME NEW p \in Nat \ {0}
  PROVE  /\ Before(p) \in Nat /\ Before(1) = 0
         /\ Before(p + 1) = Before(p) + PageSize
         /\ p * PageSize = Before(p) + PageSize
<1>1. PageSize \in Nat /\ p - 1 \in Nat
  BY CrawlAssumption
<1> QED
  BY <1>1 DEF Before

LEMMA BeforeMore ==
  ASSUME NEW p \in Nat \ {0}, NEW q \in Nat \ {0}, p < q
  PROVE  Before(p) + PageSize <= Before(q)
<1>1. PageSize \in Nat /\ p - 1 \in Nat /\ q - 1 \in Nat /\ p - 1 < q - 1
  BY CrawlAssumption
<1> QED
  BY <1>1, TimesMore DEF Before

\* The page of a position, from 0.
PageNo(n) == (n - 1) \div PageSize

LEMMA SamePage ==
  ASSUME NEW p \in Nat \ {0}, NEW n \in Nat \ {0}
  PROVE  PageNo(n) = p - 1 <=> Before(p) < n /\ n <= Before(p) + PageSize
<1>1. PageSize \in Nat \ {0} /\ p - 1 \in Nat /\ n - 1 \in Nat
  BY CrawlAssumption
<1>2. (n - 1) \div PageSize = p - 1
        <=> (p - 1) * PageSize <= n - 1 /\ n - 1 < (p - 1) * PageSize + PageSize
  BY <1>1, DivSame
<1>3. (p - 1) * PageSize \in Nat
  BY <1>1
<1> QED
  BY <1>1, <1>2, <1>3 DEF Before, PageNo

\* A list's full pages, and the first page that is not.
LEMMA FullPagesFacts ==
  ASSUME NEW shown \in Seq(Listing), NEW p \in Nat \ {0}
  PROVE  /\ FullPages(shown) \in Nat
         /\ FullPages(shown) * PageSize = Before(FullPages(shown) + 1)
         /\ p <= FullPages(shown) <=> Before(p) + PageSize <= Len(shown)
<1> DEFINE f == FullPages(shown)
<1>1. PageSize \in Nat \ {0} /\ Len(shown) \in Nat
  BY CrawlAssumption, LenProperties
<1>2. f \in Nat /\ f * PageSize <= Len(shown) /\ Len(shown) < f * PageSize + PageSize
  BY <1>1, DivFacts DEF FullPages
<1> HIDE DEF f
<1>3. f * PageSize = Before(f + 1)
  BY <1>2 DEF Before
<1>4. Before(p) \in Nat /\ Before(f + 1) \in Nat
  <2>1. f + 1 \in Nat \ {0}
    BY <1>2
  <2> QED
    BY <2>1, BeforeFacts
<1>5. p <= f => Before(p) + PageSize <= Before(f + 1)
  BY <1>2, BeforeMore
<1>6. p > f => Before(f + 1) <= Before(p)
  <2>1. CASE p = f + 1
    BY <1>2, <1>4, <2>1
  <2>2. CASE p > f + 1
    BY <1>1, <1>2, <1>4, <2>2, BeforeMore
  <2> QED
    BY <1>2, <2>1, <2>2
<1> QED
  BY <1>1, <1>2, <1>3, <1>4, <1>5, <1>6 DEF f

LEMMA FullPagesBefore ==
  ASSUME NEW shown \in Seq(Listing), NEW p \in Nat \ {0}
  PROVE  /\ p > FullPages(shown) => FullPages(shown) * PageSize <= Before(p)
         /\ p <= FullPages(shown) + 1 => Before(p) <= FullPages(shown) * PageSize
<1> DEFINE f == FullPages(shown)
<1>1. f \in Nat /\ f * PageSize = Before(f + 1) /\ PageSize \in Nat
  BY FullPagesFacts, CrawlAssumption
<1> HIDE DEF f
<1>2. Before(p) \in Nat /\ Before(f + 1) \in Nat
  <2>1. f + 1 \in Nat \ {0}
    BY <1>1
  <2> QED
    BY <2>1, BeforeFacts
<1>3. p < f + 1 => Before(p) + PageSize <= Before(f + 1)
  BY <1>1, BeforeMore
<1>4. f + 1 < p => Before(f + 1) + PageSize <= Before(p)
  BY <1>1, BeforeMore
<1>5. p < f + 1 \/ p = f + 1 \/ f + 1 < p
  BY <1>1
<1> QED
  BY <1>1, <1>2, <1>3, <1>4, <1>5 DEF f

LEMMA PageOfFacts ==
  ASSUME NEW shown \in Seq(Listing), NEW p \in Nat \ {0}
  PROVE  LET links == PageOf(shown, p) IN
         /\ links \in Seq(Listing)
         /\ \A k \in Nat \ {0} : k <= Len(links)
                                   <=> k <= PageSize /\ Before(p) + k <= Len(shown)
         /\ \A k \in 1..Len(links) : links[k] = shown[Before(p) + k]
<1> DEFINE b == Before(p)
           m == b + 1
           n == IF b + PageSize < Len(shown) THEN b + PageSize ELSE Len(shown)
<1>1. PageSize \in Nat \ {0} /\ Len(shown) \in Nat /\ b \in Nat
      /\ p * PageSize = b + PageSize
  BY CrawlAssumption, LenProperties, BeforeFacts
<1>2. PageOf(shown, p) = SubSeq(shown, m, n)
  BY <1>1 DEF PageOf, Before
<1> HIDE DEF b
<1>3. m \in Int /\ n \in Int /\ 1 <= m /\ n <= Len(shown)
  BY <1>1
<1>4. \A i \in m..n : shown[i] \in Listing
  BY <1>1, <1>3, ElementOfSeq
<1>5. /\ SubSeq(shown, m, n) \in Seq(Listing)
      /\ Len(SubSeq(shown, m, n)) = IF m <= n THEN n - m + 1 ELSE 0
      /\ \A i \in 1..(n - m + 1) : SubSeq(shown, m, n)[i] = shown[m + i - 1]
  <2> HIDE DEF m, n
  <2> QED
    BY <1>3, <1>4, SubSeqProperties
<1> DEFINE links == PageOf(shown, p)
<1>6. Len(links) = IF m <= n THEN n - b ELSE 0
  BY <1>1, <1>2, <1>3, <1>5
<1>7. \A k \in Nat \ {0} : k <= Len(links) <=> k <= PageSize /\ b + k <= Len(shown)
  BY <1>1, <1>6
<1>8. ASSUME NEW k \in 1..Len(links) PROVE links[k] = shown[b + k]
  <2>1. k \in 1..(n - m + 1) /\ m + k - 1 = b + k
    BY <1>1, <1>3, <1>6
  <2> QED
    BY <1>2, <1>5, <2>1
<1> QED
  BY <1>2, <1>5, <1>7, <1>8 DEF b

\* A page is short just after the full ones, and empty after the last item.
LEMMA ShortPage ==
  ASSUME NEW shown \in Seq(Listing), NEW p \in Nat \ {0}
  PROVE  /\ Len(PageOf(shown, p)) < PageSize <=> p > FullPages(shown)
         /\ PageOf(shown, p) = <<>> => Len(shown) <= Before(p)
<1> DEFINE links == PageOf(shown, p)
<1>1. PageSize \in Nat \ {0} /\ Len(shown) \in Nat /\ Before(p) \in Nat
      /\ FullPages(shown) \in Nat
  BY CrawlAssumption, LenProperties, BeforeFacts, FullPagesFacts
<1>2. /\ links \in Seq(Listing)
      /\ \A k \in Nat \ {0} : k <= Len(links) <=> k <= PageSize /\ Before(p) + k <= Len(shown)
  BY PageOfFacts
<1> HIDE DEF links
<1>3. Len(links) \in Nat
  BY <1>2, LenProperties
<1>4. PageSize <= Len(links) <=> Before(p) + PageSize <= Len(shown)
  BY <1>1, <1>2
<1>5. p <= FullPages(shown) <=> Before(p) + PageSize <= Len(shown)
  BY FullPagesFacts
<1>6. links = <<>> => ~(1 <= Len(links))
  BY <1>2, EmptySeq
<1>7. 1 <= Len(links) <=> 1 <= PageSize /\ Before(p) + 1 <= Len(shown)
  BY <1>2
<1> QED
  BY <1>1, <1>3, <1>4, <1>5, <1>6, <1>7 DEF links

-----------------------------------------------------------------------------
\* An item is reached where the short pages leave it and it is the first of its
\* kind on its page.
Reaches(s, shown, c, n) ==
  /\ Policy[s].paged /\ Policy[s].stop = "partial" =>
       /\ n <= FullPages(shown[c]) * PageSize
       /\ c = 2 => n > FullPages(shown[1]) * PageSize
  /\ Policy[s].dedup => \A m \in 1..(n - 1) :
       PageNo(m) = PageNo(n) => shown[c][m] # shown[c][n]

LEMMA ShownTypes ==
  ASSUME NEW s \in Source, NEW shown \in [1..2 -> Lists]
  PROVE  /\ Policy[s].lists \in {1, 2} /\ Policy[s].paged \in BOOLEAN
         /\ \A c \in 1..2 : shown[c] \in Seq(Listing) /\ Len(shown[c]) \in Nat
         /\ \A c \in 1..Policy[s].lists : c \in 1..2
<1>1. Policy[s].lists \in {1, 2} /\ Policy[s].paged \in BOOLEAN
  BY CrawlAssumption DEF PolicyType
<1>2. \A c \in 1..2 : shown[c] \in Seq(Listing)
  BY CrawlAssumption
<1> QED
  BY <1>1, <1>2, LenProperties

LEMMA ReachedIs ==
  ASSUME NEW s \in Source, NEW shown \in [1..2 -> Lists], NEW i
  PROVE  i \in Reached(s, shown) <=>
           \E c \in 1..Policy[s].lists : \E n \in 1..Len(shown[c]) :
             i = <<c, n>> /\ Reaches(s, shown, c, n)
<1> DEFINE all(c) == {c} \X (1..Len(shown[c]))
           full(c) == FullPages(shown[c]) * PageSize
           some == {i2 \in all(1) : i2[2] <= full(1)}
                     \cup {i2 \in all(2) : /\ Policy[s].lists = 2
                                           /\ i2[2] > full(1) /\ i2[2] <= full(2)}
           reached == IF Policy[s].stop = "partial" /\ Policy[s].paged THEN some
                      ELSE UNION {all(c) : c \in 1..Policy[s].lists}
           once(c, n) == Policy[s].dedup => \A m \in 1..(n - 1) :
             PageNo(m) = PageNo(n) => shown[c][m] # shown[c][n]
<1>1. Reached(s, shown) = {i2 \in reached : once(i2[1], i2[2])}
  BY DEF Reached, PageNo
<1>2. Policy[s].lists \in {1, 2}
  BY ShownTypes
<1>3. \A c, n : Reaches(s, shown, c, n) <=>
        /\ Policy[s].paged /\ Policy[s].stop = "partial" =>
             n <= full(c) /\ (c = 2 => n > full(1))
        /\ once(c, n)
  BY DEF Reaches
<1>4. i \in reached <=>
        \E c \in 1..Policy[s].lists : \E n \in 1..Len(shown[c]) :
          /\ i = <<c, n>>
          /\ Policy[s].paged /\ Policy[s].stop = "partial" =>
               n <= full(c) /\ (c = 2 => n > full(1))
  <2> HIDE DEF full
  <2>1. CASE Policy[s].stop = "partial" /\ Policy[s].paged
    <3>1. i \in all(1) /\ i[2] <= full(1) <=>
            \E n \in 1..Len(shown[1]) : i = <<1, n>> /\ n <= full(1)
      OBVIOUS
    <3>2. i \in all(2) /\ i[2] > full(1) /\ i[2] <= full(2) <=>
            \E n \in 1..Len(shown[2]) : i = <<2, n>> /\ n > full(1) /\ n <= full(2)
      OBVIOUS
    <3>3. i \in reached <=> \/ i \in all(1) /\ i[2] <= full(1)
                            \/ /\ Policy[s].lists = 2
                               /\ i \in all(2) /\ i[2] > full(1) /\ i[2] <= full(2)
      BY <2>1
    <3> HIDE DEF all, reached
    <3>4. CASE Policy[s].lists = 1
      <4>1. 1..Policy[s].lists = {1}
        BY <3>4
      <4> QED
        BY <2>1, <3>1, <3>3, <3>4, <4>1
    <3>5. CASE Policy[s].lists = 2
      <4>1. 1..Policy[s].lists = {1, 2}
        BY <3>5
      <4> QED
        BY <2>1, <3>1, <3>2, <3>3, <3>5, <4>1
    <3> QED
      BY <1>2, <3>4, <3>5
  <2>2. CASE ~(Policy[s].stop = "partial" /\ Policy[s].paged)
    <3>1. \A c : i \in all(c) <=> \E n \in 1..Len(shown[c]) : i = <<c, n>>
      OBVIOUS
    <3>2. i \in reached <=> \E c \in 1..Policy[s].lists : i \in all(c)
      BY <2>2
    <3> HIDE DEF all, reached
    <3> QED
      BY <2>2, <3>1, <3>2
  <2> QED
    BY <2>1, <2>2
<1> HIDE DEF full, reached, once
<1>5. \A c, n : i = <<c, n>> => i[1] = c /\ i[2] = n
  OBVIOUS
<1> QED
  BY <1>1, <1>3, <1>4, <1>5

\* On a page that is loaded, the list is that of the page.
LEMMA ListOfPage ==
  ASSUME NEW s \in Source, NEW shown \in [1..2 -> Lists], Policy[s].paged,
         NEW c \in 1..Policy[s].lists, NEW p \in Nat \ {0},
         Policy[s].stop = "partial" =>
           /\ p <= FullPages(shown[c])
           /\ c = 2 => p > FullPages(shown[1])
  PROVE  ListOf(s, shown, p) = c
<1>1. c \in 1..2 /\ Policy[s].lists \in {1, 2} /\ shown[1] \in Seq(Listing)
  BY ShownTypes
<1>2. FullPages(shown[1]) \in Nat
  BY <1>1, FullPagesFacts
<1>3. Policy[s].lists = 2 => Policy[s].stop = "partial"
  BY PoliciesAssumption
<1>4. CASE Policy[s].lists = 1
  BY <1>1, <1>4 DEF ListOf
<1>5. CASE Policy[s].lists = 2
  BY <1>1, <1>2, <1>3, <1>5 DEF ListOf
<1> QED
  BY <1>1, <1>4, <1>5

\* The batch of a page that is loaded: page p of list c, or all lists together.
PageLoaded(s, shown, c, p) ==
  /\ c \in 1..Policy[s].lists /\ p \in Nat \ {0}
  /\ IF Policy[s].paged
     THEN Policy[s].stop = "partial" =>
            p <= FullPages(shown[c]) /\ (c = 2 => p > FullPages(shown[1]))
     ELSE p = 1 /\ c = Policy[s].lists

\* Link k of page p is item n of the list, and the first of its kind if that is.
LinkIsItem(shown, c, p, k, n) ==
  LET links == PageOf(shown[c], p) IN
  /\ k \in 1..Len(links) /\ links[k] = shown[c][n]
  /\ (\A m \in 1..(k - 1) : links[m] # links[k])
       <=> \A m \in 1..(n - 1) : PageNo(m) = PageNo(n) => shown[c][m] # shown[c][n]

LEMMA ChosenOnPage ==
  ASSUME NEW s \in Source, NEW shown \in [1..2 -> Lists], Policy[s].paged,
         NEW c \in 1..2, NEW p \in Nat \ {0}, NEW k \in 1..PageSize,
         NEW n, n = Before(p) + k, n <= Len(shown[c])
  PROVE  LinkIsItem(shown, c, p, k, n)
<1> DEFINE links == PageOf(shown[c], p)
           b == Before(p)
<1>1. /\ shown[c] \in Seq(Listing) /\ Len(shown[c]) \in Nat
      /\ PageSize \in Nat \ {0} /\ b \in Nat /\ k \in Nat \ {0} /\ k <= PageSize
  <2>1. shown[c] \in Seq(Listing) /\ Len(shown[c]) \in Nat
    BY ShownTypes
  <2>2. b \in Nat
    BY BeforeFacts
  <2> QED
    BY <2>1, <2>2, CrawlAssumption
<1>2. /\ links \in Seq(Listing)
      /\ \A m \in Nat \ {0} : m <= Len(links) <=> m <= PageSize /\ b + m <= Len(shown[c])
      /\ \A m \in 1..Len(links) : links[m] = shown[c][b + m]
  BY <1>1, PageOfFacts
<1>3. \A m \in Nat \ {0} : PageNo(m) = p - 1 <=> b < m /\ m <= b + PageSize
  BY SamePage
<1>4. n = b + k
  OBVIOUS
<1> HIDE DEF b, links
<1>5. Len(links) \in Nat /\ n \in Nat \ {0} /\ b < n /\ n <= b + PageSize
  BY <1>1, <1>2, <1>4, LenProperties
<1>6. k \in 1..Len(links) /\ links[k] = shown[c][n]
  BY <1>1, <1>2, <1>4, <1>5
<1>7. PageNo(n) = p - 1
  BY <1>3, <1>5
<1>8. ASSUME \A m \in 1..(k - 1) : links[m] # links[k],
             NEW m \in 1..(n - 1), PageNo(m) = PageNo(n)
      PROVE  shown[c][m] # shown[c][n]
  <2>1. m \in Nat \ {0} /\ b < m /\ m <= n - 1
    BY <1>3, <1>5, <1>7, <1>8
  <2>2. m - b \in 1..(k - 1) /\ b + (m - b) = m
    BY <1>1, <1>4, <2>1
  <2>3. m - b \in 1..Len(links)
    BY <1>1, <1>5, <1>6, <2>2
  <2>4. links[m - b] = shown[c][b + (m - b)]
    BY <1>2, <2>3
  <2> QED
    BY <1>6, <1>8, <2>2, <2>4
<1>9. ASSUME \A m \in 1..(n - 1) : PageNo(m) = PageNo(n) => shown[c][m] # shown[c][n],
             NEW m \in 1..(k - 1)
      PROVE  links[m] # links[k]
  <2>1. m \in 1..Len(links) /\ links[m] = shown[c][b + m]
    <3>1. m \in 1..Len(links)
      BY <1>1, <1>5, <1>6
    <3> QED
      BY <1>2, <3>1
  <2>2. b + m \in 1..(n - 1) /\ b + m \in Nat \ {0} /\ b < b + m /\ b + m <= b + PageSize
    BY <1>1, <1>4
  <2>3. PageNo(b + m) = PageNo(n)
    BY <1>3, <1>7, <2>2
  <2> QED
    BY <1>6, <1>9, <2>1, <2>2, <2>3
<1>10. (\A m \in 1..(k - 1) : links[m] # links[k])
        <=> \A m \in 1..(n - 1) : PageNo(m) = PageNo(n) => shown[c][m] # shown[c][n]
  BY <1>8, <1>9
<1> QED
  BY <1>6, <1>10 DEF links, LinkIsItem

\* The items followed on a page are items reached, ...
LEMMA PageItems ==
  ASSUME NEW s \in Source, NEW shown \in [1..2 -> Lists], NEW c, NEW p,
         PageLoaded(s, shown, c, p), NEW k \in Chosen(s, LinksOf(s, shown, c, p))
  PROVE  LET i == ItemOf(s, shown, p, k) IN
         /\ i \in Reached(s, shown)
         /\ shown[i[1]][i[2]] = LinksOf(s, shown, c, p)[k]
         /\ Policy[s].paged => k \in 1..PageSize /\ i = <<c, Before(p) + k>>
<1> DEFINE links == LinksOf(s, shown, c, p)
           i == ItemOf(s, shown, p, k)
<1>1. c \in 1..Policy[s].lists /\ c \in 1..2 /\ p \in Nat \ {0}
      /\ Policy[s].lists \in {1, 2}
  BY ShownTypes DEF PageLoaded
<1>2. \A d \in 1..2 : shown[d] \in Seq(Listing) /\ Len(shown[d]) \in Nat
  BY ShownTypes
<1>3. k \in 1..Len(links) /\ (Policy[s].dedup => \A m \in 1..(k - 1) : links[m] # links[k])
  BY DEF Chosen
<1>4. CASE Policy[s].paged
  <2>1. links = PageOf(shown[c], p)
    BY <1>4 DEF LinksOf
  <2>2. k \in Nat \ {0} /\ k <= PageSize /\ PageSize \in Nat
        /\ Before(p) + k <= Len(shown[c])
    <3>1. /\ links \in Seq(Listing)
          /\ \A m \in Nat \ {0} : m <= Len(links)
                                     <=> m <= PageSize /\ Before(p) + m <= Len(shown[c])
      <4>1. shown[c] \in Seq(Listing) /\ p \in Nat \ {0}
        BY <1>1, <1>2
      <4> HIDE DEF links
      <4> QED
        BY <2>1, <4>1, PageOfFacts
    <3>2. Len(links) \in Nat
      BY <3>1, LenProperties
    <3> HIDE DEF links
    <3> QED
      BY <1>3, <3>1, <3>2, CrawlAssumption
  <2>3. k \in 1..PageSize
    BY <2>2
  <2> DEFINE n == Before(p) + k
  <2> HIDE DEF n
  <2>4. /\ links[k] = shown[c][n]
        /\ Policy[s].dedup => \A m \in 1..(n - 1) :
             PageNo(m) = PageNo(n) => shown[c][m] # shown[c][n]
    <3>1. n = Before(p) + k /\ n <= Len(shown[c])
      BY <2>2 DEF n
    <3>2. LinkIsItem(shown, c, p, k, n)
      BY <1>1, <1>4, <2>3, <3>1, ChosenOnPage
    <3> QED
      BY <1>3, <2>1, <3>2 DEF LinkIsItem
  <2>5. i = <<c, n>>
    <3>1. ListOf(s, shown, p) = c
      BY <1>1, <1>4, ListOfPage DEF PageLoaded
    <3> QED
      BY <1>4, <3>1 DEF ItemOf, n
  <2>6. Before(p) \in Nat /\ n \in 1..Len(shown[c])
    <3>1. Before(p) \in Nat
      BY <1>1, BeforeFacts
    <3> QED
      BY <1>1, <1>2, <2>2, <3>1 DEF n
  <2>7. Policy[s].stop = "partial" =>
          /\ n <= FullPages(shown[c]) * PageSize
          /\ c = 2 => n > FullPages(shown[1]) * PageSize
    <3> SUFFICES ASSUME Policy[s].stop = "partial"
                 PROVE  /\ n <= FullPages(shown[c]) * PageSize
                        /\ c = 2 => n > FullPages(shown[1]) * PageSize
      OBVIOUS
    <3>1. p <= FullPages(shown[c]) /\ (c = 2 => p > FullPages(shown[1]))
      BY <1>4 DEF PageLoaded
    <3>2. FullPages(shown[c]) \in Nat
          /\ FullPages(shown[c]) * PageSize = Before(FullPages(shown[c]) + 1)
          /\ FullPages(shown[1]) \in Nat /\ FullPages(shown[1]) * PageSize \in Nat
      <4>1. /\ shown[c] \in Seq(Listing) /\ shown[1] \in Seq(Listing)
            /\ p \in Nat \ {0} /\ PageSize \in Nat
        BY <1>1, <1>2, <2>2
      <4>2. FullPages(shown[c]) \in Nat /\ FullPages(shown[1]) \in Nat
            /\ FullPages(shown[c]) * PageSize = Before(FullPages(shown[c]) + 1)
        BY <4>1, FullPagesFacts
      <4> QED
        BY <4>1, <4>2
    <3>3. Before(p) + PageSize <= FullPages(shown[c]) * PageSize
      <4> DEFINE f == FullPages(shown[c])
      <4>1. f + 1 \in Nat \ {0} /\ p < f + 1
        BY <1>1, <3>1, <3>2
      <4>2. Before(p) + PageSize <= Before(f + 1)
        BY <1>1, <4>1, BeforeMore
      <4> QED
        BY <3>2, <4>2
    <3>4. FullPages(shown[c]) * PageSize \in Nat
      BY <2>2, <3>2
    <3>5. c = 2 => FullPages(shown[1]) * PageSize <= Before(p)
      BY <1>1, <1>2, <3>1, FullPagesBefore
    <3>6. n \in Nat /\ n = Before(p) + k /\ k \in Nat \ {0} /\ k <= PageSize
          /\ PageSize \in Nat
      BY <2>2, <2>6 DEF n
    <3>7. n <= FullPages(shown[c]) * PageSize
      BY <2>6, <3>3, <3>4, <3>6
    <3>8. c = 2 => n > FullPages(shown[1]) * PageSize
      BY <2>6, <3>2, <3>5, <3>6
    <3> QED
      BY <3>7, <3>8
  <2>8. Reaches(s, shown, c, n)
    BY <2>4, <2>7 DEF Reaches
  <2> HIDE DEF i, links
  <2>9. i \in Reached(s, shown)
    BY <1>1, <2>5, <2>6, <2>8, ReachedIs
  <2>10. i[1] = c /\ i[2] = n
    BY <2>5
  <2> QED
    BY <2>3, <2>4, <2>5, <2>9, <2>10 DEF i, links, n
<1>5. CASE ~Policy[s].paged
  <2>1. c = Policy[s].lists /\ ~Policy[s].dedup
    BY <1>5, PoliciesAssumption DEF PageLoaded
  <2>2. links = IF c = 2 THEN shown[1] \o shown[2] ELSE shown[1]
    BY <1>5 DEF LinksOf
  <2>3. i = IF k <= Len(shown[1]) THEN <<1, k>> ELSE <<2, k - Len(shown[1])>>
    BY <1>5 DEF ItemOf
  <2>4. \A d, n : Reaches(s, shown, d, n)
    BY <1>5, <2>1 DEF Reaches
  <2> HIDE DEF i, links
  <2>5. CASE c = 1
    <3>1. k \in 1..Len(shown[1]) /\ i = <<1, k>> /\ links[k] = shown[1][k]
      BY <1>2, <1>3, <2>2, <2>3, <2>5
    <3>2. i \in Reached(s, shown)
      BY <1>1, <2>4, <2>5, <3>1, ReachedIs
    <3> QED
      BY <1>5, <3>1, <3>2 DEF i, links
  <2>6. CASE c = 2
    <3>1. /\ Len(links) = Len(shown[1]) + Len(shown[2])
          /\ links[k] = IF k <= Len(shown[1]) THEN shown[1][k]
                        ELSE shown[2][k - Len(shown[1])]
      <4>1. /\ Len(shown[1] \o shown[2]) = Len(shown[1]) + Len(shown[2])
            /\ \A m \in 1..(Len(shown[1]) + Len(shown[2])) : (shown[1] \o shown[2])[m] =
                  IF m <= Len(shown[1]) THEN shown[1][m] ELSE shown[2][m - Len(shown[1])]
        BY <1>2, ConcatProperties
      <4> QED
        BY <1>3, <2>2, <2>6, <4>1
    <3>2. CASE k <= Len(shown[1])
      <4>1. i = <<1, k>> /\ k \in 1..Len(shown[1]) /\ links[k] = shown[1][k]
            /\ 1 \in 1..Policy[s].lists
        BY <1>2, <1>3, <2>1, <2>3, <2>6, <3>1, <3>2
      <4>2. i \in Reached(s, shown)
        BY <2>4, <4>1, ReachedIs
      <4> QED
        BY <1>5, <4>1, <4>2 DEF i, links
    <3>3. CASE ~(k <= Len(shown[1]))
      <4> DEFINE n == k - Len(shown[1])
      <4>1. i = <<2, n>> /\ n \in 1..Len(shown[2]) /\ links[k] = shown[2][n]
            /\ 2 \in 1..Policy[s].lists
        BY <1>2, <1>3, <2>1, <2>3, <2>6, <3>1, <3>3
      <4> HIDE DEF n
      <4>2. i \in Reached(s, shown)
        BY <2>4, <4>1, ReachedIs
      <4> QED
        BY <1>5, <4>1, <4>2 DEF i, links
    <3> QED
      BY <3>2, <3>3
  <2> QED
    BY <1>1, <2>5, <2>6
<1> QED
  BY <1>4, <1>5

\* ... and every item reached is followed on its page.
LEMMA ReachedOnPage ==
  ASSUME NEW s \in Source, NEW shown \in [1..2 -> Lists], NEW c, NEW p,
         PageLoaded(s, shown, c, p), NEW i \in Reached(s, shown),
         Policy[s].paged => i[1] = c /\ Before(p) < i[2] /\ i[2] <= Before(p) + PageSize
  PROVE  \E k \in Chosen(s, LinksOf(s, shown, c, p)) : ItemOf(s, shown, p, k) = i
<1> DEFINE links == LinksOf(s, shown, c, p)
<1>1. c \in 1..Policy[s].lists /\ c \in 1..2 /\ p \in Nat \ {0}
      /\ Policy[s].lists \in {1, 2}
  BY ShownTypes DEF PageLoaded
<1>2. \A d \in 1..2 : shown[d] \in Seq(Listing) /\ Len(shown[d]) \in Nat
  BY ShownTypes
<1>3. PICK d \in 1..Policy[s].lists, n \in Nat :
        n \in 1..Len(shown[d]) /\ i = <<d, n>> /\ Reaches(s, shown, d, n)
  <2>1. PICK d \in 1..Policy[s].lists : \E n \in 1..Len(shown[d]) :
          i = <<d, n>> /\ Reaches(s, shown, d, n)
    BY ReachedIs
  <2> QED
    BY <2>1
<1>4. d \in 1..2 /\ n \in Nat \ {0} /\ n <= Len(shown[d])
  BY <1>1, <1>2, <1>3
<1>5. CASE Policy[s].paged
  <2>1. d = c /\ Before(p) < n /\ n <= Before(p) + PageSize
        /\ PageSize \in Nat /\ Before(p) \in Nat
    BY <1>1, <1>3, <1>5, BeforeFacts, CrawlAssumption
  <2>2. PICK k \in 1..PageSize : n = Before(p) + k
    <3>1. n - Before(p) \in 1..PageSize /\ n = Before(p) + (n - Before(p))
      BY <1>4, <2>1
    <3> QED
      BY <3>1
  <2>3. links = PageOf(shown[c], p)
    BY <1>5 DEF LinksOf
  <2>4. /\ k \in 1..Len(links)
        /\ (\A m \in 1..(k - 1) : links[m] # links[k])
              <=> \A m \in 1..(n - 1) :
                    PageNo(m) = PageNo(n) => shown[c][m] # shown[c][n]
    <3>1. LinkIsItem(shown, c, p, k, n)
      BY <1>1, <1>4, <1>5, <2>1, <2>2, ChosenOnPage
    <3> QED
      BY <2>3, <3>1 DEF LinkIsItem
  <2>5. k \in Chosen(s, links)
    BY <1>3, <2>1, <2>4 DEF Chosen, Reaches
  <2>6. ListOf(s, shown, p) = c
    BY <1>1, <1>5, ListOfPage DEF PageLoaded
  <2>7. ItemOf(s, shown, p, k) = i
    BY <1>3, <1>5, <2>1, <2>2, <2>6 DEF ItemOf
  <2> QED
    BY <2>5, <2>7
<1>6. CASE ~Policy[s].paged
  <2>1. c = Policy[s].lists /\ ~Policy[s].dedup
    BY <1>6, PoliciesAssumption DEF PageLoaded
  <2>2. links = IF c = 2 THEN shown[1] \o shown[2] ELSE shown[1]
    BY <1>6 DEF LinksOf
  <2>3. Chosen(s, links) = 1..Len(links)
    BY <2>1 DEF Chosen
  <2> DEFINE k == IF d = 1 THEN n ELSE n + Len(shown[1])
  <2>4. k \in 1..Len(links)
    <3>1. CASE c = 2
      <4>1. Len(links) = Len(shown[1]) + Len(shown[2])
        BY <1>2, <2>2, <3>1, ConcatProperties
      <4> HIDE DEF links
      <4> QED
        BY <1>2, <1>4, <4>1
    <3>2. CASE c = 1
      <4>1. d = 1 /\ links = shown[1]
        BY <1>3, <2>1, <2>2, <3>2
      <4> QED
        BY <1>4, <4>1
    <3> QED
      BY <1>1, <3>1, <3>2
  <2>5. IF k <= Len(shown[1]) THEN d = 1 /\ k = n ELSE d = 2 /\ k - Len(shown[1]) = n
    BY <1>2, <1>4
  <2> HIDE DEF k
  <2>6. ItemOf(s, shown, p, k) = i
    BY <1>3, <1>6, <2>5 DEF ItemOf
  <2> QED
    BY <2>3, <2>4, <2>6
<1> QED
  BY <1>5, <1>6

-----------------------------------------------------------------------------
\* A crawl on record as whole has one price per item reached.
LEMMA ReachedFinite ==
  ASSUME NEW s \in Source, NEW shown \in [1..2 -> Lists]
  PROVE  IsFiniteSet(Reached(s, shown))
<1> DEFINE n == Len(shown[1]) + Len(shown[2])
<1>1. Len(shown[1]) \in Nat /\ Len(shown[2]) \in Nat /\ Policy[s].lists \in {1, 2}
  BY ShownTypes
<1>2. \A c \in 1..Policy[s].lists : c \in 1..2 /\ \A m \in 1..Len(shown[c]) : m \in 1..n
  BY <1>1
<1>3. n \in Int
  BY <1>1
<1> HIDE DEF n
<1>4. IsFiniteSet((1..2) \X (1..n))
  <2>1. IsFiniteSet(1..2)
    <3> DEFINE two == 2
    <3>1. two \in Int
      OBVIOUS
    <3> HIDE DEF two
    <3>2. IsFiniteSet(1..two)
      BY <3>1, FS_Interval
    <3> QED
      BY <3>2 DEF two
  <2>2. IsFiniteSet(1..n)
    BY <1>3, FS_Interval
  <2> QED
    BY <2>1, <2>2, FS_Product
<1>5. Reached(s, shown) \in SUBSET ((1..2) \X (1..n))
  <2> SUFFICES ASSUME NEW i \in Reached(s, shown) PROVE i \in (1..2) \X (1..n)
    OBVIOUS
  <2>1. PICK c \in 1..Policy[s].lists : \E m \in 1..Len(shown[c]) :
          i = <<c, m>> /\ Reaches(s, shown, c, m)
    BY ReachedIs
  <2> QED
    BY <1>2, <2>1
<1> QED
  BY <1>4, <1>5, FS_Subset

LEMMA PricesOfItem ==
  ASSUME TypeOK, NEW s \in Source, NEW shown \in [1..2 -> Lists],
         NEW p \in prices, NEW q \in prices, Placed(p, s, shown), Placed(q, s, shown),
         ItemOf(s, shown, p.page, p.pos) = ItemOf(s, shown, q.page, q.pos)
  PROVE  p.page = q.page /\ p.pos = q.pos
<1>1. p.page \in Nat /\ p.pos \in Nat /\ q.page \in Nat /\ q.pos \in Nat
  BY DEF TypeOK, PriceType
<1>2. Len(shown[1]) \in Nat /\ PageSize \in Nat
  BY ShownTypes, CrawlAssumption
<1>3. CASE Policy[s].paged
  <2>1. /\ p.page \in Nat \ {0} /\ q.page \in Nat \ {0}
        /\ p.pos \in 1..PageSize /\ q.pos \in 1..PageSize
    BY <1>1, <1>3 DEF Placed
  <2>2. Before(p.page) + p.pos = Before(q.page) + q.pos
    BY <1>3 DEF ItemOf
  <2>3. p.page < q.page => Before(p.page) + PageSize <= Before(q.page)
    BY <2>1, BeforeMore
  <2>4. q.page < p.page => Before(q.page) + PageSize <= Before(p.page)
    BY <2>1, BeforeMore
  <2>5. Before(p.page) \in Nat /\ Before(q.page) \in Nat
    BY <2>1, BeforeFacts
  <2>6. p.page = q.page
    <3>1. ~(p.page < q.page)
      BY <1>2, <2>1, <2>2, <2>3, <2>5
    <3>2. ~(q.page < p.page)
      BY <1>2, <2>1, <2>2, <2>4, <2>5
    <3> QED
      BY <1>1, <3>1, <3>2
  <2>7. p.pos = q.pos
    BY <1>1, <2>2, <2>5, <2>6
  <2> QED
    BY <2>6, <2>7
<1>4. CASE ~Policy[s].paged
  <2>1. p.page = 1 /\ q.page = 1
    BY <1>4 DEF Placed
  <2>2. (IF p.pos <= Len(shown[1]) THEN <<1, p.pos>> ELSE <<2, p.pos - Len(shown[1])>>)
        = IF q.pos <= Len(shown[1]) THEN <<1, q.pos>> ELSE <<2, q.pos - Len(shown[1])>>
    BY <1>4 DEF ItemOf
  <2>3. p.pos = q.pos
    BY <1>1, <1>2, <2>2
  <2> QED
    BY <2>1, <2>3
<1> QED
  BY <1>3, <1>4

LEMMA WholeCounts ==
  ASSUME TypeOK, OnePricePerItem, NEW c, Whole(c), NEW l
  PROVE  Cardinality({p \in prices : p.job = c.job /\ p.source = c.source /\ p.listing = l})
           = Cardinality({i \in Reached(c.source, c.shown) : c.shown[i[1]][i[2]] = l})
<1> DEFINE s == c.source
           shown == c.shown
           ps == {p \in prices : p.job = c.job /\ p.source = s /\ p.listing = l}
           is == {i \in Reached(s, shown) : shown[i[1]][i[2]] = l}
           item(p) == ItemOf(s, shown, p.page, p.pos)
           g == [i \in is |-> CHOOSE p \in ps : item(p) = i]
<1>1. s \in Source /\ shown \in [1..2 -> Lists]
  BY DEF Whole
<1>2. \A p \in ps : Placed(p, s, shown) /\ p \in prices
  BY DEF Whole, PricesOf
<1>3. \A p \in ps : item(p) \in is
  BY <1>2 DEF Placed
<1>4. ASSUME NEW i \in is PROVE \E p \in ps : item(p) = i
  <2>1. PICK p \in prices : p.job = c.job /\ p.source = s /\ item(p) = i
    BY <1>4 DEF Whole, Priced, PricesOf
  <2>2. Placed(p, s, shown)
    BY <2>1 DEF Whole, PricesOf
  <2>3. p.listing = l
    BY <1>4, <2>1, <2>2 DEF Placed
  <2> QED
    BY <2>1, <2>3
<1>5. ASSUME NEW p \in ps, NEW q \in ps, item(p) = item(q) PROVE p = q
  <2>1. p.page = q.page /\ p.pos = q.pos
    BY <1>1, <1>2, <1>5, PricesOfItem
  <2> QED
    BY <2>1 DEF OnePricePerItem
<1> HIDE DEF item, ps, is
<1>6. \A i \in is : g[i] \in ps /\ item(g[i]) = i
  BY <1>4
<1>7. g \in [is -> ps]
  BY <1>4
<1>8. \A p \in ps : g[item(p)] = p
  BY <1>3, <1>5, <1>6
<1> HIDE DEF g
<1>9. g \in Bijection(is, ps)
  <2>1. \A i, k \in is : g[i] = g[k] => i = k
    BY <1>6
  <2>2. \A p \in ps : \E i \in is : g[i] = p
    BY <1>3, <1>8
  <2> QED
    BY <1>7, <2>1, <2>2 DEF Bijection, Injection, IsInjective, Surjection
<1>10. IsFiniteSet(is)
  <2>1. is \in SUBSET Reached(s, shown)
    BY DEF is
  <2> QED
    BY <1>1, <2>1, ReachedFinite, FS_Subset
<1>11. Cardinality(ps) = Cardinality(is)
  BY <1>9, <1>10, FS_Bijection DEF ExistsBijection
<1> QED
  BY <1>11 DEF ps, is

-----------------------------------------------------------------------------
\* What a step leaves alone of a job, ...
Still(i) ==
  /\ pc'[i] = pc[i] /\ left'[i] = left[i] /\ list'[i] = list[i] /\ page'[i] = page[i]
  /\ misses'[i] = misses[i] /\ urls'[i] = urls[i] /\ todo'[i] = todo[i]
  /\ batch'[i] = batch[i] /\ known'[i] = known[i] /\ fresh'[i] = fresh[i]
  /\ clean'[i] = clean[i]

LEMMA OtherStill ==
  ASSUME IInv, NEW i \in Job, NEW j \in Job \ {i}, Start(j) \/ Step(j)
  PROVE  Still(i) /\ site' = site
<1> USE DEF Still
<1>1. /\ pc \in [Job -> Label] /\ left \in [Job -> Seq(Source)]
      /\ list \in [Job -> 1..2] /\ page \in [Job -> Nat \ {0}] /\ misses \in [Job -> Nat]
      /\ known \in [Job -> SUBSET RowType] /\ fresh \in [Job -> SUBSET RowType]
      /\ todo \in [Job -> SUBSET Nat] /\ batch \in [Job -> SUBSET Nat]
      /\ urls \in [Job -> Seq(Listing)] /\ clean \in [Job -> BOOLEAN]
  BY DEF IInv, TypeOK
<1>2. ASSUME Start(j) \/ BeginSource(j) \/ Finish(j) PROVE Still(i) /\ site' = site
  BY <1>1, <1>2 DEF Start, BeginSource, Finish, Goto, env, walk, load, hist
<1>3. ASSUME Throw(j) PROVE Still(i) /\ site' = site
  BY <1>1, <1>3 DEF Throw, DropBatch, Goto, env
<1>4. ASSUME EndList(j) \/ RetryList(j) \/ CollectList(j) \/ TakeList(j)
      PROVE  Still(i) /\ site' = site
  BY <1>1, <1>4 DEF EndList, RetryList, CollectList, TakeList, ReturnOk, Goto, env, walk,
                    load, hist
<1>5. ASSUME ListError(j) PROVE Still(i) /\ site' = site
  BY <1>1, <1>3, <1>5 DEF ListError, ReturnOk, Goto, env, load
<1>6. ASSUME NEW k \in todo[j], FetchItem(j, k) \/ SkipItem(j, k)
      PROVE  Still(i) /\ site' = site
  BY <1>1, <1>6 DEF FetchItem, SkipItem, NextItem, Goto, env, walk, load, hist
<1>7. ASSUME ItemError(j) \/ DbError(j) PROVE Still(i) /\ site' = site
  BY <1>3, <1>7 DEF ItemError, DbError
<1>8. ASSUME ReadExisting(j) PROVE Still(i) /\ site' = site
  BY <1>1, <1>8 DEF ReadExisting, Goto, env, walk, hist
<1>9. ASSUME InsertNew(j) \/ InsertFirstPrices(j) PROVE Still(i) /\ site' = site
  BY <1>1, <1>9 DEF InsertNew, InsertFirstPrices, Goto, env, walk, load, hist
<1>10. ASSUME AppendPrices(j) PROVE Still(i) /\ site' = site
  BY <1>1, <1>10 DEF AppendPrices, DropBatch, ReturnOk, Goto, env, hist
<1> QED
  BY <1>2, <1>4, <1>5, <1>6, <1>7, <1>8, <1>9, <1>10 DEF Step, FetchList

\* ... and of the prices of a crawl: only the statements of that crawl add to them.
LEMMA PricesOfKept ==
  ASSUME IInv, PriceInv, [Next]_vars, NEW j, NEW s
  PROVE  \/ PricesOf(j, s)' = PricesOf(j, s)
         \/ j \in Job /\ s = S(j) /\ (InsertFirstPrices(j) \/ AppendPrices(j))
<1>1. CASE prices' = prices
  BY <1>1 DEF PricesOf
<1>2. ASSUME NEW i \in Job, InsertFirstPrices(i) \/ AppendPrices(i), ~(i = j /\ s = S(j))
      PROVE  PricesOf(j, s)' = PricesOf(j, s)
  <2>1. \A p \in prices' \ prices : p.job = i /\ p.source = S(i)
    BY <1>2, NewPrices DEF PriceInv
  <2>2. prices \subseteq prices'
    BY <1>2 DEF InsertFirstPrices, AppendPrices
  <2> QED
    BY <1>2, <2>1, <2>2 DEF PricesOf
<1> QED
  BY <1>1, <1>2, PricesStep

LEMMA StillKeeps ==
  ASSUME NEW i \in Job, Still(i), site'[S(i)] = site[S(i)],
         PricesOf(i, S(i))' = PricesOf(i, S(i)), CrawlInv(i)
  PROVE  CrawlInv(i)'
<1> DEFINE s == S(i)
<1>1. /\ S(i)' = S(i) /\ P(i)' = P(i) /\ Site(i)' = Site(i)
      /\ pc'[i] = pc[i] /\ list'[i] = list[i] /\ page'[i] = page[i]
      /\ misses'[i] = misses[i] /\ urls'[i] = urls[i] /\ todo'[i] = todo[i]
      /\ batch'[i] = batch[i] /\ fresh'[i] = fresh[i]
  BY DEF Still, S, P, Site
<1>2. Shown(i)' = Shown(i)
  BY <1>1 DEF Shown, Site
<1>3. New(i)' = New(i)
  BY SameNew DEF Still
<1>4. LinksInv(i)'
  BY <1>1 DEF CrawlInv, LinksInv
<1>5. PageInv(i)'
  BY <1>1 DEF CrawlInv, PageInv
<1>6. MissInv(i)'
  BY <1>1, <1>2 DEF CrawlInv, MissInv, FrontPage
<1>7. HeldInv(i)'
  <2>1. \A item : Priced(i, S(i), Site(i), item)' <=> Priced(i, S(i), Site(i), item)
    BY <1>1 DEF Priced
  <2>2. \A item : Passed(i, item)' <=> Passed(i, item)
    BY <1>1 DEF Passed
  <2>3. Reached(S(i), Site(i))' = Reached(S(i), Site(i))
    BY <1>1
  <2>4. \A p : Placed(p, S(i), Site(i))' <=> Placed(p, S(i), Site(i))
    BY <1>1 DEF Placed
  <2> QED
    BY <1>1, <2>1, <2>2, <2>3, <2>4 DEF CrawlInv, HeldInv
<1>8. NewInv(i)'
  BY <1>1, <1>3 DEF CrawlInv, NewInv
<1> QED
  BY <1>4, <1>5, <1>6, <1>7, <1>8 DEF CrawlInv

-----------------------------------------------------------------------------
\* Batches are local to an iteration, whatever happens.
LEMMA TidyOut ==
  ASSUME NEW i \in Job, pc'[i] \notin Working,
         todo'[i] = {}, batch'[i] = {}, urls'[i] = <<>>
  PROVE  TidyInv(i)'
BY DEF TidyInv, Working, Loading

LEMMA TidyThrow ==
  ASSUME IInv, NEW i \in Job, Throw(i), left[i] # <<>>
  PROVE  TidyInv(i)'
<1>1. /\ urls \in [Job -> Seq(Listing)]
      /\ todo \in [Job -> SUBSET Nat] /\ batch \in [Job -> SUBSET Nat]
  BY DEF IInv, TypeOK
<1>2. urls'[i] = <<>> /\ todo'[i] = {} /\ batch'[i] = {}
  BY <1>1 DEF Throw, DropBatch
<1>3. pc'[i] \notin Working
  BY ThrowLeaves DEF Leaves
<1> QED
  BY <1>2, <1>3, TidyOut

LEMMA TidyReturn ==
  ASSUME IInv, NEW i \in Job, TidyInv(i), NEW sure, ReturnOk(i, sure), pc[i] = "list",
         UNCHANGED <<urls, todo, batch>>, P(i).paged \/ list[i] = 1
  PROVE  TidyInv(i)'
<1>1. left[i] # <<>>
  BY DEF IInv, JobInv, Working
<1>2. pc'[i] \notin Working
  BY <1>1, ReturnLeaves
<1>3. todo[i] = {} /\ batch[i] = {} /\ urls[i] = <<>>
  BY DEF TidyInv, Working
<1> QED
  BY <1>2, <1>3, TidyOut

LEMMA TidyStep ==
  ASSUME IInv, NEW i \in Job, TidyInv(i), Start(i) \/ Step(i)
  PROVE  TidyInv(i)'
<1>1. /\ pc \in [Job -> Label] /\ left \in [Job -> Seq(Source)] /\ list \in [Job -> 1..2]
      /\ urls \in [Job -> Seq(Listing)]
      /\ todo \in [Job -> SUBSET Nat] /\ batch \in [Job -> SUBSET Nat]
  BY DEF IInv, TypeOK
<1>2. pc[i] \in Working => left[i] # <<>>
  BY DEF IInv, JobInv
<1>3. left[i] # <<>> => S(i) \in Source /\ P(i).lists \in {1, 2}
  BY PolicyOf DEF IInv, PolicyType
<1>4. ASSUME Start(i) \/ Finish(i) PROVE TidyInv(i)'
  BY <1>1, <1>4 DEF Start, Finish, Goto, walk, TidyInv, Working, Loading
<1>5. ASSUME BeginSource(i) PROVE TidyInv(i)'
  <2>1. /\ pc[i] = "next" /\ pc'[i] = "list" /\ list'[i] = 1 /\ left' = left
        /\ left[i] # <<>> /\ UNCHANGED <<urls, todo, batch>>
    BY <1>1, <1>5 DEF BeginSource, Goto
  <2>2. P(i)' = P(i) /\ 1 \in 1..P(i).lists
    BY <1>3, <2>1 DEF P, S
  <2> QED
    BY <2>1, <2>2 DEF TidyInv, Working, Loading
<1>6. ASSUME EndList(i) PROVE TidyInv(i)'
  <2>1. /\ pc[i] = "list" /\ P(i).paged /\ left[i] # <<>>
        /\ UNCHANGED <<urls, todo, batch>>
    BY <1>2, <1>6 DEF EndList, Stops, Working
  <2>2. CASE list[i] < P(i).lists
    <3>1. list'[i] = list[i] + 1 /\ pc' = pc /\ left' = left
      BY <1>1, <1>6, <2>2 DEF EndList
    <3>2. P(i)' = P(i)
      BY <3>1 DEF P, S
    <3>3. list'[i] \in 1..P(i).lists
      <4>1. list[i] \in 1..2 /\ P(i).lists \in {1, 2}
        BY <1>1, <1>3, <2>1
      <4> QED
        BY <2>2, <3>1, <4>1
    <3>4. todo[i] = {} /\ batch[i] = {} /\ urls[i] = <<>>
      BY <2>1 DEF TidyInv, Working
    <3> QED
      BY <2>1, <3>1, <3>2, <3>3, <3>4 DEF TidyInv, Working
  <2>3. CASE ~(list[i] < P(i).lists)
    BY <1>6, <2>1, <2>3, TidyReturn DEF EndList
  <2> QED
    BY <2>2, <2>3
<1>7. ASSUME RetryList(i) PROVE TidyInv(i)'
  BY <1>7 DEF RetryList, TidyInv, P, S
<1>8. ASSUME CollectList(i) PROVE TidyInv(i)'
  <2>1. /\ pc[i] = "list" /\ pc' = pc /\ left' = left /\ left[i] # <<>>
        /\ ~P(i).paged /\ list[i] < P(i).lists /\ list'[i] = list[i] + 1
        /\ UNCHANGED <<todo, batch>>
    BY <1>1, <1>2, <1>8 DEF CollectList, Working
  <2>2. P(i)' = P(i)
    BY <2>1 DEF P, S
  <2>3. list'[i] \in 1..P(i).lists /\ list'[i] # 1
    <3>1. list[i] \in 1..2 /\ P(i).lists \in {1, 2}
      BY <1>1, <1>3, <2>1
    <3> QED
      BY <2>1, <3>1
  <2> QED
    BY <2>1, <2>2, <2>3 DEF TidyInv, Working
<1>9. ASSUME TakeList(i) PROVE TidyInv(i)'
  <2>1. pc[i] = "list" /\ pc'[i] \in {"item", "read"} /\ UNCHANGED <<left, list>>
    BY <1>1, <1>9 DEF TakeList, Goto, walk
  <2> QED
    BY <2>1 DEF TidyInv, Working, Loading, P, S
<1>10. ASSUME ListError(i) PROVE TidyInv(i)'
  <2>1. pc[i] = "list" /\ left[i] # <<>>
    BY <1>2, <1>10 DEF ListError, Working
  <2>2. CASE /\ P(i).onListError = "stop" /\ ReturnOk(i, Shown(i) = <<>>)
             /\ UNCHANGED <<urls, todo, batch>>
    <3>1. P(i).lists = 1
      BY <1>3, <2>1, <2>2, PoliciesAssumption DEF P
    <3>2. list[i] = 1
      BY <2>1, <3>1 DEF TidyInv, Working
    <3> QED
      BY <2>1, <2>2, <3>2, TidyReturn
  <2>3. CASE Throw(i)
    BY <2>1, <2>3, TidyThrow
  <2> QED
    BY <1>10, <2>2, <2>3 DEF ListError
<1>11. ASSUME NEW k \in todo[i], FetchItem(i, k) \/ SkipItem(i, k) PROVE TidyInv(i)'
  <2>1. pc[i] = "item" /\ pc'[i] \in {"item", "read"} /\ UNCHANGED <<left, list>>
    BY <1>1, <1>11 DEF FetchItem, SkipItem, NextItem, Goto, walk
  <2> QED
    BY <2>1 DEF TidyInv, Working, Loading, P, S
<1>12. ASSUME ItemError(i) \/ DbError(i) PROVE TidyInv(i)'
  BY <1>2, <1>12, TidyThrow DEF ItemError, DbError, Working, Loading
<1>13. ASSUME ReadExisting(i) \/ InsertNew(i) \/ InsertFirstPrices(i) PROVE TidyInv(i)'
  <2>1. pc[i] \in Working \ {"list"} /\ pc'[i] \in Working \ {"list"}
        /\ UNCHANGED <<left, list>>
    BY <1>1, <1>13 DEF ReadExisting, InsertNew, InsertFirstPrices, Goto, walk, Working, Loading
  <2> QED
    BY <2>1 DEF TidyInv, Working, P, S
<1>14. ASSUME AppendPrices(i) PROVE TidyInv(i)'
  <2>1. pc[i] = "append" /\ urls'[i] = <<>> /\ todo'[i] = {} /\ batch'[i] = {}
    BY <1>1, <1>14 DEF AppendPrices, DropBatch
  <2>2. CASE P(i).paged
    <3>1. pc'[i] = "list" /\ left' = left /\ list' = list
      BY <1>1, <1>14, <2>2 DEF AppendPrices, Goto
    <3> QED
      BY <2>1, <3>1 DEF TidyInv, Working, Loading, P, S
  <2>3. CASE ~P(i).paged
    <3>1. pc'[i] \notin Working
      BY <1>2, <1>14, <2>1, <2>3, ReturnLeaves DEF AppendPrices, Working, Loading
    <3> QED
      BY <2>1, <3>1, TidyOut
  <2> QED
    BY <2>2, <2>3
<1> QED
  BY <1>4, <1>5, <1>6, <1>7, <1>8, <1>9, <1>10, <1>11, <1>12, <1>13, <1>14
     DEF Step, FetchList

LEMMA TidyKeeps ==
  ASSUME IInv, NEW i \in Job, TidyInv(i), [Next]_vars
  PROVE  TidyInv(i)'
<1>1. ASSUME NEW j \in Job, Start(j) \/ Step(j) PROVE TidyInv(i)'
  <2>1. CASE i = j
    BY <1>1, <2>1, TidyStep
  <2>2. CASE i # j
    BY <1>1, <2>2, OtherStill DEF Still, TidyInv, P, S
  <2> QED
    BY <2>1, <2>2
<1>2. CASE Crash
  <2>1. pc'[i] \notin Working
    BY <1>2 DEF Crash, Active, Working, Loading
  <2> QED
    BY <1>2, <2>1, TidyOut DEF Crash
<1>3. ASSUME NEW s \in Source, NEW c \in 1..2, NEW shown \in Lists, ChangeSite(s, c, shown)
      PROVE TidyInv(i)'
  BY <1>3 DEF ChangeSite, walk, TidyInv, P, S
<1>4. CASE UpdateRate
  BY <1>4 DEF UpdateRate, walk, TidyInv, P, S
<1>5. CASE UNCHANGED vars
  BY <1>5 DEF vars, walk, TidyInv, P, S
<1> QED
  BY <1>1, <1>2, <1>3, <1>4, <1>5 DEF Next

-----------------------------------------------------------------------------
\* A job inside parse().
LEMMA StandTypes ==
  ASSUME IInv, NEW i \in Job, TidyInv(i), pc[i] \in Working
  PROVE  /\ left[i] # <<>> /\ S(i) \in Source /\ P(i) \in PolicyType
         /\ Site(i) \in [1..2 -> Lists] /\ Site(i)[1] \in Seq(Listing)
         /\ list[i] \in 1..P(i).lists /\ list[i] \in 1..2 /\ page[i] \in Nat \ {0}
         /\ Site(i)[list[i]] \in Seq(Listing) /\ misses[i] \in Nat
         /\ Shown(i) = IF P(i).paged THEN PageOf(Site(i)[list[i]], page[i])
                       ELSE Site(i)[list[i]]
<1>1. left[i] # <<>>
  BY DEF IInv, JobInv
<1>2. S(i) \in Source /\ P(i) \in PolicyType
  BY <1>1, PolicyOf DEF IInv
<1>3. Site(i) \in [1..2 -> Lists]
  BY <1>2 DEF IInv, TypeOK, Site
<1>4. list[i] \in 1..2 /\ page[i] \in Nat \ {0} /\ misses[i] \in Nat
  BY DEF IInv, TypeOK
<1>5. list[i] \in 1..P(i).lists
  BY DEF TidyInv
<1>6. \A c \in 1..2 : Site(i)[c] \in Seq(Listing)
  BY <1>3, CrawlAssumption
<1> QED
  BY <1>1, <1>2, <1>3, <1>4, <1>5, <1>6 DEF Shown, Site

\* A list that ends is walked to its end: nothing that the loop reaches is on a
\* later page.
LEMMA ListEnds ==
  ASSUME IInv, NEW i \in Job, TidyInv(i), pc[i] \in Working, P(i).paged,
         Shown(i) = <<>> \/ (P(i).stop = "partial" /\ Len(Shown(i)) < PageSize),
         NEW item \in Reached(S(i), Site(i)), item[1] = list[i]
  PROVE  item[2] <= Before(page[i])
<1> DEFINE shown == Site(i)[list[i]]
           f == FullPages(shown)
<1>1. /\ S(i) \in Source /\ Site(i) \in [1..2 -> Lists] /\ shown \in Seq(Listing)
      /\ page[i] \in Nat \ {0} /\ Shown(i) = PageOf(shown, page[i])
  BY StandTypes
<1>2. item[2] \in 1..Len(shown) /\ (P(i).stop = "partial" => item[2] <= f * PageSize)
  <2>1. PICK c \in 1..P(i).lists : \E n \in 1..Len(Site(i)[c]) :
          item = <<c, n>> /\ Reaches(S(i), Site(i), c, n)
    BY <1>1, ReachedIs DEF P
  <2>2. PICK n \in 1..Len(Site(i)[c]) : item = <<c, n>> /\ Reaches(S(i), Site(i), c, n)
    BY <2>1
  <2>3. c = list[i] /\ item[2] = n
    BY <2>2
  <2> QED
    BY <2>2, <2>3 DEF Reaches, P
<1>3. /\ Before(page[i]) \in Nat /\ f \in Nat /\ PageSize \in Nat \ {0}
      /\ f * PageSize \in Nat /\ Len(shown) \in Nat
  <2>1. f \in Nat /\ Before(page[i]) \in Nat
    BY <1>1, FullPagesFacts, BeforeFacts
  <2> QED
    BY <1>1, <2>1, CrawlAssumption, LenProperties
<1> HIDE DEF shown, f
<1>4. CASE Shown(i) = <<>>
  <2>1. Len(shown) <= Before(page[i])
    BY <1>1, <1>4, ShortPage
  <2> QED
    BY <1>2, <1>3, <2>1
<1>5. CASE P(i).stop = "partial" /\ Len(Shown(i)) < PageSize
  <2>1. page[i] > f
    BY <1>1, <1>5, ShortPage DEF f
  <2>2. f * PageSize <= Before(page[i])
    BY <1>1, <2>1, FullPagesBefore DEF f
  <2> QED
    BY <1>2, <1>3, <1>5, <2>2
<1> QED
  BY <1>4, <1>5

\* The test that ends a list.
LEMMA StopsMeans ==
  ASSUME IInv, NEW i \in Job, TidyInv(i), pc[i] \in Working, CrawlInv(i), Stops(i)
  PROVE  /\ P(i).paged
         /\ Shown(i) = <<>> \/ (P(i).stop = "partial" /\ Len(Shown(i)) < PageSize)
         /\ P(i).stop = "partial" => Len(Shown(i)) < PageSize
<1>1. P(i).paged /\ misses[i] \in Nat /\ EmptyRetries \in Nat
  BY StandTypes, CrawlAssumption DEF Stops
<1>2. misses[i] > EmptyRetries => P(i).stop # "partial" /\ Shown(i) = <<>>
  BY <1>1 DEF CrawlInv, MissInv
<1> QED
  BY <1>1, <1>2 DEF Stops

\* The page whose items are being fetched or stored.
LEMMA LoadedPage ==
  ASSUME IInv, NEW i \in Job, TidyInv(i), Standing(i), CrawlInv(i), pc[i] # "list"
  PROVE  /\ PageLoaded(S(i), Site(i), list[i], page[i])
         /\ urls[i] = LinksOf(S(i), Site(i), list[i], page[i])
         /\ todo[i] \cup batch[i] = Chosen(S(i), urls[i])
         /\ pc[i] # "item" => batch[i] = Chosen(S(i), urls[i])
<1>1. /\ list[i] \in 1..Policy[S(i)].lists /\ list[i] \in 1..2 /\ page[i] \in Nat \ {0}
      /\ P(i) = Policy[S(i)]
  BY StandTypes DEF Standing, P
<1>2. /\ urls[i] = LinksOf(S(i), Site(i), list[i], page[i])
      /\ todo[i] \cup batch[i] = Chosen(S(i), urls[i])
      /\ pc[i] # "item" => todo[i] = {}
      /\ P(i).paged \/ (page[i] = 1 /\ list[i] = P(i).lists)
  BY DEF CrawlInv, LinksInv
<1>3. P(i).paged /\ P(i).stop = "partial" =>
        /\ list[i] = 2 => page[i] > FullPages(Site(i)[1])
        /\ page[i] <= FullPages(Site(i)[list[i]])
  BY DEF CrawlInv, PageInv
<1>4. PageLoaded(S(i), Site(i), list[i], page[i])
  BY <1>1, <1>2, <1>3 DEF PageLoaded
<1> QED
  BY <1>2, <1>4

\* What a step keeps of the items held, if it stores no price and goes to no
\* other page.
LEMMA HeldSame ==
  ASSUME NEW i \in Job, HeldInv(i), left' = left, site' = site, prices' = prices,
         list'[i] = list[i], page'[i] = page[i]
  PROVE  HeldInv(i)' /\ S(i)' = S(i) /\ P(i)' = P(i) /\ Site(i)' = Site(i)
<1>1. S(i)' = S(i) /\ P(i)' = P(i) /\ Site(i)' = Site(i)
  BY DEF S, P, Site
<1>2. PricesOf(i, S(i))' = PricesOf(i, S(i))
  BY <1>1 DEF PricesOf
<1>3. \A item : Priced(i, S(i), Site(i), item)' <=> Priced(i, S(i), Site(i), item)
  BY <1>1, <1>2 DEF Priced
<1>4. \A item : Passed(i, item)' <=> Passed(i, item)
  BY <1>1 DEF Passed
<1>5. Reached(S(i), Site(i))' = Reached(S(i), Site(i))
  BY <1>1
<1>6. \A p : Placed(p, S(i), Site(i))' <=> Placed(p, S(i), Site(i))
  BY <1>1 DEF Placed
<1> QED
  BY <1>1, <1>2, <1>3, <1>4, <1>5, <1>6 DEF HeldInv

-----------------------------------------------------------------------------
\* The steps of a crawl that skipped nothing.
LEMMA CrawlBegins ==
  ASSUME IInv, PriceInv, NEW i \in Job, TidyInv(i), BeginSource(i)
  PROVE  CrawlInv(i)'
<1>1. /\ pc \in [Job -> Label] /\ list \in [Job -> 1..2] /\ page \in [Job -> Nat \ {0}]
      /\ misses \in [Job -> Nat] /\ TypeOK
  BY DEF IInv, TypeOK
<1>2. /\ pc[i] = "next" /\ left[i] # <<>> /\ pc'[i] = "list"
      /\ list'[i] = 1 /\ page'[i] = 1 /\ misses'[i] = 0
      /\ left' = left /\ site' = site /\ prices' = prices
  BY <1>1 DEF BeginSource, Goto, env, db
<1>3. /\ S(i)' = S(i) /\ P(i)' = P(i) /\ Site(i)' = Site(i)
      /\ PricesOf(i, S(i))' = PricesOf(i, S(i))
  BY <1>2 DEF S, P, Site, PricesOf
<1>4. S(i) \in Source /\ Site(i) \in [1..2 -> Lists]
  BY <1>1, <1>2, PolicyOf DEF Site, TypeOK
<1>5. LinksInv(i)' /\ MissInv(i)' /\ NewInv(i)'
  BY <1>2 DEF LinksInv, MissInv, NewInv
<1>6. PageInv(i)'
  <2>1. FullPages(Site(i)[1]) \in Nat
    <3>1. Site(i)[1] \in Seq(Listing) /\ 1 \in Nat \ {0}
      BY <1>4, ShownTypes
    <3> QED
      BY <3>1, FullPagesFacts
  <2>2. 1 <= FullPages(Site(i)[1]) + 1
    BY <2>1
  <2>3. page'[i] <= FullPages(Site(i)[1])' + 1
    BY <1>2, <1>3, <2>2
  <2> QED
    BY <1>2, <2>3 DEF PageInv
<1>7. PricesOf(i, S(i)) = {}
  <2>1. S(i) \in Ahead(i)
    BY <1>1, <1>2, TailAhead DEF PriceInv
  <2>2. \A p \in PricesOf(i, S(i)) : Current(p) /\ p.job = i
    BY <2>1 DEF PriceInv, AheadInv, PricesOf
  <2> QED
    BY <1>2, <2>2 DEF Current, Working, Loading
<1>8. \A item \in Reached(S(i), Site(i)) : ~Passed(i, item)'
  <2> SUFFICES ASSUME NEW item \in Reached(S(i), Site(i)) PROVE ~Passed(i, item)'
    OBVIOUS
  <2>1. PICK c \in 1..Policy[S(i)].lists :
          \E n \in 1..Len(Site(i)[c]) : item = <<c, n>> /\ Reaches(S(i), Site(i), c, n)
    BY <1>4, ReachedIs
  <2>2. PICK n \in 1..Len(Site(i)[c]) : item = <<c, n>>
    BY <2>1
  <2>3. c \in 1..2 /\ Len(Site(i)[c]) \in Nat
    BY <1>4, ShownTypes
  <2>4. item[1] >= 1 /\ item[2] >= 1
    BY <2>2, <2>3
  <2>5. Before(1) = 0
    BY BeforeFacts
  <2> QED
    BY <1>2, <2>2, <2>3, <2>4, <2>5 DEF Passed
<1>9. HeldInv(i)'
  BY <1>3, <1>7, <1>8 DEF HeldInv
<1> QED
  BY <1>5, <1>6, <1>9 DEF CrawlInv

\* The second list is walked from the page where the first one ended.
LEMMA NextListBegins ==
  ASSUME IInv, NEW i \in Job, TidyInv(i), Standing(i), CrawlInv(i), EndList(i),
         list[i] < P(i).lists
  PROVE  CrawlInv(i)'
<1>1. /\ pc[i] = "list" /\ pc' = pc /\ left' = left /\ page' = page /\ misses' = misses
      /\ site' = site /\ prices' = prices /\ Stops(i)
  BY DEF EndList, env, db
<1>2. /\ pc[i] \in Working /\ left[i] # <<>> /\ S(i) \in Source /\ P(i) \in PolicyType
      /\ Site(i) \in [1..2 -> Lists] /\ Site(i)[1] \in Seq(Listing)
      /\ list[i] \in 1..2 /\ page[i] \in Nat \ {0} /\ list \in [Job -> 1..2]
      /\ Shown(i) = IF P(i).paged THEN PageOf(Site(i)[list[i]], page[i])
                    ELSE Site(i)[list[i]]
  BY StandTypes DEF Standing, IInv, TypeOK
<1>3. P(i).lists \in {1, 2}
  BY <1>2 DEF PolicyType
<1>4. list[i] = 1 /\ P(i).lists = 2
  BY <1>2, <1>3
<1>5. list'[i] = 2
  <2>1. list'[i] = list[i] + 1
    BY <1>2 DEF EndList
  <2> QED
    BY <1>4, <2>1
<1>6. S(i)' = S(i) /\ P(i)' = P(i) /\ Site(i)' = Site(i)
  BY <1>1 DEF S, P, Site
<1>7. P(i).paged /\ Len(Shown(i)) < PageSize /\ P(i).stop = "partial"
  <2>1. P(i).paged
    BY DEF EndList, Stops
  <2>2. P(i).stop = "partial"
    BY <1>2, <1>4, <2>1, PoliciesAssumption DEF P
  <2> QED
    BY <1>1, <1>2, <2>1, <2>2, StopsMeans
<1> DEFINE f == FullPages(Site(i)[1])
<1>8. page[i] > f /\ page[i] <= f + 1 /\ f \in Nat
  <2>1. page[i] > f
    BY <1>2, <1>4, <1>7, ShortPage
  <2>2. page[i] <= f + 1
    BY <1>4, <1>7 DEF CrawlInv, PageInv
  <2> QED
    BY <1>2, <2>1, <2>2, FullPagesFacts
<1>9. misses[i] = 0
  BY <1>7 DEF CrawlInv, MissInv
<1>10. LinksInv(i)' /\ MissInv(i)' /\ NewInv(i)'
  BY <1>1, <1>6, <1>7, <1>9 DEF LinksInv, MissInv, NewInv
<1>11. PageInv(i)'
  BY <1>1, <1>5, <1>6, <1>8 DEF PageInv
<1>12. \A item \in Reached(S(i), Site(i)) : Passed(i, item)' => Passed(i, item)
  <2> SUFFICES ASSUME NEW item \in Reached(S(i), Site(i)), Passed(i, item)'
               PROVE  Passed(i, item)
    OBVIOUS
  <2>1. item[1] < 2 \/ (item[1] = 2 /\ item[2] <= Before(page[i]))
    BY <1>1, <1>5 DEF Passed
  <2>2. PICK c \in 1..2 :
          \E n \in 1..Len(Site(i)[c]) : item = <<c, n>> /\ Reaches(S(i), Site(i), c, n)
    BY <1>2, <1>4, ReachedIs DEF P
  <2>3. PICK n \in 1..Len(Site(i)[c]) : item = <<c, n>> /\ Reaches(S(i), Site(i), c, n)
    BY <2>2
  <2>4. item[1] = c /\ item[2] = n
    BY <2>3
  <2>5. c = 2 => n > f * PageSize
    BY <1>7, <2>3 DEF Reaches, P
  <2>6. Before(page[i]) <= f * PageSize
    BY <1>2, <1>8, FullPagesBefore
  <2>7. n \in Nat /\ Before(page[i]) \in Nat /\ f * PageSize \in Nat
    <3>1. Len(Site(i)[c]) \in Nat /\ PageSize \in Nat
      BY <1>2, ShownTypes, CrawlAssumption
    <3>2. Before(page[i]) \in Nat
      BY <1>2, BeforeFacts
    <3> QED
      BY <1>8, <2>3, <3>1, <3>2
  <2> HIDE DEF f
  <2>8. c = 1
    BY <2>1, <2>4, <2>5, <2>6, <2>7
  <2>9. item[2] <= Before(page[i])
    BY <1>2, <1>4, <1>7, <2>4, <2>8, ListEnds
  <2> QED
    BY <1>4, <1>7, <2>4, <2>8, <2>9 DEF Passed
<1>13. HeldInv(i)'
  <2>1. PricesOf(i, S(i))' = PricesOf(i, S(i))
    BY <1>1, <1>6 DEF PricesOf
  <2>2. \A item : Priced(i, S(i), Site(i), item)' <=> Priced(i, S(i), Site(i), item)
    BY <1>6, <2>1 DEF Priced
  <2>3. Reached(S(i), Site(i))' = Reached(S(i), Site(i))
    BY <1>6
  <2>4. \A p : Placed(p, S(i), Site(i))' <=> Placed(p, S(i), Site(i))
    BY <1>6 DEF Placed
  <2> QED
    BY <1>12, <2>1, <2>2, <2>3, <2>4 DEF CrawlInv, HeldInv
<1> QED
  BY <1>10, <1>11, <1>13 DEF CrawlInv

LEMMA RetryCounts ==
  ASSUME IInv, NEW i \in Job, TidyInv(i), Standing(i), CrawlInv(i), RetryList(i)
  PROVE  CrawlInv(i)'
<1>1. /\ pc[i] = "list" /\ Retries(i)
      /\ UNCHANGED <<site, prices, pc, left, list, page, urls, todo, batch, fresh>>
  BY DEF RetryList, env, db, load
<1>2. HeldInv(i)' /\ S(i)' = S(i) /\ P(i)' = P(i) /\ Site(i)' = Site(i)
  BY <1>1, HeldSame DEF CrawlInv
<1>3. LinksInv(i)' /\ PageInv(i)' /\ NewInv(i)'
  BY <1>1, <1>2 DEF CrawlInv, LinksInv, PageInv, NewInv
<1>4. MissInv(i)'
  <2>1. PageSize \in Nat \ {0} /\ Len(<<>>) = 0
    BY CrawlAssumption
  <2>2. P(i).retries /\ ~FrontPage(i) /\ Shown(i) = <<>> /\ ~Stops(i)
    BY <1>1 DEF Retries
  <2>3. P(i).paged => P(i).stop # "partial"
    BY <2>1, <2>2 DEF Stops
  <2>4. Shown(i)' = Shown(i) /\ FrontPage(i)' = FrontPage(i)
    BY <1>1, <1>2 DEF Shown, FrontPage
  <2> QED
    BY <1>1, <1>2, <2>2, <2>3, <2>4 DEF MissInv
<1> QED
  BY <1>2, <1>3, <1>4 DEF CrawlInv

LEMMA CollectTakesFirst ==
  ASSUME IInv, NEW i \in Job, TidyInv(i), Standing(i), CrawlInv(i), CollectList(i)
  PROVE  CrawlInv(i)'
<1>1. /\ pc[i] = "list" /\ ~P(i).paged /\ list[i] < P(i).lists
      /\ urls' = [urls EXCEPT ![i] = urls[i] \o Shown(i)]
      /\ list' = [list EXCEPT ![i] = list[i] + 1]
      /\ UNCHANGED <<site, prices, pc, left, page, misses, todo, batch, fresh>>
  BY DEF CollectList, env, db, load
<1>2. /\ list[i] \in 1..2 /\ P(i) \in PolicyType /\ Site(i)[list[i]] \in Seq(Listing)
      /\ Shown(i) = Site(i)[list[i]]
      /\ list \in [Job -> 1..2] /\ urls \in [Job -> Seq(Listing)]
  BY <1>1, StandTypes DEF Standing, IInv, TypeOK
<1>3. S(i)' = S(i) /\ P(i)' = P(i) /\ Site(i)' = Site(i)
  BY <1>1 DEF S, P, Site
<1>4. list[i] = 1 /\ list'[i] = 2
  <2>1. P(i).lists \in {1, 2}
    BY <1>2 DEF PolicyType
  <2>2. list[i] = 1
    BY <1>1, <1>2, <2>1
  <2> QED
    BY <1>1, <1>2, <2>2
<1>5. urls'[i] = Site(i)[1]
  <2>1. urls[i] = <<>>
    BY <1>1, <1>4 DEF TidyInv
  <2>2. <<>> \o Site(i)[1] = Site(i)[1]
    BY <1>2, <1>4, ConcatEmptySeq
  <2> QED
    BY <1>1, <1>2, <1>4, <2>1, <2>2
<1>6. LinksInv(i)' /\ PageInv(i)' /\ MissInv(i)' /\ NewInv(i)'
  BY <1>1, <1>3, <1>5 DEF CrawlInv, LinksInv, PageInv, MissInv, NewInv
<1>7. HeldInv(i)'
  <2>1. PricesOf(i, S(i))' = PricesOf(i, S(i))
    BY <1>1, <1>3 DEF PricesOf
  <2>2. \A item : ~Passed(i, item)'
    BY <1>1, <1>3 DEF Passed
  <2>3. \A p : Placed(p, S(i), Site(i))' <=> Placed(p, S(i), Site(i))
    BY <1>3 DEF Placed
  <2> QED
    BY <2>1, <2>2, <2>3 DEF CrawlInv, HeldInv
<1> QED
  BY <1>6, <1>7 DEF CrawlInv

LEMMA TakeFillsBatch ==
  ASSUME IInv, NEW i \in Job, TidyInv(i), Standing(i), CrawlInv(i), TakeList(i)
  PROVE  CrawlInv(i)'
<1> DEFINE links == urls[i] \o Shown(i)
<1>1. /\ pc[i] = "list" /\ ~Stops(i) /\ ~Retries(i)
      /\ P(i).paged \/ list[i] = P(i).lists
      /\ urls' = [urls EXCEPT ![i] = links]
      /\ todo' = [todo EXCEPT ![i] = Links(i, links)]
      /\ Goto(i, IF links = <<>> THEN "read" ELSE "item")
      /\ UNCHANGED <<site, prices, left, list, page, misses, batch, fresh>>
  BY DEF TakeList, env, db, walk, load
<1>2. /\ pc[i] \in Working /\ S(i) \in Source /\ P(i) \in PolicyType
      /\ Site(i) \in [1..2 -> Lists] /\ Site(i)[1] \in Seq(Listing)
      /\ list[i] \in 1..2 /\ page[i] \in Nat \ {0} /\ list[i] \in 1..P(i).lists
      /\ Site(i)[list[i]] \in Seq(Listing) /\ misses[i] \in Nat
      /\ Shown(i) = IF P(i).paged THEN PageOf(Site(i)[list[i]], page[i])
                    ELSE Site(i)[list[i]]
  BY StandTypes DEF Standing
<1>3. /\ urls \in [Job -> Seq(Listing)] /\ todo \in [Job -> SUBSET Nat]
      /\ pc \in [Job -> Label] /\ Shown(i) \in Seq(Listing)
  <2>1. left[i] # <<>>
    BY <1>1, <1>2, StandTypes
  <2>2. Shown(i) \in Seq(Listing)
    BY <2>1, ShownType DEF IInv
  <2> QED
    BY <2>2 DEF IInv, TypeOK
<1>4. urls'[i] = links /\ todo'[i] = Links(i, links)
  BY <1>1, <1>3
<1>5. pc'[i] \in {"read", "item"} /\ (pc'[i] = "read" <=> links = <<>>)
  BY <1>1, <1>3 DEF Goto
<1>6. HeldInv(i)' /\ S(i)' = S(i) /\ P(i)' = P(i) /\ Site(i)' = Site(i)
  BY <1>1, HeldSame DEF CrawlInv
<1>7. links = LinksOf(S(i), Site(i), list[i], page[i])
  <2>1. <<>> \o Shown(i) = Shown(i)
    BY <1>3, ConcatEmptySeq
  <2>2. CASE P(i).paged
    BY <1>1, <1>2, <2>1, <2>2 DEF TidyInv, LinksOf, P
  <2>3. CASE ~P(i).paged /\ list[i] = 1
    BY <1>1, <1>2, <2>1, <2>3 DEF TidyInv, LinksOf, P
  <2>4. CASE ~P(i).paged /\ list[i] = 2
    BY <1>1, <1>2, <2>4 DEF CrawlInv, LinksInv, LinksOf, P
  <2>5. list[i] = 1 \/ list[i] = 2
    BY <1>2
  <2> QED
    BY <2>2, <2>3, <2>4, <2>5
<1>8. Links(i, links) = Chosen(S(i), links)
  BY DEF Links, Chosen, P
<1>9. batch[i] = {} /\ (links = <<>> => Links(i, links) = {})
  BY <1>1 DEF TidyInv, Working, Links
<1> HIDE DEF links
<1>10. LinksInv(i)'
  <2>1. /\ urls'[i] = LinksOf(S(i), Site(i), list[i], page[i])'
        /\ Chosen(S(i), urls[i])' = Links(i, links)
    BY <1>1, <1>4, <1>6, <1>7, <1>8
  <2>2. ~P(i).paged => page[i] = 1
    BY DEF CrawlInv, LinksInv
  <2> QED
    BY <1>1, <1>4, <1>5, <1>6, <1>9, <2>1, <2>2 DEF LinksInv
<1>11. PageInv(i)'
  <2> SUFFICES ASSUME P(i).paged, P(i).stop = "partial"
               PROVE  page[i] <= FullPages(Site(i)[list[i]])
    BY <1>1, <1>5, <1>6 DEF CrawlInv, PageInv
  <2>1. ~FrontPage(i)
    BY <1>2, PoliciesAssumption DEF FrontPage, P
  <2>2. ~(Len(Shown(i)) < PageSize)
    BY <1>1, <2>1 DEF Stops
  <2>3. ~(page[i] > FullPages(Site(i)[list[i]]))
    BY <1>2, <2>2, ShortPage
  <2> QED
    BY <1>2, <2>3, FullPagesFacts
<1>12. MissInv(i)'
  <2>1. P(i).paged => misses[i] = 0
    BY <1>1 DEF CrawlInv, MissInv, Retries
  <2> QED
    BY <1>1, <1>6, <2>1 DEF MissInv
<1>13. NewInv(i)'
  BY <1>5 DEF NewInv
<1> QED
  BY <1>6, <1>10, <1>11, <1>12, <1>13 DEF CrawlInv

\* Inside a batch: the page, its links and the items chosen stay as they are.
LEMMA BatchGoesOn ==
  ASSUME IInv, NEW i \in Job, TidyInv(i), Standing(i), CrawlInv(i),
         pc[i] # "list", pc'[i] # "list",
         UNCHANGED <<site, prices, left, list, page, misses, urls>>,
         todo'[i] \cup batch'[i] = todo[i] \cup batch[i],
         pc'[i] # "item" => todo'[i] = {}
  PROVE  LinksInv(i)' /\ PageInv(i)' /\ MissInv(i)' /\ HeldInv(i)'
<1>1. HeldInv(i)' /\ S(i)' = S(i) /\ P(i)' = P(i) /\ Site(i)' = Site(i)
  BY HeldSame DEF CrawlInv
<1>2. LinksInv(i)'
  <2>1. /\ LinksOf(S(i), Site(i), list[i], page[i])' = LinksOf(S(i), Site(i), list[i], page[i])
        /\ Chosen(S(i), urls[i])' = Chosen(S(i), urls[i])
    BY <1>1
  <2> QED
    BY <1>1, <2>1 DEF CrawlInv, LinksInv
<1>3. PageInv(i)'
  BY <1>1 DEF CrawlInv, PageInv
<1>4. MissInv(i)'
  BY <1>1 DEF CrawlInv, MissInv
<1> QED
  BY <1>1, <1>2, <1>3, <1>4

LEMMA FetchMovesItem ==
  ASSUME IInv, NEW i \in Job, TidyInv(i), Standing(i), CrawlInv(i),
         NEW k \in todo[i], FetchItem(i, k)
  PROVE  CrawlInv(i)'
<1>1. /\ pc[i] = "item" /\ todo' = [todo EXCEPT ![i] = todo[i] \ {k}]
      /\ batch' = [batch EXCEPT ![i] = batch[i] \cup {k}]
      /\ Goto(i, IF todo[i] = {k} THEN "read" ELSE "item")
      /\ UNCHANGED <<site, prices, left, list, page, misses, urls>>
  BY DEF FetchItem, NextItem, env, db, walk
<1>2. /\ pc \in [Job -> Label] /\ todo \in [Job -> SUBSET Nat]
      /\ batch \in [Job -> SUBSET Nat]
  BY DEF IInv, TypeOK
<1>3. /\ pc'[i] \in {"read", "item"} /\ (pc'[i] = "read" => todo[i] = {k})
      /\ todo'[i] = todo[i] \ {k} /\ batch'[i] = batch[i] \cup {k}
  BY <1>1, <1>2 DEF Goto
<1>4. todo'[i] \cup batch'[i] = todo[i] \cup batch[i]
  BY <1>3
<1>5. LinksInv(i)' /\ PageInv(i)' /\ MissInv(i)' /\ HeldInv(i)'
  BY <1>1, <1>3, <1>4, BatchGoesOn
<1>6. NewInv(i)'
  BY <1>3 DEF NewInv
<1> QED
  BY <1>5, <1>6 DEF CrawlInv

LEMMA ReadStarts ==
  ASSUME IInv, NEW i \in Job, TidyInv(i), Standing(i), CrawlInv(i), ReadExisting(i)
  PROVE  CrawlInv(i)'
<1>1. /\ pc[i] = "read" /\ pc'[i] = "insert"
      /\ UNCHANGED <<site, prices, left, list, page, misses, urls, todo, batch>>
  BY DEF ReadExisting, Goto, env, db, walk, IInv, TypeOK
<1>2. todo[i] = {}
  BY <1>1 DEF CrawlInv, LinksInv
<1>3. LinksInv(i)' /\ PageInv(i)' /\ MissInv(i)' /\ HeldInv(i)'
  BY <1>1, <1>2, BatchGoesOn
<1> QED
  BY <1>1, <1>3 DEF CrawlInv, NewInv

LEMMA InsertMakesFresh ==
  ASSUME IInv, NEW i \in Job, TidyInv(i), Standing(i), CrawlInv(i), InsertNew(i)
  PROVE  CrawlInv(i)'
<1>1. /\ pc[i] = "insert"
      /\ fresh' = [fresh EXCEPT ![i] = {Row(i, k) : k \in New(i)}]
      /\ Goto(i, IF New(i) = {} THEN "append" ELSE "firstPrices")
      /\ UNCHANGED <<site, prices, left, list, page, misses, urls, todo, batch, known>>
  BY DEF InsertNew, env, walk
<1>2. /\ pc \in [Job -> Label] /\ fresh \in [Job -> SUBSET RowType]
      /\ todo[i] = {}
  BY <1>1 DEF IInv, TypeOK, CrawlInv, LinksInv
<1>3. /\ pc'[i] \in {"append", "firstPrices"} /\ (pc'[i] = "append" => New(i) = {})
      /\ fresh'[i] = {Row(i, k) : k \in New(i)}
  BY <1>1, <1>2 DEF Goto
<1>4. LinksInv(i)' /\ PageInv(i)' /\ MissInv(i)' /\ HeldInv(i)'
  BY <1>1, <1>2, <1>3, BatchGoesOn
<1>5. New(i)' = New(i)
  BY <1>1, SameNew
<1>6. \A k \in New(i) : Row(i, k) \in fresh'[i] /\ Row(i, k).pos = k
  BY <1>3 DEF Row
<1>7. NewInv(i)'
  BY <1>3, <1>5, <1>6 DEF NewInv
<1> QED
  BY <1>4, <1>7 DEF CrawlInv

\* A price stored for an item of the batch is placed.
LEMMA BatchPrice ==
  ASSUME IInv, NEW i \in Job, TidyInv(i), Standing(i), CrawlInv(i), pc[i] \in Loading,
         NEW k \in batch[i], NEW r
  PROVE  /\ Price(i, k, r).job = i /\ Price(i, k, r).source = S(i)
         /\ Price(i, k, r).page = page[i] /\ Price(i, k, r).pos = k
         /\ Placed(Price(i, k, r), S(i), Site(i))
<1> DEFINE p == Price(i, k, r)
           item == ItemOf(S(i), Site(i), page[i], k)
<1>1. /\ p.job = i /\ p.source = S(i) /\ p.page = page[i] /\ p.pos = k
      /\ p.listing = urls[i][k]
  BY DEF Price
<1>2. /\ S(i) \in Source /\ Site(i) \in [1..2 -> Lists] /\ page[i] \in Nat \ {0}
  BY StandTypes DEF Standing
<1>3. /\ PageLoaded(S(i), Site(i), list[i], page[i])
      /\ urls[i] = LinksOf(S(i), Site(i), list[i], page[i])
      /\ k \in Chosen(S(i), urls[i])
  BY LoadedPage DEF Loading
<1>4. /\ item \in Reached(S(i), Site(i))
      /\ Site(i)[item[1]][item[2]] = urls[i][k]
      /\ Policy[S(i)].paged => k \in 1..PageSize
  BY <1>2, <1>3, PageItems
<1>5. ~Policy[S(i)].paged => page[i] = 1
  BY DEF CrawlInv, LinksInv, P
<1> HIDE DEF p
<1>6. Placed(p, S(i), Site(i))
  BY <1>1, <1>2, <1>4, <1>5 DEF Placed
<1> QED
  BY <1>1, <1>6 DEF p

LEMMA InsertPricesFresh ==
  ASSUME IInv, PriceInv, NEW i \in Job, TidyInv(i), Standing(i), CrawlInv(i),
         InsertFirstPrices(i)
  PROVE  CrawlInv(i)'
<1> DEFINE s == S(i)
           sh == Site(i)
<1>1. /\ pc[i] = "firstPrices" /\ pc'[i] = "append"
      /\ prices' = prices \cup {Price(i, r.pos, r) : r \in fresh[i]}
      /\ UNCHANGED <<site, left, list, page, misses, urls, todo, batch, known>>
  BY DEF InsertFirstPrices, Goto, env, walk, load, IInv, TypeOK
<1>2. /\ S(i)' = S(i) /\ P(i)' = P(i) /\ Site(i)' = Site(i)
  BY <1>1 DEF S, P, Site
<1>3. todo[i] = {}
  BY <1>1 DEF CrawlInv, LinksInv
<1>4. LinksInv(i)'
  <2>1. /\ LinksOf(S(i), Site(i), list[i], page[i])' = LinksOf(S(i), Site(i), list[i], page[i])
        /\ Chosen(S(i), urls[i])' = Chosen(S(i), urls[i])
    BY <1>1, <1>2
  <2> QED
    BY <1>1, <1>2, <1>3, <2>1 DEF CrawlInv, LinksInv
<1>5. PageInv(i)' /\ MissInv(i)'
  BY <1>1, <1>2 DEF CrawlInv, PageInv, MissInv
<1>6. \A r \in fresh[i] : LET p == Price(i, r.pos, r) IN
        /\ p \in prices' /\ p.job = i /\ p.source = S(i)
        /\ p.page = page[i] /\ p.pos = r.pos /\ Placed(p, S(i), Site(i))
  <2> SUFFICES ASSUME NEW r \in fresh[i]
               PROVE  LET p == Price(i, r.pos, r) IN
                      /\ p \in prices' /\ p.job = i /\ p.source = S(i)
                      /\ p.page = page[i] /\ p.pos = r.pos /\ Placed(p, S(i), Site(i))
    OBVIOUS
  <2>1. r.pos \in batch[i]
    BY <1>1 DEF PriceInv, FreshOnce, New
  <2> QED
    BY <1>1, <2>1, BatchPrice DEF Loading
<1>7. \A p \in PricesOf(i, S(i))' : Placed(p, S(i), Site(i))
  <2> SUFFICES ASSUME NEW p \in prices', p.job = i, p.source = S(i)
               PROVE  Placed(p, S(i), Site(i))
    BY <1>2 DEF PricesOf
  <2>1. CASE p \in prices
    BY <2>1 DEF CrawlInv, HeldInv, PricesOf
  <2>2. CASE \E r \in fresh[i] : p = Price(i, r.pos, r)
    BY <1>6, <2>2
  <2> QED
    BY <1>1, <2>1, <2>2
<1>8. \A item \in Reached(S(i), Site(i)) :
        Passed(i, item)' => Priced(i, S(i), Site(i), item)'
  <2>1. PricesOf(i, S(i)) \subseteq PricesOf(i, S(i))'
    BY <1>1, <1>2 DEF PricesOf
  <2>2. \A item : Passed(i, item)' <=> Passed(i, item)
    BY <1>1, <1>2 DEF Passed
  <2>3. \A item : Priced(i, S(i), Site(i), item) => Priced(i, S(i), Site(i), item)'
    BY <1>2, <2>1 DEF Priced
  <2> QED
    BY <2>2, <2>3 DEF CrawlInv, HeldInv
<1>9. HeldInv(i)'
  <2>1. Reached(S(i), Site(i))' = Reached(S(i), Site(i))
    BY <1>2
  <2>2. \A p : Placed(p, S(i), Site(i))' <=> Placed(p, S(i), Site(i))
    BY <1>2 DEF Placed
  <2> QED
    BY <1>7, <1>8, <2>1, <2>2 DEF HeldInv
<1>10. NewInv(i)'
  <2>1. New(i)' = New(i)
    BY <1>1, SameNew
  <2> SUFFICES ASSUME NEW k \in New(i)
               PROVE  \E p \in PricesOf(i, S(i))' : p.page = page[i] /\ p.pos = k
    BY <1>1, <2>1 DEF NewInv
  <2>2. PICK r \in fresh[i] : r.pos = k
    BY <1>1 DEF CrawlInv, NewInv
  <2>3. Price(i, r.pos, r) \in PricesOf(i, S(i))'
    BY <1>2, <1>6 DEF PricesOf
  <2> QED
    BY <1>6, <2>2, <2>3
<1> QED
  BY <1>4, <1>5, <1>9, <1>10 DEF CrawlInv

\* With the append, the whole page is stored.
LEMMA AppendStoresPage ==
  ASSUME IInv, NEW i \in Job, TidyInv(i), Standing(i), CrawlInv(i), AppendPrices(i),
         NEW s, s = S(i), NEW sh, sh = Site(i)
  PROVE  /\ \A p \in PricesOf(i, s)' : Placed(p, s, sh)
         /\ \A item \in Reached(s, sh) :
              \/ Passed(i, item)
              \/ P(i).paged => /\ item[1] = list[i] /\ Before(page[i]) < item[2]
                               /\ item[2] <= Before(page[i]) + PageSize
              => Priced(i, s, sh, item)'
<1> DEFINE added == {n \in batch[i] \X known[i] : ExternalId(n[2]) = urls[i][n[1]]}
<1>1. /\ pc[i] = "append"
      /\ prices' = prices \cup {Price(i, m[1], m[2]) : m \in added}
  BY DEF AppendPrices
<1>2. \A k \in batch[i] : \A r : LET p == Price(i, k, r) IN
        /\ p.job = i /\ p.source = s /\ p.page = page[i] /\ p.pos = k
        /\ Placed(p, s, sh)
  BY <1>1, BatchPrice DEF Loading
<1>3. \A p \in PricesOf(i, s)' : Placed(p, s, sh)
  <2> SUFFICES ASSUME NEW p \in prices', p.job = i, p.source = s PROVE Placed(p, s, sh)
    BY DEF PricesOf
  <2>1. CASE p \in prices
    BY <2>1 DEF CrawlInv, HeldInv, PricesOf
  <2>2. CASE p \notin prices
    <3>1. PICK m \in added : p = Price(i, m[1], m[2])
      BY <1>1, <2>2
    <3>2. m[1] \in batch[i]
      OBVIOUS
    <3> QED
      BY <1>2, <3>1, <3>2
  <2> QED
    BY <2>1, <2>2
<1>4. PricesOf(i, s) \subseteq PricesOf(i, s)'
  BY <1>1 DEF PricesOf
<1>5. ASSUME NEW item \in Reached(s, sh), Passed(i, item) PROVE Priced(i, s, sh, item)'
  <2>1. Priced(i, s, sh, item)
    BY <1>5 DEF CrawlInv, HeldInv
  <2> QED
    BY <1>4, <2>1 DEF Priced
<1>6. ASSUME NEW item \in Reached(s, sh),
             P(i).paged => /\ item[1] = list[i] /\ Before(page[i]) < item[2]
                           /\ item[2] <= Before(page[i]) + PageSize
      PROVE  Priced(i, s, sh, item)'
  <2>1. /\ PageLoaded(s, sh, list[i], page[i])
        /\ urls[i] = LinksOf(s, sh, list[i], page[i])
        /\ batch[i] = Chosen(s, urls[i])
    BY <1>1, LoadedPage
  <2>2. s \in Source /\ sh \in [1..2 -> Lists]
    BY StandTypes DEF Standing
  <2>3. PICK k \in batch[i] : ItemOf(s, sh, page[i], k) = item
    BY <1>6, <2>1, <2>2, ReachedOnPage DEF P
  <2>4. \E p \in PricesOf(i, s)' : p.page = page[i] /\ p.pos = k
    <3>1. CASE k \in New(i)
      BY <1>1, <1>4, <3>1 DEF CrawlInv, NewInv
    <3>2. CASE k \notin New(i)
      <4>1. PICK r \in known[i] : ExternalId(r) = urls[i][k]
        BY <3>2 DEF New
      <4>2. <<k, r>> \in added
        BY <4>1
      <4>3. Price(i, k, r) \in prices'
        BY <1>1, <4>2
      <4>4. Price(i, k, r) \in PricesOf(i, s)'
        BY <1>2, <4>3 DEF PricesOf
      <4> QED
        BY <1>2, <4>4
    <3> QED
      BY <3>1, <3>2
  <2> QED
    BY <2>3, <2>4 DEF Priced
<1> QED
  BY <1>3, <1>5, <1>6

LEMMA AppendTurnsPage ==
  ASSUME IInv, NEW i \in Job, TidyInv(i), Standing(i), CrawlInv(i), AppendPrices(i),
         P(i).paged
  PROVE  CrawlInv(i)'
<1>1. /\ pc[i] = "append" /\ pc'[i] = "list" /\ page'[i] = page[i] + 1
      /\ UNCHANGED <<site, left, list, misses>>
  BY DEF AppendPrices, Goto, env, IInv, TypeOK
<1>2. /\ S(i)' = S(i) /\ P(i)' = P(i) /\ Site(i)' = Site(i)
  BY <1>1 DEF S, P, Site
<1>3. /\ S(i) \in Source /\ Site(i) \in [1..2 -> Lists] /\ page[i] \in Nat \ {0}
      /\ list[i] \in 1..2
  BY StandTypes DEF Standing
<1>4. LinksInv(i)' /\ NewInv(i)'
  BY <1>1, <1>2 DEF LinksInv, NewInv
<1>5. MissInv(i)'
  BY <1>1, <1>2 DEF CrawlInv, MissInv
<1>6. PageInv(i)'
  <2> DEFINE f == FullPages(Site(i)[1])
  <2> SUFFICES ASSUME P(i).stop = "partial"
               PROVE  /\ list[i] = 1 => page[i] + 1 <= f + 1
                      /\ list[i] = 2 => page[i] + 1 > f
    BY <1>1, <1>2 DEF PageInv
  <2>1. /\ list[i] = 2 => page[i] > f
        /\ list[i] = 1 => page[i] <= f
    BY <1>1 DEF CrawlInv, PageInv
  <2>2. f \in Nat
    <3>1. Site(i)[1] \in Seq(Listing)
      BY <1>3, ShownTypes
    <3> QED
      BY <1>3, <3>1, FullPagesFacts
  <2> HIDE DEF f
  <2> QED
    BY <1>3, <2>1, <2>2
<1>7. HeldInv(i)'
  <2>1. \A p \in PricesOf(i, S(i))' : Placed(p, S(i), Site(i))
    BY <1>2, AppendStoresPage
  <2>2. ASSUME NEW item \in Reached(S(i), Site(i)), Passed(i, item)'
        PROVE  Priced(i, S(i), Site(i), item)'
    <3>1. item[1] < list[i] \/ (item[1] = list[i] /\ item[2] <= Before(page[i] + 1))
      BY <1>1, <2>2 DEF Passed
    <3>2. Before(page[i] + 1) = Before(page[i]) + PageSize /\ Before(page[i]) \in Nat
      BY <1>3, BeforeFacts
    <3>3. item[2] \in Nat
      <4>1. PICK c \in 1..Policy[S(i)].lists : \E n \in 1..Len(Site(i)[c]) : item = <<c, n>>
        BY <1>3, ReachedIs
      <4> QED
        BY <4>1
    <3>4. \/ Passed(i, item)
          \/ /\ item[1] = list[i] /\ Before(page[i]) < item[2]
             /\ item[2] <= Before(page[i]) + PageSize
      BY <3>1, <3>2, <3>3 DEF Passed
    <3> QED
      BY <1>2, <3>4, AppendStoresPage
  <2>3. Reached(S(i), Site(i))' = Reached(S(i), Site(i))
    BY <1>2
  <2>4. \A p : Placed(p, S(i), Site(i))' <=> Placed(p, S(i), Site(i))
    BY <1>2 DEF Placed
  <2> QED
    BY <2>1, <2>2, <2>3, <2>4 DEF HeldInv
<1> QED
  BY <1>4, <1>5, <1>6, <1>7 DEF CrawlInv

LEMMA CrawlStep ==
  ASSUME IInv, PriceInv, NEW i \in Job, TidyInv(i), Standing(i) => CrawlInv(i),
         Start(i) \/ Step(i), Standing(i)'
  PROVE  CrawlInv(i)'
<1>1. pc \in [Job -> Label] /\ clean \in [Job -> BOOLEAN]
  BY DEF IInv, TypeOK
<1>2. pc[i] \in Working => left[i] # <<>>
  BY DEF IInv, JobInv
<1>3. pc'[i] \in Working /\ clean'[i]
  BY DEF Standing
<1>4. ASSUME pc[i] \in Working, clean' = clean PROVE Standing(i) /\ CrawlInv(i)
  BY <1>3, <1>4 DEF Standing
<1>5. ~Start(i) /\ ~Finish(i)
  BY <1>1, <1>3 DEF Start, Finish, Goto, Working, Loading
<1>6. ASSUME Throw(i), left[i] # <<>> PROVE FALSE
  BY <1>3, <1>6, ThrowLeaves DEF Leaves
<1>7. ASSUME NEW sure, ReturnOk(i, sure), pc[i] \in Working PROVE FALSE
  BY <1>2, <1>3, <1>7, ReturnLeaves
<1>8. CASE BeginSource(i)
  BY <1>8, CrawlBegins
<1>9. CASE EndList(i)
  <2>1. pc[i] \in Working /\ list[i] < P(i).lists /\ clean' = clean
    BY <1>7, <1>9 DEF EndList, Working, hist
  <2> QED
    BY <1>4, <1>9, <2>1, NextListBegins
<1>10. CASE RetryList(i) \/ CollectList(i) \/ TakeList(i)
  <2>1. pc[i] \in Working /\ clean' = clean
    BY <1>10 DEF RetryList, CollectList, TakeList, Working, hist
  <2> QED
    BY <1>4, <1>10, <2>1, RetryCounts, CollectTakesFirst, TakeFillsBatch
<1>11. CASE ListError(i)
  BY <1>2, <1>6, <1>7, <1>11 DEF ListError, Working
<1>12. ASSUME NEW k \in todo[i], FetchItem(i, k) PROVE CrawlInv(i)'
  <2>1. pc[i] \in Working /\ clean' = clean
    BY <1>12 DEF FetchItem, NextItem, Working, hist
  <2> QED
    BY <1>4, <1>12, <2>1, FetchMovesItem
<1>13. ASSUME NEW k \in todo[i], SkipItem(i, k) PROVE FALSE
  BY <1>1, <1>3, <1>13 DEF SkipItem
<1>14. CASE ItemError(i) \/ DbError(i)
  BY <1>2, <1>6, <1>14 DEF ItemError, DbError, Working, Loading
<1>15. CASE ReadExisting(i) \/ InsertNew(i) \/ InsertFirstPrices(i)
  <2>1. pc[i] \in Working /\ clean' = clean
    BY <1>15 DEF ReadExisting, InsertNew, InsertFirstPrices, Working, Loading, hist
  <2> QED
    BY <1>4, <1>15, <2>1, ReadStarts, InsertMakesFresh, InsertPricesFresh
<1>16. CASE AppendPrices(i)
  <2>1. pc[i] \in Working
    BY <1>16 DEF AppendPrices, Working, Loading
  <2>2. P(i).paged /\ clean' = clean
    BY <1>7, <1>16, <2>1 DEF AppendPrices, hist
  <2> QED
    BY <1>4, <1>16, <2>1, <2>2, AppendTurnsPage
<1> QED
  BY <1>5, <1>8, <1>9, <1>10, <1>11, <1>12, <1>13, <1>14, <1>15, <1>16 DEF Step, FetchList

LEMMA StandingKeeps ==
  ASSUME IInv, PriceInv, NEW i \in Job, TidyInv(i), Standing(i) => CrawlInv(i),
         [Next]_vars, Standing(i)'
  PROVE  CrawlInv(i)'
<1>1. ASSUME Still(i), site'[S(i)] = site[S(i)] PROVE CrawlInv(i)'
  <2>1. Standing(i)
    BY <1>1 DEF Still, Standing
  <2>2. ~InsertFirstPrices(i) /\ ~AppendPrices(i)
    BY <1>1, LoadStep DEF Still, Loads
  <2>3. PricesOf(i, S(i))' = PricesOf(i, S(i))
    <3> SUFFICES ASSUME NEW s, s = S(i) PROVE PricesOf(i, s)' = PricesOf(i, s)
      BY <1>1 DEF Still, S, PricesOf
    <3> QED
      BY <2>2, PricesOfKept
  <2> QED
    BY <1>1, <2>1, <2>3, StillKeeps
<1>2. ASSUME NEW j \in Job, Start(j) \/ Step(j) PROVE CrawlInv(i)'
  <2>1. CASE i = j
    BY <1>2, <2>1, CrawlStep
  <2>2. CASE i # j
    BY <1>1, <1>2, <2>2, OtherStill
  <2> QED
    BY <2>1, <2>2
<1>3. ~Crash
  BY DEF Crash, Active, Standing, Working, Loading
<1>4. ASSUME NEW s \in Source, NEW c \in 1..2, NEW shown \in Lists, ChangeSite(s, c, shown)
      PROVE CrawlInv(i)'
  <2>1. pc' = pc /\ left' = left /\ clean'[i] = (clean[i] /\ ~(Active(i) /\ left[i] # <<>> /\ S(i) = s))
    BY <1>4 DEF ChangeSite, walk
  <2>2. pc[i] \in Working /\ clean[i] /\ S(i) # s /\ clean'[i] = clean[i]
    <3>1. pc[i] \in Working /\ clean'[i]
      BY <2>1 DEF Standing
    <3>2. Active(i) /\ left[i] # <<>>
      BY <3>1 DEF Active, Working, Loading, IInv, JobInv
    <3>3. clean[i] \in BOOLEAN
      BY DEF IInv, TypeOK
    <3> QED
      BY <2>1, <3>1, <3>2, <3>3
  <2>3. S(i) \in Source
    BY <2>2, StandTypes
  <2>4. site'[S(i)] = site[S(i)]
    BY <1>4, <2>2, <2>3 DEF ChangeSite, IInv, TypeOK
  <2>5. Still(i)
    BY <1>4, <2>2 DEF ChangeSite, Still, walk, load
  <2> QED
    BY <1>1, <2>4, <2>5
<1>5. CASE UpdateRate
  BY <1>1, <1>5 DEF UpdateRate, Still, walk, load, hist
<1>6. CASE UNCHANGED vars
  BY <1>1, <1>6 DEF vars, Still, env, walk, load, hist
<1> QED
  BY <1>2, <1>3, <1>4, <1>5, <1>6 DEF Next

-----------------------------------------------------------------------------
\* A crawl on record keeps what it stored: its source is behind the job.
LEMMA WholeKept ==
  ASSUME IInv, PriceInv, [Next]_vars, NEW c, Whole(c)
  PROVE  Whole(c)'
<1> DEFINE j == c.job
           s == c.source
<1>1. j \in Job /\ s \notin Ahead(j)
  BY DEF Whole
<1>2. Ahead(j)' \subseteq Ahead(j)
  <2>1. left'[j] = left[j] \/ (left[j] # <<>> /\ left'[j] \in {Tail(left[j]), <<>>})
    BY <1>1, JobStep, LoadStep DEF Rests, Begins, Walks, Leaves, Loads
  <2>2. CASE left'[j] = left[j]
    BY <2>2 DEF Ahead
  <2>3. CASE left[j] # <<>> /\ left'[j] = Tail(left[j])
    BY <1>1, <2>3, TailAhead DEF IInv, PriceInv, Ahead
  <2>4. CASE left'[j] = <<>>
    BY <2>4 DEF Ahead
  <2> QED
    BY <2>1, <2>2, <2>3, <2>4
<1>3. PricesOf(j, s)' = PricesOf(j, s)
  <2> SUFFICES ASSUME s = S(j), InsertFirstPrices(j) \/ AppendPrices(j) PROVE FALSE
    BY PricesOfKept
  <2>1. left[j] # <<>>
    BY <1>1, LoadStep DEF Loads
  <2> QED
    BY <1>1, <2>1, TailAhead DEF IInv, PriceInv
<1> QED
  BY <1>1, <1>2, <1>3 DEF Whole, Priced

\* A crawl that ends well with all it reaches stored is on record as such.
LEMMA EndsWhole ==
  ASSUME IInv, PriceInv, NEW j \in Job, TidyInv(j), Standing(j),
         left'[j] = Tail(left[j]),
         NEW c, c = [job |-> j, source |-> S(j), shown |-> site[S(j)]],
         \A p \in PricesOf(c.job, c.source)' : Placed(p, c.source, c.shown),
         \A i \in Reached(c.source, c.shown) : Priced(c.job, c.source, c.shown, i)'
  PROVE  Whole(c)'
<1>1. c.job = j /\ c.source = S(j) /\ c.shown = Site(j)
  BY DEF Site
<1>2. left[j] # <<>> /\ S(j) \in Source /\ Site(j) \in [1..2 -> Lists]
  BY StandTypes DEF Standing
<1>3. S(j) \notin Ahead(j)'
  BY <1>2, TailAhead DEF IInv, PriceInv, Ahead
<1>4. c.source \notin Ahead(c.job)'
  BY <1>1, <1>3 DEF Ahead
<1> QED
  BY <1>1, <1>2, <1>4 DEF Whole

\* Nothing is left to load where the last list ends ...
LEMMA ListEndsWhole ==
  ASSUME IInv, PriceInv, NEW j \in Job, TidyInv(j), Standing(j), CrawlInv(j),
         pc[j] = "list", prices' = prices, left'[j] = Tail(left[j]),
         list[j] = P(j).lists,
         \/ P(j).paged /\ \/ Shown(j) = <<>>
                          \/ P(j).stop = "partial" /\ Len(Shown(j)) < PageSize
         \/ ~P(j).paged /\ P(j).lists = 1 /\ Shown(j) = <<>>,
         NEW c, c = [job |-> j, source |-> S(j), shown |-> site[S(j)]]
  PROVE  Whole(c)'
<1>1. c.job = j /\ c.source = S(j) /\ c.shown = Site(j)
  BY DEF Site
<1>2. /\ S(j) \in Source /\ Site(j) \in [1..2 -> Lists] /\ P(j) = Policy[S(j)]
      /\ P(j).lists \in {1, 2}
      /\ Shown(j) = IF P(j).paged THEN PageOf(Site(j)[list[j]], page[j])
                    ELSE Site(j)[list[j]]
  BY StandTypes DEF Standing, P, PolicyType
<1>3. ASSUME NEW i \in Reached(S(j), Site(j)) PROVE Passed(j, i)
  <2>1. PICK d \in 1..P(j).lists : \E n \in 1..Len(Site(j)[d]) : i = <<d, n>>
    BY <1>2, ReachedIs
  <2>2. i[1] = d /\ Len(Site(j)[d]) # 0
    <3>1. Len(Site(j)[d]) \in Nat
      BY <1>2, ShownTypes
    <3> QED
      BY <2>1, <3>1
  <2>3. P(j).paged
    BY <1>2, <2>1, <2>2
  <2>4. CASE i[1] = list[j]
    BY <2>3, <2>4, ListEnds DEF Passed, Standing
  <2>5. CASE i[1] # list[j]
    BY <1>2, <2>1, <2>2, <2>3, <2>5 DEF Passed
  <2> QED
    BY <2>4, <2>5
<1>4. \A p \in PricesOf(c.job, c.source)' : Placed(p, c.source, c.shown)
  BY <1>1 DEF CrawlInv, HeldInv, PricesOf
<1>5. \A i \in Reached(c.source, c.shown) : Priced(c.job, c.source, c.shown, i)'
  <2>1. \A i \in Reached(c.source, c.shown) : Priced(c.job, c.source, c.shown, i)
    BY <1>1, <1>3 DEF CrawlInv, HeldInv
  <2>2. PricesOf(c.job, c.source)' = PricesOf(c.job, c.source)
    BY DEF PricesOf
  <2> QED
    BY <2>1, <2>2 DEF Priced
<1> QED
  BY <1>4, <1>5, EndsWhole

\* ... or where the one batch is appended.
LEMMA AppendEndsWhole ==
  ASSUME IInv, PriceInv, NEW j \in Job, TidyInv(j), Standing(j), CrawlInv(j),
         AppendPrices(j), ~P(j).paged, left'[j] = Tail(left[j]),
         NEW c, c = [job |-> j, source |-> S(j), shown |-> site[S(j)]]
  PROVE  Whole(c)'
<1>1. c.job = j /\ c.source = S(j) /\ c.shown = Site(j)
  BY DEF Site
<1>2. /\ \A p \in PricesOf(j, c.source)' : Placed(p, c.source, c.shown)
      /\ \A i \in Reached(c.source, c.shown) : Priced(j, c.source, c.shown, i)'
  BY <1>1, AppendStoresPage
<1>3. /\ \A p \in PricesOf(c.job, c.source)' : Placed(p, c.source, c.shown)
      /\ \A i \in Reached(c.source, c.shown) : Priced(c.job, c.source, c.shown, i)'
  BY <1>1, <1>2
<1> QED
  BY <1>3, EndsWhole

LEMMA NewOnRecord ==
  ASSUME IInv, PriceInv, WholeInv, [Next]_vars, NEW c \in complete', c \notin complete
  PROVE  Whole(c)'
<1>1. ~Crash /\ ~UpdateRate /\ ~(UNCHANGED vars)
  BY DEF Crash, UpdateRate, vars, hist
<1>2. \A s \in Source, d \in 1..2, shown \in Lists : ~ChangeSite(s, d, shown)
  BY DEF ChangeSite
<1>3. PICK j \in Job : Start(j) \/ Step(j)
  BY <1>1, <1>2 DEF Next
<1>4. /\ pc[j] \in Working => left[j] # <<>>
      /\ TidyInv(j) /\ (Standing(j) => CrawlInv(j))
      /\ left \in [Job -> Seq(Source)] /\ list \in [Job -> 1..2]
  BY DEF IInv, TypeOK, JobInv, WholeInv
<1>5. ~Throw(j)
  BY DEF Throw
<1>6. ASSUME NEW sure, ReturnOk(j, sure), pc[j] \in Working
      PROVE  /\ Standing(j) /\ CrawlInv(j) /\ sure /\ left'[j] = Tail(left[j])
             /\ c = [job |-> j, source |-> S(j), shown |-> site[S(j)]]
  <2>1. clean[j] /\ sure /\ c = [job |-> j, source |-> S(j), shown |-> site[S(j)]]
    BY <1>6 DEF ReturnOk
  <2>2. left'[j] = Tail(left[j])
    BY <1>4, <1>6 DEF ReturnOk
  <2> QED
    BY <1>4, <1>6, <2>1, <2>2 DEF Standing
<1>7. CASE EndList(j)
  <2>1. pc[j] = "list" /\ pc[j] \in Working /\ Stops(j) /\ prices' = prices
    BY <1>7 DEF EndList, Working, db
  <2>2. ~(list[j] < P(j).lists) /\ ReturnOk(j, TRUE)
    BY <1>7 DEF EndList, hist
  <2>3. /\ Standing(j) /\ CrawlInv(j) /\ left'[j] = Tail(left[j])
        /\ c = [job |-> j, source |-> S(j), shown |-> site[S(j)]]
    BY <1>6, <2>1, <2>2
  <2>4. list[j] = P(j).lists
    <3>1. list[j] \in 1..P(j).lists /\ P(j).lists \in {1, 2}
      BY <1>4, <2>1, StandTypes DEF PolicyType
    <3> QED
      BY <2>2, <3>1
  <2>5. P(j).paged /\ (Shown(j) = <<>> \/ (P(j).stop = "partial" /\ Len(Shown(j)) < PageSize))
    BY <1>4, <2>1, <2>3, StopsMeans
  <2> QED
    BY <1>4, <2>1, <2>3, <2>4, <2>5, ListEndsWhole
<1>8. CASE ListError(j)
  <2>1. /\ pc[j] = "list" /\ pc[j] \in Working /\ P(j).onListError = "stop"
        /\ ReturnOk(j, Shown(j) = <<>>) /\ prices' = prices
    BY <1>5, <1>8 DEF ListError, Working, db
  <2>2. /\ Standing(j) /\ CrawlInv(j) /\ left'[j] = Tail(left[j]) /\ Shown(j) = <<>>
        /\ c = [job |-> j, source |-> S(j), shown |-> site[S(j)]]
    BY <1>6, <2>1
  <2>3. P(j).lists = 1 /\ list[j] \in 1..P(j).lists /\ P(j).paged \in BOOLEAN
    <3>1. S(j) \in Source /\ list[j] \in 1..P(j).lists /\ P(j) \in PolicyType
      BY <1>4, <2>1, StandTypes
    <3> QED
      BY <2>1, <3>1, PoliciesAssumption DEF P, PolicyType
  <2>4. list[j] = P(j).lists
    BY <2>3
  <2> QED
    BY <1>4, <2>1, <2>2, <2>3, <2>4, ListEndsWhole
<1>9. CASE AppendPrices(j)
  <2>1. pc[j] \in Working /\ ~P(j).paged /\ ReturnOk(j, TRUE)
    BY <1>9 DEF AppendPrices, Working, Loading, hist
  <2> QED
    BY <1>4, <1>6, <1>9, <2>1, AppendEndsWhole
<1>10. ~(Start(j) \/ BeginSource(j) \/ Finish(j) \/ RetryList(j) \/ CollectList(j)
          \/ TakeList(j) \/ ItemError(j) \/ ReadExisting(j) \/ InsertNew(j)
          \/ InsertFirstPrices(j) \/ DbError(j))
  BY <1>5 DEF Start, BeginSource, Finish, RetryList, CollectList, TakeList, ItemError,
              ReadExisting, InsertNew, InsertFirstPrices, DbError, hist
<1>11. \A k \in todo[j] : ~FetchItem(j, k) /\ ~SkipItem(j, k)
  BY DEF FetchItem, SkipItem, hist
<1> QED
  BY <1>3, <1>7, <1>8, <1>9, <1>10, <1>11 DEF Step, FetchList

LEMMA WholeInvHolds == Spec => []WholeInv
<1>1. ASSUME Init PROVE WholeInv
  <2>1. \A j \in Job : pc[j] = "idle" /\ pc[j] \notin Working
    BY <1>1 DEF Init, Working, Loading
  <2>2. \A j \in Job : TidyInv(j)
    BY <1>1, <2>1 DEF Init, TidyInv
  <2> QED
    BY <1>1, <2>1, <2>2 DEF Init, WholeInv, Standing
<1>2. ASSUME IInv, PriceInv, WholeInv, [Next]_vars PROVE WholeInv'
  <2>1. \A i \in Job : TidyInv(i)'
    BY <1>2, TidyKeeps DEF WholeInv
  <2>2. \A i \in Job : Standing(i)' => CrawlInv(i)'
    BY <1>2, StandingKeeps DEF WholeInv
  <2>3. \A c \in complete' : Whole(c)'
    BY <1>2, WholeKept, NewOnRecord DEF WholeInv
  <2> QED
    BY <2>1, <2>2, <2>3 DEF WholeInv
<1> QED
  BY <1>1, <1>2, InvariantHolds, PriceInvHolds, PTL DEF Spec

\* A crawl of a source that ended without an error, on a site that stood still,
\* stored exactly one price per item its loop reaches, whatever the other jobs
\* did meanwhile.
THEOREM CompleteCrawls == Spec => []CompleteCrawlLoadedAll
<1>1. TypeOK /\ OnePricePerItem /\ WholeInv => CompleteCrawlLoadedAll
  BY WholeCounts DEF WholeInv, CompleteCrawlLoadedAll
<1> QED
  BY <1>1, TypeCorrect, PriceInvHolds, WholeInvHolds, PTL DEF PriceInv
=============================================================================
