----------------------------- MODULE CrawlProofs -----------------------------
(***************************************************************************)
(* Proofs about the crawler, for any number of jobs, sources, policies,    *)
(* pages and listings.                                                     *)
(***************************************************************************)
EXTENDS CrawlProps, SequenceTheorems, TLAPS

\* S and Row at a job that is between two statements of loadToDb.
Loading == {"insert", "firstPrices", "append"}
Working == {"list", "item", "read"} \cup Loading

\* A job inside parse() has a source; its positions point into its links.
JobInv ==
  \A j \in Job :
    /\ pc[j] \in Working => left[j] # <<>>
    /\ todo[j] \cup batch[j] \subseteq 1..Len(urls[j])
    /\ readAt[j] <= clock

\* The snapshot loadToDb took.
KnownInv ==
  \A j \in Job :
    /\ known[j] \subseteq rows
    /\ pc[j] \notin Loading => known[j] = {}
    /\ \A r \in known[j] : r.source = S(j)

\* It misses a row of its batch only if the row is younger.
CoverInv ==
  \A j \in Job : pc[j] = "insert" =>
    \A r \in rows : \A k \in batch[j] :
      /\ r.source = S(j)
      /\ ExternalId(r) = urls[j][k]
      /\ r.born < readAt[j]
      => \E q \in known[j] : ExternalId(q) = urls[j][k]

\* The rows insertGraph has stored and not yet priced.
FreshInv ==
  \A j \in Job : pc[j] = "firstPrices" =>
    \A r \in fresh[j] : /\ r \in rows
                        /\ r.source = S(j)
                        /\ r.pos \in batch[j]
                        /\ r.scraped = urls[j][r.pos]

RowInv == \A r \in rows : r.born < clock /\ r.readAt <= r.born

IInv == TypeOK /\ JobInv /\ RowInv /\ KnownInv /\ CoverInv /\ FreshInv

-----------------------------------------------------------------------------
LEMMA PolicyOf ==
  ASSUME TypeOK, NEW j \in Job, left[j] # <<>>
  PROVE  S(j) \in Source /\ P(j) \in PolicyType /\ Tail(left[j]) \in Seq(Source)
<1>1. left[j] \in Seq(Source)
  BY DEF TypeOK
<1>2. S(j) \in Source /\ Tail(left[j]) \in Seq(Source)
  BY <1>1, HeadTailProperties DEF S
<1> QED
  BY <1>2, CrawlAssumption DEF P

LEMMA PageOfType ==
  ASSUME NEW shown \in Seq(Listing), NEW p \in Nat \ {0}
  PROVE  PageOf(shown, p) \in Seq(Listing)
<1> DEFINE m == (p - 1) * PageSize + 1
           n == IF p * PageSize < Len(shown) THEN p * PageSize ELSE Len(shown)
<1>1. m \in Int /\ n \in Int /\ 1 <= m /\ n <= Len(shown)
  <2>1. PageSize \in Nat /\ p - 1 \in Nat /\ Len(shown) \in Nat
    BY CrawlAssumption, LenProperties
  <2>2. (p - 1) * PageSize \in Nat /\ p * PageSize \in Nat
    BY <2>1
  <2> QED
    BY <2>1, <2>2
<1>2. \A i \in m..n : shown[i] \in Listing
  BY <1>1, ElementOfSeq, LenProperties
<1>3. SubSeq(shown, m, n) \in Seq(Listing)
  <2> HIDE DEF m, n
  <2> QED BY <1>1, <1>2, SubSeqProperties
<1> QED
  BY <1>3 DEF PageOf

LEMMA ShownType ==
  ASSUME TypeOK, NEW j \in Job, left[j] # <<>>
  PROVE  Shown(j) \in Seq(Listing)
<1>1. site[S(j)][list[j]] \in Seq(Listing)
  <2>1. S(j) \in Source
    BY PolicyOf
  <2>2. site[S(j)][list[j]] \in Lists
    BY <2>1 DEF TypeOK
  <2> QED
    BY <2>2, CrawlAssumption
<1>2. page[j] \in Nat \ {0}
  BY DEF TypeOK
<1> QED
  BY <1>1, <1>2, PageOfType DEF Shown

-----------------------------------------------------------------------------
\* The pieces the actions are built from.
LEMMA GotoType ==
  ASSUME pc \in [Job -> Label], NEW j \in Job, NEW label \in Label, Goto(j, label)
  PROVE  /\ pc' \in [Job -> Label] /\ pc'[j] = label
         /\ \A i \in Job \ {j} : pc'[i] = pc[i]
BY DEF Goto

LEMMA DropBatchType ==
  ASSUME TypeOK, NEW j \in Job, DropBatch(j)
  PROVE  /\ urls' \in [Job -> Seq(Listing)]
         /\ todo' \in [Job -> SUBSET Nat] /\ batch' \in [Job -> SUBSET Nat]
         /\ known' \in [Job -> SUBSET RowType] /\ fresh' \in [Job -> SUBSET RowType]
         /\ readAt' \in [Job -> Nat]
         /\ todo'[j] = {} /\ batch'[j] = {} /\ known'[j] = {} /\ readAt'[j] = 0
         /\ \A i \in Job \ {j} :
              /\ urls'[i] = urls[i] /\ todo'[i] = todo[i] /\ batch'[i] = batch[i]
              /\ known'[i] = known[i] /\ readAt'[i] = readAt[i] /\ fresh'[i] = fresh[i]
<1>1. <<>> \in Seq(Listing)
  BY EmptySeq
<1> QED
  BY <1>1 DEF TypeOK, DropBatch

LEMMA ReturnOkType ==
  ASSUME TypeOK, NEW j \in Job, NEW sure, ReturnOk(j, sure), left[j] # <<>>
  PROVE  /\ pc' \in [Job -> Label] /\ pc'[j] = "next"
         /\ left' \in [Job -> Seq(Source)]
         /\ UNCHANGED <<list, page, misses, rate, clean, torn>>
         /\ \A i \in Job \ {j} : pc'[i] = pc[i] /\ left'[i] = left[i]
<1>1. pc \in [Job -> Label] /\ left \in [Job -> Seq(Source)] /\ "next" \in Label
  BY DEF TypeOK, Label
<1>2. Tail(left[j]) \in Seq(Source)
  BY PolicyOf
<1>3. Goto(j, "next") /\ left' = [left EXCEPT ![j] = Tail(left[j])]
  BY DEF ReturnOk
<1>4. UNCHANGED <<list, page, misses, rate, clean, torn>>
  BY DEF ReturnOk
<1>5. /\ left' \in [Job -> Seq(Source)]
      /\ \A i \in Job \ {j} : left'[i] = left[i]
  BY <1>1, <1>2, <1>3
<1> QED
  BY <1>1, <1>3, <1>4, <1>5, GotoType

LEMMA ThrowType ==
  ASSUME TypeOK, NEW j \in Job, Throw(j), left[j] # <<>>, torn' \subseteq Nat
  PROVE  /\ TypeOK'
         /\ UNCHANGED <<rows, clock, prices>>
         /\ pc'[j] \in {"next", "failed"}
         /\ \A i \in Job \ {j} : pc'[i] = pc[i] /\ left'[i] = left[i]
<1>1. pc \in [Job -> Label] /\ left \in [Job -> Seq(Source)]
  BY DEF TypeOK
<1>2. Tail(left[j]) \in Seq(Source) /\ <<>> \in Seq(Source)
  BY PolicyOf, EmptySeq
<1>3. /\ left' = [left EXCEPT ![j] = Tail(left[j])] \/ left' = [left EXCEPT ![j] = <<>>]
      /\ Goto(j, "next") \/ Goto(j, "failed")
      /\ DropBatch(j)
  BY DEF Throw
<1>4. "next" \in Label /\ "failed" \in Label
  BY DEF Label
<1>5. left' \in [Job -> Seq(Source)] /\ \A i \in Job \ {j} : left'[i] = left[i]
  BY <1>1, <1>2, <1>3
<1>6. /\ pc' \in [Job -> Label]
      /\ pc'[j] \in {"next", "failed"}
      /\ \A i \in Job \ {j} : pc'[i] = pc[i]
  BY <1>1, <1>3, <1>4, GotoType
<1>7. UNCHANGED <<site, changes, latest, rows, prices, clock, list, page, misses, rate, clean>>
  BY DEF Throw, env, db
<1>8. TypeOK'
  BY <1>3, <1>5, <1>6, <1>7, DropBatchType DEF TypeOK
<1> QED
  BY <1>5, <1>6, <1>7, <1>8

-----------------------------------------------------------------------------
\* A step that ends with job j outside loadToDb, and leaves the tables and the
\* other jobs alone, keeps the invariant.
LEMMA WalkKeeps ==
  ASSUME IInv, TypeOK', NEW j \in Job,
         rows' = rows, clock' = clock,
         pc'[j] \notin Loading, known'[j] = {},
         pc'[j] \in Working => left'[j] # <<>>,
         todo'[j] \cup batch'[j] \subseteq 1..Len(urls'[j]),
         readAt'[j] = readAt[j] \/ readAt'[j] = 0,
         \A i \in Job \ {j} :
           /\ pc'[i] = pc[i] /\ left'[i] = left[i]
           /\ urls'[i] = urls[i] /\ todo'[i] = todo[i] /\ batch'[i] = batch[i]
           /\ known'[i] = known[i] /\ readAt'[i] = readAt[i] /\ fresh'[i] = fresh[i]
  PROVE  IInv'
<1>1. RowInv'
  BY DEF IInv, RowInv
<1>2. KnownInv'
  BY DEF IInv, KnownInv, S
<1>3. CoverInv'
  BY DEF IInv, CoverInv, S, ExternalId, Loading
<1>4. FreshInv'
  BY DEF IInv, FreshInv, S, Loading
<1>5. JobInv'
  <2> SUFFICES ASSUME NEW i \in Job
               PROVE  /\ pc'[i] \in Working => left'[i] # <<>>
                      /\ todo'[i] \cup batch'[i] \subseteq 1..Len(urls'[i])
                      /\ readAt'[i] <= clock'
    BY DEF JobInv
  <2>1. clock \in Nat /\ readAt[j] <= clock
    BY DEF IInv, JobInv, TypeOK
  <2>2. CASE i = j
    BY <2>1, <2>2
  <2>3. CASE i # j
    BY <2>3 DEF IInv, JobInv
  <2> QED
    BY <2>2, <2>3
<1> QED
  BY <1>1, <1>2, <1>3, <1>4, <1>5 DEF IInv

\* What the invariant says of a job outside loadToDb.
LEMMA Outside ==
  ASSUME IInv, NEW j \in Job, pc[j] \notin Loading
  PROVE  /\ known[j] = {}
         /\ todo[j] \cup batch[j] \subseteq 1..Len(urls[j])
         /\ pc[j] \in Working => left[j] # <<>>
BY DEF IInv, KnownInv, JobInv

LEMMA ThrowKeeps ==
  ASSUME IInv, NEW j \in Job, Throw(j), left[j] # <<>>, torn' \subseteq Nat
  PROVE  IInv'
<1>1. TypeOK /\ DropBatch(j)
  BY DEF IInv, Throw
<1>2. pc'[j] \notin Loading /\ pc'[j] \notin Working
  BY <1>1, ThrowType DEF Loading, Working
<1>3. /\ TypeOK' /\ rows' = rows /\ clock' = clock
      /\ \A i \in Job \ {j} : pc'[i] = pc[i] /\ left'[i] = left[i]
  BY <1>1, ThrowType
<1>4. /\ known'[j] = {} /\ readAt'[j] = 0
      /\ todo'[j] \cup batch'[j] \subseteq 1..Len(urls'[j])
      /\ \A i \in Job \ {j} :
           /\ urls'[i] = urls[i] /\ todo'[i] = todo[i] /\ batch'[i] = batch[i]
           /\ known'[i] = known[i] /\ readAt'[i] = readAt[i] /\ fresh'[i] = fresh[i]
  BY <1>1, DropBatchType
<1> QED
  BY <1>2, <1>3, <1>4, WalkKeeps

-----------------------------------------------------------------------------
\* The actions of a job between BeginSource and the batch of a page.
LEMMA StartKeeps ==
  ASSUME IInv, NEW j \in Job, Start(j)
  PROVE  IInv'
<1>1. TypeOK /\ pc[j] \notin Loading /\ "next" \in Label /\ pc \in [Job -> Label]
  BY DEF IInv, TypeOK, Start, Loading, Label
<1>2. Goto(j, "next") /\ UNCHANGED <<env, db, walk, urls, todo, batch, load, hist>>
  BY DEF Start
<1>3. /\ pc' \in [Job -> Label] /\ pc'[j] = "next"
      /\ \A i \in Job \ {j} : pc'[i] = pc[i]
  BY <1>1, <1>2, GotoType
<1>4. TypeOK'
  BY <1>1, <1>2, <1>3 DEF TypeOK, env, db, walk, load, hist
<1>5. pc'[j] \notin Loading /\ pc'[j] \notin Working
  BY <1>3 DEF Loading, Working
<1> QED
  BY <1>1, <1>2, <1>3, <1>4, <1>5, Outside, WalkKeeps DEF db, walk, load

LEMMA BeginSourceKeeps ==
  ASSUME IInv, NEW j \in Job, BeginSource(j)
  PROVE  IInv'
<1>1. TypeOK /\ pc[j] \notin Loading /\ "list" \in Label /\ pc \in [Job -> Label]
  BY DEF IInv, TypeOK, BeginSource, Loading, Label
<1>2. /\ Goto(j, "list") /\ left[j] # <<>>
      /\ UNCHANGED <<env, db, left, urls, todo, batch, load, complete, torn>>
  BY DEF BeginSource
<1>3. /\ pc' \in [Job -> Label] /\ pc'[j] = "list"
      /\ \A i \in Job \ {j} : pc'[i] = pc[i]
  BY <1>1, <1>2, GotoType
<1>4. /\ list' \in [Job -> 1..2] /\ page' \in [Job -> Nat \ {0}]
      /\ misses' \in [Job -> Nat] /\ rate' \in [Job -> Nat]
      /\ clean' \in [Job -> BOOLEAN]
  BY <1>1 DEF BeginSource, TypeOK
<1>5. TypeOK'
  BY <1>1, <1>2, <1>3, <1>4 DEF TypeOK, env, db, load
<1>6. pc'[j] \notin Loading
  BY <1>3 DEF Loading
<1> QED
  BY <1>1, <1>2, <1>3, <1>5, <1>6, Outside, WalkKeeps DEF db, load

LEMMA FinishKeeps ==
  ASSUME IInv, NEW j \in Job, Finish(j)
  PROVE  IInv'
<1>1. TypeOK /\ pc[j] \notin Loading /\ "done" \in Label /\ pc \in [Job -> Label]
  BY DEF IInv, TypeOK, Finish, Loading, Label
<1>2. Goto(j, "done") /\ UNCHANGED <<env, db, walk, urls, todo, batch, load, hist>>
  BY DEF Finish
<1>3. /\ pc' \in [Job -> Label] /\ pc'[j] = "done"
      /\ \A i \in Job \ {j} : pc'[i] = pc[i]
  BY <1>1, <1>2, GotoType
<1>4. TypeOK'
  BY <1>1, <1>2, <1>3 DEF TypeOK, env, db, walk, load, hist
<1>5. pc'[j] \notin Loading /\ pc'[j] \notin Working
  BY <1>3 DEF Loading, Working
<1> QED
  BY <1>1, <1>2, <1>3, <1>4, <1>5, Outside, WalkKeeps DEF db, walk, load

\* parse() returns with no batch at hand.
LEMMA ReturnKeeps ==
  ASSUME IInv, NEW j \in Job, NEW sure, ReturnOk(j, sure), pc[j] = "list",
         UNCHANGED <<env, db, urls, todo, batch, load>>
  PROVE  IInv'
<1>1. TypeOK /\ pc[j] \notin Loading /\ left[j] # <<>>
  BY DEF IInv, JobInv, Loading, Working
<1>2. TypeOK'
  BY <1>1, ReturnOkType DEF TypeOK, env, db, load
<1>3. pc'[j] \notin Loading /\ pc'[j] \notin Working
  BY <1>1, ReturnOkType DEF Loading, Working
<1> QED
  BY <1>1, <1>2, <1>3, ReturnOkType, Outside, WalkKeeps DEF db, load

\* A job goes to its second list only where there is one.
LEMMA NextList ==
  ASSUME TypeOK, NEW j \in Job, left[j] # <<>>,
         list[j] < P(j).lists, list' = [list EXCEPT ![j] = @ + 1]
  PROVE  list' \in [Job -> 1..2]
<1>1. P(j) \in PolicyType
  BY PolicyOf
<1>2. P(j).lists \in {1, 2}
  BY <1>1 DEF PolicyType
<1>3. list \in [Job -> 1..2] /\ list[j] \in 1..2
  BY DEF TypeOK
<1>4. list[j] + 1 \in 1..2
  BY <1>2, <1>3
<1> QED
  BY <1>3, <1>4

LEMMA EndListKeeps ==
  ASSUME IInv, NEW j \in Job, EndList(j)
  PROVE  IInv'
<1>1. TypeOK /\ pc[j] \notin Loading /\ pc[j] = "list" /\ left[j] # <<>>
  BY DEF IInv, JobInv, EndList, Loading, Working
<1>2. CASE list[j] < P(j).lists
  <2>1. /\ list' = [list EXCEPT ![j] = @ + 1]
        /\ UNCHANGED <<pc, left, page, misses, rate, hist>>
        /\ UNCHANGED <<env, db, urls, todo, batch, load>>
    BY <1>2 DEF EndList
  <2>3. list' \in [Job -> 1..2]
    BY <1>1, <1>2, <2>1, NextList
  <2>4. TypeOK'
    BY <1>1, <2>1, <2>3 DEF TypeOK, env, db, load, hist
  <2> QED
    BY <1>1, <2>1, <2>4, Outside, WalkKeeps DEF db, load
<1>3. CASE ~(list[j] < P(j).lists)
  BY <1>1, <1>3, ReturnKeeps DEF EndList
<1> QED
  BY <1>2, <1>3

LEMMA RetryListKeeps ==
  ASSUME IInv, NEW j \in Job, RetryList(j)
  PROVE  IInv'
<1>1. TypeOK /\ pc[j] \notin Loading
  BY DEF IInv, RetryList, Loading
<1>2. TypeOK'
  BY <1>1 DEF TypeOK, RetryList, env, db, load, hist
<1> QED
  BY <1>1, <1>2, Outside, WalkKeeps DEF RetryList, db, load

\* The links of a page are a sequence, and those followed are among them.
LEMMA LinksType ==
  ASSUME TypeOK, NEW j \in Job, left[j] # <<>>
  PROVE  /\ urls[j] \o Shown(j) \in Seq(Listing)
         /\ Len(urls[j]) <= Len(urls[j] \o Shown(j))
         /\ Len(urls[j]) \in Nat /\ Len(urls[j] \o Shown(j)) \in Nat
<1>1. urls[j] \in Seq(Listing) /\ Shown(j) \in Seq(Listing)
  BY ShownType DEF TypeOK
<1>2. /\ urls[j] \o Shown(j) \in Seq(Listing)
      /\ Len(urls[j] \o Shown(j)) = Len(urls[j]) + Len(Shown(j))
  BY <1>1, ConcatProperties
<1>3. Len(urls[j]) \in Nat /\ Len(Shown(j)) \in Nat
  BY <1>1, LenProperties
<1> QED
  BY <1>2, <1>3

LEMMA CollectListKeeps ==
  ASSUME IInv, NEW j \in Job, CollectList(j)
  PROVE  IInv'
<1>1. TypeOK /\ pc[j] \notin Loading /\ pc[j] = "list" /\ left[j] # <<>>
  BY DEF IInv, JobInv, CollectList, Loading, Working
<1>2. /\ urls' = [urls EXCEPT ![j] = urls[j] \o Shown(j)]
      /\ list' = [list EXCEPT ![j] = @ + 1]
      /\ list[j] < P(j).lists
      /\ UNCHANGED <<env, db, pc, left, page, misses, rate, todo, batch, load, hist>>
  BY DEF CollectList
<1>3. list' \in [Job -> 1..2]
  BY <1>1, <1>2, NextList
<1>4. urls' \in [Job -> Seq(Listing)] /\ urls'[j] = urls[j] \o Shown(j)
  BY <1>1, <1>2, LinksType DEF TypeOK
<1>5. TypeOK'
  BY <1>1, <1>2, <1>3, <1>4 DEF TypeOK, env, db, load, hist
<1>6. todo[j] \cup batch[j] \subseteq 1..Len(urls'[j])
  BY <1>1, <1>4, LinksType, Outside
<1> QED
  BY <1>1, <1>2, <1>5, <1>6, Outside, WalkKeeps DEF db, load

LEMMA TakeListKeeps ==
  ASSUME IInv, NEW j \in Job, TakeList(j)
  PROVE  IInv'
<1> DEFINE links == urls[j] \o Shown(j)
<1>1. TypeOK /\ pc[j] \notin Loading /\ pc[j] = "list" /\ left[j] # <<>>
  BY DEF IInv, JobInv, TakeList, Loading, Working
<1>2. /\ urls' = [urls EXCEPT ![j] = links]
      /\ todo' = [todo EXCEPT ![j] = Links(j, links)]
      /\ Goto(j, IF links = <<>> THEN "read" ELSE "item")
      /\ UNCHANGED <<env, db, walk, batch, load, hist>>
  BY DEF TakeList
<1>3. /\ links \in Seq(Listing) /\ Links(j, links) \subseteq 1..Len(links)
      /\ todo[j] \cup batch[j] \subseteq 1..Len(links)
      /\ Len(links) \in Nat
  BY <1>1, LinksType, Outside DEF Links
<1> HIDE DEF links
<1>4. /\ urls' \in [Job -> Seq(Listing)] /\ urls'[j] = links
      /\ todo' \in [Job -> SUBSET Nat] /\ todo'[j] = Links(j, links)
      /\ \A i \in Job \ {j} : urls'[i] = urls[i] /\ todo'[i] = todo[i]
  <2>1. urls \in [Job -> Seq(Listing)] /\ todo \in [Job -> SUBSET Nat]
    BY <1>1 DEF TypeOK
  <2>2. Links(j, links) \in SUBSET Nat
    BY <1>3
  <2> QED
    BY <1>2, <1>3, <2>1, <2>2
<1>5. /\ pc' \in [Job -> Label] /\ pc'[j] \in {"read", "item"}
      /\ \A i \in Job \ {j} : pc'[i] = pc[i]
  <2>1. pc \in [Job -> Label] /\ "read" \in Label /\ "item" \in Label
    BY <1>1 DEF TypeOK, Label
  <2> QED
    BY <1>2, <2>1, GotoType
<1>6. TypeOK'
  BY <1>1, <1>2, <1>4, <1>5 DEF TypeOK, env, db, walk, load, hist
<1>7. todo'[j] \cup batch'[j] \subseteq 1..Len(urls'[j])
  BY <1>2, <1>3, <1>4
<1>8. pc'[j] \notin Loading
  BY <1>5 DEF Loading
<1> QED
  BY <1>1, <1>2, <1>4, <1>5, <1>6, <1>7, <1>8, Outside, WalkKeeps DEF db, walk, load

LEMMA FetchListKeeps ==
  ASSUME IInv, NEW j \in Job, FetchList(j)
  PROVE  IInv'
BY EndListKeeps, RetryListKeeps, CollectListKeeps, TakeListKeeps DEF FetchList

LEMMA ListErrorKeeps ==
  ASSUME IInv, NEW j \in Job, ListError(j)
  PROVE  IInv'
<1>1. pc[j] = "list" /\ left[j] # <<>> /\ torn \subseteq Nat
  BY DEF IInv, TypeOK, JobInv, ListError, Working
<1>2. CASE /\ ReturnOk(j, Shown(j) = <<>>)
           /\ UNCHANGED <<env, db, urls, todo, batch, load>>
  BY <1>1, <1>2, ReturnKeeps
<1>3. CASE Throw(j) /\ UNCHANGED torn
  BY <1>1, <1>3, ThrowKeeps
<1> QED
  BY <1>2, <1>3 DEF ListError

\* What the two outcomes of an item request share.
LEMMA NextItemType ==
  ASSUME IInv, NEW j \in Job, NEW k \in todo[j], NextItem(j, k)
  PROVE  /\ TypeOK /\ pc[j] \notin Loading /\ left[j] # <<>>
         /\ k \in 1..Len(urls[j]) /\ k \in Nat
         /\ pc' \in [Job -> Label] /\ pc'[j] \notin Loading
         /\ todo' \in [Job -> SUBSET Nat] /\ todo'[j] \subseteq todo[j]
         /\ \A i \in Job \ {j} : pc'[i] = pc[i] /\ todo'[i] = todo[i]
<1>1. TypeOK /\ pc[j] = "item" /\ pc[j] \notin Loading /\ left[j] # <<>>
  BY DEF IInv, JobInv, NextItem, Working, Loading
<1>2. todo[j] \subseteq 1..Len(urls[j]) /\ todo[j] \subseteq Nat
  BY <1>1, Outside DEF TypeOK
<1>3. /\ todo' \in [Job -> SUBSET Nat] /\ todo'[j] \subseteq todo[j]
      /\ \A i \in Job \ {j} : todo'[i] = todo[i]
  <2>1. todo \in [Job -> SUBSET Nat] /\ todo' = [todo EXCEPT ![j] = todo[j] \ {k}]
    BY <1>1 DEF TypeOK, NextItem
  <2>2. todo[j] \ {k} \in SUBSET Nat
    BY <1>2
  <2> QED
    BY <2>1, <2>2
<1>4. /\ pc' \in [Job -> Label] /\ pc'[j] \in {"read", "item"}
      /\ \A i \in Job \ {j} : pc'[i] = pc[i]
  <2>1. pc \in [Job -> Label] /\ "read" \in Label /\ "item" \in Label
    BY <1>1 DEF TypeOK, Label
  <2>2. Goto(j, IF todo[j] = {k} THEN "read" ELSE "item")
    BY DEF NextItem
  <2> QED
    BY <2>1, <2>2, GotoType
<1>5. pc'[j] \notin Loading
  BY <1>4 DEF Loading
<1> QED
  BY <1>1, <1>2, <1>3, <1>4, <1>5

LEMMA FetchItemKeeps ==
  ASSUME IInv, NEW j \in Job, NEW k \in todo[j], FetchItem(j, k)
  PROVE  IInv'
<1>1. /\ NextItem(j, k)
      /\ batch' = [batch EXCEPT ![j] = batch[j] \cup {k}]
      /\ UNCHANGED <<env, db, walk, urls, load, hist>>
  BY DEF FetchItem
<1>2. TypeOK /\ pc[j] \notin Loading /\ left[j] # <<>> /\ k \in 1..Len(urls[j]) /\ k \in Nat
  BY <1>1, NextItemType
<1>3. /\ batch' \in [Job -> SUBSET Nat] /\ batch'[j] = batch[j] \cup {k}
      /\ \A i \in Job \ {j} : batch'[i] = batch[i]
  <2>1. batch \in [Job -> SUBSET Nat]
    BY <1>2 DEF TypeOK
  <2>2. batch[j] \cup {k} \in SUBSET Nat
    BY <1>2, <2>1
  <2> QED
    BY <1>1, <2>1, <2>2
<1>4. TypeOK'
  BY <1>1, <1>2, <1>3, NextItemType DEF TypeOK, env, db, walk, load, hist
<1>5. todo'[j] \cup batch'[j] \subseteq 1..Len(urls'[j])
  <2>1. todo'[j] \subseteq todo[j] /\ urls' = urls
    BY <1>1, NextItemType
  <2> QED
    BY <1>2, <1>3, <2>1, Outside
<1> QED
  BY <1>1, <1>2, <1>3, <1>4, <1>5, NextItemType, Outside, WalkKeeps DEF db, walk, load

LEMMA SkipItemKeeps ==
  ASSUME IInv, NEW j \in Job, NEW k \in todo[j], SkipItem(j, k)
  PROVE  IInv'
<1>1. /\ NextItem(j, k)
      /\ clean' = [clean EXCEPT ![j] = FALSE]
      /\ UNCHANGED <<env, db, walk, urls, batch, load, complete, torn>>
  BY DEF SkipItem
<1>2. TypeOK /\ pc[j] \notin Loading /\ left[j] # <<>>
  BY <1>1, NextItemType
<1>3. TypeOK'
  <2>1. clean' \in [Job -> BOOLEAN]
    BY <1>1, <1>2 DEF TypeOK
  <2> QED
    BY <1>1, <1>2, <2>1, NextItemType DEF TypeOK, env, db, walk, load
<1>4. todo'[j] \cup batch'[j] \subseteq 1..Len(urls'[j])
  <2>1. todo'[j] \subseteq todo[j] /\ urls' = urls /\ batch' = batch
    BY <1>1, NextItemType
  <2> QED
    BY <1>2, <2>1, Outside
<1> QED
  BY <1>1, <1>2, <1>3, <1>4, NextItemType, Outside, WalkKeeps DEF db, walk, load

LEMMA ItemErrorKeeps ==
  ASSUME IInv, NEW j \in Job, ItemError(j)
  PROVE  IInv'
<1>1. pc[j] = "item" /\ left[j] # <<>> /\ torn' \subseteq Nat /\ Throw(j)
  BY DEF IInv, TypeOK, JobInv, ItemError, Working
<1> QED
  BY <1>1, ThrowKeeps

\* The torn inserts are numbers of inserts.
LEMMA BornType ==
  ASSUME TypeOK, NEW j \in Job
  PROVE  {r.born : r \in fresh[j]} \subseteq Nat
<1>1. fresh[j] \subseteq RowType
  BY DEF TypeOK
<1>2. \A r \in fresh[j] : r.born \in Nat
  BY <1>1 DEF RowType
<1> QED
  BY <1>2

LEMMA DbErrorKeeps ==
  ASSUME IInv, NEW j \in Job, DbError(j)
  PROVE  IInv'
<1>1. left[j] # <<>>
  BY DEF IInv, JobInv, DbError, Working, Loading
<1>2. torn' \subseteq Nat
  BY BornType DEF IInv, TypeOK, DbError
<1>3. Throw(j)
  BY DEF DbError
<1> QED
  BY <1>1, <1>2, <1>3, ThrowKeeps

-----------------------------------------------------------------------------
\* The statements of loadToDb.
LEMMA ReadExistingKeeps ==
  ASSUME IInv, NEW j \in Job, ReadExisting(j)
  PROVE  IInv'
<1> DEFINE found == {r \in rows : /\ r.source = S(j)
                                  /\ \E k \in batch[j] : ExternalId(r) = urls[j][k]}
<1>1. /\ TypeOK /\ left[j] # <<>> /\ pc[j] = "read"
      /\ pc \in [Job -> Label] /\ "insert" \in Label /\ clock \in Nat
  BY DEF IInv, JobInv, TypeOK, ReadExisting, Working, Label
<1>2. PICK map \in SUBSET found :
        /\ \A r \in found : \E q \in map : ExternalId(q) = ExternalId(r)
        /\ known' = [known EXCEPT ![j] = map]
  BY DEF ReadExisting
<1>3. /\ readAt' = [readAt EXCEPT ![j] = clock]
      /\ Goto(j, "insert")
      /\ UNCHANGED <<site, changes, latest, rows, prices, clock, left, list, page,
                     misses, rate, urls, todo, batch, fresh, clean, complete, torn>>
  BY DEF ReadExisting, env, db, walk, hist
<1>4. /\ pc' \in [Job -> Label] /\ pc'[j] = "insert"
      /\ \A i \in Job \ {j} : pc'[i] = pc[i]
  BY <1>1, <1>3, GotoType
<1>5. /\ known' \in [Job -> SUBSET RowType] /\ known'[j] = map
      /\ readAt' \in [Job -> Nat] /\ readAt'[j] = clock
      /\ \A i \in Job \ {j} : known'[i] = known[i] /\ readAt'[i] = readAt[i]
  <2>1. known \in [Job -> SUBSET RowType] /\ readAt \in [Job -> Nat] /\ rows \subseteq RowType
    BY <1>1 DEF TypeOK
  <2>2. map \in SUBSET RowType
    BY <2>1
  <2> QED
    BY <1>1, <1>2, <1>3, <2>1, <2>2
<1>6. TypeOK'
  BY <1>1, <1>3, <1>4, <1>5 DEF TypeOK
<1>7. JobInv'
  BY <1>1, <1>3, <1>4, <1>5 DEF IInv, JobInv, Working
<1>8. RowInv'
  BY <1>3 DEF IInv, RowInv
<1>9. KnownInv'
  BY <1>3, <1>4, <1>5 DEF IInv, KnownInv, S, Loading
<1>10. CoverInv'
  <2> SUFFICES ASSUME NEW i \in Job, pc'[i] = "insert",
                      NEW r \in rows, NEW k \in batch[i],
                      r.source = S(i), ExternalId(r) = urls[i][k], r.born < readAt'[i]
               PROVE  \E q \in known'[i] : ExternalId(q) = urls[i][k]
    BY <1>3 DEF CoverInv, S, ExternalId
  <2>1. CASE i = j
    <3>1. r \in found
      BY <2>1
    <3> QED
      BY <1>2, <1>5, <2>1, <3>1
  <2>2. CASE i # j
    BY <1>4, <1>5, <2>2 DEF IInv, CoverInv
  <2> QED
    BY <2>1, <2>2
<1>11. FreshInv'
  BY <1>3, <1>4 DEF IInv, FreshInv, S
<1> QED
  BY <1>6, <1>7, <1>8, <1>9, <1>10, <1>11 DEF IInv

\* The rows of an insert.
LEMMA RowOf ==
  ASSUME IInv, NEW j \in Job, pc[j] = "insert", NEW k \in New(j)
  PROVE  /\ Row(j, k) \in RowType
         /\ k \in batch[j] /\ k \in 1..Len(urls[j])
         /\ Row(j, k).born = clock /\ Row(j, k).pos = k
         /\ Row(j, k).source = S(j) /\ Row(j, k).scraped = urls[j][k]
         /\ Row(j, k).readAt = readAt[j]
         /\ readAt[j] <= clock
<1>1. TypeOK /\ left[j] # <<>> /\ k \in batch[j] /\ readAt[j] <= clock
  BY DEF IInv, JobInv, New, Working, Loading
<1>2. k \in 1..Len(urls[j]) /\ k \in Nat /\ clock \in Nat /\ readAt[j] \in Nat
  BY <1>1 DEF IInv, JobInv, TypeOK
<1>3. urls[j][k] \in Listing
  <2>1. urls[j] \in Seq(Listing)
    BY <1>1 DEF TypeOK
  <2> QED
    BY <1>2, <2>1, ElementOfSeq
<1>4. S(j) \in Source
  BY <1>1, PolicyOf
<1> QED
  BY <1>1, <1>2, <1>3, <1>4 DEF Row, RowType

LEMMA InsertNewKeeps ==
  ASSUME IInv, NEW j \in Job, InsertNew(j)
  PROVE  IInv'
<1> DEFINE added == {Row(j, k) : k \in New(j)}
<1>1. /\ TypeOK /\ left[j] # <<>> /\ pc[j] = "insert"
      /\ pc \in [Job -> Label] /\ clock \in Nat
      /\ "append" \in Label /\ "firstPrices" \in Label
  BY DEF IInv, JobInv, TypeOK, InsertNew, Working, Loading, Label
<1>2. /\ fresh' = [fresh EXCEPT ![j] = added]
      /\ rows' = rows \cup added
      /\ clock' = IF New(j) = {} THEN clock ELSE clock + 1
      /\ Goto(j, IF New(j) = {} THEN "append" ELSE "firstPrices")
      /\ UNCHANGED <<site, changes, latest, prices, left, list, page, misses, rate,
                     urls, todo, batch, known, readAt, clean, complete, torn>>
  BY DEF InsertNew, env, walk, hist
<1>3. /\ pc' \in [Job -> Label] /\ pc'[j] \in {"append", "firstPrices"}
      /\ \A i \in Job \ {j} : pc'[i] = pc[i]
  BY <1>1, <1>2, GotoType
<1>4. \A r \in added : \E k \in batch[j] :
        /\ r \in RowType /\ r.born = clock /\ r.pos = k
        /\ r.source = S(j) /\ r.scraped = urls[j][k]
        /\ r.readAt = readAt[j] /\ readAt[j] <= clock
  BY <1>1, RowOf
<1>5. added # {} => clock' = clock + 1
  BY <1>2
<1>6. clock <= clock' /\ clock' \in Nat
  BY <1>1, <1>2
<1> HIDE DEF added
<1>7. /\ fresh' \in [Job -> SUBSET RowType] /\ fresh'[j] = added
      /\ \A i \in Job \ {j} : fresh'[i] = fresh[i]
  <2>1. fresh \in [Job -> SUBSET RowType] /\ added \in SUBSET RowType
    BY <1>1, <1>4 DEF TypeOK
  <2> QED
    BY <1>2, <2>1
<1>8. TypeOK'
  <2>1. rows' \subseteq RowType
    BY <1>1, <1>2, <1>4 DEF TypeOK
  <2> QED
    BY <1>1, <1>2, <1>3, <1>6, <1>7, <2>1 DEF TypeOK
<1>9. JobInv'
  <2> SUFFICES ASSUME NEW i \in Job
               PROVE  /\ pc'[i] \in Working => left[i] # <<>>
                      /\ todo[i] \cup batch[i] \subseteq 1..Len(urls[i])
                      /\ readAt[i] <= clock'
    BY <1>2 DEF JobInv
  <2>1. readAt[i] <= clock /\ readAt[i] \in Nat
    BY <1>1 DEF IInv, JobInv, TypeOK
  <2>2. readAt[i] <= clock'
    BY <1>1, <1>6, <2>1
  <2>3. pc'[i] \in Working => left[i] # <<>>
    BY <1>1, <1>3 DEF IInv, JobInv
  <2> QED
    BY <2>2, <2>3 DEF IInv, JobInv
<1>10. RowInv'
  <2> SUFFICES ASSUME NEW r \in rows' PROVE r.born < clock' /\ r.readAt <= r.born
    BY DEF RowInv
  <2>1. CASE r \in rows
    <3>1. r.born < clock /\ r.readAt <= r.born /\ r.born \in Nat
      BY <1>1, <2>1 DEF IInv, RowInv, TypeOK, RowType
    <3> QED
      BY <1>1, <1>6, <3>1
  <2>2. CASE r \in added
    BY <1>1, <1>4, <1>5, <2>2
  <2> QED
    BY <1>2, <2>1, <2>2
<1>11. KnownInv'
  BY <1>1, <1>2, <1>3 DEF IInv, KnownInv, S, Loading
<1>12. CoverInv'
  <2> SUFFICES ASSUME NEW i \in Job, pc'[i] = "insert",
                      NEW r \in rows', NEW k \in batch[i],
                      r.source = S(i), ExternalId(r) = urls[i][k], r.born < readAt[i]
               PROVE  \E q \in known[i] : ExternalId(q) = urls[i][k]
    BY <1>2 DEF CoverInv, S, ExternalId
  <2>1. pc[i] = "insert"
    BY <1>3
  <2>2. readAt[i] <= clock /\ readAt[i] \in Nat
    BY <1>1 DEF IInv, JobInv, TypeOK
  <2>3. r \notin added
    BY <1>1, <1>4, <2>2
  <2>4. r \in rows
    BY <1>2, <2>3
  <2> QED
    BY <2>1, <2>4 DEF IInv, CoverInv
<1>13. FreshInv'
  <2> SUFFICES ASSUME NEW i \in Job, pc'[i] = "firstPrices", NEW r \in fresh'[i]
               PROVE  /\ r \in rows'
                      /\ r.source = S(i)
                      /\ r.pos \in batch[i]
                      /\ r.scraped = urls[i][r.pos]
    BY <1>2 DEF FreshInv, S
  <2>1. CASE i = j
    BY <1>2, <1>4, <1>7, <2>1
  <2>2. CASE i # j
    BY <1>2, <1>3, <1>7, <2>2 DEF IInv, FreshInv
  <2> QED
    BY <2>1, <2>2
<1> QED
  BY <1>8, <1>9, <1>10, <1>11, <1>12, <1>13 DEF IInv

\* A price of an item of the batch, owned by a row of the table.
LEMMA PriceOf ==
  ASSUME TypeOK, NEW j \in Job, left[j] # <<>>,
         NEW k \in 1..Len(urls[j]), NEW r \in RowType
  PROVE  /\ Price(j, k, r) \in PriceType
         /\ Price(j, k, r).owner = Rid(r)
         /\ Price(j, k, r).source = S(j)
         /\ Price(j, k, r).listing = urls[j][k]
<1>1. urls[j] \in Seq(Listing) /\ page[j] \in Nat /\ rate[j] \in Nat
  BY DEF TypeOK
<1>2. urls[j][k] \in Listing /\ k \in Nat
  BY <1>1, ElementOfSeq, LenProperties
<1>3. S(j) \in Source
  BY PolicyOf
<1>4. Rid(r) \in Nat \X Nat
  BY DEF Rid, RowType
<1> QED
  BY <1>1, <1>2, <1>3, <1>4 DEF Price, PriceType

LEMMA InsertFirstPricesKeeps ==
  ASSUME IInv, NEW j \in Job, InsertFirstPrices(j)
  PROVE  IInv'
<1>1. /\ TypeOK /\ left[j] # <<>> /\ pc[j] = "firstPrices"
      /\ pc \in [Job -> Label] /\ "append" \in Label
  BY DEF IInv, JobInv, TypeOK, InsertFirstPrices, Working, Loading, Label
<1>2. /\ prices' = prices \cup {Price(j, r.pos, r) : r \in fresh[j]}
      /\ Goto(j, "append")
      /\ UNCHANGED <<site, changes, latest, rows, clock, left, list, page, misses,
                     rate, urls, todo, batch, known, readAt, fresh, clean, complete, torn>>
  BY DEF InsertFirstPrices, env, walk, load, hist
<1>3. /\ pc' \in [Job -> Label] /\ pc'[j] = "append"
      /\ \A i \in Job \ {j} : pc'[i] = pc[i]
  BY <1>1, <1>2, GotoType
<1>4. TypeOK'
  <2>1. \A r \in fresh[j] : r \in RowType /\ r.pos \in 1..Len(urls[j])
    BY <1>1 DEF IInv, FreshInv, JobInv, TypeOK
  <2>2. \A r \in fresh[j] : Price(j, r.pos, r) \in PriceType
    BY <1>1, <2>1, PriceOf
  <2>3. prices' \subseteq PriceType
    BY <1>1, <1>2, <2>2 DEF TypeOK
  <2> QED
    BY <1>1, <1>2, <1>3, <2>3 DEF TypeOK
<1>5. JobInv'
  BY <1>1, <1>2, <1>3 DEF IInv, JobInv
<1>6. RowInv'
  BY <1>2 DEF IInv, RowInv
<1>7. KnownInv'
  BY <1>1, <1>2, <1>3 DEF IInv, KnownInv, S, Loading
<1>8. CoverInv'
  BY <1>2, <1>3 DEF IInv, CoverInv, S, ExternalId
<1>9. FreshInv'
  BY <1>2, <1>3 DEF IInv, FreshInv, S
<1> QED
  BY <1>4, <1>5, <1>6, <1>7, <1>8, <1>9 DEF IInv

\* The prices AppendPrices adds.
LEMMA Appended ==
  ASSUME IInv, NEW j \in Job, AppendPrices(j),
         NEW p \in prices', p \notin prices
  PROVE  \E k \in batch[j], r \in known[j] :
           /\ p = Price(j, k, r) /\ ExternalId(r) = urls[j][k]
           /\ k \in 1..Len(urls[j]) /\ r \in RowType /\ r \in rows
           /\ r.source = S(j)
<1>1. PICK m \in {n \in batch[j] \X known[j] : ExternalId(n[2]) = urls[j][n[1]]} :
        p = Price(j, m[1], m[2])
  BY DEF AppendPrices
<1>2. m[1] \in batch[j] /\ m[2] \in known[j] /\ ExternalId(m[2]) = urls[j][m[1]]
  BY <1>1
<1>3. m[1] \in 1..Len(urls[j])
  BY <1>2 DEF IInv, JobInv
<1>4. m[2] \in rows /\ m[2] \in RowType /\ m[2].source = S(j)
  BY <1>2 DEF IInv, KnownInv, TypeOK
<1> QED
  BY <1>1, <1>2, <1>3, <1>4

LEMMA AppendPricesKeeps ==
  ASSUME IInv, NEW j \in Job, AppendPrices(j)
  PROVE  IInv'
<1>1. /\ TypeOK /\ left[j] # <<>> /\ pc[j] = "append"
      /\ pc \in [Job -> Label] /\ "list" \in Label
  BY DEF IInv, JobInv, TypeOK, AppendPrices, Working, Loading, Label
<1>2. /\ DropBatch(j)
      /\ UNCHANGED <<site, changes, latest, rows, clock>>
  BY DEF AppendPrices, env
<1>3. prices' \subseteq PriceType
  <2> SUFFICES ASSUME NEW p \in prices', p \notin prices PROVE p \in PriceType
    BY <1>1 DEF TypeOK
  <2> QED
    BY <1>1, Appended, PriceOf
<1>4. /\ pc' \in [Job -> Label] /\ pc'[j] \in {"list", "next"}
      /\ pc'[j] = "list" => left'[j] # <<>>
      /\ left' \in [Job -> Seq(Source)]
      /\ list' \in [Job -> 1..2] /\ page' \in [Job -> Nat \ {0}]
      /\ misses' \in [Job -> Nat] /\ rate' \in [Job -> Nat]
      /\ clean' \in [Job -> BOOLEAN] /\ torn' \subseteq Nat
      /\ \A i \in Job \ {j} : pc'[i] = pc[i] /\ left'[i] = left[i]
  <2>1. CASE P(j).paged
    <3>1. /\ page' = [page EXCEPT ![j] = @ + 1]
          /\ Goto(j, "list")
          /\ UNCHANGED <<left, list, misses, rate, clean, torn>>
      BY <2>1 DEF AppendPrices, hist
    <3>2. page' \in [Job -> Nat \ {0}]
      BY <1>1, <3>1 DEF TypeOK
    <3> QED
      BY <1>1, <3>1, <3>2, GotoType DEF TypeOK
  <2>2. CASE ~P(j).paged
    <3>1. ReturnOk(j, TRUE)
      BY <2>2 DEF AppendPrices
    <3> QED
      BY <1>1, <3>1, ReturnOkType DEF TypeOK
  <2> QED
    BY <2>1, <2>2
<1>5. TypeOK'
  BY <1>1, <1>2, <1>3, <1>4, DropBatchType DEF TypeOK
<1>6. pc'[j] \notin Loading /\ (pc'[j] \in Working => left'[j] # <<>>)
  BY <1>4 DEF Loading, Working
<1>7. /\ known'[j] = {} /\ readAt'[j] = 0
      /\ todo'[j] \cup batch'[j] \subseteq 1..Len(urls'[j])
      /\ \A i \in Job \ {j} :
           /\ urls'[i] = urls[i] /\ todo'[i] = todo[i] /\ batch'[i] = batch[i]
           /\ known'[i] = known[i] /\ readAt'[i] = readAt[i] /\ fresh'[i] = fresh[i]
  BY <1>1, <1>2, DropBatchType
<1> QED
  BY <1>2, <1>4, <1>5, <1>6, <1>7, WalkKeeps

-----------------------------------------------------------------------------
\* The steps that are nobody's request.
LEMMA CrashKeeps ==
  ASSUME IInv, Crash
  PROVE  IInv'
<1>1. TypeOK
  BY DEF IInv
<1>2. <<>> \in Seq(Source) /\ <<>> \in Seq(Listing) /\ "dead" \in Label
  BY EmptySeq DEF Label
<1>3. /\ urls' = [i \in Job |-> <<>>] /\ todo' = [i \in Job |-> {}]
      /\ batch' = [i \in Job |-> {}] /\ known' = [i \in Job |-> {}]
      /\ readAt' = [i \in Job |-> 0] /\ fresh' = [i \in Job |-> {}]
      /\ UNCHANGED <<site, changes, latest, rows, prices, clock,
                     list, page, misses, rate, clean, complete>>
  BY DEF Crash, env, db
<1>4. /\ pc' \in [Job -> Label] /\ left' \in [Job -> Seq(Source)]
      /\ \A i \in Job : pc'[i] \notin Working /\ pc'[i] \notin Loading
  <2>1. /\ pc' = [i \in Job |-> IF Active(i) THEN "dead" ELSE pc[i]]
        /\ left' = [i \in Job |-> IF Active(i) THEN <<>> ELSE left[i]]
    BY DEF Crash
  <2>2. pc \in [Job -> Label] /\ left \in [Job -> Seq(Source)]
    BY <1>1 DEF TypeOK
  <2> QED
    BY <1>2, <2>1, <2>2 DEF Active, Working, Loading
<1>5. torn' \subseteq Nat
  <2>1. \A i \in Job : {r.born : r \in fresh[i]} \subseteq Nat
    BY <1>1, BornType
  <2> QED
    BY <1>1, <2>1 DEF TypeOK, Crash
<1>6. TypeOK'
  BY <1>1, <1>2, <1>3, <1>4, <1>5 DEF TypeOK
<1>7. JobInv'
  BY <1>1, <1>3, <1>4 DEF JobInv, TypeOK
<1>8. RowInv'
  BY <1>3 DEF IInv, RowInv
<1>9. KnownInv' /\ CoverInv' /\ FreshInv'
  BY <1>3, <1>4 DEF KnownInv, CoverInv, FreshInv, Loading
<1> QED
  BY <1>6, <1>7, <1>8, <1>9 DEF IInv

\* The steps of the environment change nothing a job knows.
LEMMA AsideKeeps ==
  ASSUME IInv, TypeOK',
         UNCHANGED <<db, pc, left, urls, todo, batch, load>>
  PROVE  IInv'
BY DEF IInv, JobInv, RowInv, KnownInv, CoverInv, FreshInv, db, load, S, ExternalId

LEMMA ChangeSiteKeeps ==
  ASSUME IInv, NEW s \in Source, NEW c \in 1..2, NEW shown \in Lists,
         ChangeSite(s, c, shown)
  PROVE  IInv'
<1>1. TypeOK
  BY DEF IInv
<1>2. site' \in [Source -> [1..2 -> Lists]] /\ changes' \in Nat
  <2>1. site \in [Source -> [1..2 -> Lists]] /\ changes \in Nat
    BY <1>1 DEF TypeOK
  <2>2. [site[s] EXCEPT ![c] = shown] \in [1..2 -> Lists]
    BY <2>1
  <2> QED
    BY <2>1, <2>2 DEF ChangeSite
<1>3. clean' \in [Job -> BOOLEAN]
  <2>1. clean' = [j \in Job |-> clean[j] /\ ~(Active(j) /\ left[j] # <<>> /\ S(j) = s)]
    BY DEF ChangeSite
  <2> HIDE DEF ChangeSite
  <2> QED
    BY <2>1, Zenon
<1>4. UNCHANGED <<latest, db, pc, walk, urls, todo, batch, load, complete, torn>>
  BY DEF ChangeSite
<1>5. TypeOK'
  BY <1>1, <1>2, <1>3, <1>4 DEF TypeOK, db, walk, load
<1> QED
  BY <1>4, <1>5, AsideKeeps DEF walk

LEMMA UpdateRateKeeps ==
  ASSUME IInv, UpdateRate
  PROVE  IInv'
<1>1. TypeOK'
  BY DEF IInv, TypeOK, UpdateRate, db, walk, load, hist
<1> QED
  BY <1>1, AsideKeeps DEF UpdateRate, walk

LEMMA StutterKeeps ==
  ASSUME IInv, UNCHANGED vars
  PROVE  IInv'
<1>1. TypeOK'
  BY DEF IInv, TypeOK, vars, env, db, walk, load, hist
<1> QED
  BY <1>1, AsideKeeps DEF vars, walk

LEMMA InitHolds ==
  ASSUME Init
  PROVE  IInv
<1>1. <<>> \in Seq(Listing)
  BY EmptySeq
<1>2. left \in [Job -> Seq(Source)]
  BY CrawlAssumption DEF Init
<1>3. site \in [Source -> [1..2 -> Lists]]
  BY CrawlAssumption DEF Init
<1>4. TypeOK
  BY <1>1, <1>2, <1>3 DEF Init, TypeOK, Label
<1>5. JobInv /\ RowInv /\ KnownInv /\ CoverInv /\ FreshInv
  BY DEF Init, JobInv, RowInv, KnownInv, CoverInv, FreshInv, Working, Loading
<1> QED
  BY <1>4, <1>5 DEF IInv

-----------------------------------------------------------------------------
LEMMA NextKeeps ==
  ASSUME IInv, [Next]_vars
  PROVE  IInv'
<1>1. ASSUME NEW j \in Job, Start(j) PROVE IInv'
  BY <1>1, StartKeeps
<1>2. ASSUME NEW j \in Job, Step(j) PROVE IInv'
  BY <1>2, BeginSourceKeeps, FinishKeeps, FetchListKeeps, ListErrorKeeps,
     FetchItemKeeps, SkipItemKeeps, ItemErrorKeeps, ReadExistingKeeps,
     InsertNewKeeps, InsertFirstPricesKeeps, AppendPricesKeeps, DbErrorKeeps
     DEF Step
<1>3. CASE Crash
  BY <1>3, CrashKeeps
<1>4. ASSUME NEW s \in Source, NEW c \in 1..2, NEW shown \in Lists, ChangeSite(s, c, shown)
      PROVE IInv'
  BY <1>4, ChangeSiteKeeps
<1>5. CASE UpdateRate
  BY <1>5, UpdateRateKeeps
<1>6. CASE UNCHANGED vars
  BY <1>6, StutterKeeps
<1> QED
  BY <1>1, <1>2, <1>3, <1>4, <1>5, <1>6 DEF Next

LEMMA InvariantHolds == Spec => []IInv
<1>1. IInv /\ [Next]_vars => IInv'
  BY NextKeeps
<1> QED
  BY <1>1, InitHolds, PTL DEF Spec

\* The crawler's tables and its jobs' locals keep their types.
THEOREM TypeCorrect == Spec => []TypeOK
<1>1. IInv => TypeOK
  BY DEF IInv
<1> QED
  BY <1>1, InvariantHolds, PTL

-----------------------------------------------------------------------------
\* Which steps write the tables.
LEMMA RowsStep ==
  ASSUME [Next]_vars
  PROVE  rows' = rows \/ \E j \in Job : InsertNew(j)
<1>1. ASSUME NEW j \in Job, Start(j) PROVE rows' = rows
  BY <1>1 DEF Start, db
<1>2. ASSUME NEW j \in Job, Step(j) PROVE rows' = rows \/ InsertNew(j)
  BY <1>2 DEF Step, BeginSource, Finish, FetchList, EndList, RetryList, CollectList,
     TakeList, ListError, FetchItem, SkipItem, ItemError, ReadExisting,
     InsertFirstPrices, AppendPrices, DbError, Throw, db
<1>3. CASE Crash
  BY <1>3 DEF Crash, db
<1>4. ASSUME NEW s \in Source, NEW c \in 1..2, NEW shown \in Lists, ChangeSite(s, c, shown)
      PROVE rows' = rows
  BY <1>4 DEF ChangeSite, db
<1>5. CASE UpdateRate
  BY <1>5 DEF UpdateRate, db
<1>6. CASE UNCHANGED vars
  BY <1>6 DEF vars, db
<1> QED
  BY <1>1, <1>2, <1>3, <1>4, <1>5, <1>6 DEF Next

LEMMA PricesStep ==
  ASSUME [Next]_vars
  PROVE  prices' = prices \/ \E j \in Job : InsertFirstPrices(j) \/ AppendPrices(j)
<1>1. ASSUME NEW j \in Job, Start(j) PROVE prices' = prices
  BY <1>1 DEF Start, db
<1>2. ASSUME NEW j \in Job, Step(j)
      PROVE prices' = prices \/ InsertFirstPrices(j) \/ AppendPrices(j)
  BY <1>2 DEF Step, BeginSource, Finish, FetchList, EndList, RetryList, CollectList,
     TakeList, ListError, FetchItem, SkipItem, ItemError, ReadExisting,
     InsertNew, DbError, Throw, db
<1>3. CASE Crash
  BY <1>3 DEF Crash, db
<1>4. ASSUME NEW s \in Source, NEW c \in 1..2, NEW shown \in Lists, ChangeSite(s, c, shown)
      PROVE prices' = prices
  BY <1>4 DEF ChangeSite, db
<1>5. CASE UpdateRate
  BY <1>5 DEF UpdateRate, db
<1>6. CASE UNCHANGED vars
  BY <1>6 DEF vars, db
<1> QED
  BY <1>1, <1>2, <1>3, <1>4, <1>5, <1>6 DEF Next

\* A row is never deleted, and nothing of it is ever changed.
LEMMA RowsGrow ==
  ASSUME [Next]_vars
  PROVE  rows \subseteq rows'
BY RowsStep DEF InsertNew

-----------------------------------------------------------------------------
\* A row inserted now has the number of this insert.
LEMMA InsertedRow ==
  ASSUME IInv, NEW j \in Job, InsertNew(j), NEW r \in rows', r \notin rows
  PROVE  /\ r.born = clock /\ r.source = S(j) /\ r.readAt = readAt[j]
         /\ \E k \in New(j) : k \in batch[j] /\ r.scraped = urls[j][k]
<1>1. pc[j] = "insert" /\ \E k \in New(j) : r = Row(j, k)
  BY DEF InsertNew
<1> QED
  BY <1>1, RowOf

\* loadToDb only stores a second row for a listing when the first one came
\* after its lookup, or when no lookup can find it.
THEOREM DuplicatesHaveACause == Spec => []DuplicateHasCause
<1>1. Init => DuplicateHasCause
  BY DEF Init, DuplicateHasCause
<1>2. ASSUME IInv, DuplicateHasCause, [Next]_vars
      PROVE  DuplicateHasCause'
  <2>1. CASE rows' = rows
    BY <1>2, <2>1 DEF DuplicateHasCause, ExternalId
  <2>2. ASSUME NEW j \in Job, InsertNew(j)
        PROVE  DuplicateHasCause'
    <3> SUFFICES ASSUME NEW q \in rows', NEW r \in rows',
                        q.source = r.source, ExternalId(q) = ExternalId(r),
                        q.born < r.born, Stored[r.scraped] = r.scraped
                 PROVE  r.readAt <= q.born
      BY DEF DuplicateHasCause, ExternalId
    <3>1. CASE r \in rows
      <4>1. r.born < clock /\ clock \in Nat /\ r.born \in Nat
        BY <1>2, <3>1 DEF IInv, RowInv, TypeOK, RowType
      <4>2. q \in rows
        BY <1>2, <2>2, <4>1, InsertedRow
      <4> QED
        BY <1>2, <3>1, <4>2 DEF DuplicateHasCause
    <3>2. CASE r \notin rows
      <4>1. /\ r.born = clock /\ r.source = S(j) /\ r.readAt = readAt[j]
            /\ \E k \in New(j) : k \in batch[j] /\ r.scraped = urls[j][k]
        BY <1>2, <2>2, <3>2, InsertedRow
      <4>2. PICK k \in New(j) : k \in batch[j] /\ r.scraped = urls[j][k]
        BY <4>1
      <4>3. ~ \E p \in known[j] : ExternalId(p) = urls[j][k]
        BY DEF New
      <4>4. ExternalId(q) = urls[j][k]
        BY <4>2 DEF ExternalId
      <4>5. q \in rows
        <5>1. clock \in Nat
          BY <1>2 DEF IInv, TypeOK
        <5> QED
          BY <1>2, <2>2, <4>1, <5>1, InsertedRow
      <4>6. ~(q.born < readAt[j])
        BY <1>2, <2>2, <4>1, <4>2, <4>3, <4>4, <4>5 DEF IInv, CoverInv, InsertNew
      <4>7. q.born \in Nat /\ readAt[j] \in Nat
        BY <1>2, <4>5 DEF IInv, TypeOK, RowType
      <4> QED
        BY <4>1, <4>6, <4>7
    <3> QED
      BY <3>1, <3>2
  <2> QED
    BY <1>2, <2>1, <2>2, RowsStep
<1> QED
  BY <1>1, <1>2, InvariantHolds, PTL DEF Spec

-----------------------------------------------------------------------------
\* Every price is filed under the property of the listing it was seen for,
\* whatever other jobs do between the lookup and the inserts.
THEOREM PricesOnTheirProperty == Spec => []PriceOnItsProperty
<1>1. Init => PriceOnItsProperty
  BY DEF Init, PriceOnItsProperty
<1>2. ASSUME IInv, PriceOnItsProperty, [Next]_vars
      PROVE  PriceOnItsProperty'
  <2> SUFFICES ASSUME NEW p \in prices'
               PROVE  \E r \in rows' : /\ Rid(r) = p.owner
                                       /\ r.source = p.source
                                       /\ ExternalId(r) = Stored[p.listing]
    BY DEF PriceOnItsProperty, Rid, ExternalId
  <2>1. rows \subseteq rows'
    BY <1>2, RowsGrow
  <2>2. CASE p \in prices
    BY <1>2, <2>1, <2>2 DEF PriceOnItsProperty
  <2>3. ASSUME NEW j \in Job, InsertFirstPrices(j), p \notin prices
        PROVE  \E r \in rows : /\ Rid(r) = p.owner
                               /\ r.source = p.source
                               /\ ExternalId(r) = Stored[p.listing]
    <3>1. PICK r \in fresh[j] : p = Price(j, r.pos, r)
      BY <2>3 DEF InsertFirstPrices
    <3>2. /\ TypeOK /\ left[j] # <<>>
          /\ r \in rows /\ r \in RowType /\ r.source = S(j)
          /\ r.pos \in 1..Len(urls[j]) /\ r.scraped = urls[j][r.pos]
      BY <1>2, <2>3 DEF IInv, JobInv, FreshInv, TypeOK, InsertFirstPrices, Working, Loading
    <3>3. Rid(r) = p.owner /\ p.source = S(j) /\ p.listing = urls[j][r.pos]
      BY <3>1, <3>2, PriceOf
    <3> QED
      BY <3>2, <3>3 DEF ExternalId
  <2>4. ASSUME NEW j \in Job, AppendPrices(j), p \notin prices
        PROVE  \E r \in rows : /\ Rid(r) = p.owner
                               /\ r.source = p.source
                               /\ ExternalId(r) = Stored[p.listing]
    <3>1. PICK k \in batch[j], r \in known[j] :
            /\ p = Price(j, k, r) /\ ExternalId(r) = urls[j][k]
            /\ k \in 1..Len(urls[j]) /\ r \in RowType /\ r \in rows
            /\ r.source = S(j)
      BY <1>2, <2>4, Appended
    <3>2. TypeOK /\ left[j] # <<>>
      BY <1>2, <2>4 DEF IInv, JobInv, AppendPrices, Working, Loading
    <3>3. Rid(r) = p.owner /\ p.source = S(j) /\ p.listing = urls[j][k]
      BY <3>1, <3>2, PriceOf
    <3>4. r.scraped \in Listing
      BY <3>1 DEF RowType
    <3>5. Stored[urls[j][k]] = ExternalId(r)
      BY <3>1, <3>4, CrawlAssumption DEF ExternalId
    <3> QED
      BY <3>1, <3>3, <3>5
  <2>5. p \in prices \/ \E j \in Job : InsertFirstPrices(j) \/ AppendPrices(j)
    BY <1>2, PricesStep
  <2> QED
    BY <2>1, <2>2, <2>3, <2>4, <2>5
<1> QED
  BY <1>1, <1>2, InvariantHolds, PTL DEF Spec

-----------------------------------------------------------------------------
\* What becomes of rows that wait for their first price.
LEMMA FreshStep ==
  ASSUME IInv, [Next]_vars, NEW i \in Job, pc[i] = "firstPrices"
  PROVE  \/ pc'[i] = "firstPrices" /\ fresh'[i] = fresh[i]
         \/ InsertFirstPrices(i)
         \/ {r.born : r \in fresh[i]} \subseteq torn'
<1> DEFINE Waits == pc'[i] = "firstPrices" /\ fresh'[i] = fresh[i]
<1>1. pc \in [Job -> Label] /\ fresh \in [Job -> SUBSET RowType]
  BY DEF IInv, TypeOK
<1>2. ASSUME NEW j \in Job, Start(j) PROVE Waits
  BY <1>1, <1>2 DEF Start, Goto, load
<1>3. ASSUME NEW j \in Job, Step(j), j # i PROVE Waits
  BY <1>1, <1>3 DEF Step, BeginSource, Finish, FetchList, EndList, RetryList, CollectList,
     TakeList, ListError, FetchItem, SkipItem, ItemError, ReadExisting, InsertNew,
     InsertFirstPrices, AppendPrices, DbError, Throw, ReturnOk, DropBatch, NextItem,
     Goto, load
<1>4. ASSUME Step(i) PROVE InsertFirstPrices(i) \/ DbError(i)
  BY <1>4 DEF Step, BeginSource, Finish, FetchList, EndList, RetryList, CollectList,
     TakeList, ListError, FetchItem, SkipItem, ItemError, ReadExisting, InsertNew,
     AppendPrices, NextItem
<1>5. ASSUME DbError(i) PROVE {r.born : r \in fresh[i]} \subseteq torn'
  BY <1>5 DEF DbError
<1>6. ASSUME Crash PROVE {r.born : r \in fresh[i]} \subseteq torn'
  BY <1>6 DEF Crash
<1>7. ASSUME NEW s \in Source, NEW c \in 1..2, NEW shown \in Lists, ChangeSite(s, c, shown)
      PROVE Waits
  BY <1>7 DEF ChangeSite, load
<1>8. ASSUME UpdateRate PROVE Waits
  BY <1>8 DEF UpdateRate, load
<1>9. ASSUME UNCHANGED vars PROVE Waits
  BY <1>9 DEF vars, load
<1> QED
  BY <1>2, <1>3, <1>4, <1>5, <1>6, <1>7, <1>8, <1>9 DEF Next

LEMMA TornGrows ==
  ASSUME [Next]_vars
  PROVE  torn \subseteq torn'
<1>1. ASSUME NEW j \in Job, Start(j) PROVE torn' = torn
  BY <1>1 DEF Start, hist
<1>2. ASSUME NEW j \in Job, Step(j) PROVE torn \subseteq torn'
  BY <1>2 DEF Step, BeginSource, Finish, FetchList, EndList, RetryList, CollectList,
     TakeList, ListError, FetchItem, SkipItem, ItemError, ReadExisting, InsertNew,
     InsertFirstPrices, AppendPrices, DbError, ReturnOk, hist
<1>3. CASE Crash
  BY <1>3 DEF Crash
<1>4. ASSUME NEW s \in Source, NEW c \in 1..2, NEW shown \in Lists, ChangeSite(s, c, shown)
      PROVE torn' = torn
  BY <1>4 DEF ChangeSite
<1>5. CASE UpdateRate
  BY <1>5 DEF UpdateRate, hist
<1>6. CASE UNCHANGED vars
  BY <1>6 DEF vars, hist
<1> QED
  BY <1>1, <1>2, <1>3, <1>4, <1>5, <1>6 DEF Next

\* A property stays without a price only when its insert was torn apart.
THEOREM UnpricedAreTorn == Spec => []PricedUnlessTorn
<1>1. Init => PricedUnlessTorn
  BY DEF Init, PricedUnlessTorn
<1>2. ASSUME IInv, PricedUnlessTorn, [Next]_vars
      PROVE  PricedUnlessTorn'
  <2> SUFFICES ASSUME NEW r \in rows'
               PROVE  \/ \E p \in prices' : p.owner = Rid(r)
                      \/ \E i \in Job : pc'[i] = "firstPrices" /\ r \in fresh'[i]
                      \/ r.born \in torn'
    BY DEF PricedUnlessTorn, Rid
  <2>1. prices \subseteq prices' /\ torn \subseteq torn'
    BY <1>2, PricesStep, TornGrows DEF InsertFirstPrices, AppendPrices
  <2>2. CASE \E p \in prices : p.owner = Rid(r)
    BY <2>1, <2>2
  <2>3. CASE r.born \in torn
    BY <2>1, <2>3
  <2>4. ASSUME NEW i \in Job, pc[i] = "firstPrices", r \in fresh[i]
        PROVE  \/ \E p \in prices' : p.owner = Rid(r)
               \/ \E k \in Job : pc'[k] = "firstPrices" /\ r \in fresh'[k]
               \/ r.born \in torn'
    <3>1. CASE InsertFirstPrices(i)
      <4>1. Price(i, r.pos, r) \in prices'
        BY <2>4, <3>1 DEF InsertFirstPrices
      <4>2. Price(i, r.pos, r).owner = Rid(r)
        BY DEF Price
      <4> QED
        BY <4>1, <4>2
    <3>2. CASE ~InsertFirstPrices(i)
      BY <1>2, <2>4, <3>2, FreshStep
    <3> QED
      BY <3>1, <3>2
  <2>5. CASE r \notin rows
    <3>1. PICK j \in Job : InsertNew(j)
      BY <1>2, <2>5, RowsStep
    <3>2. \E k \in New(j) : r = Row(j, k)
      BY <2>5, <3>1 DEF InsertNew
    <3>3. pc \in [Job -> Label] /\ fresh \in [Job -> SUBSET RowType]
      BY <1>2 DEF IInv, TypeOK
    <3>4. pc'[j] = "firstPrices" /\ r \in fresh'[j]
      BY <3>1, <3>2, <3>3 DEF InsertNew, Goto
    <3> QED
      BY <3>4
  <2>6. CASE r \in rows
    BY <1>2, <2>2, <2>3, <2>4, <2>6 DEF PricedUnlessTorn
  <2> QED
    BY <2>5, <2>6
<1> QED
  BY <1>1, <1>2, InvariantHolds, PTL DEF Spec
=============================================================================
