-------------------------------- MODULE Crawl --------------------------------
(***************************************************************************)
(* The crawler of the parser module: jobs (the weekly cron tick, POST      *)
(* /parse, POST /parse/:source) walk the list pages of their sources, one  *)
(* page after the other, and load each page into the tables property and   *)
(* property_price (ParserBaseService.loadToDb).  Nothing keeps two jobs    *)
(* apart, no transaction spans the statements of a load, and no unique     *)
(* constraint covers (source, external_id).                                *)
(*                                                                         *)
(* A step is what happens between two awaits: one answered (or failed)     *)
(* HTTP request or database statement, with the synchronous code after it. *)
(***************************************************************************)
EXTENDS Naturals, Sequences, FiniteSets

CONSTANTS
  Source,        \* the sources parseInner knows
  Policy,        \* [Source -> policy], see module Sources
  PastEnd,       \* [Source -> {"empty", "error"}]: a site's answer past its last page
  Listing,       \* the texts item pages give as external id
  Stored,        \* [Listing -> Listing]: the text the table keeps (trimDeep)
  Lists,         \* the lists of items a category of a site may show
  Sites,         \* what the sites may show at first
  PageSize,      \* items on a full list page
  EmptyRetries,  \* the limit of the empty-page counter (15 in the code)
  Job,           \* requests for a crawl
  Plans,         \* [Job -> SUBSET Seq(Source)]: what it may crawl; <<>>: an unknown name
  Sweep,         \* the jobs that run parseAll; the others run parseInner once
  MaxPage,       \* bound: pages a job asks for
  MaxSite,       \* bound: changes of a site's lists
  MaxRate        \* bound: currency updates

PolicyType ==
  [lists : {1, 2}, paged : BOOLEAN, front : BOOLEAN,
   stop : {"empty", "partial", "never"}, retries : BOOLEAN,
   onListError : {"throw", "stop"}, onItemError : {"throw", "skip"},
   dedup : BOOLEAN, rate : {"always", "fallback", "unused", "unread"}]

\* What the crawler is instantiated with.  Trimming twice is trimming once.
ASSUME CrawlAssumption ==
  /\ Policy \in [Source -> PolicyType]
  /\ PastEnd \in [Source -> {"empty", "error"}]
  /\ Stored \in [Listing -> Listing]
  /\ \A l \in Listing : Stored[Stored[l]] = Stored[l]
  /\ Lists \subseteq Seq(Listing)
  /\ Sites \subseteq [Source -> [1..2 -> Lists]]
  /\ PageSize \in Nat \ {0}
  /\ EmptyRetries \in Nat
  /\ Plans \in [Job -> SUBSET Seq(Source)]
  /\ Sweep \subseteq Job
  /\ MaxPage \in Nat /\ MaxSite \in Nat /\ MaxRate \in Nat

\* The list of parseAll names no source twice.
ASSUME PlansAssumption ==
  \A j \in Job : \A plan \in Plans[j] : \A m, n \in 1..Len(plan) :
    plan[m] = plan[n] => m = n

\* What the services have in common.  One that walks two lists page by page, with
\* the one page counter, ends each at a short page; it then loads no page apart.
\* Links are freed of repetitions page by page, and a failing list request ends a
\* crawl only where there is one list.
ASSUME PoliciesAssumption ==
  \A s \in Source :
    /\ Policy[s].paged /\ Policy[s].lists = 2 => Policy[s].stop = "partial"
    /\ Policy[s].paged /\ Policy[s].stop = "partial" => ~Policy[s].front
    /\ Policy[s].dedup => Policy[s].paged
    /\ Policy[s].onListError = "stop" => Policy[s].lists = 1

VARIABLES
  site,      \* [Source -> [1..2 -> Lists]]: what the site lists now
  changes,   \* how often a site changed
  latest,    \* number of the newest currency rate; 0: the table is empty
  rows,      \* table property
  prices,    \* table property_price
  clock,     \* number of non-empty property inserts so far
  pc,        \* [Job -> control point]
  left,      \* [Job -> Seq(Source)]: sources to crawl, the current one first
  list,      \* [Job -> 1..2]: the category being walked
  page,      \* [Job -> Nat]
  misses,    \* [Job -> Nat]: the empty-page counter
  urls,      \* [Job -> Seq(Listing)]: links of the page
  todo,      \* [Job -> SUBSET Nat]: positions of urls still to fetch
  batch,     \* [Job -> SUBSET Nat]: positions whose item was parsed
  known,     \* [Job -> SUBSET rows]: existedRowsMap
  readAt,    \* [Job -> Nat]: the clock when existedRows was read
  fresh,     \* [Job -> SUBSET rows]: the rows inserted for this page
  rate,      \* [Job -> Nat]: currentRate
  clean,     \* history: no item skipped and no site change in this source
  complete,  \* history: sources crawled to their end with clean = TRUE
  torn       \* history: inserts whose first prices were lost

env   == <<site, changes, latest>>
db    == <<rows, prices, clock>>
walk  == <<left, list, page, misses, rate>>
load  == <<known, readAt, fresh>>
hist  == <<clean, complete, torn>>
vars  == <<env, db, pc, walk, urls, todo, batch, load, hist>>

-----------------------------------------------------------------------------
\* A row of property is known by its insert (born) and place in it (pos).
Rid(r) == <<r.born, r.pos>>
ExternalId(r) == Stored[r.scraped]

Active(j) == pc[j] \notin {"idle", "done", "failed", "dead"}
S(j) == Head(left[j])
P(j) == Policy[S(j)]

\* The links of page p of list c.
PageOf(shown, p) ==
  SubSeq(shown, (p - 1) * PageSize + 1,
         IF p * PageSize < Len(shown) THEN p * PageSize ELSE Len(shown))

Shown(j) == IF P(j).paged THEN PageOf(site[S(j)][list[j]], page[j])
                          ELSE site[S(j)][list[j]]

FrontPage(j) == P(j).front /\ page[j] = 1

\* Mutant of Stops: a short page is taken for the end of every list.
StopsShort(j) == P(j).paged /\ ~FrontPage(j) /\ Len(Shown(j)) < PageSize

\* The test that ends a list, on the links just fetched.
Stops(j) ==
  /\ P(j).paged
  /\ ~FrontPage(j)
  /\ \/ P(j).stop = "empty" /\ Shown(j) = <<>>
     \/ P(j).stop = "partial" /\ Len(Shown(j)) < PageSize
     \/ P(j).retries /\ misses[j] > EmptyRetries

\* An empty page that is counted and asked for again.
Retries(j) ==
  P(j).retries /\ ~FrontPage(j) /\ ~Stops(j) /\ Shown(j) = <<>>

\* Positions of the links that are followed.
Links(j, links) ==
  IF P(j).dedup
    THEN {k \in 1..Len(links) : \A m \in 1..(k - 1) : links[m] # links[k]}
    ELSE 1..Len(links)

-----------------------------------------------------------------------------
Init ==
  /\ site \in Sites
  /\ changes = 0
  /\ latest \in 0..1
  /\ rows = {} /\ prices = {} /\ clock = 0
  /\ pc = [j \in Job |-> "idle"]
  /\ left \in {f \in [Job -> UNION {Plans[j] : j \in Job}] : \A j \in Job : f[j] \in Plans[j]}
  /\ list = [j \in Job |-> 1]
  /\ page = [j \in Job |-> 1]
  /\ misses = [j \in Job |-> 0]
  /\ rate = [j \in Job |-> 0]
  /\ urls = [j \in Job |-> <<>>]
  /\ todo = [j \in Job |-> {}]
  /\ batch = [j \in Job |-> {}]
  /\ known = [j \in Job |-> {}]
  /\ readAt = [j \in Job |-> 0]
  /\ fresh = [j \in Job |-> {}]
  /\ clean = [j \in Job |-> TRUE]
  /\ complete = {} /\ torn = {}

Goto(j, label) == pc' = [pc EXCEPT ![j] = label]

\* Mutant of DropBatch: the links are declared outside the loop.
DropBatchKeepsUrls(j) ==
  /\ todo' = [todo EXCEPT ![j] = {}]
  /\ batch' = [batch EXCEPT ![j] = {}]
  /\ known' = [known EXCEPT ![j] = {}]
  /\ readAt' = [readAt EXCEPT ![j] = 0]
  /\ fresh' = [fresh EXCEPT ![j] = {}]
  /\ UNCHANGED urls

\* The batch of a page is local to an iteration of the loop.
DropBatch(j) ==
  /\ urls' = [urls EXCEPT ![j] = <<>>]
  /\ todo' = [todo EXCEPT ![j] = {}]
  /\ batch' = [batch EXCEPT ![j] = {}]
  /\ known' = [known EXCEPT ![j] = {}]
  /\ readAt' = [readAt EXCEPT ![j] = 0]
  /\ fresh' = [fresh EXCEPT ![j] = {}]

\* The cron tick or the POST handler calls parseAll or parseInner.
Start(j) ==
  /\ pc[j] = "idle"
  /\ Goto(j, "next")
  /\ UNCHANGED <<env, db, walk, urls, todo, batch, load, hist>>

\* Mutant of BeginSource: pages are counted from 0.
BeginSourceAtZero(j) ==
  /\ pc[j] = "next" /\ left[j] # <<>>
  /\ list' = [list EXCEPT ![j] = 1]
  /\ page' = [page EXCEPT ![j] = 0]
  /\ Goto(j, "list")
  /\ UNCHANGED <<env, db, left, misses, rate, urls, todo, batch, load, hist>>

\* parse() begins: its locals, and the newest rate from 'USD'.
BeginSource(j) ==
  /\ pc[j] = "next" /\ left[j] # <<>>
  /\ list' = [list EXCEPT ![j] = 1]
  /\ page' = [page EXCEPT ![j] = 1]
  /\ misses' = [misses EXCEPT ![j] = 0]
  /\ rate' = [rate EXCEPT ![j] = IF P(j).rate = "unread" THEN 0 ELSE latest]
  /\ clean' = [clean EXCEPT ![j] = TRUE]
  /\ Goto(j, "list")
  /\ UNCHANGED <<env, db, left, urls, todo, batch, load, complete, torn>>

\* The for loop of parseAll is over, or parseInner has returned.
Finish(j) ==
  /\ pc[j] = "next" /\ left[j] = <<>>
  /\ Goto(j, "done")
  /\ UNCHANGED <<env, db, walk, urls, todo, batch, load, hist>>

\* parse() returns 'ok': on to the next source of parseAll.
ReturnOk(j, sure) ==
  /\ Goto(j, "next")
  /\ left' = [left EXCEPT ![j] = Tail(@)]
  /\ complete' = IF clean[j] /\ sure
                   THEN complete \cup {[job |-> j, source |-> S(j), shown |-> site[S(j)]]}
                   ELSE complete
  /\ UNCHANGED <<list, page, misses, rate, clean, torn>>

\* Mutants of Throw: the source that failed is tried again; parseAll ends.
ThrowRetries(j) ==
  /\ DropBatch(j) /\ Goto(j, "next")
  /\ UNCHANGED <<env, db, left, list, page, misses, rate, clean, complete>>

ThrowEndsSweep(j) ==
  /\ DropBatch(j) /\ Goto(j, "failed")
  /\ left' = [left EXCEPT ![j] = <<>>]
  /\ UNCHANGED <<env, db, list, page, misses, rate, clean, complete>>

\* An exception leaves parse(): parseAll logs it and goes on with the next
\* source, the handler of POST /parse/:source answers with an error.
Throw(j) ==
  /\ DropBatch(j)
  /\ IF j \in Sweep
       THEN Goto(j, "next") /\ left' = [left EXCEPT ![j] = Tail(@)]
       ELSE Goto(j, "failed") /\ left' = [left EXCEPT ![j] = <<>>]
  /\ UNCHANGED <<env, db, list, page, misses, rate, clean, complete>>

-----------------------------------------------------------------------------
\* The list request is answered with a page that ends the list.
EndList(j) ==
  /\ pc[j] = "list" /\ Stops(j)
  /\ IF list[j] < P(j).lists
       THEN /\ list' = [list EXCEPT ![j] = @ + 1]  \* page keeps its value
            /\ UNCHANGED <<pc, left, page, misses, rate, hist>>
       ELSE ReturnOk(j, TRUE)
  /\ UNCHANGED <<env, db, urls, todo, batch, load>>

RetryList(j) ==
  /\ pc[j] = "list" /\ Retries(j)
  /\ misses' = [misses EXCEPT ![j] = @ + 1]
  /\ UNCHANGED <<env, db, pc, left, list, page, rate, urls, todo, batch, load, hist>>

\* The first of several lists that make one batch.
CollectList(j) ==
  /\ pc[j] = "list" /\ ~P(j).paged /\ list[j] < P(j).lists
  /\ urls' = [urls EXCEPT ![j] = @ \o Shown(j)]
  /\ list' = [list EXCEPT ![j] = @ + 1]
  /\ UNCHANGED <<env, db, pc, left, page, misses, rate, todo, batch, load, hist>>

\* The links of the page (or of the last list of a single batch) are known.
TakeList(j) ==
  /\ pc[j] = "list" /\ ~Stops(j) /\ ~Retries(j)
  /\ P(j).paged \/ list[j] = P(j).lists
  /\ LET links == urls[j] \o Shown(j) IN
       /\ urls' = [urls EXCEPT ![j] = links]
       /\ todo' = [todo EXCEPT ![j] = Links(j, links)]
       /\ Goto(j, IF links = <<>> THEN "read" ELSE "item")
  /\ UNCHANGED <<env, db, walk, batch, load, hist>>

\* Whether the site answers the request at all: past its last page it may not.
Answered(j) ==
  /\ page[j] <= MaxPage
  /\ PastEnd[S(j)] = "error" => Shown(j) # <<>> \/ page[j] = 1

FetchList(j) ==
  /\ pc[j] = "list" /\ Answered(j)
  /\ EndList(j) \/ RetryList(j) \/ CollectList(j) \/ TakeList(j)

\* The list request fails, or its answer cannot be read, which always throws.
\* Where a failing request ends the loop, one in the middle of the site cannot be
\* told from its end.
ListError(j) ==
  /\ pc[j] = "list"
  /\ \/ /\ P(j).onListError = "stop"
        /\ ReturnOk(j, Shown(j) = <<>>)
        /\ UNCHANGED <<env, db, urls, todo, batch, load>>
     \/ Throw(j) /\ UNCHANGED torn

-----------------------------------------------------------------------------
\* Items are fetched one after the other, in the order of the links.
NextItem(j, k) ==
  /\ pc[j] = "item" /\ k \in todo[j] /\ \A m \in todo[j] : k <= m
  /\ todo' = [todo EXCEPT ![j] = @ \ {k}]
  /\ Goto(j, IF todo[j] = {k} THEN "read" ELSE "item")

\* parseItem returns a property.  Without a rate, currentRate.amount throws.
FetchItem(j, k) ==
  /\ NextItem(j, k)
  /\ P(j).rate = "always" => rate[j] # 0
  /\ batch' = [batch EXCEPT ![j] = @ \cup {k}]
  /\ UNCHANGED <<env, db, walk, urls, load, hist>>

\* parseItem returns nothing, and parse() drops it.
SkipItem(j, k) ==
  /\ NextItem(j, k)
  /\ P(j).onItemError = "skip"
  /\ clean' = [clean EXCEPT ![j] = FALSE]
  /\ UNCHANGED <<env, db, walk, urls, batch, load, complete, torn>>

\* The request fails, or the page lacks an element parseItem dereferences:
\* the items of the page parsed so far are lost with it.
ItemError(j) ==
  /\ pc[j] = "item"
  /\ Throw(j) /\ UNCHANGED torn

-----------------------------------------------------------------------------
\* loadToDb, first statement: the rows with (source, external_id) of an item
\* of the batch.  Of several rows with one external id the map keeps the last
\* of the result, which has no order.
ReadExisting(j) ==
  /\ pc[j] = "read"
  /\ LET found == {r \in rows : /\ r.source = S(j)
                                /\ \E k \in batch[j] : ExternalId(r) = urls[j][k]}
     IN \E map \in SUBSET found :
          /\ \A r \in found : \E q \in map : ExternalId(q) = ExternalId(r)
          /\ \A q, r \in map : ExternalId(q) = ExternalId(r) => q = r
          /\ known' = [known EXCEPT ![j] = map]
  /\ readAt' = [readAt EXCEPT ![j] = clock]
  /\ Goto(j, "insert")
  /\ UNCHANGED <<env, db, walk, urls, todo, batch, fresh, hist>>

\* Mutant of New: existedRowsMap is not consulted.
NewAll(j) == batch[j]

\* The items the map has no row for.
New(j) == {k \in batch[j] : \A r \in known[j] : ExternalId(r) # urls[j][k]}

\* Mutant of Row: every row gets the id of the first link.
RowOfFirst(j, k) == [born |-> clock, pos |-> k, source |-> S(j),
                     scraped |-> urls[j][1], readAt |-> readAt[j]]

\* What is stored, and as a history of it the insert and the lookup before it.
Row(j, k) == [born |-> clock, pos |-> k, source |-> S(j),
              scraped |-> urls[j][k], readAt |-> readAt[j]]

\* insertGraph, the properties.
InsertNew(j) ==
  /\ pc[j] = "insert"
  /\ fresh' = [fresh EXCEPT ![j] = {Row(j, k) : k \in New(j)}]
  /\ rows' = rows \cup {Row(j, k) : k \in New(j)}
  /\ clock' = IF New(j) = {} THEN clock ELSE clock + 1
  /\ Goto(j, IF New(j) = {} THEN "append" ELSE "firstPrices")
  /\ UNCHANGED <<env, prices, walk, urls, todo, batch, known, readAt, hist>>

\* Mutants of Price: the newest rate is read again for every price; the prices
\* of an insert go to its first row.
PriceAtLatest(j, k, r) ==
  [job |-> j, source |-> S(j), page |-> page[j], pos |-> k, listing |-> urls[j][k],
   rate |-> latest, owner |-> Rid(r), first |-> pc[j] = "firstPrices"]

PriceOfFirst(j, k, r) ==
  [job |-> j, source |-> S(j), page |-> page[j], pos |-> k, listing |-> urls[j][k],
   rate |-> rate[j], owner |-> <<r.born, 1>>, first |-> pc[j] = "firstPrices"]

\* The price of item k of the page, filed under row r; as a history of it the
\* crawl, the item and the statement (insertGraph or the append) it came by.
Price(j, k, r) ==
  [job |-> j, source |-> S(j), page |-> page[j], pos |-> k, listing |-> urls[j][k],
   rate |-> rate[j], owner |-> Rid(r), first |-> pc[j] = "firstPrices"]

\* insertGraph, the relation prices of the rows just inserted.
InsertFirstPrices(j) ==
  /\ pc[j] = "firstPrices"
  /\ prices' = prices \cup {Price(j, r.pos, r) : r \in fresh[j]}
  /\ Goto(j, "append")
  /\ UNCHANGED <<env, rows, clock, walk, urls, todo, batch, load, hist>>

\* The items the map has a row for get a price each; then the next page.
AppendPrices(j) ==
  /\ pc[j] = "append"
  /\ prices' = prices \cup
       {Price(j, m[1], m[2]) :
          m \in {n \in batch[j] \X known[j] : ExternalId(n[2]) = urls[j][n[1]]}}
  /\ DropBatch(j)
  /\ IF P(j).paged
       THEN /\ page' = [page EXCEPT ![j] = @ + 1]
            /\ Goto(j, "list")
            /\ UNCHANGED <<left, list, misses, rate, hist>>
       ELSE ReturnOk(j, TRUE)
  /\ UNCHANGED <<env, rows, clock>>

\* A statement fails.  The properties of an insertGraph whose second
\* statement fails stay, without a price.
DbError(j) ==
  /\ \/ pc[j] = "next" /\ left[j] # <<>> /\ P(j).rate # "unread"
     \/ pc[j] \in {"read", "firstPrices"}
     \/ pc[j] = "insert" /\ New(j) # {}     \* an empty insert is no statement
     \/ pc[j] = "append" /\ known[j] # {}
  /\ torn' = IF pc[j] = "firstPrices" THEN torn \cup {r.born : r \in fresh[j]} ELSE torn
  /\ Throw(j)

-----------------------------------------------------------------------------
\* The process dies with its jobs; the tables stay.
Crash ==
  /\ \E j \in Job : Active(j)
  /\ torn' = torn \cup UNION {{r.born : r \in fresh[j]} :
                                 j \in {i \in Job : pc[i] = "firstPrices"}}
  /\ pc' = [j \in Job |-> IF Active(j) THEN "dead" ELSE pc[j]]
  /\ left' = [j \in Job |-> IF Active(j) THEN <<>> ELSE left[j]]
  /\ urls' = [j \in Job |-> <<>>]
  /\ todo' = [j \in Job |-> {}]
  /\ batch' = [j \in Job |-> {}]
  /\ known' = [j \in Job |-> {}]
  /\ readAt' = [j \in Job |-> 0]
  /\ fresh' = [j \in Job |-> {}]
  /\ UNCHANGED <<env, db, list, page, misses, rate, clean, complete>>

\* A site adds, removes or reorders its items while it is crawled, or not.
ChangeSite(s, c, shown) ==
  /\ changes < MaxSite /\ changes' = changes + 1
  /\ site' = [site EXCEPT ![s][c] = shown]
  /\ clean' = [j \in Job |-> clean[j] /\ ~(Active(j) /\ left[j] # <<>> /\ S(j) = s)]
  /\ UNCHANGED <<latest, db, pc, walk, urls, todo, batch, load, complete, torn>>

\* CurrencyService.update inserts the rates of the day.
UpdateRate ==
  /\ latest < MaxRate /\ latest' = latest + 1
  /\ UNCHANGED <<site, changes, db, pc, walk, urls, todo, batch, load, hist>>

-----------------------------------------------------------------------------
Step(j) ==
  \/ BeginSource(j) \/ Finish(j)
  \/ FetchList(j) \/ ListError(j)
  \/ \E k \in todo[j] : FetchItem(j, k) \/ SkipItem(j, k)
  \/ ItemError(j)
  \/ ReadExisting(j) \/ InsertNew(j) \/ InsertFirstPrices(j) \/ AppendPrices(j)
  \/ DbError(j)

Next ==
  \/ \E j \in Job : Start(j) \/ Step(j)
  \/ Crash
  \/ \E s \in Source, c \in 1..2, shown \in Lists : ChangeSite(s, c, shown)
  \/ UpdateRate

Spec == Init /\ [][Next]_vars

\* Every request of a started job is answered or fails, every statement ends:
\* the event loop gets back to it.  Starting a job, a crash, the sites and the
\* currency updates are nobody's duty.
FairSpec == Spec /\ \A j \in Job : WF_vars(Step(j))
=============================================================================
