----------------------------- MODULE CrawlProps -----------------------------
(***************************************************************************)
(* What the crawler guarantees, and the abstract price history it          *)
(* implements.                                                             *)
(***************************************************************************)
EXTENDS Crawl

RowType == [born : Nat, pos : Nat, source : Source, scraped : Listing, readAt : Nat]
PriceType == [job : Job, source : Source, page : Nat, pos : Nat,
              listing : Listing, rate : Nat, owner : Nat \X Nat, first : BOOLEAN]

Label == {"idle", "next", "list", "item", "read", "insert", "firstPrices",
          "append", "done", "failed", "dead"}

TypeOK ==
  /\ site \in [Source -> [1..2 -> Lists]]
  /\ changes \in Nat /\ latest \in Nat /\ clock \in Nat
  /\ rows \subseteq RowType
  /\ prices \subseteq PriceType
  /\ pc \in [Job -> Label]
  /\ left \in [Job -> Seq(Source)]
  /\ list \in [Job -> 1..2] /\ page \in [Job -> Nat \ {0}]
  /\ misses \in [Job -> Nat] /\ rate \in [Job -> Nat]
  /\ urls \in [Job -> Seq(Listing)]
  /\ todo \in [Job -> SUBSET Nat] /\ batch \in [Job -> SUBSET Nat]
  /\ known \in [Job -> SUBSET RowType] /\ fresh \in [Job -> SUBSET RowType]
  /\ readAt \in [Job -> Nat]
  /\ torn \subseteq Nat
  /\ clean \in [Job -> BOOLEAN]

\* loadToDb looks for a row before it inserts one, but nothing makes the two
\* one step.  Two rows of one listing always go back to one of three causes:
\* the item occurs twice in a batch, the later insert was decided on a result
\* read before the earlier insert, or the scraped id is not the one the table
\* keeps, so that no lookup ever finds the row.
DuplicateHasCause ==
  \A q, r \in rows :
    /\ q.source = r.source
    /\ ExternalId(q) = ExternalId(r)
    /\ q.born < r.born
    => r.readAt <= q.born \/ Stored[r.scraped] # r.scraped

\* Every price belongs to a stored property, and to the one it was seen for:
\* same source, and the external id under which the listing is kept.
PriceOnItsProperty ==
  \A p \in prices : \E r \in rows :
    /\ Rid(r) = p.owner
    /\ r.source = p.source
    /\ ExternalId(r) = Stored[p.listing]

\* A property without a price is one whose insertGraph is between its two
\* statements, or failed there: the insert is not a transaction.
PricedUnlessTorn ==
  \A r \in rows :
    \/ \E p \in prices : p.owner = Rid(r)
    \/ \E j \in Job : pc[j] = "firstPrices" /\ r \in fresh[j]
    \/ r.born \in torn

\* One item of a page yields one price: an item is inserted with its first
\* price or appended to a known property, never both.
OnePricePerItem ==
  \A p, q \in prices :
    /\ p.job = q.job /\ p.source = q.source
    /\ p.page = q.page /\ p.pos = q.pos
    => p = q

\* The prices of one crawl of a source are converted at one rate, whatever
\* CurrencyService.update inserts meanwhile.
OneRatePerCrawl ==
  \A p, q \in prices :
    p.job = q.job /\ p.source = q.source => p.rate = q.rate

-----------------------------------------------------------------------------
\* The reference for a whole crawl: the items that the loop of a source
\* reaches on a site that stands still, as <<list, position>>.
FullPages(shown) == Len(shown) \div PageSize

Reached(s, shown) ==
  LET all(c) == {c} \X (1..Len(shown[c]))
      policy == Policy[s]
      reached ==
        IF policy.stop = "partial" /\ policy.paged
          \* Both lists lose their last, short page; the second one also
          \* loses as many pages as the first one had.
          THEN {i \in all(1) : i[2] <= FullPages(shown[1]) * PageSize}
               \cup {i \in all(2) :
                       /\ policy.lists = 2
                       /\ i[2] > FullPages(shown[1]) * PageSize
                       /\ i[2] <= FullPages(shown[2]) * PageSize}
          ELSE UNION {all(c) : c \in 1..policy.lists}
      samePage(m, k) == (m - 1) \div PageSize = (k - 1) \div PageSize
  IN {i \in reached : policy.dedup =>
        \A m \in 1..(i[2] - 1) :
          samePage(m, i[2]) => shown[i[1]][m] # shown[i[1]][i[2]]}

\* A crawl of a source that ended without an error, on a site that stood
\* still, stored exactly one price per item its loop reaches.
CompleteCrawlLoadedAll ==
  \A c \in complete, l \in Listing :
    Cardinality({p \in prices : p.job = c.job /\ p.source = c.source /\ p.listing = l})
      = Cardinality({i \in Reached(c.source, c.shown) : c.shown[i[1]][i[2]] = l})

-----------------------------------------------------------------------------
\* The price history the two tables represent.
Seen(p) == [job |-> p.job, source |-> p.source, page |-> p.page, pos |-> p.pos,
            listing |-> p.listing, rate |-> p.rate]

SightingType == [job : Job, source : Source, page : Nat, pos : Nat,
                 listing : Listing, rate : Nat]

Keys == Source \X {Stored[l] : l \in Listing}
SightingKey(o) == <<o.source, Stored[o.listing]>>
SightingLoad(o) == <<o.job, o.source, o.page>>

HistoryOf(k) ==
  {Seen(p) : p \in {q \in prices : \E r \in rows :
                      /\ Rid(r) = q.owner
                      /\ r.source = k[1] /\ ExternalId(r) = k[2]}}

History == INSTANCE PriceHistory
             WITH Key <- Keys, Sighting <- SightingType, KeyOf <- SightingKey,
                  LoadOf <- SightingLoad, history <- [k \in Keys |-> HistoryOf(k)]

\* Whatever overlaps, fails or crashes, each step of the crawler appends
\* sightings of one load to the history of their own listings: none is
\* recorded twice, lost, changed or filed under another listing.
ImplementsHistory == History!Spec

-----------------------------------------------------------------------------
\* A started job comes to an end.
JobsEnd == \A j \in Job : pc[j] = "next" ~> pc[j] \in {"done", "failed", "dead"}

\* parseAll reaches each of its sources whatever the ones before it do.
SweepReachesAll ==
  \A j \in Sweep, s \in Source :
    (pc[j] = "next" /\ \E i \in DOMAIN left[j] : left[j][i] = s)
      ~> ((left[j] # <<>> /\ S(j) = s) \/ pc[j] = "dead")
=============================================================================
