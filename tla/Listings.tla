------------------------------ MODULE Listings ------------------------------
(***************************************************************************)
(* The life of one advert and of its row: a site edits the advert's page,  *)
(* crawls read it (parseItem, then loadToDb), the web table's users change *)
(* the row by hand (updateProperty), years pass and the rate moves.  A     *)
(* crawl that finds the listing stored adds a row to property_price and    *)
(* leaves the columns of property as the first crawl has read them.        *)
(***************************************************************************)
EXTENDS Adverts

CONSTANTS Service,       \* the source that is crawled
          Pages,         \* the pages the advert of a source may have at first
          Edits,         \* the pages an edit may turn a page into
          Inputs,        \* what a manual update may set
          Year0, LastYear, \* the calendar
          Rates,         \* the USD rates
          MaxCrawls, MaxEdits, MaxUpdates   \* bounds

ASSUME ListingAssumption ==
  /\ Service \subseteq DOMAIN ServiceItem
  /\ Service \subseteq DOMAIN Pages /\ Service \subseteq DOMAIN Edits
  /\ Year0 \in 2000..2100 /\ LastYear \in Year0..2100
  /\ Rates \subseteq Nat \ {0}
  /\ MaxCrawls \in Nat /\ MaxEdits \in Nat /\ MaxUpdates \in Nat

PageType == [tenure : TenureText, lease : LeaseText, idr : PriceText, usd : PriceText,
             size : SizeText, land : SizeText, beds : Nat, baths : Nat,
             pool : {"Yes", "No", "none"}, title : SUBSET STRING,
             location : SUBSET STRING, kind : STRING]

\* The tenure and the lease of fazwaz are parts of one text, which has "lease"
\* in it when it has a lease; a second number beside the lease's is there in
\* the descriptions that are searched for it only.
ASSUME PagesAssumption ==
  \A s \in Service : \A p \in Pages[s] \cup Edits[s] :
    /\ p \in PageType
    /\ s = "fazwaz" /\ p.lease.kind \in {"years", "until", "date"}
         => Has(p.tenure, "leasehold") \/ p.tenure.alike
    /\ p.lease.before # 0 => ServiceItem[s].lease \in {"sentence", "sentenceOrUntil"}

\* The columns an update may set, and what the form of the table has for them:
\* the types of its list, and figures.  (A negative figure, which the form takes
\* too, is left out: the model's codes are negative.)
Types == {"villa", "apartment", "hotel/resort", "land", "commercial"}
Figures == {"landSize", "buildingSize", "bedroomsCount", "bathroomsCount", "priceIdr",
            "priceUsd", "leaseExpiryYear"}

ASSUME InputsAssumption ==
  \A input \in Inputs :
    /\ DOMAIN input \subseteq Figures \cup {"location", "ownership", "propertyType"}
    /\ \A c \in DOMAIN input : /\ c \in Figures => input[c] \in Nat
                               /\ c = "propertyType" => input[c] \in Types

VARIABLES service,  \* the source, one for each behaviour
          page,     \* what the site shows
          year,     \* the current year
          rate,     \* the newest USD rate
          row,      \* the row of property, <<>> before there is one
          price,    \* the newest row of property_price, <<>> at first
          outcome,  \* of the last crawl: "stored", "priced", "failed", "skipped"
          first,    \* what the crawl that stored the row has met
          last,     \* what the last crawl that added a price row has met
          count     \* crawls, edits and updates so far

vars == <<service, page, year, rate, row, price, outcome, first, last, count>>

r == ServiceItem[service]
Stored == row # <<>>

PriceOf(item) == [priceIdr |-> item.priceIdr, priceUsd |-> item.priceUsd]

\* What there is to read at this moment.
Now == [page |-> page, year |-> year, rate |-> rate]

Init == /\ service \in Service
        /\ page \in Pages[service]
        /\ year = Year0
        /\ rate \in Rates
        /\ row = <<>> /\ price = <<>> /\ first = <<>> /\ last = <<>>
        /\ outcome = "none"
        /\ count = [crawls |-> 0, edits |-> 0, updates |-> 0]

-----------------------------------------------------------------------------
Crawls == /\ count.crawls < MaxCrawls
          /\ count' = [count EXCEPT !.crawls = @ + 1]
          /\ UNCHANGED <<service, page, year, rate>>

Item0 == ReadItem(r, page, year, rate)

\* parseItem or the insert throws: the batch of the page is lost with the advert.
CrawlFails ==
  /\ Crawls
  /\ ~Skips(r, page)
  /\ \/ Throws(r, page)
     \/ ~Stored /\ ~Fits(Item0)
     \/ Stored /\ ~PriceFits(Item0)
  /\ outcome' = "failed"
  /\ UNCHANGED <<row, price, first, last>>

CrawlSkips ==
  /\ Crawls
  /\ Skips(r, page)
  /\ outcome' = "skipped"
  /\ UNCHANGED <<row, price, first, last>>

\* loadToDb of a listing it does not know.
CrawlStores ==
  /\ Crawls
  /\ ~Skips(r, page) /\ ~Throws(r, page)
  /\ ~Stored /\ Fits(Item0)
  /\ row' = Item0 /\ price' = PriceOf(Item0)
  /\ first' = Now /\ last' = Now
  /\ outcome' = "stored"

\* Mutant of CrawlPrices: the row's prices are patched, its validity is not.
CrawlPricesPatches ==
  /\ Crawls
  /\ ~Skips(r, page) /\ ~Throws(r, page)
  /\ Stored /\ PriceFits(Item0)
  /\ price' = PriceOf(Item0) /\ last' = Now
  /\ row' = [row EXCEPT !.priceIdr = Item0.priceIdr, !.priceUsd = Item0.priceUsd]
  /\ outcome' = "priced"
  /\ UNCHANGED first

\* loadToDb of a listing it knows.
CrawlPrices ==
  /\ Crawls
  /\ ~Skips(r, page) /\ ~Throws(r, page)
  /\ Stored /\ PriceFits(Item0)
  /\ price' = PriceOf(Item0) /\ last' = Now
  /\ outcome' = "priced"
  /\ UNCHANGED <<row, first>>

\* ParserService.update: patchAndFetchById with the input as it comes.
Update ==
  /\ count.updates < MaxUpdates
  /\ Stored
  /\ \E input \in Inputs :
       row' = [c \in DOMAIN row |-> IF c \in DOMAIN input THEN input[c] ELSE row[c]]
  /\ count' = [count EXCEPT !.updates = @ + 1]
  /\ UNCHANGED <<service, page, year, rate, price, outcome, first, last>>

\* The site (outside the repository) changes a text of the advert.
Edit ==
  /\ count.edits < MaxEdits
  /\ page' \in Edits[service] \ {page}
  /\ count' = [count EXCEPT !.edits = @ + 1]
  /\ UNCHANGED <<service, year, rate, row, price, outcome, first, last>>

NewYear ==
  /\ year < LastYear
  /\ year' = year + 1
  /\ UNCHANGED <<service, page, rate, row, price, outcome, first, last, count>>

\* A currency update stores another rate.
NewRate ==
  /\ rate' \in Rates \ {rate}
  /\ UNCHANGED <<service, page, year, row, price, outcome, first, last, count>>

Next == \/ CrawlFails \/ CrawlSkips \/ CrawlStores \/ CrawlPrices
        \/ Update \/ Edit \/ NewYear \/ NewRate

Spec == Init /\ [][Next]_vars
=============================================================================
