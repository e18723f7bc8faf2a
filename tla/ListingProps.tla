---------------------------- MODULE ListingProps ----------------------------
(***************************************************************************)
(* What a row may be trusted for.  Each property names the services and    *)
(* texts it does not hold for, as the code stands.                         *)
(***************************************************************************)
EXTENDS Listings

Figure == {None, Wrong} \cup Nat

\* The state is well-typed; above all a stored row fits the columns of its
\* table: no text, no empty text and no NaN where a number belongs.
TypeOK ==
  /\ service \in Service /\ year \in Year0..LastYear /\ rate \in Rates
  /\ outcome \in {"none", "stored", "priced", "failed", "skipped"}
  /\ count \in [crawls : 0..MaxCrawls, edits : 0..MaxEdits, updates : 0..MaxUpdates]
  /\ Stored => /\ row.leaseExpiryYear \in Figure
               /\ row.landSize \in Figure /\ row.buildingSize \in Figure
               /\ row.priceIdr \in Figure /\ row.priceUsd \in Figure \cup {NaN}
               /\ row.propertyType \in Types
               /\ row.isValid \in BOOLEAN
  /\ price # <<>> => price.priceIdr \in Figure /\ price.priceUsd \in Figure \cup {NaN}
  /\ Stored <=> price # <<>>

\* The row as a crawl has written it.
AsCrawled == Stored /\ count.updates = 0

-----------------------------------------------------------------------------
\* Texts whose tenure is read as the other one: ppbali's indexOf > 0 passes
\* over a text that begins with the word, exotiqproperty knows one text only,
\* optimumbali looks at the first two characters, three services look for the
\* capital letter only, and fazwaz finds a lease in "please" and "release".
TenureMisread(s, t) ==
  \/ s = "ppbali" /\ t.word = "freehold" /\ t.form # "later"
  \/ s = "exotiqproperty" /\ t.word = "freehold" /\ t.form # "bare"
  \/ s = "optimumbali" /\ t.word = "freehold" /\ (t.form = "later" \/ ~t.capital)
  \/ s = "unikbalivilla" /\ t.word = "leasehold" /\ ~t.capital
  \/ s \in {"lazudi", "balirealty"} /\ t.word = "freehold" /\ ~t.capital
  \/ s = "fazwaz" /\ t.word = "freehold" /\ t.alike

\* A text that names one tenure is stored as that tenure or as a text that is
\* neither, never as the other one (ownership in the parseItem functions).
TenureReadRight ==
  LET t == first.page.tenure IN
  AsCrawled /\ t.form \in {"bare", "first", "later"} /\ ~TenureMisread(service, t) =>
    row.ownership \notin {OtherTenure(t.word), Capital(OtherTenure(t.word))}

-----------------------------------------------------------------------------
\* The year in which the lease of a text ends, read in year y.
Ends(t, y) == IF t.kind = "years" THEN y + t.n ELSE t.n

\* Years that are stored and counted valid but are not the lease's end.
\* A calendar year is added to the current one by the services that take any
\* digits for years; a long lease is cut to two digits; others look at the
\* first number only, take a number of years for a year, or take the first number
\* of two digits in the sentence for the years.
LeaseMisread(s, t) ==
  \/ s \in {"balihomeimmo", "unikbalivilla", "exotiqproperty"} /\ t.kind = "until"
  \/ s = "rajavillaproperty" /\ t.kind \in {"until", "words"}
  \/ /\ s \in {"balivillasales", "propertiabali", "villabalisale", "baliexception"}
     /\ ~t.lead /\ t.kind \in {"until", "date"}
  \/ s = "optimumbali" /\ ~t.lead /\ (t.kind \in {"until", "date"} \/ t.n >= 100)
  \/ s \in {"excelbali", "ppbali"} /\ t.kind = "years" /\ t.n >= 100
  \/ s = "suasarealestate" /\ t.kind = "years"
  \/ s = "balirealty" /\ t.kind = "date"
  \/ /\ s \in {"fazwaz", "lazudi", "balicoconutliving"}
     /\ t.kind = "years" /\ InTwoDigits(t.before)

\* A valid leasehold row expires in the year its text says (leaseExpiryYear and
\* checkIsValid).
ExpiryReadRight ==
  LET t == first.page.lease IN
  AsCrawled /\ row.isValid /\ row.ownership = "leasehold" /\ ~LeaseMisread(service, t) =>
    row.leaseExpiryYear = Ends(t, first.year)

-----------------------------------------------------------------------------
\* A plain number, or none where the reader finds none.
Shows(value, text) == text.form = "plain" => value \in {text.n, None}

\* Sites that show the land in ares, which is stored in square metres.
InAres == {"propertiabali", "villabalisale"}

PoolMisread == {"balihomeimmo", "lazudi", "balitreasureproperties"}

\* What the page says in plain digits is stored under its own name: no column
\* holds the number of another, ares become square metres, a price in IDR becomes
\* the price in USD at the rate of the crawl, and a pool is a pool.  Not so for balimoves, whose building
\* is its land, baliexception, whose bedrooms are its bathrooms, and the pools
\* that are read by an index (parseItem, convertToUsd).
FiguresReadRight ==
  LET p == first.page IN
  AsCrawled =>
    /\ service # "balimoves" => Shows(row.buildingSize, p.size)
    /\ service \notin InAres => Shows(row.landSize, p.land)
    /\ service \in InAres => Shows(row.landSize, [p.land EXCEPT !.n = 100 * @])
    /\ service # "baliexception" => row.bedroomsCount \in {p.beds, None}
    /\ row.bathroomsCount \in {p.baths, None}
    /\ service \notin PoolMisread => row.pool \in {p.pool, "none"}
    /\ Shows(row.priceIdr, p.idr)
    /\ p.usd.form = "plain" /\ row.priceUsd # None /\ row.priceIdr = None
         => row.priceUsd = p.usd.n
    /\ p.usd.form = "absent" /\ p.idr.form = "plain" /\ row.priceUsd # None
         => row.priceUsd = p.idr.n \div first.rate

-----------------------------------------------------------------------------
\* Adverts that never become valid rows: three services read no lease year,
\* balirealty does not convert a price in IDR, balitreasureproperties splits the
\* text of the lease before it knows that there is one, and fazwaz takes a villa
\* with "please" or "release" in its description for a leasehold without years.
NeverListed(s, p) ==
  \/ s \in {"dotproperty", "harcourtspurbabali", "rumah"} /\ p.tenure.word = "leasehold"
  \/ s = "balirealty" /\ p.usd.form = "absent"
  \/ s = "balitreasureproperties" /\ p.tenure.word = "freehold"
  \/ s = "fazwaz" /\ p.tenure.word = "freehold" /\ p.tenure.alike

\* The style the pages of a source have, which its parseItem was written for: the
\* form of the tenure and whether it has a capital, the kind of the lease and
\* whether words precede it, and the form of the prices.
Written(tenure, capital, lease, lead, prices) ==
  [tenure |-> tenure, capital |-> capital, lease |-> lease, lead |-> lead,
   prices |-> prices]

Style(s) ==
  CASE s = "dotproperty" -> Written("first", TRUE, "years", TRUE, "billion")
    [] s \in {"excelbali", "propertiabali", "optimumbali", "balirealty"}
                         -> Written("first", TRUE, "years", FALSE, "figure")
    [] s = "unikbalivilla" -> Written("first", TRUE, "years", FALSE, "plain")
    [] s = "fazwaz"      -> Written("later", FALSE, "years", TRUE, "figure")
    [] s = "lazudi"      -> Written("first", TRUE, "years", TRUE, "figure")
    [] s \in {"rajavillaproperty", "ppbali"}
                         -> Written("later", TRUE, "years", FALSE, "figure")
    [] s = "rumah"       -> Written("later", TRUE, "years", FALSE, "billion")
    [] s \in {"balimoves", "powerbali"}
                         -> Written("first", TRUE, "until", TRUE, "figure")
    [] s = "suasarealestate" -> Written("bare", TRUE, "until", FALSE, "figure")
    [] s = "balicoconutliving" -> Written("bare", TRUE, "years", TRUE, "figure")
    [] s = "anniedeanproperties" -> Written("bare", TRUE, "absent", FALSE, "figure")
    [] s \in {"balihomeimmo", "baliexception", "balivillasales", "harcourtspurbabali",
              "balitreasureproperties", "exotiqproperty", "villabalisale"}
                         -> Written("bare", FALSE, "years", FALSE, "figure")

\* Two sites have a text instead of the years of a freehold villa.
FreeholdLease(s) == IF s \in {"exotiqproperty", "villabalisale"} THEN "words" ELSE "absent"

\* A complete advert of a villa in the style of source s.  A lease has two digits
\* of years, sizes are plain and positive, a price in IDR is at least a dollar,
\* and a site that does not show both prices shows one that its service reads.
InStyle(s, p) ==
  LET st == Style(s)  q == ServiceItem[s] IN
  /\ p.tenure.form = st.tenure /\ p.tenure.capital = st.capital
  /\ p.tenure.word = "leasehold" =>
       /\ p.lease.kind = st.lease /\ p.lease.lead = st.lead
       /\ st.lease = "years" => p.lease.n \in 10..99
  /\ p.tenure.word = "freehold" => p.lease.kind = FreeholdLease(s) /\ ~p.lease.lead
  /\ p.idr.form \in {st.prices, "absent"} /\ p.usd.form \in {st.prices, "absent"}
  /\ q.both => p.idr.form # "absent" /\ p.usd.form # "absent"
  /\ ~q.both => (p.idr.form = "absent" <=> p.usd.form # "absent")
  /\ p.idr.form # "absent" => q.idr[st.prices] # None /\ \A b \in Rates : p.idr.n >= b
  /\ p.usd.form # "absent" => q.usd[st.prices] # None
  /\ p.size.form = "plain" /\ p.size.n > 0
  /\ p.land.form = "plain" /\ p.land.n > 0
  /\ p.beds > 0 /\ p.baths > 0 /\ p.location # {} /\ p.kind = "villa"

\* An advert in the style its service was written for is never lost: the crawl
\* that meets it neither fails nor skips it, and the row it makes of it is valid
\* (parseItem, checkIsValid, loadToDb).
HouseStyleIsListed ==
  [][count'.crawls > count.crawls /\ InStyle(service, page) /\ ~NeverListed(service, page)
       => /\ outcome' \in {"stored", "priced"}
          /\ ~Stored => row'.isValid]_vars

\* A row that disagrees with its newest price or with its own validity has a
\* cause: the site changed the price, the rate moved between two crawls, or a user
\* changed the row by hand (loadToDb and ParserService.update, which does not
\* run checkIsValid again).
StaleHasCause ==
  Stored =>
    /\ row.priceUsd # price.priceUsd =>
         \/ count.updates > 0
         \/ <<first.page.idr, first.page.usd>> # <<last.page.idr, last.page.usd>>
         \/ first.rate # last.rate
    /\ row.isValid # checkIsValid(row) => count.updates > 0
=============================================================================
