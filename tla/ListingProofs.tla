---------------------------- MODULE ListingProofs ----------------------------
(***************************************************************************)
(* Proofs about a row and the page it was read from: for every source,     *)
(* every page whose texts have the forms of module Readers, and every      *)
(* sequence of crawls, edits and updates.  First which reader a service    *)
(* has for what, and what each reader makes of a text; then what parseItem *)
(* makes of a page; then the invariant that ties a stored row to the page  *)
(* it was read from.                                                       *)
(***************************************************************************)
EXTENDS ListingProps, TLAPS

\* The tables that the services read their sizes and prices with.
SizeTables == {parseNumeric, parseSquare, Unitless, OrNull, Pointed, Wholes}
IdrTables  == {parsePrice, Labelled, Billions, Units, CommasOnly, NoPrice}
UsdTables  == {parsePrice, Labelled, AsText, NoPrice}

\* Only some services use the readers that some texts mislead.
TenureReaders(s, how) ==
  \/ how \in {"verbatim", "lowered", "firstWord", "lastPart", "leaseholdOrElse",
              "title", "certificate", "leaseSpan"}
  \/ how = "leaseOrElse"     /\ s = "fazwaz"
  \/ how = "LeaseholdOrElse" /\ s = "unikbalivilla"
  \/ how = "FreeholdOrElse"  /\ s \in {"lazudi", "balirealty"}
  \/ how = "freeholdLater"   /\ s = "ppbali"
  \/ how = "forSale"         /\ s = "exotiqproperty"
  \/ how = "twoChars"        /\ s = "optimumbali"

LeaseReaders(s, how) ==
  \/ how \in {"none", "four", "lastWord", "beforeWord"}
  \/ how = "sentence" /\ s \in {"fazwaz", "lazudi"}
  \/ how = "sentenceOrUntil" /\ s = "balicoconutliving"
  \/ how = "digits" /\ s \in {"balihomeimmo", "unikbalivilla", "exotiqproperty"}
  \/ how = "leading" /\ s \in {"balivillasales", "propertiabali", "villabalisale",
                               "baliexception"}
  \/ how = "digitsIfShown" /\ s = "rajavillaproperty"
  \/ how = "twoChars"      /\ s = "optimumbali"
  \/ how = "fourThenTwo"   /\ s \in {"excelbali", "ppbali"}
  \/ how = "asYear"        /\ s = "suasarealestate"
  \/ how = "firstNumber"   /\ s = "balirealty"

\* Which reader a service has for which part of its pages.
ReadersOf(s, q) ==
  /\ q.size \in SizeTables /\ q.land \in SizeTables
  /\ q.ares \in BOOLEAN /\ (q.ares <=> s \in InAres)
  /\ q.idr \in IdrTables /\ q.usd \in UsdTables
  /\ q.convert \in {"number", "text", "nothing"}
  /\ q.convert = "text" => q.usd = parsePrice
  /\ s # "balimoves" => q.sizeOf = "size"
  /\ s # "baliexception" => q.bedsOf = "beds"
  /\ s \notin PoolMisread => q.pool \in {"shown", "never"}
  /\ q.type \in {"title", "villa"}
  /\ TenureReaders(s, q.tenure)
  /\ LeaseReaders(s, q.lease)

\* Every service reads its pages that way.
LEMMA ServiceReaders ==
  ASSUME NEW s \in DOMAIN ServiceItem
  PROVE  ReadersOf(s, ServiceItem[s])
<1> USE DEF ReadersOf, TenureReaders, LeaseReaders, SizeTables, IdrTables, UsdTables,
            PoolMisread, InAres, Item
<1>1. s \in {"balihomeimmo", "baliexception", "balivillasales", "balirealty", "balimoves",
            "excelbali", "ppbali", "harcourtspurbabali", "dotproperty", "propertiabali",
            "balitreasureproperties", "fazwaz", "unikbalivilla", "rajavillaproperty",
            "lazudi", "balicoconutliving", "rumah", "anniedeanproperties",
            "exotiqproperty", "optimumbali", "villabalisale", "suasarealestate",
            "powerbali"}
  BY DEF ServiceItem
<1>2. CASE s = "balihomeimmo"
  <2>1. ServiceItem[s] = BalihomeimmoItem
    BY <1>2 DEF ServiceItem
  <2> QED
    BY <1>2, <2>1 DEF BalihomeimmoItem
<1>3. CASE s = "baliexception"
  <2>1. ServiceItem[s] = BaliexceptionItem
    BY <1>3 DEF ServiceItem
  <2> QED
    BY <1>3, <2>1 DEF BaliexceptionItem
<1>4. CASE s = "balivillasales"
  <2>1. ServiceItem[s] = BalivillasalesItem
    BY <1>4 DEF ServiceItem
  <2> QED
    BY <1>4, <2>1 DEF BalivillasalesItem
<1>5. CASE s = "balirealty"
  <2>1. ServiceItem[s] = BalirealtyItem
    BY <1>5 DEF ServiceItem
  <2> QED
    BY <1>5, <2>1 DEF BalirealtyItem
<1>6. CASE s = "balimoves"
  <2>1. ServiceItem[s] = BalimovesItem
    BY <1>6 DEF ServiceItem
  <2> QED
    BY <1>6, <2>1 DEF BalimovesItem
<1>7. CASE s = "excelbali"
  <2>1. ServiceItem[s] = ExcelbaliItem
    BY <1>7 DEF ServiceItem
  <2> QED
    BY <1>7, <2>1 DEF ExcelbaliItem
<1>8. CASE s = "ppbali"
  <2>1. ServiceItem[s] = PpbaliItem
    BY <1>8 DEF ServiceItem
  <2> QED
    BY <1>8, <2>1 DEF PpbaliItem
<1>9. CASE s = "harcourtspurbabali"
  <2>1. ServiceItem[s] = HarcourtspurbabaliItem
    BY <1>9 DEF ServiceItem
  <2> QED
    BY <1>9, <2>1 DEF HarcourtspurbabaliItem
<1>10. CASE s = "dotproperty"
  <2>1. ServiceItem[s] = DotpropertyItem
    BY <1>10 DEF ServiceItem
  <2> QED
    BY <1>10, <2>1 DEF DotpropertyItem
<1>11. CASE s = "propertiabali"
  <2>1. ServiceItem[s] = PropertiabaliItem
    BY <1>11 DEF ServiceItem
  <2> QED
    BY <1>11, <2>1 DEF PropertiabaliItem
<1>12. CASE s = "balitreasureproperties"
  <2>1. ServiceItem[s] = BalitreasurepropertiesItem
    BY <1>12 DEF ServiceItem
  <2> QED
    BY <1>12, <2>1 DEF BalitreasurepropertiesItem
<1>13. CASE s = "fazwaz"
  <2>1. ServiceItem[s] = FazwazItem
    BY <1>13 DEF ServiceItem
  <2> QED
    BY <1>13, <2>1 DEF FazwazItem
<1>14. CASE s = "unikbalivilla"
  <2>1. ServiceItem[s] = UnikbalivillaItem
    BY <1>14 DEF ServiceItem
  <2> QED
    BY <1>14, <2>1 DEF UnikbalivillaItem
<1>15. CASE s = "rajavillaproperty"
  <2>1. ServiceItem[s] = RajavillapropertyItem
    BY <1>15 DEF ServiceItem
  <2> QED
    BY <1>15, <2>1 DEF RajavillapropertyItem
<1>16. CASE s = "lazudi"
  <2>1. ServiceItem[s] = LazudiItem
    BY <1>16 DEF ServiceItem
  <2> QED
    BY <1>16, <2>1 DEF LazudiItem
<1>17. CASE s = "balicoconutliving"
  <2>1. ServiceItem[s] = BalicoconutlivingItem
    BY <1>17 DEF ServiceItem
  <2> QED
    BY <1>17, <2>1 DEF BalicoconutlivingItem
<1>18. CASE s = "rumah"
  <2>1. ServiceItem[s] = RumahItem
    BY <1>18 DEF ServiceItem
  <2> QED
    BY <1>18, <2>1 DEF RumahItem
<1>19. CASE s = "anniedeanproperties"
  <2>1. ServiceItem[s] = AnniedeanpropertiesItem
    BY <1>19 DEF ServiceItem
  <2> QED
    BY <1>19, <2>1 DEF AnniedeanpropertiesItem
<1>20. CASE s = "exotiqproperty"
  <2>1. ServiceItem[s] = ExotiqpropertyItem
    BY <1>20 DEF ServiceItem
  <2> QED
    BY <1>20, <2>1 DEF ExotiqpropertyItem
<1>21. CASE s = "optimumbali"
  <2>1. ServiceItem[s] = OptimumbaliItem
    BY <1>21 DEF ServiceItem
  <2> QED
    BY <1>21, <2>1 DEF OptimumbaliItem
<1>22. CASE s = "villabalisale"
  <2>1. ServiceItem[s] = VillabalisaleItem
    BY <1>22 DEF ServiceItem
  <2> QED
    BY <1>22, <2>1 DEF VillabalisaleItem
<1>23. CASE s = "suasarealestate"
  <2>1. ServiceItem[s] = SuasarealestateItem
    BY <1>23 DEF ServiceItem
  <2> QED
    BY <1>23, <2>1 DEF SuasarealestateItem
<1>24. CASE s = "powerbali"
  <2>1. ServiceItem[s] = PowerbaliItem
    BY <1>24 DEF ServiceItem
  <2> QED
    BY <1>24, <2>1 DEF PowerbaliItem
<1> QED
  BY <1>1, <1>2, <1>3, <1>4, <1>5, <1>6, <1>7, <1>8, <1>9, <1>10,
     <1>11, <1>12, <1>13, <1>14, <1>15, <1>16, <1>17, <1>18, <1>19, <1>20, <1>21, <1>22,
     <1>23, <1>24

-----------------------------------------------------------------------------
\* What a figure of the page becomes: nothing, the text's own number, or a
\* number that is not the text's.
LEMMA SizeNumber ==
  ASSUME NEW table \in SizeTables, NEW t \in SizeText
  PROVE  /\ Number(table, t) \in {None, Empty, Wrong, t.n}
         /\ t.form = "plain" => Number(table, t) = t.n
         /\ t.form = "absent" => Number(table, t) = None
<1>1. t.form \in {"absent", "words", "plain", "unit", "grouped", "decimal"}
  BY DEF SizeText, parseNumeric
<1>2. /\ \A f \in {"absent", "words", "plain", "unit", "grouped", "decimal"} :
           table[f] \in {None, Empty, Wrong, Exact}
      /\ table["plain"] = Exact /\ table["absent"] = None
  <2> USE DEF None, Empty, Wrong, Exact, parseNumeric
  <2>1. CASE table = parseNumeric BY <2>1
  <2>2. CASE table = parseSquare  BY <2>2 DEF parseSquare
  <2>3. CASE table = Unitless     BY <2>3 DEF Unitless
  <2>4. CASE table = OrNull       BY <2>4 DEF OrNull
  <2>5. CASE table = Pointed      BY <2>5 DEF Pointed
  <2>6. CASE table = Wholes       BY <2>6 DEF Wholes, parseSquare
  <2> QED BY <2>1, <2>2, <2>3, <2>4, <2>5, <2>6 DEF SizeTables
<1> QED
  BY <1>1, <1>2 DEF Number, None, Empty, Wrong, Exact

\* Square metres of a figure are a figure, and none where there is none.
LEMMA Metres ==
  ASSUME NEW q, q.ares \in BOOLEAN, NEW v \in {None, Empty, Wrong} \cup Nat
  PROVE  LET m == IF q.ares THEN SquareMetres(v) ELSE v
         IN /\ m \in {None, Empty, Wrong} \cup Nat
            /\ v \in Nat => m = IF q.ares THEN 100 * v ELSE v
  BY DEF SquareMetres, None, Empty, Wrong

\* The same of a price in IDR, which may also make the reader throw.
LEMMA IdrNumber ==
  ASSUME NEW table \in IdrTables, NEW t \in PriceText
  PROVE  /\ Number(table, t) \in {None, Empty, Wrong, Thrown, t.n}
         /\ t.form = "plain" => Number(table, t) \in {None, Thrown, t.n}
         /\ t.form = "plain" => t.n \in Nat \ {0}
<1>1. /\ t.form \in {"absent", "request", "plain", "figure", "billion", "million"}
      /\ t.form = "plain" => t.n \in Nat \ {0}
  BY DEF PriceText, parsePrice
<1>2. /\ \A f \in {"absent", "request", "plain", "figure", "billion", "million"} :
           table[f] \in {None, Empty, Wrong, Thrown, Exact}
      /\ table["plain"] \in {Exact, Thrown, None}
  <2> USE DEF None, Empty, Wrong, Thrown, Exact, parsePrice
  <2>1. CASE table = parsePrice BY <2>1
  <2>2. CASE table = Labelled   BY <2>2 DEF Labelled
  <2>3. CASE table = Billions   BY <2>3 DEF Billions
  <2>4. CASE table = Units      BY <2>4 DEF Units
  <2>5. CASE table = CommasOnly BY <2>5 DEF CommasOnly
  <2>6. CASE table = NoPrice    BY <2>6 DEF NoPrice
  <2> QED BY <2>1, <2>2, <2>3, <2>4, <2>5, <2>6 DEF IdrTables
<1> QED
  BY <1>1, <1>2 DEF Number, None, Empty, Wrong, Thrown, Exact

\* The same of a price in USD, whose text may be kept as it is.
LEMMA UsdNumber ==
  ASSUME NEW table \in UsdTables, NEW t \in PriceText
  PROVE  /\ Number(table, t) \in {None, Empty, Wrong, Raw, t.n}
         /\ t.form = "plain" => Number(table, t) \in {None, t.n}
         /\ t.form = "plain" => t.n \in Nat \ {0}
         /\ t.form = "absent" => Number(table, t) = None
<1>1. /\ t.form \in {"absent", "request", "plain", "figure", "billion", "million"}
      /\ t.form = "plain" => t.n \in Nat \ {0}
  BY DEF PriceText, parsePrice
<1>2. /\ \A f \in {"absent", "request", "plain", "figure", "billion", "million"} :
           table[f] \in {None, Empty, Wrong, Raw, Exact}
      /\ table["plain"] \in {Exact, None} /\ table["absent"] = None
  BY DEF UsdTables, parsePrice, Labelled, AsText, NoPrice,
         None, Empty, Wrong, Raw, Exact
<1> QED
  BY <1>1, <1>2 DEF Number, None, Empty, Wrong, Raw, Exact

\* Rupiah by the rate.
LEMMA Divided == ASSUME NEW a \in Nat, NEW b \in Nat \ {0} PROVE a \div b \in Nat
  OBVIOUS

\* The conversion gives a figure, nothing, or NaN of a text.
LEMMA Converted ==
  ASSUME NEW idr \in {None, Empty, Wrong, Raw, Thrown} \cup Nat, NEW b \in Nat \ {0}
  PROVE  convertToUsd(idr, b) \in {None, Wrong, NaN} \cup Nat
  BY Divided DEF convertToUsd, Truthy, None, Empty, Wrong, Raw, NaN, Thrown

\* The six words a title is searched for.
LEMMA TitleTypes ==
  /\ DOMAIN types = 1..6
  /\ \A i \in 1..6 : types[i] \in {"villa", "apartment", "hotel", "resort", "land",
                                  "commercial"}
<1>1. DOMAIN types = 1..6
  BY DEF types
<1>2. ASSUME NEW i \in 1..6
      PROVE  types[i] \in {"villa", "apartment", "hotel", "resort", "land", "commercial"}
  BY DEF types
<1> QED BY <1>1, <1>2

\* Whatever the title, the type is one of the list.
LEMMA TitleType ==
  ASSUME NEW title PROVE parsePropertyTypeFromTitle(title) \in Types
<1> DEFINE included == {i \in DOMAIN types : types[i] \in title}
           named    == types[CHOOSE i \in included : \A j \in included : i <= j]
<1>1. ASSUME included # {}
      PROVE  named \in {"villa", "apartment", "hotel", "resort", "land", "commercial"}
  <2>1. included \subseteq 1..6
    BY TitleTypes
  <2>2. \E i \in included : \A j \in included : i <= j
    <3>1. CASE 1 \in included BY <3>1, <2>1
    <3>2. CASE 1 \notin included /\ 2 \in included BY <3>2, <2>1
    <3>3. CASE 1 \notin included /\ 2 \notin included /\ 3 \in included BY <3>3, <2>1
    <3>4. CASE {1, 2, 3} \cap included = {} /\ 4 \in included BY <3>4, <2>1
    <3>5. CASE {1, 2, 3, 4} \cap included = {} /\ 5 \in included BY <3>5, <2>1
    <3>6. CASE {1, 2, 3, 4, 5} \cap included = {} BY <3>6, <2>1, <1>1
    <3> QED BY <3>1, <3>2, <3>3, <3>4, <3>5, <3>6
  <2>3. (CHOOSE i \in included : \A j \in included : i <= j) \in 1..6
    <3> HIDE DEF included
    <3> QED BY <2>1, <2>2
  <2> HIDE DEF included
  <2> QED BY <2>3, TitleTypes
<1>2. CASE included = {}
  BY <1>2 DEF parsePropertyTypeFromTitle, Types
<1>3. CASE included # {}
  BY <1>1, <1>3 DEF parsePropertyTypeFromTitle, Types
<1> QED BY <1>2, <1>3

-----------------------------------------------------------------------------
\* A service that looks its lists up under the wrong text finds nothing in them,
\* and never anything else than the page says.
LEMMA FoundKeeps ==
  ASSUME NEW q, NEW p \in PageType
  PROVE  /\ Found(q, p).tenure = p.tenure
         /\ Found(q, p).idr = p.idr /\ Found(q, p).usd = p.usd
         /\ Found(q, p).title = p.title
         /\ Found(q, p).lease \in LeaseText
         /\ Found(q, p).lease # p.lease => Found(q, p).lease.kind = "absent"
         /\ Found(q, p).size \in SizeText
         /\ Found(q, p).size # p.size => Found(q, p).size.form = "absent"
         /\ Found(q, p).land \in SizeText
         /\ Found(q, p).land # p.land => Found(q, p).land.form = "absent"
         /\ Found(q, p).beds \in {p.beds, None} /\ Found(q, p).baths \in {p.baths, None}
         /\ Found(q, p).pool \in {p.pool, "none"}
<1>1. CASE ~(q.keyed /\ p.tenure.form # "bare")
  BY <1>1 DEF Found, PageType
<1>2. CASE q.keyed /\ p.tenure.form # "bare"
  <2> DEFINE f == [p EXCEPT !.lease.kind = "absent", !.size.form = "absent",
                            !.land.form = "absent", !.beds = None, !.baths = None,
                            !.pool = "none"]
  <2>1. Found(q, p) = f
    BY <1>2 DEF Found
  <2>2. /\ f.tenure = p.tenure /\ f.idr = p.idr /\ f.usd = p.usd /\ f.title = p.title
        /\ f.beds = None /\ f.baths = None /\ f.pool = "none"
    BY DEF PageType
  <2>3. f.lease = [p.lease EXCEPT !.kind = "absent"]
    BY DEF PageType
  <2>4. /\ f.size = [p.size EXCEPT !.form = "absent"]
        /\ f.land = [p.land EXCEPT !.form = "absent"]
    BY DEF PageType
  <2> HIDE DEF f
  <2>5. f.lease \in LeaseText /\ f.lease.kind = "absent"
    <3>1. /\ p.lease \in [kind : {"years", "until", "date", "words", "absent"},
                          n : Nat, lead : BOOLEAN, before : Nat]
          /\ p.lease.before # 0 => p.lease.lead
      BY DEF PageType, LeaseText
    <3>2. [p.lease EXCEPT !.kind = "absent"]
             \in [kind : {"years", "until", "date", "words", "absent"},
                  n : Nat, lead : BOOLEAN, before : Nat]
      BY <3>1
    <3>3. /\ [p.lease EXCEPT !.kind = "absent"].kind = "absent"
          /\ [p.lease EXCEPT !.kind = "absent"].lead = p.lease.lead
          /\ [p.lease EXCEPT !.kind = "absent"].before = p.lease.before
      BY <3>1
    <3>4. ASSUME NEW t \in [kind : {"years", "until", "date", "words", "absent"},
                             n : Nat, lead : BOOLEAN, before : Nat],
                 t.kind = "absent", t.before # 0 => t.lead
          PROVE  t \in LeaseText
      BY <3>4 DEF LeaseText
    <3> QED
      BY <2>3, <3>1, <3>2, <3>3, <3>4
  <2>6. /\ f.size \in SizeText /\ f.size.form = "absent"
        /\ f.land \in SizeText /\ f.land.form = "absent"
    <3>1. "absent" \in DOMAIN parseNumeric
      BY DEF parseNumeric
    <3>2. ASSUME NEW t \in SizeText
          PROVE  /\ [t EXCEPT !.form = "absent"] \in SizeText
                 /\ [t EXCEPT !.form = "absent"].form = "absent"
      BY <3>1 DEF SizeText
    <3>3. p.size \in SizeText /\ p.land \in SizeText
      BY DEF PageType
    <3> QED
      BY <2>4, <3>2, <3>3
  <2> QED
    BY <2>1, <2>2, <2>5, <2>6
<1> QED BY <1>1, <1>2

Columns == {"ownership", "leaseExpiryYear", "propertyType", "location", "buildingSize",
            "landSize", "bedroomsCount", "bathroomsCount", "pool", "priceIdr", "priceUsd",
            "isValid"}

\* The columns of a row, one by one.
LEMMA ItemColumns ==
  ASSUME NEW q, NEW page0, NEW y, NEW rate0
  PROVE  LET p  == Found(q, page0)
             it == ReadItem(q, page0, y, rate0)
         IN /\ DOMAIN it = Columns
            /\ it.ownership = ReadTenure(q.tenure, p.tenure)
            /\ it.leaseExpiryYear =
                 IF q.onlyLeasehold /\ it.ownership # "leasehold" THEN None
                 ELSE ReadLease(q.lease, p.lease, y)
            /\ it.propertyType = IF q.type = "villa" THEN "villa"
                                 ELSE parsePropertyTypeFromTitle(p.title)
            /\ it.buildingSize =
                 Number(q.size, IF q.sizeOf = "land" THEN p.land ELSE p.size)
            /\ it.landSize = IF q.ares THEN SquareMetres(Number(q.land, p.land))
                              ELSE Number(q.land, p.land)
            /\ it.bedroomsCount = IF q.bedsOf = "baths" THEN p.baths ELSE p.beds
            /\ it.bathroomsCount = p.baths
            /\ it.pool = ReadPool(q.pool, p.pool)
            /\ it.priceIdr = Number(q.idr, p.idr)
            /\ it.priceUsd = Or(Number(q.usd, p.usd), Fallback(q, p, rate0))
            /\ it.isValid = checkIsValid(it)
  BY DEF ReadItem, Columns, checkIsValid

-----------------------------------------------------------------------------
\* The readers of a tenure, one by one.
LEMMA TenureReader ==
  ASSUME NEW t
  PROVE  /\ ReadTenure("verbatim", t) =
              Text(t, IF t.capital THEN Capital(t.word) ELSE t.word)
         /\ ReadTenure("lowered", t) = Text(t, t.word)
         /\ ReadTenure("firstWord", t) = IF Starts(t) THEN t.word ELSE Text(t, t.word)
         /\ ReadTenure("lastPart", t) =
              IF t.form \in {"bare", "later"} THEN t.word ELSE "text"
         /\ ReadTenure("leaseholdOrElse", t) =
              IF Has(t, "leasehold") THEN "leasehold" ELSE "freehold"
         /\ ReadTenure("leaseOrElse", t) =
              IF Has(t, "leasehold") \/ t.alike THEN "leasehold" ELSE "freehold"
         /\ ReadTenure("LeaseholdOrElse", t) =
              IF t.capital /\ Has(t, "leasehold") THEN "leasehold" ELSE "freehold"
         /\ ReadTenure("FreeholdOrElse", t) =
              IF t.capital /\ Has(t, "freehold") THEN "freehold" ELSE "leasehold"
         /\ ReadTenure("freeholdLater", t) =
              IF HasLater(t, "freehold") THEN "freehold" ELSE "leasehold"
         /\ ReadTenure("forSale", t) =
              IF t.form = "bare" /\ t.word = "freehold" THEN "freehold" ELSE "leasehold"
         /\ ReadTenure("twoChars", t) =
              IF Starts(t) /\ t.capital /\ t.word = "freehold" THEN "freehold"
              ELSE "leasehold"
         /\ ReadTenure("leaseSpan", t) =
              IF t.word = "leasehold" THEN "leasehold" ELSE "thrown"
  BY DEF ReadTenure

LEMMA LeaseReader ==
  ASSUME NEW t, NEW y
  PROVE  /\ ReadLease("none", t, y) = None
         /\ ReadLease("digits", t, y) = From(y, Digits(t))
         /\ ReadLease("digitsIfShown", t, y) =
              IF t.kind = "absent" THEN None ELSE y + Digits(t)
         /\ ReadLease("leading", t, y) = From(y, Leading(t))
         /\ ReadLease("twoChars", t, y) =
              IF Leading(t) = None THEN NaN ELSE y + LeadingTwo(t)
         /\ ReadLease("sentence", t, y) = InSentence(t, y)
         /\ ReadLease("sentenceOrUntil", t, y) =
              IF t.lead /\ FourDigits(t) # None THEN t.n ELSE InSentence(t, y)
         /\ ReadLease("fourThenTwo", t, y) =
              IF FourDigits(t) # None THEN t.n ELSE TwoDigitYears(t, y)
         /\ ReadLease("four", t, y) = FourDigits(t)
         /\ t.kind = "words" => ReadLease("lastWord", t, y) = Empty
         /\ t.kind # "words" /\ t.lead => ReadLease("lastWord", t, y) = FourDigits(t)
         /\ t.kind # "words" /\ ~t.lead => ReadLease("lastWord", t, y) = None
         /\ ReadLease("asYear", t, y) = Digits(t)
         /\ t.kind = "date" => ReadLease("firstNumber", t, y) = From(y, 31)
         /\ t.kind # "date" => ReadLease("firstNumber", t, y) =
              IF Digits(t) < 1000 THEN From(y, Digits(t)) ELSE Digits(t)
         /\ ReadLease("beforeWord", t, y) = IF t.kind = "years" THEN y + t.n ELSE None
<1>1. ReadLease("none", t, y) = None
  BY DEF ReadLease
<1>2. ReadLease("digits", t, y) = From(y, Digits(t))
  BY DEF ReadLease
<1>3. ReadLease("digitsIfShown", t, y) =
              IF t.kind = "absent" THEN None ELSE y + Digits(t)
  BY DEF ReadLease
<1>4. ReadLease("leading", t, y) = From(y, Leading(t))
  BY DEF ReadLease
<1>5. ReadLease("twoChars", t, y) =
              IF Leading(t) = None THEN NaN ELSE y + LeadingTwo(t)
  BY DEF ReadLease
<1>6. ReadLease("sentence", t, y) = InSentence(t, y)
  BY DEF ReadLease
<1>7. ReadLease("sentenceOrUntil", t, y) =
              IF t.lead /\ FourDigits(t) # None THEN t.n ELSE InSentence(t, y)
  BY DEF ReadLease
<1>8. ReadLease("fourThenTwo", t, y) =
              IF FourDigits(t) # None THEN t.n ELSE TwoDigitYears(t, y)
  BY DEF ReadLease
<1>9. ReadLease("four", t, y) = FourDigits(t)
  BY DEF ReadLease
<1>10. /\ t.kind = "words" => ReadLease("lastWord", t, y) = Empty
       /\ t.kind # "words" /\ t.lead => ReadLease("lastWord", t, y) = FourDigits(t)
       /\ t.kind # "words" /\ ~t.lead => ReadLease("lastWord", t, y) = None
  <2>1. t.kind = "words" => ReadLease("lastWord", t, y) = Empty
    BY DEF ReadLease
  <2>2. t.kind # "words" /\ t.lead => ReadLease("lastWord", t, y) = FourDigits(t)
    BY DEF ReadLease
  <2>3. t.kind # "words" /\ ~t.lead => ReadLease("lastWord", t, y) = None
    BY DEF ReadLease
  <2> QED BY <2>1, <2>2, <2>3
<1>11. ReadLease("asYear", t, y) = Digits(t)
  BY DEF ReadLease
<1>12. /\ t.kind = "date" => ReadLease("firstNumber", t, y) = From(y, 31)
       /\ t.kind # "date" => ReadLease("firstNumber", t, y) =
            IF Digits(t) < 1000 THEN From(y, Digits(t)) ELSE Digits(t)
  BY DEF ReadLease
<1>13. ReadLease("beforeWord", t, y) = IF t.kind = "years" THEN y + t.n ELSE None
  BY DEF ReadLease
<1> QED
  BY <1>1, <1>2, <1>3, <1>4, <1>5, <1>6, <1>7, <1>8, <1>9, <1>10, <1>11, <1>12, <1>13

\* A text that names one tenure is not read as the other one.
LEMMA TenureRead ==
  ASSUME NEW s, NEW how, TenureReaders(s, how), NEW t \in TenureText,
         t.form \in {"bare", "first", "later"}, ~TenureMisread(s, t)
  PROVE  ReadTenure(how, t) \notin {OtherTenure(t.word), Capital(OtherTenure(t.word))}
<1> USE DEF OtherTenure, Capital, Has, HasLater, Starts, Text, Tenures
<1>1. /\ t.word \in {"freehold", "leasehold"}
      /\ t.capital \in BOOLEAN /\ t.alike \in BOOLEAN
  BY DEF TenureText
<1>2. CASE how = "verbatim"          BY <1>1, <1>2, TenureReader
<1>3. CASE how = "lowered"           BY <1>1, <1>3, TenureReader
<1>4. CASE how = "firstWord"         BY <1>1, <1>4, TenureReader
<1>5. CASE how = "lastPart"          BY <1>1, <1>5, TenureReader
<1>6. CASE how = "leaseholdOrElse"   BY <1>1, <1>6, TenureReader
<1>7. CASE how = "title"             BY <1>1, <1>7 DEF ReadTenure
<1>8. CASE how = "certificate"       BY <1>1, <1>8 DEF ReadTenure
<1>9. CASE how = "leaseSpan"         BY <1>1, <1>9, TenureReader
<1>10. CASE how = "LeaseholdOrElse" /\ s = "unikbalivilla"
  BY <1>1, <1>10, TenureReader DEF TenureMisread
<1>11. CASE how = "FreeholdOrElse" /\ s \in {"lazudi", "balirealty"}
  BY <1>1, <1>11, TenureReader DEF TenureMisread
<1>12. CASE how = "freeholdLater" /\ s = "ppbali"
  BY <1>1, <1>12, TenureReader DEF TenureMisread
<1>13. CASE how = "forSale" /\ s = "exotiqproperty"
  BY <1>1, <1>13, TenureReader DEF TenureMisread
<1>14. CASE how = "twoChars" /\ s = "optimumbali"
  BY <1>1, <1>14, TenureReader DEF TenureMisread
<1>15. CASE how = "leaseOrElse" /\ s = "fazwaz"
  BY <1>1, <1>15, TenureReader DEF TenureMisread
<1> QED
  BY <1>2, <1>3, <1>4, <1>5, <1>6, <1>7, <1>8, <1>9, <1>10, <1>11, <1>12, <1>13, <1>14,
     <1>15
     DEF TenureReaders

\* The parts of a lease.
LEMMA LeaseFields ==
  ASSUME NEW t \in LeaseText
  PROVE  /\ t.kind \in {"years", "until", "date", "words", "absent"}
         /\ t.n \in Nat /\ t.lead \in BOOLEAN /\ t.before \in Nat
         /\ t.kind = "years" => t.n < 1000
         /\ t.kind \in {"until", "date"} => t.n >= 1000 /\ t.n <= 9999
  BY DEF LeaseText

\* What the sentence of a lease gives.
LEMMA Sentence ==
  ASSUME NEW t, NEW y
  PROVE  /\ t.kind # "years" \/ ~t.lead => InSentence(t, y) = None
         /\ t.kind = "years" /\ t.lead /\ InTwoDigits(t.before) =>
              InSentence(t, y) = y + t.before
         /\ t.kind = "years" /\ t.lead /\ ~InTwoDigits(t.before) =>
              InSentence(t, y) = IF InTwoDigits(t.n) THEN y + t.n ELSE None
<1>1. t.kind # "years" \/ ~t.lead => InSentence(t, y) = None
  BY DEF InSentence
<1>2. t.kind = "years" /\ t.lead /\ InTwoDigits(t.before) => InSentence(t, y) = y + t.before
  BY DEF InSentence
<1>3. t.kind = "years" /\ t.lead /\ ~InTwoDigits(t.before) =>
        InSentence(t, y) = IF InTwoDigits(t.n) THEN y + t.n ELSE None
  BY DEF InSentence
<1> QED BY <1>1, <1>2, <1>3

\* What a text begins with: nothing but words, or its number.
LEMMA LeadingNumber ==
  ASSUME NEW t \in LeaseText
  PROVE  /\ t.lead \/ t.kind \in {"words", "absent"} => Leading(t) = None
         /\ ~t.lead /\ t.kind \in {"years", "until"} => Leading(t) = t.n
         /\ ~t.lead /\ t.kind = "date" => Leading(t) = 31
         /\ Leading(t) \in Nat
         /\ Leading(t) < 100 => LeadingTwo(t) = Leading(t)
         /\ LeadingTwo(t) \in Nat
<1>1. /\ t.kind \in {"years", "until", "date", "words", "absent"} /\ t.n \in Nat
      /\ t.lead \in BOOLEAN
  BY LeaseFields
<1>2. t.lead \/ t.kind \in {"words", "absent"} => Leading(t) = None
  BY DEF Leading
<1>3. ~t.lead /\ t.kind \in {"years", "until"} => Leading(t) = t.n
  BY DEF Leading
<1>4. ~t.lead /\ t.kind = "date" => Leading(t) = 31
  BY DEF Leading
<1>5. Leading(t) \in Nat
  BY <1>1, <1>2, <1>3, <1>4 DEF None
<1>6. /\ Leading(t) < 100 => LeadingTwo(t) = Leading(t)
      /\ LeadingTwo(t) \in Nat
  BY <1>5 DEF LeadingTwo
<1> QED BY <1>2, <1>3, <1>4, <1>5, <1>6

\* A year is a number, the digits of no text, or NaN.
LEMMA LeaseTyped ==
  ASSUME NEW s, NEW how, LeaseReaders(s, how), NEW t \in LeaseText, NEW y \in Nat
  PROVE  ReadLease(how, t, y) \in {Empty, NaN} \cup Nat
<1>0. /\ t.kind \in {"years", "until", "date", "words", "absent"} /\ t.n \in Nat
      /\ t.lead \in BOOLEAN /\ t.before \in Nat
  BY LeaseFields
<1> USE <1>0 DEF Empty, NaN, None
<1>1. Digits(t) \in Nat
  BY DEF Digits
<1>2. Leading(t) \in Nat
  BY LeadingNumber
<1>3. LeadingTwo(t) \in Nat
  BY LeadingNumber
<1>4. FourDigits(t) \in Nat
  BY DEF FourDigits
<1>5. TwoDigitYears(t, y) \in Nat
  BY DEF TwoDigitYears
<1>6. InSentence(t, y) \in Nat
  BY Sentence
<1>7. \A n \in Nat : From(y, n) \in Nat
  BY DEF From
<1> QED
  BY <1>1, <1>2, <1>3, <1>4, <1>5, <1>6, <1>7, LeaseReader DEF LeaseReaders

\* A lease that is not found gives no year.
LEMMA LeaseAbsent ==
  ASSUME NEW s, NEW how, LeaseReaders(s, how), NEW t \in LeaseText, NEW y \in Nat,
         t.kind = "absent"
  PROVE  ~Truthy(ReadLease(how, t, y))
<1>1. Leading(t) = None
  BY LeadingNumber
<1>2. /\ Digits(t) = None /\ FourDigits(t) = None /\ TwoDigitYears(t, y) = None
      /\ InSentence(t, y) = None /\ From(y, None) = None
  BY Sentence DEF Digits, FourDigits, TwoDigitYears, From
<1> QED
  BY <1>1, <1>2, LeaseReader DEF LeaseReaders, Truthy, None, Empty, NaN, Raw, Wrong

\* The year a reader gives is the lease's end, or no year, or a number of more
\* than four digits.
LEMMA LeaseRead ==
  ASSUME NEW s, NEW how, LeaseReaders(s, how), NEW t \in LeaseText, NEW y \in Nat,
         ~LeaseMisread(s, t)
  PROVE  \/ ReadLease(how, t, y) \in {Ends(t, y), None, Empty, NaN}
         \/ t.kind = "date" /\ ReadLease(how, t, y) > 9999
<1> DEFINE Right == \/ ReadLease(how, t, y) \in {Ends(t, y), None, Empty, NaN}
                    \/ t.kind = "date" /\ ReadLease(how, t, y) > 9999
<1>a. /\ t.kind \in {"years", "until", "date", "words", "absent"}
      /\ t.n \in Nat /\ t.lead \in BOOLEAN
      /\ t.kind = "years" => t.n < 1000
      /\ t.kind \in {"until", "date"} => t.n >= 1000 /\ t.n <= 9999
  BY LeaseFields
<1>b. /\ t.kind = "years" => Ends(t, y) = y + t.n
      /\ t.kind # "years" => Ends(t, y) = t.n
  BY DEF Ends
<1>1. ASSUME how = "none"
      PROVE  Right
  BY <1>a, <1>b, <1>1, LeaseReader
     DEF None
<1>c. ASSUME s \in {"fazwaz", "lazudi", "balicoconutliving"}
      PROVE  InSentence(t, y) \in {Ends(t, y), None}
  <2>1. t.kind = "years" => ~InTwoDigits(t.before)
    BY <1>c DEF LeaseMisread
  <2> QED BY <1>a, <1>b, <2>1, Sentence
<1>2. ASSUME how = "sentence", s \in {"fazwaz", "lazudi"}
      PROVE  Right
  BY <1>2, <1>c, LeaseReader
<1>3. ASSUME how = "sentenceOrUntil", s = "balicoconutliving"
      PROVE  Right
  BY <1>a, <1>b, <1>3, <1>c, LeaseReader
     DEF None, FourDigits
<1>4. ASSUME how = "four"
      PROVE  Right
  BY <1>a, <1>b, <1>4, LeaseReader
     DEF None, FourDigits
<1>5. ASSUME how = "lastWord"
      PROVE  Right
  BY <1>a, <1>b, <1>5, LeaseReader
     DEF None, FourDigits
<1>6. ASSUME how = "beforeWord"
      PROVE  Right
  BY <1>a, <1>b, <1>6, LeaseReader
     DEF None
<1>7. ASSUME how = "digits", s \in {"balihomeimmo", "unikbalivilla", "exotiqproperty"}
      PROVE  Right
  BY <1>a, <1>b, <1>7, LeaseReader
     DEF None, Digits, From, LeaseMisread
<1>8. ASSUME how = "leading", s \in {"balivillasales", "propertiabali", "villabalisale",
                                     "baliexception"}
      PROVE  Right
  BY <1>a, <1>b, <1>8, LeaseReader, LeadingNumber
     DEF None, From, LeaseMisread
<1>9. ASSUME how = "digitsIfShown", s = "rajavillaproperty"
      PROVE  Right
  BY <1>a, <1>b, <1>9, LeaseReader
     DEF None, Digits, LeaseMisread
<1>10. ASSUME how = "twoChars", s = "optimumbali"
      PROVE  Right
  BY <1>a, <1>b, <1>10, LeaseReader, LeadingNumber
     DEF None, LeaseMisread
<1>11. ASSUME how = "fourThenTwo", s \in {"excelbali", "ppbali"}
      PROVE  Right
  BY <1>a, <1>b, <1>11, LeaseReader
     DEF None, FourDigits, TwoDigitYears, LeaseMisread
<1>12. ASSUME how = "asYear", s = "suasarealestate"
      PROVE  Right
  BY <1>a, <1>b, <1>12, LeaseReader
     DEF None, Digits, LeaseMisread
<1>13. ASSUME how = "firstNumber", s = "balirealty"
      PROVE  Right
  <2>1. t.kind # "date"
    BY <1>13 DEF LeaseMisread
  <2>2. CASE t.kind = "until"
    <3>1. Digits(t) = t.n
      BY <2>2 DEF Digits
    <3> QED BY <1>a, <1>b, <1>13, <2>2, <3>1, LeaseReader
  <2>3. CASE t.kind = "years"
    <3>1. Digits(t) = t.n
      BY <2>3 DEF Digits
    <3> QED BY <1>a, <1>b, <1>13, <2>3, <3>1, LeaseReader DEF From
  <2>4. CASE t.kind \in {"words", "absent"}
    <3>1. Digits(t) = None
      BY <2>4 DEF Digits
    <3> QED BY <1>13, <2>4, <3>1, LeaseReader DEF None, From
  <2> QED BY <1>a, <2>1, <2>2, <2>3, <2>4
<1> HIDE DEF Right
<1>14. Right
  BY <1>1, <1>2, <1>3, <1>4, <1>5, <1>6, <1>7, <1>8, <1>9, <1>10, <1>11, <1>12, <1>13
     DEF LeaseReaders
<1> QED BY <1>14 DEF Right

-----------------------------------------------------------------------------
(* What a service makes of a page.                                         *)

\* The prices are figures, once parseItem has not thrown and the row has been
\* inserted.
LEMMA PricesTyped ==
  ASSUME NEW s \in DOMAIN ServiceItem, NEW p \in PageType, NEW y, NEW b \in Nat \ {0},
         ~Throws(ServiceItem[s], p), PriceFits(ReadItem(ServiceItem[s], p, y, b))
  PROVE  /\ ReadItem(ServiceItem[s], p, y, b).priceIdr \in Figure
         /\ ReadItem(ServiceItem[s], p, y, b).priceUsd \in Figure \cup {NaN}
<1> DEFINE q  == ServiceItem[s]
           it == ReadItem(q, p, y, b)
           u  == Number(q.usd, p.usd)
           i  == Number(q.idr, p.idr)
<1>1. ReadersOf(s, q)
  BY ServiceReaders
<1>2. /\ p.idr \in PriceText /\ p.usd \in PriceText
      /\ p.idr.n \in Nat /\ p.usd.n \in Nat
  BY DEF PageType, PriceText
<1>3. it.priceIdr = i /\ it.priceUsd = Or(u, Fallback(q, Found(q, p), b))
  BY ItemColumns, FoundKeeps
<1>4. i \in {None, Empty, Wrong} \cup Nat
  <2>1. i \in {None, Empty, Wrong, Thrown, p.idr.n}
    BY <1>1, <1>2, IdrNumber DEF ReadersOf
  <2>2. i # Thrown
    BY DEF Throws
  <2> QED BY <1>2, <2>1, <2>2
<1>5. u \in {None, Empty, Wrong, Raw} \cup Nat
  BY <1>1, <1>2, UsdNumber DEF ReadersOf
<1>6. Fallback(q, Found(q, p), b) \in {None, Wrong, NaN} \cup Nat
  <2>1. Found(q, p).idr = p.idr
    BY FoundKeeps
  <2>2. convertToUsd(i, b) \in {None, Wrong, NaN} \cup Nat
    BY <1>4, Converted
  <2>3. convertToUsd(Number(AsText, p.idr), b) \in {None, Wrong, NaN} \cup Nat
    <3>1. AsText \in UsdTables
      BY DEF UsdTables
    <3>2. Number(AsText, p.idr) \in {None, Empty, Wrong, Raw} \cup Nat
      BY <1>2, <3>1, UsdNumber
    <3> QED BY <3>2, Converted
  <2>4. q.convert \in {"number", "text", "nothing"}
    BY <1>1 DEF ReadersOf
  <2> HIDE DEF q
  <2> QED BY <2>1, <2>2, <2>3, <2>4 DEF Fallback
<1>7. it.priceIdr \notin {Empty, Raw} /\ it.priceUsd \notin {Empty, Raw}
  BY DEF PriceFits
<1> HIDE DEF q, it, u, i
<1>8. Or(u, Fallback(q, Found(q, p), b)) \in {Raw, None, Wrong, NaN} \cup Nat
  BY <1>5, <1>6 DEF Or, Truthy, None, Empty, Wrong, Raw, NaN
<1>9. it.priceIdr \in Figure /\ it.priceUsd \in Figure \cup {NaN}
  BY <1>3, <1>4, <1>7, <1>8 DEF Figure
<1> QED BY <1>9 DEF q, it

\* So are the sizes and the lease's year, of a row that fits its table.
LEMMA RowTyped ==
  ASSUME NEW s \in DOMAIN ServiceItem, NEW p \in PageType, NEW y \in Nat,
         NEW b \in Nat \ {0},
         ~Throws(ServiceItem[s], p), Fits(ReadItem(ServiceItem[s], p, y, b))
  PROVE  LET it == ReadItem(ServiceItem[s], p, y, b)
         IN /\ DOMAIN it = Columns
            /\ it.leaseExpiryYear \in Figure
            /\ it.landSize \in Figure /\ it.buildingSize \in Figure
            /\ it.priceIdr \in Figure /\ it.priceUsd \in Figure \cup {NaN}
            /\ it.propertyType \in Types
            /\ it.isValid \in BOOLEAN
<1> DEFINE q  == ServiceItem[s]
           it == ReadItem(q, p, y, b)
           f  == Found(q, p)
<1>1. ReadersOf(s, q)
  BY ServiceReaders
<1>2. /\ f.lease \in LeaseText /\ f.size \in SizeText /\ f.land \in SizeText
  BY FoundKeeps
<1>3. /\ it.leaseExpiryYear \notin {Empty, NaN}
      /\ it.buildingSize # Empty /\ it.landSize # Empty
      /\ PriceFits(it)
  BY DEF Fits
<1>4. it.priceIdr \in Figure /\ it.priceUsd \in Figure \cup {NaN}
  BY <1>3, PricesTyped
<1>5. /\ DOMAIN it = Columns
      /\ it.leaseExpiryYear =
           IF q.onlyLeasehold /\ it.ownership # "leasehold" THEN None
           ELSE ReadLease(q.lease, f.lease, y)
      /\ it.propertyType = IF q.type = "villa" THEN "villa"
                           ELSE parsePropertyTypeFromTitle(f.title)
      /\ it.buildingSize = Number(q.size, IF q.sizeOf = "land" THEN f.land ELSE f.size)
      /\ it.landSize = IF q.ares THEN SquareMetres(Number(q.land, f.land))
                        ELSE Number(q.land, f.land)
      /\ it.isValid = checkIsValid(it)
  BY ItemColumns
<1> HIDE DEF q, it, f
<1>6. it.leaseExpiryYear \in Figure
  <2>1. ReadLease(q.lease, f.lease, y) \in {Empty, NaN} \cup Nat
    BY <1>1, <1>2, LeaseTyped DEF ReadersOf
  <2> QED BY <1>3, <1>5, <2>1 DEF Figure
<1>7. it.landSize \in Figure
  <2>1. Number(q.land, f.land) \in {None, Empty, Wrong, f.land.n} /\ q.ares \in BOOLEAN
    BY <1>1, <1>2, SizeNumber DEF ReadersOf
  <2>2. it.landSize \in {None, Empty, Wrong} \cup Nat
    BY <1>2, <1>5, <2>1, Metres DEF SizeText
  <2> QED BY <1>3, <2>2 DEF Figure
<1>8. it.buildingSize \in Figure
  <2>1. ASSUME NEW t \in SizeText PROVE Number(q.size, t) \in {None, Empty, Wrong} \cup Nat
    <3>1. Number(q.size, t) \in {None, Empty, Wrong, t.n}
      BY <1>1, SizeNumber DEF ReadersOf
    <3> QED BY <3>1 DEF SizeText
  <2> QED BY <1>2, <1>3, <1>5, <2>1 DEF Figure
<1>9. it.propertyType \in Types
  BY <1>5, TitleType DEF Types
<1>10. it.isValid \in BOOLEAN
  BY <1>5 DEF checkIsValid
<1> QED BY <1>4, <1>5, <1>6, <1>7, <1>8, <1>9, <1>10 DEF q, it

-----------------------------------------------------------------------------
(* The invariant.  A row says no more than its own columns; that they come *)
(* from a page is in first and last, which remember what the two crawls    *)
(* have met that made the row and its newest price.                        *)

\* What a crawl meets.
Met == [page : PageType, year : Nat, rate : Rates]
Read(m) == ReadItem(r, m.page, m.year, m.rate)

StateInv ==
  /\ service \in Service /\ page \in PageType
  /\ year \in Year0..LastYear /\ rate \in Rates
  /\ outcome \in {"none", "stored", "priced", "failed", "skipped"}
  /\ count \in [crawls : 0..MaxCrawls, edits : 0..MaxEdits, updates : 0..MaxUpdates]

\* A stored row has all its columns, and what is in them is of their types,
\* the ones a user has set included.
RowInv ==
  /\ Stored <=> price # <<>>
  /\ Stored => /\ DOMAIN row = Columns
               /\ row.leaseExpiryYear \in Figure
               /\ row.landSize \in Figure /\ row.buildingSize \in Figure
               /\ row.priceIdr \in Figure /\ row.priceUsd \in Figure \cup {NaN}
               /\ row.propertyType \in Types
               /\ row.isValid \in BOOLEAN

\* The newest price was read from the page of the last crawl that stored one,
\* and an untouched row from the page of the first.
HistoryInv ==
  Stored => /\ first \in Met /\ last \in Met
            /\ ~Throws(r, first.page) /\ ~Throws(r, last.page)
            /\ PriceFits(Read(last))
            /\ price = PriceOf(Read(last))
            /\ count.updates = 0 => row = Read(first)

ListingInv == StateInv /\ RowInv /\ HistoryInv

\* The bounds of the constants.
LEMMA Numbers ==
  /\ Rates \subseteq Nat \ {0}
  /\ Year0 \in Nat /\ LastYear \in Nat
  /\ Service \subseteq DOMAIN ServiceItem
  /\ MaxCrawls \in Nat /\ MaxEdits \in Nat /\ MaxUpdates \in Nat
  BY ListingAssumption

\* Before the first crawl there is no row.
LEMMA InitInv == Init => ListingInv
<1> SUFFICES ASSUME Init PROVE ListingInv
  OBVIOUS
<1>1. page \in PageType
  BY PagesAssumption DEF Init
<1>2. Year0 \in Year0..LastYear
  BY ListingAssumption
<1>3. [crawls |-> 0, edits |-> 0, updates |-> 0]
        \in [crawls : 0..MaxCrawls, edits : 0..MaxEdits, updates : 0..MaxUpdates]
  BY Numbers
<1>4. StateInv
  BY <1>1, <1>2, <1>3 DEF Init, StateInv
<1>5. ~Stored /\ price = <<>>
  BY DEF Init, Stored
<1> QED
  BY <1>4, <1>5 DEF ListingInv, RowInv, HistoryInv

\* Every step keeps the types of the site, the calendar and the counters.
LEMMA StateStep ==
  ASSUME StateInv, [Next]_vars
  PROVE  StateInv'
<1> USE DEF StateInv
<1>1. ASSUME Crawls, outcome' \in {"failed", "skipped", "stored", "priced"}
      PROVE  StateInv'
  <2>1. count' \in [crawls : 0..MaxCrawls, edits : 0..MaxEdits, updates : 0..MaxUpdates]
    BY <1>1, Numbers DEF Crawls
  <2> QED BY <1>1, <2>1 DEF Crawls
<1>2. CASE CrawlFails BY <1>1, <1>2 DEF CrawlFails
<1>3. CASE CrawlSkips BY <1>1, <1>3 DEF CrawlSkips
<1>4. CASE CrawlStores BY <1>1, <1>4 DEF CrawlStores
<1>5. CASE CrawlPrices BY <1>1, <1>5 DEF CrawlPrices
<1>6. CASE Update
  <2>1. count' \in [crawls : 0..MaxCrawls, edits : 0..MaxEdits, updates : 0..MaxUpdates]
    BY <1>6, Numbers DEF Update
  <2> QED BY <1>6, <2>1 DEF Update
<1>7. CASE Edit
  <2>1. count' \in [crawls : 0..MaxCrawls, edits : 0..MaxEdits, updates : 0..MaxUpdates]
    BY <1>7, Numbers DEF Edit
  <2>2. page' \in PageType
    BY <1>7, PagesAssumption DEF Edit
  <2> QED BY <1>7, <2>1, <2>2 DEF Edit
<1>8. CASE NewYear
  <2>1. year' \in Year0..LastYear
    BY <1>8, Numbers DEF NewYear
  <2> QED BY <1>8, <2>1 DEF NewYear
<1>9. CASE NewRate BY <1>9 DEF NewRate
<1>10. CASE UNCHANGED vars BY <1>10 DEF vars
<1> QED
  BY <1>2, <1>3, <1>4, <1>5, <1>6, <1>7, <1>8, <1>9, <1>10 DEF Next

\* A step that leaves row and prices alone keeps what is known of them.
LEMMA QuietStep ==
  ASSUME RowInv, HistoryInv, UNCHANGED <<service, row, price, first, last>>,
         count'.updates = count.updates
  PROVE  RowInv' /\ HistoryInv'
<1>1. RowInv'
  BY DEF RowInv, Stored
<1>2. HistoryInv'
  BY DEF HistoryInv, Stored, r, Read
<1> QED BY <1>1, <1>2

\* What a crawl reads now is what it will be remembered to have met.
LEMMA NowMet ==
  ASSUME StateInv
  PROVE  Now \in Met /\ Read(Now) = Item0 /\ Now.page = page
<1>1. year \in Nat
  BY Numbers DEF StateInv
<1> QED
  BY <1>1 DEF StateInv, Now, Met, Read, Item0

\* A row and a price that are there are not <<>>.
LEMMA NotEmpty ==
  /\ \A it : PriceOf(it) # <<>>
  /\ \A it : DOMAIN it = Columns => it # <<>>
<1>1. ASSUME NEW it PROVE PriceOf(it) # <<>>
  <2>1. DOMAIN PriceOf(it) = {"priceIdr", "priceUsd"}
    BY DEF PriceOf
  <2>2. DOMAIN <<>> = {}
    OBVIOUS
  <2> QED BY <2>1, <2>2
<1>2. ASSUME NEW it, DOMAIN it = Columns PROVE it # <<>>
  <2>1. DOMAIN <<>> = {}
    OBVIOUS
  <2> QED BY <1>2, <2>1 DEF Columns
<1> QED BY <1>1, <1>2

\* A crawl that stores the listing.
LEMMA StoresStep ==
  ASSUME ListingInv, CrawlStores
  PROVE  RowInv' /\ HistoryInv'
<1>1. /\ service \in DOMAIN ServiceItem /\ r = ServiceItem[service] /\ page \in PageType
      /\ year \in Nat /\ rate \in Nat \ {0}
  BY Numbers DEF ListingInv, StateInv, r
<1>2. /\ row' = Item0 /\ price' = PriceOf(Item0) /\ first' = Now /\ last' = Now
      /\ ~Throws(r, page) /\ Fits(Item0) /\ service' = service
  BY DEF CrawlStores, Crawls
<1>3. /\ DOMAIN Item0 = Columns
      /\ Item0.leaseExpiryYear \in Figure
      /\ Item0.landSize \in Figure /\ Item0.buildingSize \in Figure
      /\ Item0.priceIdr \in Figure /\ Item0.priceUsd \in Figure \cup {NaN}
      /\ Item0.propertyType \in Types
      /\ Item0.isValid \in BOOLEAN
  BY <1>1, <1>2, RowTyped DEF Item0
<1>4. row' # <<>> /\ price' # <<>>
  BY <1>2, <1>3, NotEmpty
<1>5. RowInv'
  BY <1>2, <1>3, <1>4 DEF RowInv, Stored
<1>6. Now \in Met /\ Read(Now) = Item0 /\ Now.page = page
  BY NowMet DEF ListingInv
<1>7. first' = Now /\ last' = Now /\ r' = r
  BY <1>2 DEF r
<1>8. Read(first)' = Item0 /\ Read(last)' = Item0
  BY <1>6, <1>7 DEF Read
<1>9. HistoryInv'
  BY <1>2, <1>6, <1>7, <1>8 DEF HistoryInv, Fits, Met
<1> QED BY <1>5, <1>9

\* A crawl that finds it stored.
LEMMA PricesStep ==
  ASSUME ListingInv, CrawlPrices
  PROVE  RowInv' /\ HistoryInv'
<1>1. /\ Stored /\ price' = PriceOf(Item0) /\ last' = Now /\ UNCHANGED <<row, first>>
      /\ ~Throws(r, page) /\ PriceFits(Item0) /\ service' = service
  BY DEF CrawlPrices, Crawls
<1>2. count'.updates = count.updates
  BY DEF CrawlPrices, Crawls, ListingInv, StateInv
<1>3. RowInv'
  BY <1>1, NotEmpty DEF ListingInv, RowInv, Stored
<1>4. Now \in Met /\ Read(Now) = Item0 /\ Now.page = page
  BY NowMet DEF ListingInv
<1>5. r' = r
  BY <1>1 DEF r
<1>6. Read(last)' = Item0 /\ Read(first)' = Read(first)
  BY <1>1, <1>4, <1>5 DEF Read
<1>7. HistoryInv'
  BY <1>1, <1>2, <1>4, <1>5, <1>6 DEF ListingInv, HistoryInv, Met
<1> QED BY <1>3, <1>7

\* A user's update of the row.
LEMMA UpdateStep ==
  ASSUME ListingInv, Update
  PROVE  RowInv' /\ HistoryInv'
<1>1. PICK input \in Inputs :
        row' = [c \in DOMAIN row |-> IF c \in DOMAIN input THEN input[c] ELSE row[c]]
  BY DEF Update
<1>2. /\ Stored /\ UNCHANGED <<service, price, first, last>>
      /\ count'.updates = count.updates + 1
  BY DEF Update, ListingInv, StateInv
<1>3. DOMAIN row = Columns
  BY <1>2 DEF ListingInv, RowInv
<1>4. DOMAIN row' = Columns /\ row' # <<>>
  BY <1>1, <1>3, NotEmpty
<1>5. ASSUME NEW c \in Columns
      PROVE  row'[c] = IF c \in DOMAIN input THEN input[c] ELSE row[c]
  BY <1>1, <1>3
<1>6. /\ \A c \in DOMAIN input : c \in Figures => input[c] \in Figure
      /\ "propertyType" \in DOMAIN input => input["propertyType"] \in Types
      /\ "isValid" \notin DOMAIN input
  BY InputsAssumption DEF Figures, Figure
<1>7. /\ row'["leaseExpiryYear"] \in Figure
      /\ row'["landSize"] \in Figure /\ row'["buildingSize"] \in Figure
      /\ row'["priceIdr"] \in Figure /\ row'["priceUsd"] \in Figure \cup {NaN}
  BY <1>2, <1>5, <1>6 DEF Columns, Figures, ListingInv, RowInv
<1>8. row'["propertyType"] \in Types /\ row'["isValid"] \in BOOLEAN
  BY <1>2, <1>5, <1>6 DEF Columns, ListingInv, RowInv
<1>9. RowInv'
  BY <1>2, <1>4, <1>7, <1>8 DEF ListingInv, RowInv, Stored
<1>10. count'.updates # 0
  BY <1>2, Numbers DEF ListingInv, StateInv
<1>11. r' = r /\ Read(last)' = Read(last)
  BY <1>2 DEF r, Read
<1>12. HistoryInv'
  BY <1>2, <1>10, <1>11 DEF ListingInv, HistoryInv
<1> QED BY <1>9, <1>12

\* Every step keeps the invariant.
LEMMA StepInv == ListingInv /\ [Next]_vars => ListingInv'
<1> SUFFICES ASSUME ListingInv, [Next]_vars PROVE ListingInv'
  OBVIOUS
<1>1. StateInv'
  BY StateStep DEF ListingInv
<1>2. count.updates = count.updates /\ RowInv /\ HistoryInv
  BY DEF ListingInv
<1>3. ASSUME Crawls, UNCHANGED <<row, price, first, last>>
      PROVE  RowInv' /\ HistoryInv'
  <2>1. count'.updates = count.updates
    BY <1>3 DEF Crawls, ListingInv, StateInv
  <2> QED BY <1>2, <1>3, <2>1, QuietStep DEF Crawls
<1>4. CASE CrawlFails BY <1>1, <1>3, <1>4 DEF CrawlFails, ListingInv
<1>5. CASE CrawlSkips BY <1>1, <1>3, <1>5 DEF CrawlSkips, ListingInv
<1>6. CASE CrawlStores BY <1>1, <1>6, StoresStep DEF ListingInv
<1>7. CASE CrawlPrices BY <1>1, <1>7, PricesStep DEF ListingInv
<1>8. CASE Update BY <1>1, <1>8, UpdateStep DEF ListingInv
<1>9. CASE Edit
  <2>1. count'.updates = count.updates
    BY <1>9 DEF Edit, ListingInv, StateInv
  <2> QED BY <1>1, <1>2, <1>9, <2>1, QuietStep DEF Edit, ListingInv
<1>10. CASE NewYear
  BY <1>1, <1>2, <1>10, QuietStep DEF NewYear, ListingInv
<1>11. CASE NewRate
  BY <1>1, <1>2, <1>11, QuietStep DEF NewRate, ListingInv
<1>12. CASE UNCHANGED vars
  BY <1>1, <1>2, <1>12, QuietStep DEF vars, ListingInv
<1> QED
  BY <1>4, <1>5, <1>6, <1>7, <1>8, <1>9, <1>10, <1>11, <1>12 DEF Next

\* The invariant holds in every state a site, its crawls and the table's users
\* can reach.
THEOREM ListingInvariant == Spec => []ListingInv
  BY InitInv, StepInv, PTL DEF Spec

\* Types, in every reachable state: no text, no empty text and no NaN is stored
\* where a number belongs (parseItem, loadToDb, ParserService.update).
THEOREM ListingTypes == Spec => []TypeOK
<1>1. ListingInv => TypeOK
  <2> SUFFICES ASSUME ListingInv PROVE TypeOK
    OBVIOUS
  <2>1. ASSUME price # <<>>
        PROVE  price.priceIdr \in Figure /\ price.priceUsd \in Figure \cup {NaN}
    <3>1. /\ last.page \in PageType /\ last.rate \in Nat \ {0}
          /\ ~Throws(r, last.page) /\ PriceFits(Read(last)) /\ price = PriceOf(Read(last))
      BY <2>1, Numbers DEF ListingInv, RowInv, HistoryInv, Met
    <3>2. service \in DOMAIN ServiceItem
      BY Numbers DEF ListingInv, StateInv
    <3>3. Read(last).priceIdr \in Figure /\ Read(last).priceUsd \in Figure \cup {NaN}
      BY <3>1, <3>2, PricesTyped DEF Read, r
    <3> QED BY <3>1, <3>3 DEF PriceOf
  <2> QED
    BY <2>1 DEF TypeOK, ListingInv, StateInv, RowInv
<1> QED BY <1>1, ListingInvariant, PTL

\* What is known of an untouched row: it is what parseItem made of the page that
\* the first crawl met.
LEMMA CrawledRow ==
  ASSUME ListingInv, AsCrawled
  PROVE  /\ row = ReadItem(r, first.page, first.year, first.rate)
         /\ first.page \in PageType /\ first.year \in Nat /\ first.rate \in Nat \ {0}
         /\ ~Throws(r, first.page)
         /\ service \in DOMAIN ServiceItem /\ r = ServiceItem[service]
         /\ ReadersOf(service, r)
<1>1. /\ row = Read(first) /\ first \in Met /\ ~Throws(r, first.page)
  BY DEF AsCrawled, ListingInv, HistoryInv
<1>2. service \in DOMAIN ServiceItem /\ r = ServiceItem[service]
  BY Numbers DEF ListingInv, StateInv, r
<1> QED BY <1>1, <1>2, Numbers, ServiceReaders DEF Met, Read

\* No text that names one tenure is stored as the other one, the listed
\* misreadings apart (ownership in the parseItem functions).
THEOREM RightTenures == Spec => []TenureReadRight
<1>1. ListingInv => TenureReadRight
  <2> DEFINE t == first.page.tenure
  <2> SUFFICES ASSUME ListingInv, AsCrawled, t.form \in {"bare", "first", "later"},
                      ~TenureMisread(service, t)
               PROVE  row.ownership
                        \notin {OtherTenure(t.word), Capital(OtherTenure(t.word))}
    BY DEF TenureReadRight
  <2>1. row.ownership = ReadTenure(r.tenure, t)
    BY CrawledRow, ItemColumns, FoundKeeps
  <2>2. t \in TenureText /\ TenureReaders(service, r.tenure)
    BY CrawledRow DEF PageType, ReadersOf
  <2> HIDE DEF t
  <2> QED BY <2>1, <2>2, TenureRead
<1> QED BY <1>1, ListingInvariant, PTL

\* A valid leasehold row expires in the year its text says, the listed misreadings
\* apart (leaseExpiryYear in the parseItem functions, checkIsValid).
THEOREM RightExpiries == Spec => []ExpiryReadRight
<1>1. ListingInv => ExpiryReadRight
  <2> DEFINE t == first.page.lease
             f == Found(r, first.page).lease
  <2> SUFFICES ASSUME ListingInv, AsCrawled, row.isValid, row.ownership = "leasehold",
                      ~LeaseMisread(service, t)
               PROVE  row.leaseExpiryYear = Ends(t, first.year)
    BY DEF ExpiryReadRight
  <2>1. /\ row.leaseExpiryYear = ReadLease(r.lease, f, first.year)
        /\ row.isValid = checkIsValid(row)
    <3> DEFINE it == ReadItem(r, first.page, first.year, first.rate)
    <3>1. row = it
      BY CrawledRow
    <3>2. it.leaseExpiryYear = IF r.onlyLeasehold /\ it.ownership # "leasehold" THEN None
                               ELSE ReadLease(r.lease, f, first.year)
      BY ItemColumns
    <3>3. it.isValid = checkIsValid(it)
      BY ItemColumns
    <3> HIDE DEF it
    <3> QED BY <3>1, <3>2, <3>3
  <2>2. f \in LeaseText /\ t \in LeaseText /\ (f # t => f.kind = "absent")
    BY CrawledRow, FoundKeeps DEF PageType
  <2>3. LeaseReaders(service, r.lease) /\ first.year \in Nat
    BY CrawledRow DEF ReadersOf
  <2>4. Truthy(row.leaseExpiryYear) /\ row.leaseExpiryYear <= 9999
    <3>1. checkIsValid(row)
      BY <2>1
    <3> QED BY <3>1 DEF checkIsValid
  <2> HIDE DEF t, f
  <2>5. f = t
    BY <2>1, <2>2, <2>3, <2>4, LeaseAbsent
  <2>6. \/ row.leaseExpiryYear \in {Ends(t, first.year), None, Empty, NaN}
        \/ row.leaseExpiryYear > 9999
    BY <2>1, <2>2, <2>3, <2>5, LeaseRead
  <2>7. row.leaseExpiryYear \notin {None, Empty, NaN}
    BY <2>4 DEF Truthy, None, Empty, NaN, Raw, Wrong
  <2>8. row.leaseExpiryYear \in Nat \cup {Empty, NaN}
    BY <2>1, <2>2, <2>3, LeaseTyped
  <2>9. ~(row.leaseExpiryYear > 9999)
    BY <2>4, <2>8 DEF Empty, NaN
  <2> QED BY <2>6, <2>7, <2>9
<1> QED BY <1>1, ListingInvariant, PTL

\* A row that disagrees with its newest price or with its own validity has a cause:
\* another price on the page, another rate, or a user's update (loadToDb,
\* ParserService.update).
THEOREM StaleRowsExplained == Spec => []StaleHasCause
<1>1. ListingInv => StaleHasCause
  <2> SUFFICES ASSUME ListingInv, Stored PROVE
        /\ row.priceUsd # price.priceUsd =>
             \/ count.updates > 0
             \/ <<first.page.idr, first.page.usd>> # <<last.page.idr, last.page.usd>>
             \/ first.rate # last.rate
        /\ row.isValid # checkIsValid(row) => count.updates > 0
    BY DEF StaleHasCause
  <2>1. count.updates \in Nat
    BY Numbers DEF ListingInv, StateInv
  <2>2. CASE count.updates > 0
    BY <2>2
  <2>3. CASE count.updates = 0
    <3>1. AsCrawled
      BY <2>3 DEF AsCrawled
    <3>2. row.isValid = checkIsValid(row)
      BY <3>1, CrawledRow, ItemColumns
    <3>3. /\ price.priceUsd = Read(last).priceUsd /\ last.page \in PageType
      BY DEF ListingInv, HistoryInv, PriceOf, Met
    <3>4. ASSUME <<first.page.idr, first.page.usd>> = <<last.page.idr, last.page.usd>>,
                 first.rate = last.rate
          PROVE  row.priceUsd = price.priceUsd
      <4>1. first.page.idr = last.page.idr /\ first.page.usd = last.page.usd
        BY <3>4
      <4>2. ASSUME NEW p \in PageType, NEW y, NEW b
            PROVE  ReadItem(r, p, y, b).priceUsd =
                     Or(Number(r.usd, p.usd),
                        CASE r.convert = "number" -> convertToUsd(Number(r.idr, p.idr), b)
                          [] r.convert = "text" -> convertToUsd(Number(AsText, p.idr), b)
                          [] r.convert = "nothing" -> None)
        <5>1. ReadItem(r, p, y, b).priceUsd =
                Or(Number(r.usd, Found(r, p).usd), Fallback(r, Found(r, p), b))
          BY ItemColumns
        <5>2. Found(r, p).idr = p.idr /\ Found(r, p).usd = p.usd
          BY FoundKeeps
        <5> QED BY <5>1, <5>2 DEF Fallback
      <4> QED BY <3>1, <3>3, <3>4, <4>1, <4>2, CrawledRow DEF Read
    <3> QED BY <3>2, <3>4
  <2> QED BY <2>1, <2>2, <2>3
<1> QED BY <1>1, ListingInvariant, PTL

\* What parseItem makes of a page's plain digits, reader by reader.
LEMMA FiguresRead ==
  ASSUME NEW s \in DOMAIN ServiceItem, NEW p \in PageType, NEW y, NEW b \in Nat \ {0},
         ~Throws(ServiceItem[s], p)
  PROVE  LET it == ReadItem(ServiceItem[s], p, y, b)
         IN /\ s # "balimoves" => Shows(it.buildingSize, p.size)
            /\ s \notin InAres => Shows(it.landSize, p.land)
            /\ s \in InAres => Shows(it.landSize, [p.land EXCEPT !.n = 100 * @])
            /\ s # "baliexception" => it.bedroomsCount \in {p.beds, None}
            /\ it.bathroomsCount \in {p.baths, None}
            /\ s \notin PoolMisread => it.pool \in {p.pool, "none"}
            /\ Shows(it.priceIdr, p.idr)
            /\ p.usd.form = "plain" /\ it.priceUsd # None /\ it.priceIdr = None
                 => it.priceUsd = p.usd.n
            /\ p.usd.form = "absent" /\ p.idr.form = "plain" /\ it.priceUsd # None
                 => it.priceUsd = p.idr.n \div b
<1> DEFINE q  == ServiceItem[s]
           it == ReadItem(q, p, y, b)
           f  == Found(q, p)
           u  == Number(q.usd, p.usd)
           i  == Number(q.idr, p.idr)
<1>1. ReadersOf(s, q)
  BY ServiceReaders
<1>2. /\ f.size \in SizeText /\ (f.size # p.size => f.size.form = "absent")
      /\ f.land \in SizeText /\ (f.land # p.land => f.land.form = "absent")
      /\ f.beds \in {p.beds, None} /\ f.baths \in {p.baths, None}
      /\ f.pool \in {p.pool, "none"}
      /\ f.idr = p.idr /\ f.usd = p.usd
  BY FoundKeeps
<1>3. /\ it.buildingSize = Number(q.size, IF q.sizeOf = "land" THEN f.land ELSE f.size)
      /\ it.landSize = IF q.ares THEN SquareMetres(Number(q.land, f.land))
                        ELSE Number(q.land, f.land)
      /\ it.bedroomsCount = IF q.bedsOf = "baths" THEN f.baths ELSE f.beds
      /\ it.bathroomsCount = f.baths
      /\ it.pool = ReadPool(q.pool, f.pool)
  BY ItemColumns
<1>4. it.priceIdr = i /\ it.priceUsd = Or(u, Fallback(q, f, b))
  BY <1>2, ItemColumns
<1>5. /\ p.idr \in PriceText /\ p.usd \in PriceText
      /\ p.idr.n \in Nat /\ p.usd.n \in Nat
  BY DEF PageType, PriceText
<1>6. i # Thrown
  BY DEF Throws
<1>7. /\ i \in {None, Empty, Wrong, p.idr.n}
      /\ p.idr.form = "plain" => i \in {None, p.idr.n} /\ p.idr.n # 0
  BY <1>1, <1>5, <1>6, IdrNumber DEF ReadersOf
<1>8. /\ p.usd.form = "plain" => u \in {None, p.usd.n} /\ p.usd.n # 0
      /\ p.usd.form = "absent" => u = None
  BY <1>1, <1>5, UsdNumber DEF ReadersOf
<1>9. Fallback(q, f, b) =
        CASE q.convert = "number"  -> convertToUsd(i, b)
          [] q.convert = "text"    -> convertToUsd(Number(AsText, p.idr), b)
          [] q.convert = "nothing" -> None
  BY <1>2 DEF Fallback
<1>10. /\ q.convert \in {"number", "text", "nothing"}
       /\ q.convert = "text" => q.usd = parsePrice
  BY <1>1 DEF ReadersOf
<1> HIDE DEF it, f, i
<1>11. ASSUME NEW table \in SizeTables, NEW t \in SizeText, NEW t0,
              t # t0 => t.form = "absent"
       PROVE  Shows(Number(table, t), t0)
  BY <1>11, SizeNumber DEF Shows
<1>12. s # "balimoves" => Shows(it.buildingSize, p.size)
  <2>1. s # "balimoves" => q.sizeOf = "size" /\ q.size \in SizeTables
    BY <1>1 DEF ReadersOf
  <2> QED BY <1>2, <1>3, <1>11, <2>1
<1>13. /\ s \notin InAres => Shows(it.landSize, p.land)
       /\ s \in InAres => Shows(it.landSize, [p.land EXCEPT !.n = 100 * @])
  <2>1. q.land \in SizeTables /\ (q.ares <=> s \in InAres)
    BY <1>1 DEF ReadersOf
  <2>2. Shows(Number(q.land, f.land), p.land)
    BY <1>2, <1>11, <2>1
  <2>3. CASE s \notin InAres
    BY <1>3, <2>1, <2>2, <2>3
  <2>4. CASE s \in InAres
    <3>1. p.land.n \in Nat /\ p.land \in [form : DOMAIN parseNumeric, n : Nat]
      BY DEF PageType, SizeText
    <3>2. /\ [p.land EXCEPT !.n = 100 * @].form = p.land.form
          /\ [p.land EXCEPT !.n = 100 * @].n = 100 * p.land.n
      BY <3>1
    <3>3. it.landSize = SquareMetres(Number(q.land, f.land))
      BY <1>3, <2>1, <2>4
    <3>4. SquareMetres(None) = None /\ SquareMetres(p.land.n) = 100 * p.land.n
      BY <3>1 DEF SquareMetres, None
    <3> QED BY <2>2, <2>4, <3>2, <3>3, <3>4 DEF Shows
  <2> QED BY <2>3, <2>4
<1>14. s # "baliexception" => it.bedroomsCount \in {p.beds, None}
  <2>1. s # "baliexception" => q.bedsOf = "beds"
    BY <1>1 DEF ReadersOf
  <2> QED BY <1>2, <1>3, <2>1
<1>15. s \notin PoolMisread => it.pool \in {p.pool, "none"}
  <2>1. s \notin PoolMisread => q.pool \in {"shown", "never"}
    BY <1>1 DEF ReadersOf
  <2> QED BY <1>2, <1>3, <2>1 DEF ReadPool
<1>16. Shows(it.priceIdr, p.idr)
  BY <1>4, <1>7 DEF Shows
<1>17. ASSUME p.usd.form = "plain", it.priceUsd # None, it.priceIdr = None
       PROVE  it.priceUsd = p.usd.n
  <2>1. CASE u = p.usd.n
    BY <1>4, <1>5, <1>8, <1>17, <2>1 DEF Or, Truthy
  <2>2. CASE u = None
    <3>1. q.convert # "text"
      <4>1. Number(parsePrice, p.usd) = p.usd.n
        BY <1>17 DEF Number, parsePrice
      <4> QED BY <1>8, <1>10, <1>17, <2>2, <4>1 DEF None
    <3>2. convertToUsd(i, b) = None
      BY <1>4, <1>17 DEF convertToUsd, Truthy, None, Raw, Wrong
    <3>3. Fallback(q, f, b) = None
      BY <1>9, <1>10, <3>1, <3>2
    <3> QED BY <1>4, <1>17, <2>2, <3>3 DEF Or, Truthy, None, Raw, Wrong
  <2> QED BY <1>8, <1>17, <2>1, <2>2
<1>18. ASSUME p.usd.form = "absent", p.idr.form = "plain", it.priceUsd # None
       PROVE  it.priceUsd = p.idr.n \div b
  <2>1. u = None
    BY <1>8, <1>18
  <2>2. it.priceUsd = Fallback(q, f, b)
    BY <1>4, <2>1 DEF Or, Truthy, None, Raw, Wrong
  <2>3. convertToUsd(p.idr.n, b) = p.idr.n \div b
    BY <1>5, <1>7, <1>18 DEF convertToUsd, Truthy, None, Raw, Wrong
  <2>4. convertToUsd(None, b) = None
    BY DEF convertToUsd, Truthy, None, Raw, Wrong
  <2>5. Number(AsText, p.idr) = p.idr.n
    BY <1>18 DEF Number, AsText, parsePrice
  <2>6. CASE q.convert = "number"
    BY <1>7, <1>9, <1>18, <2>2, <2>3, <2>4, <2>6
  <2>7. CASE q.convert = "text"
    BY <1>9, <2>2, <2>3, <2>5, <2>7
  <2>8. CASE q.convert = "nothing"
    BY <1>9, <1>18, <2>2, <2>8
  <2> QED BY <1>10, <2>6, <2>7, <2>8
<1>19. it.bathroomsCount \in {p.baths, None}
  BY <1>2, <1>3
<1> QED
  BY <1>12, <1>13, <1>14, <1>15, <1>16, <1>17, <1>18, <1>19 DEF it

\* What a page says in plain digits is stored under its own name, the listed
\* misreadings apart (parseItem, convertToUsd).
THEOREM RightFigures == Spec => []FiguresReadRight
<1>1. ListingInv => FiguresReadRight
  <2> SUFFICES ASSUME ListingInv, AsCrawled PROVE FiguresReadRight
    BY DEF FiguresReadRight
  <2> QED BY CrawledRow, FiguresRead DEF FiguresReadRight
<1> QED BY <1>1, ListingInvariant, PTL

-----------------------------------------------------------------------------
(* Adverts in the style of their source.  First why every service suits the *)
(* style of its pages, then what it makes of each part of such a page.     *)

Unread == {"dotproperty", "harcourtspurbabali", "rumah", "anniedeanproperties"}

\* The tenure is found where the style has it.
TenureSuits(s, q, st) ==
  /\ \/ q.tenure \in {"verbatim", "lowered", "forSale", "leaseSpan"} /\ st.tenure = "bare"
     \/ q.tenure = "leaseOrElse" /\ st.tenure = "later" /\ s = "fazwaz"
     \/ q.tenure \in {"title", "firstWord", "leaseholdOrElse"} /\ st.tenure = "first"
     \/ /\ q.tenure \in {"LeaseholdOrElse", "FreeholdOrElse", "twoChars"}
        /\ st.tenure = "first" /\ st.capital
     \/ /\ q.tenure \in {"leaseholdOrElse", "lastPart", "freeholdLater", "certificate"}
        /\ st.tenure = "later"
  /\ q.tenure = "verbatim" /\ st.capital => s = "anniedeanproperties"
  /\ q.tenure = "leaseSpan" => s = "balitreasureproperties"
  /\ s = "anniedeanproperties" => q.tenure = "verbatim" /\ st.capital

\* The lease's end is read, but for the four services that read none, and a text
\* instead of a lease is none.
LeaseSuits(s, q, st) ==
  /\ \/ /\ q.lease \in {"digits", "digitsIfShown", "fourThenTwo", "firstNumber",
                        "beforeWord"}
        /\ st.lease = "years"
     \/ q.lease \in {"leading", "twoChars"} /\ st.lease = "years" /\ ~st.lead
     \/ q.lease \in {"sentence", "sentenceOrUntil"} /\ st.lease = "years" /\ st.lead
     \/ q.lease \in {"lastWord", "four", "asYear"} /\ st.lease = "until"
     \/ q.lease = "none" /\ s \in Unread
  /\ s \in Unread => q.lease = "none"
  /\ q.lease = "lastWord" => st.lead
  /\ q.lease = "twoChars" => q.onlyLeasehold
  /\ \/ FreeholdLease(s) = "absent"
     \/ FreeholdLease(s) = "words" /\ q.lease \in {"digits", "leading"}

\* A price that the service looks for is read exactly, and an absent one is none.
PricesSuit(s, q, st) ==
  /\ q.idr[st.prices] \in {None, Exact} /\ q.usd[st.prices] \in {None, Exact}
  /\ q.usd["absent"] = None
  /\ q.usd[st.prices] # None => q.idr["absent"] = None
  /\ \/ q.convert = "number"
     \/ q.convert = "nothing" /\ s = "balirealty"
     \/ q.convert = "text" /\ q.both
  /\ st.prices # "absent"

\* Nothing that makes parseItem throw is absent from a complete advert.
NeedsSuit(s, q, st) ==
  /\ q.needs \subseteq {"location", "tenure", "lease", "leaseBeside", "price", "prices",
                        "size", "land", "rooms"}
  /\ "lease" \in q.needs \/ "leaseBeside" \in q.needs
       => FreeholdLease(s) = "words" /\ st.lease = "years"
  /\ "prices" \in q.needs => q.both
  /\ q.keyed => st.tenure = "bare"

Suits(s, q, st) == /\ TenureSuits(s, q, st) /\ LeaseSuits(s, q, st)
                   /\ PricesSuit(s, q, st) /\ NeedsSuit(s, q, st)

\* What the tables of the prices make of the forms that the styles have.
LEMMA ReadPrices ==
  /\ \A f \in {"plain", "figure", "absent"} :
       parsePrice[f] = (IF f = "absent" THEN None ELSE Exact)
  /\ \A f \in {"figure", "absent"} : Labelled[f] = (IF f = "absent" THEN None ELSE Exact)
  /\ \A f \in {"billion", "absent"} :
       /\ Billions[f] = (IF f = "absent" THEN None ELSE Exact)
       /\ Units[f] = (IF f = "absent" THEN None ELSE Exact)
  /\ \A f \in {"plain", "absent"} : AsText[f] = (IF f = "absent" THEN None ELSE Exact)
  /\ CommasOnly["figure"] = Exact
  /\ \A f \in {"plain", "figure", "billion", "absent"} : NoPrice[f] = None
  BY DEF parsePrice, Labelled, Billions, Units, CommasOnly, AsText, NoPrice

\* Every service suits the style of its pages.
LEMMA ServiceStyles ==
  ASSUME NEW s \in DOMAIN ServiceItem
  PROVE  Suits(s, ServiceItem[s], Style(s))
<1> USE DEF Unread, FreeholdLease, Written
<1>1. s \in {"balihomeimmo", "baliexception", "balivillasales", "balirealty", "balimoves",
            "excelbali", "ppbali", "harcourtspurbabali", "dotproperty", "propertiabali",
            "balitreasureproperties", "fazwaz", "unikbalivilla", "rajavillaproperty",
            "lazudi", "balicoconutliving", "rumah", "anniedeanproperties",
            "exotiqproperty", "optimumbali", "villabalisale", "suasarealestate",
            "powerbali"}
  BY DEF ServiceItem
<1>2. CASE s = "balihomeimmo"
  <2>1. /\ Style(s) = Written("bare", FALSE, "years", FALSE, "figure")
        /\ ServiceItem[s] = BalihomeimmoItem
    BY <1>2 DEF Style, ServiceItem
  <2>2. LET q == ServiceItem[s]
        IN /\ q.tenure = "verbatim" /\ q.lease = "digits"
           /\ q.onlyLeasehold = FALSE /\ q.idr = parsePrice /\ q.usd = parsePrice
           /\ q.convert = "number" /\ q.both = TRUE /\ q.keyed = TRUE
           /\ q.needs = {"location", "tenure", "prices"}
    BY <2>1 DEF BalihomeimmoItem, Item
  <2>3. TenureSuits(s, ServiceItem[s], Style(s)) /\ LeaseSuits(s, ServiceItem[s], Style(s))
    BY <1>2, <2>1, <2>2 DEF TenureSuits, LeaseSuits
  <2>4. PricesSuit(s, ServiceItem[s], Style(s)) /\ NeedsSuit(s, ServiceItem[s], Style(s))
    BY <1>2, <2>1, <2>2, ReadPrices DEF PricesSuit, NeedsSuit
  <2> QED
    BY <2>3, <2>4 DEF Suits
<1>3. CASE s = "baliexception"
  <2>1. /\ Style(s) = Written("bare", FALSE, "years", FALSE, "figure")
        /\ ServiceItem[s] = BaliexceptionItem
    BY <1>3 DEF Style, ServiceItem
  <2>2. LET q == ServiceItem[s]
        IN /\ q.tenure = "lowered" /\ q.lease = "leading"
           /\ q.onlyLeasehold = FALSE /\ q.idr = NoPrice /\ q.usd = parsePrice
           /\ q.convert = "number" /\ q.both = FALSE /\ q.keyed = FALSE
           /\ q.needs = {"rooms"}
    BY <2>1 DEF BaliexceptionItem, Item
  <2>3. TenureSuits(s, ServiceItem[s], Style(s)) /\ LeaseSuits(s, ServiceItem[s], Style(s))
    BY <1>3, <2>1, <2>2 DEF TenureSuits, LeaseSuits
  <2>4. PricesSuit(s, ServiceItem[s], Style(s)) /\ NeedsSuit(s, ServiceItem[s], Style(s))
    BY <1>3, <2>1, <2>2, ReadPrices DEF PricesSuit, NeedsSuit
  <2> QED
    BY <2>3, <2>4 DEF Suits
<1>4. CASE s = "balivillasales"
  <2>1. /\ Style(s) = Written("bare", FALSE, "years", FALSE, "figure")
        /\ ServiceItem[s] = BalivillasalesItem
    BY <1>4 DEF Style, ServiceItem
  <2>2. LET q == ServiceItem[s]
        IN /\ q.tenure = "lowered" /\ q.lease = "leading"
           /\ q.onlyLeasehold = FALSE /\ q.idr = Labelled /\ q.usd = Labelled
           /\ q.convert = "number" /\ q.both = FALSE /\ q.keyed = FALSE
           /\ q.needs = {"location", "price"}
    BY <2>1 DEF BalivillasalesItem, Item
  <2>3. TenureSuits(s, ServiceItem[s], Style(s)) /\ LeaseSuits(s, ServiceItem[s], Style(s))
    BY <1>4, <2>1, <2>2 DEF TenureSuits, LeaseSuits
  <2>4. PricesSuit(s, ServiceItem[s], Style(s)) /\ NeedsSuit(s, ServiceItem[s], Style(s))
    BY <1>4, <2>1, <2>2, ReadPrices DEF PricesSuit, NeedsSuit
  <2> QED
    BY <2>3, <2>4 DEF Suits
<1>5. CASE s = "balirealty"
  <2>1. /\ Style(s) = Written("first", TRUE, "years", FALSE, "figure")
        /\ ServiceItem[s] = BalirealtyItem
    BY <1>5 DEF Style, ServiceItem
  <2>2. LET q == ServiceItem[s]
        IN /\ q.tenure = "FreeholdOrElse" /\ q.lease = "firstNumber"
           /\ q.onlyLeasehold = TRUE /\ q.idr = parsePrice /\ q.usd = parsePrice
           /\ q.convert = "nothing" /\ q.both = FALSE /\ q.keyed = FALSE
           /\ q.needs = {"tenure"}
    BY <2>1 DEF BalirealtyItem, Item
  <2>3. TenureSuits(s, ServiceItem[s], Style(s)) /\ LeaseSuits(s, ServiceItem[s], Style(s))
    BY <1>5, <2>1, <2>2 DEF TenureSuits, LeaseSuits
  <2>4. PricesSuit(s, ServiceItem[s], Style(s)) /\ NeedsSuit(s, ServiceItem[s], Style(s))
    BY <1>5, <2>1, <2>2, ReadPrices DEF PricesSuit, NeedsSuit
  <2> QED
    BY <2>3, <2>4 DEF Suits
<1>6. CASE s = "balimoves"
  <2>1. /\ Style(s) = Written("first", TRUE, "until", TRUE, "figure")
        /\ ServiceItem[s] = BalimovesItem
    BY <1>6 DEF Style, ServiceItem
  <2>2. LET q == ServiceItem[s]
        IN /\ q.tenure = "leaseholdOrElse" /\ q.lease = "lastWord"
           /\ q.onlyLeasehold = FALSE /\ q.idr = Labelled /\ q.usd = Labelled
           /\ q.convert = "number" /\ q.both = FALSE /\ q.keyed = FALSE
           /\ q.needs = {"location", "tenure", "price", "size", "land"}
    BY <2>1 DEF BalimovesItem, Item
  <2>3. TenureSuits(s, ServiceItem[s], Style(s)) /\ LeaseSuits(s, ServiceItem[s], Style(s))
    BY <1>6, <2>1, <2>2 DEF TenureSuits, LeaseSuits
  <2>4. PricesSuit(s, ServiceItem[s], Style(s)) /\ NeedsSuit(s, ServiceItem[s], Style(s))
    BY <1>6, <2>1, <2>2, ReadPrices DEF PricesSuit, NeedsSuit
  <2> QED
    BY <2>3, <2>4 DEF Suits
<1>7. CASE s = "excelbali"
  <2>1. /\ Style(s) = Written("first", TRUE, "years", FALSE, "figure")
        /\ ServiceItem[s] = ExcelbaliItem
    BY <1>7 DEF Style, ServiceItem
  <2>2. LET q == ServiceItem[s]
        IN /\ q.tenure = "firstWord" /\ q.lease = "fourThenTwo"
           /\ q.onlyLeasehold = TRUE /\ q.idr = Labelled /\ q.usd = Labelled
           /\ q.convert = "number" /\ q.both = FALSE /\ q.keyed = FALSE
           /\ q.needs = {"location", "price"}
    BY <2>1 DEF ExcelbaliItem, Item
  <2>3. TenureSuits(s, ServiceItem[s], Style(s)) /\ LeaseSuits(s, ServiceItem[s], Style(s))
    BY <1>7, <2>1, <2>2 DEF TenureSuits, LeaseSuits
  <2>4. PricesSuit(s, ServiceItem[s], Style(s)) /\ NeedsSuit(s, ServiceItem[s], Style(s))
    BY <1>7, <2>1, <2>2, ReadPrices DEF PricesSuit, NeedsSuit
  <2> QED
    BY <2>3, <2>4 DEF Suits
<1>8. CASE s = "ppbali"
  <2>1. /\ Style(s) = Written("later", TRUE, "years", FALSE, "figure")
        /\ ServiceItem[s] = PpbaliItem
    BY <1>8 DEF Style, ServiceItem
  <2>2. LET q == ServiceItem[s]
        IN /\ q.tenure = "freeholdLater" /\ q.lease = "fourThenTwo"
           /\ q.onlyLeasehold = TRUE /\ q.idr = parsePrice /\ q.usd = parsePrice
           /\ q.convert = "number" /\ q.both = TRUE /\ q.keyed = FALSE
           /\ q.needs = {"location"}
    BY <2>1 DEF PpbaliItem, Item
  <2>3. TenureSuits(s, ServiceItem[s], Style(s)) /\ LeaseSuits(s, ServiceItem[s], Style(s))
    BY <1>8, <2>1, <2>2 DEF TenureSuits, LeaseSuits
  <2>4. PricesSuit(s, ServiceItem[s], Style(s)) /\ NeedsSuit(s, ServiceItem[s], Style(s))
    BY <1>8, <2>1, <2>2, ReadPrices DEF PricesSuit, NeedsSuit
  <2> QED
    BY <2>3, <2>4 DEF Suits
<1>9. CASE s = "harcourtspurbabali"
  <2>1. /\ Style(s) = Written("bare", FALSE, "years", FALSE, "figure")
        /\ ServiceItem[s] = HarcourtspurbabaliItem
    BY <1>9 DEF Style, ServiceItem
  <2>2. LET q == ServiceItem[s]
        IN /\ q.tenure = "lowered" /\ q.lease = "none"
           /\ q.onlyLeasehold = FALSE /\ q.idr = Labelled /\ q.usd = NoPrice
           /\ q.convert = "number" /\ q.both = FALSE /\ q.keyed = FALSE
           /\ q.needs = {"location"}
    BY <2>1 DEF HarcourtspurbabaliItem, Item
  <2>3. TenureSuits(s, ServiceItem[s], Style(s)) /\ LeaseSuits(s, ServiceItem[s], Style(s))
    BY <1>9, <2>1, <2>2 DEF TenureSuits, LeaseSuits
  <2>4. PricesSuit(s, ServiceItem[s], Style(s)) /\ NeedsSuit(s, ServiceItem[s], Style(s))
    BY <1>9, <2>1, <2>2, ReadPrices DEF PricesSuit, NeedsSuit
  <2> QED
    BY <2>3, <2>4 DEF Suits
<1>10. CASE s = "dotproperty"
  <2>1. /\ Style(s) = Written("first", TRUE, "years", TRUE, "billion")
        /\ ServiceItem[s] = DotpropertyItem
    BY <1>10 DEF Style, ServiceItem
  <2>2. LET q == ServiceItem[s]
        IN /\ q.tenure = "title" /\ q.lease = "none"
           /\ q.onlyLeasehold = FALSE /\ q.idr = Billions /\ q.usd = NoPrice
           /\ q.convert = "number" /\ q.both = FALSE /\ q.keyed = FALSE
           /\ q.needs = {"location", "price"}
    BY <2>1 DEF DotpropertyItem, Item
  <2>3. TenureSuits(s, ServiceItem[s], Style(s)) /\ LeaseSuits(s, ServiceItem[s], Style(s))
    BY <1>10, <2>1, <2>2 DEF TenureSuits, LeaseSuits
  <2>4. PricesSuit(s, ServiceItem[s], Style(s)) /\ NeedsSuit(s, ServiceItem[s], Style(s))
    BY <1>10, <2>1, <2>2, ReadPrices DEF PricesSuit, NeedsSuit
  <2> QED
    BY <2>3, <2>4 DEF Suits
<1>11. CASE s = "propertiabali"
  <2>1. /\ Style(s) = Written("first", TRUE, "years", FALSE, "figure")
        /\ ServiceItem[s] = PropertiabaliItem
    BY <1>11 DEF Style, ServiceItem
  <2>2. LET q == ServiceItem[s]
        IN /\ q.tenure = "leaseholdOrElse" /\ q.lease = "leading"
           /\ q.onlyLeasehold = FALSE /\ q.idr = Labelled /\ q.usd = NoPrice
           /\ q.convert = "number" /\ q.both = FALSE /\ q.keyed = FALSE
           /\ q.needs = {"location", "tenure"}
    BY <2>1 DEF PropertiabaliItem, Item
  <2>3. TenureSuits(s, ServiceItem[s], Style(s)) /\ LeaseSuits(s, ServiceItem[s], Style(s))
    BY <1>11, <2>1, <2>2 DEF TenureSuits, LeaseSuits
  <2>4. PricesSuit(s, ServiceItem[s], Style(s)) /\ NeedsSuit(s, ServiceItem[s], Style(s))
    BY <1>11, <2>1, <2>2, ReadPrices DEF PricesSuit, NeedsSuit
  <2> QED
    BY <2>3, <2>4 DEF Suits
<1>12. CASE s = "balitreasureproperties"
  <2>1. /\ Style(s) = Written("bare", FALSE, "years", FALSE, "figure")
        /\ ServiceItem[s] = BalitreasurepropertiesItem
    BY <1>12 DEF Style, ServiceItem
  <2>2. LET q == ServiceItem[s]
        IN /\ q.tenure = "leaseSpan" /\ q.lease = "beforeWord"
           /\ q.onlyLeasehold = FALSE /\ q.idr = parsePrice /\ q.usd = NoPrice
           /\ q.convert = "number" /\ q.both = FALSE /\ q.keyed = FALSE
           /\ q.needs = {"location", "tenure", "land"}
    BY <2>1 DEF BalitreasurepropertiesItem, Item
  <2>3. TenureSuits(s, ServiceItem[s], Style(s)) /\ LeaseSuits(s, ServiceItem[s], Style(s))
    BY <1>12, <2>1, <2>2 DEF TenureSuits, LeaseSuits
  <2>4. PricesSuit(s, ServiceItem[s], Style(s)) /\ NeedsSuit(s, ServiceItem[s], Style(s))
    BY <1>12, <2>1, <2>2, ReadPrices DEF PricesSuit, NeedsSuit
  <2> QED
    BY <2>3, <2>4 DEF Suits
<1>13. CASE s = "fazwaz"
  <2>1. /\ Style(s) = Written("later", FALSE, "years", TRUE, "figure")
        /\ ServiceItem[s] = FazwazItem
    BY <1>13 DEF Style, ServiceItem
  <2>2. LET q == ServiceItem[s]
        IN /\ q.tenure = "leaseOrElse" /\ q.lease = "sentence"
           /\ q.onlyLeasehold = FALSE /\ q.idr = CommasOnly /\ q.usd = NoPrice
           /\ q.convert = "number" /\ q.both = FALSE /\ q.keyed = FALSE
           /\ q.needs = {"location", "price"}
    BY <2>1 DEF FazwazItem, Item
  <2>3. TenureSuits(s, ServiceItem[s], Style(s)) /\ LeaseSuits(s, ServiceItem[s], Style(s))
    BY <1>13, <2>1, <2>2 DEF TenureSuits, LeaseSuits
  <2>4. PricesSuit(s, ServiceItem[s], Style(s)) /\ NeedsSuit(s, ServiceItem[s], Style(s))
    BY <1>13, <2>1, <2>2, ReadPrices DEF PricesSuit, NeedsSuit
  <2> QED
    BY <2>3, <2>4 DEF Suits
<1>14. CASE s = "unikbalivilla"
  <2>1. /\ Style(s) = Written("first", TRUE, "years", FALSE, "plain")
        /\ ServiceItem[s] = UnikbalivillaItem
    BY <1>14 DEF Style, ServiceItem
  <2>2. LET q == ServiceItem[s]
        IN /\ q.tenure = "LeaseholdOrElse" /\ q.lease = "digits"
           /\ q.onlyLeasehold = TRUE /\ q.idr = NoPrice /\ q.usd = AsText
           /\ q.convert = "number" /\ q.both = FALSE /\ q.keyed = FALSE
           /\ q.needs = {}
    BY <2>1 DEF UnikbalivillaItem, Item
  <2>3. TenureSuits(s, ServiceItem[s], Style(s)) /\ LeaseSuits(s, ServiceItem[s], Style(s))
    BY <1>14, <2>1, <2>2 DEF TenureSuits, LeaseSuits
  <2>4. PricesSuit(s, ServiceItem[s], Style(s)) /\ NeedsSuit(s, ServiceItem[s], Style(s))
    BY <1>14, <2>1, <2>2, ReadPrices DEF PricesSuit, NeedsSuit
  <2> QED
    BY <2>3, <2>4 DEF Suits
<1>15. CASE s = "rajavillaproperty"
  <2>1. /\ Style(s) = Written("later", TRUE, "years", FALSE, "figure")
        /\ ServiceItem[s] = RajavillapropertyItem
    BY <1>15 DEF Style, ServiceItem
  <2>2. LET q == ServiceItem[s]
        IN /\ q.tenure = "lastPart" /\ q.lease = "digitsIfShown"
           /\ q.onlyLeasehold = FALSE /\ q.idr = NoPrice /\ q.usd = Labelled
           /\ q.convert = "number" /\ q.both = FALSE /\ q.keyed = FALSE
           /\ q.needs = {"location"}
    BY <2>1 DEF RajavillapropertyItem, Item
  <2>3. TenureSuits(s, ServiceItem[s], Style(s)) /\ LeaseSuits(s, ServiceItem[s], Style(s))
    BY <1>15, <2>1, <2>2 DEF TenureSuits, LeaseSuits
  <2>4. PricesSuit(s, ServiceItem[s], Style(s)) /\ NeedsSuit(s, ServiceItem[s], Style(s))
    BY <1>15, <2>1, <2>2, ReadPrices DEF PricesSuit, NeedsSuit
  <2> QED
    BY <2>3, <2>4 DEF Suits
<1>16. CASE s = "lazudi"
  <2>1. /\ Style(s) = Written("first", TRUE, "years", TRUE, "figure")
        /\ ServiceItem[s] = LazudiItem
    BY <1>16 DEF Style, ServiceItem
  <2>2. LET q == ServiceItem[s]
        IN /\ q.tenure = "FreeholdOrElse" /\ q.lease = "sentence"
           /\ q.onlyLeasehold = TRUE /\ q.idr = parsePrice /\ q.usd = NoPrice
           /\ q.convert = "number" /\ q.both = FALSE /\ q.keyed = FALSE
           /\ q.needs = {"location", "tenure"}
    BY <2>1 DEF LazudiItem, Item
  <2>3. TenureSuits(s, ServiceItem[s], Style(s)) /\ LeaseSuits(s, ServiceItem[s], Style(s))
    BY <1>16, <2>1, <2>2 DEF TenureSuits, LeaseSuits
  <2>4. PricesSuit(s, ServiceItem[s], Style(s)) /\ NeedsSuit(s, ServiceItem[s], Style(s))
    BY <1>16, <2>1, <2>2, ReadPrices DEF PricesSuit, NeedsSuit
  <2> QED
    BY <2>3, <2>4 DEF Suits
<1>17. CASE s = "balicoconutliving"
  <2>1. /\ Style(s) = Written("bare", TRUE, "years", TRUE, "figure")
        /\ ServiceItem[s] = BalicoconutlivingItem
    BY <1>17 DEF Style, ServiceItem
  <2>2. LET q == ServiceItem[s]
        IN /\ q.tenure = "lowered" /\ q.lease = "sentenceOrUntil"
           /\ q.onlyLeasehold = FALSE /\ q.idr = parsePrice /\ q.usd = NoPrice
           /\ q.convert = "number" /\ q.both = FALSE /\ q.keyed = FALSE
           /\ q.needs = {"location", "tenure"}
    BY <2>1 DEF BalicoconutlivingItem, Item
  <2>3. TenureSuits(s, ServiceItem[s], Style(s)) /\ LeaseSuits(s, ServiceItem[s], Style(s))
    BY <1>17, <2>1, <2>2 DEF TenureSuits, LeaseSuits
  <2>4. PricesSuit(s, ServiceItem[s], Style(s)) /\ NeedsSuit(s, ServiceItem[s], Style(s))
    BY <1>17, <2>1, <2>2, ReadPrices DEF PricesSuit, NeedsSuit
  <2> QED
    BY <2>3, <2>4 DEF Suits
<1>18. CASE s = "rumah"
  <2>1. /\ Style(s) = Written("later", TRUE, "years", FALSE, "billion")
        /\ ServiceItem[s] = RumahItem
    BY <1>18 DEF Style, ServiceItem
  <2>2. LET q == ServiceItem[s]
        IN /\ q.tenure = "certificate" /\ q.lease = "none"
           /\ q.onlyLeasehold = FALSE /\ q.idr = Units /\ q.usd = NoPrice
           /\ q.convert = "number" /\ q.both = FALSE /\ q.keyed = FALSE
           /\ q.needs = {"location", "price"}
    BY <2>1 DEF RumahItem, Item
  <2>3. TenureSuits(s, ServiceItem[s], Style(s)) /\ LeaseSuits(s, ServiceItem[s], Style(s))
    BY <1>18, <2>1, <2>2 DEF TenureSuits, LeaseSuits
  <2>4. PricesSuit(s, ServiceItem[s], Style(s)) /\ NeedsSuit(s, ServiceItem[s], Style(s))
    BY <1>18, <2>1, <2>2, ReadPrices DEF PricesSuit, NeedsSuit
  <2> QED
    BY <2>3, <2>4 DEF Suits
<1>19. CASE s = "anniedeanproperties"
  <2>1. /\ Style(s) = Written("bare", TRUE, "absent", FALSE, "figure")
        /\ ServiceItem[s] = AnniedeanpropertiesItem
    BY <1>19 DEF Style, ServiceItem
  <2>2. LET q == ServiceItem[s]
        IN /\ q.tenure = "verbatim" /\ q.lease = "none"
           /\ q.onlyLeasehold = FALSE /\ q.idr = parsePrice /\ q.usd = parsePrice
           /\ q.convert = "text" /\ q.both = TRUE /\ q.keyed = FALSE
           /\ q.needs = {"location", "price", "size", "land"}
    BY <2>1 DEF AnniedeanpropertiesItem, Item
  <2>3. TenureSuits(s, ServiceItem[s], Style(s)) /\ LeaseSuits(s, ServiceItem[s], Style(s))
    BY <1>19, <2>1, <2>2 DEF TenureSuits, LeaseSuits
  <2>4. PricesSuit(s, ServiceItem[s], Style(s)) /\ NeedsSuit(s, ServiceItem[s], Style(s))
    BY <1>19, <2>1, <2>2, ReadPrices DEF PricesSuit, NeedsSuit
  <2> QED
    BY <2>3, <2>4 DEF Suits
<1>20. CASE s = "exotiqproperty"
  <2>1. /\ Style(s) = Written("bare", FALSE, "years", FALSE, "figure")
        /\ ServiceItem[s] = ExotiqpropertyItem
    BY <1>20 DEF Style, ServiceItem
  <2>2. LET q == ServiceItem[s]
        IN /\ q.tenure = "forSale" /\ q.lease = "digits"
           /\ q.onlyLeasehold = FALSE /\ q.idr = parsePrice /\ q.usd = NoPrice
           /\ q.convert = "number" /\ q.both = FALSE /\ q.keyed = FALSE
           /\ q.needs = {"location", "lease", "price"}
    BY <2>1 DEF ExotiqpropertyItem, Item
  <2>3. TenureSuits(s, ServiceItem[s], Style(s)) /\ LeaseSuits(s, ServiceItem[s], Style(s))
    BY <1>20, <2>1, <2>2 DEF TenureSuits, LeaseSuits
  <2>4. PricesSuit(s, ServiceItem[s], Style(s)) /\ NeedsSuit(s, ServiceItem[s], Style(s))
    BY <1>20, <2>1, <2>2, ReadPrices DEF PricesSuit, NeedsSuit
  <2> QED
    BY <2>3, <2>4 DEF Suits
<1>21. CASE s = "optimumbali"
  <2>1. /\ Style(s) = Written("first", TRUE, "years", FALSE, "figure")
        /\ ServiceItem[s] = OptimumbaliItem
    BY <1>21 DEF Style, ServiceItem
  <2>2. LET q == ServiceItem[s]
        IN /\ q.tenure = "twoChars" /\ q.lease = "twoChars"
           /\ q.onlyLeasehold = TRUE /\ q.idr = Labelled /\ q.usd = Labelled
           /\ q.convert = "number" /\ q.both = FALSE /\ q.keyed = FALSE
           /\ q.needs = {"location", "tenure", "price", "size", "land"}
    BY <2>1 DEF OptimumbaliItem, Item
  <2>3. TenureSuits(s, ServiceItem[s], Style(s)) /\ LeaseSuits(s, ServiceItem[s], Style(s))
    BY <1>21, <2>1, <2>2 DEF TenureSuits, LeaseSuits
  <2>4. PricesSuit(s, ServiceItem[s], Style(s)) /\ NeedsSuit(s, ServiceItem[s], Style(s))
    BY <1>21, <2>1, <2>2, ReadPrices DEF PricesSuit, NeedsSuit
  <2> QED
    BY <2>3, <2>4 DEF Suits
<1>22. CASE s = "villabalisale"
  <2>1. /\ Style(s) = Written("bare", FALSE, "years", FALSE, "figure")
        /\ ServiceItem[s] = VillabalisaleItem
    BY <1>22 DEF Style, ServiceItem
  <2>2. LET q == ServiceItem[s]
        IN /\ q.tenure = "verbatim" /\ q.lease = "leading"
           /\ q.onlyLeasehold = FALSE /\ q.idr = NoPrice /\ q.usd = Labelled
           /\ q.convert = "number" /\ q.both = FALSE /\ q.keyed = FALSE
           /\ q.needs = {"location", "price", "leaseBeside"}
    BY <2>1 DEF VillabalisaleItem, Item
  <2>3. TenureSuits(s, ServiceItem[s], Style(s)) /\ LeaseSuits(s, ServiceItem[s], Style(s))
    BY <1>22, <2>1, <2>2 DEF TenureSuits, LeaseSuits
  <2>4. PricesSuit(s, ServiceItem[s], Style(s)) /\ NeedsSuit(s, ServiceItem[s], Style(s))
    BY <1>22, <2>1, <2>2, ReadPrices DEF PricesSuit, NeedsSuit
  <2> QED
    BY <2>3, <2>4 DEF Suits
<1>23. CASE s = "suasarealestate"
  <2>1. /\ Style(s) = Written("bare", TRUE, "until", FALSE, "figure")
        /\ ServiceItem[s] = SuasarealestateItem
    BY <1>23 DEF Style, ServiceItem
  <2>2. LET q == ServiceItem[s]
        IN /\ q.tenure = "lowered" /\ q.lease = "asYear"
           /\ q.onlyLeasehold = FALSE /\ q.idr = Labelled /\ q.usd = Labelled
           /\ q.convert = "number" /\ q.both = FALSE /\ q.keyed = FALSE
           /\ q.needs = {"tenure", "size", "land"}
    BY <2>1 DEF SuasarealestateItem, Item
  <2>3. TenureSuits(s, ServiceItem[s], Style(s)) /\ LeaseSuits(s, ServiceItem[s], Style(s))
    BY <1>23, <2>1, <2>2 DEF TenureSuits, LeaseSuits
  <2>4. PricesSuit(s, ServiceItem[s], Style(s)) /\ NeedsSuit(s, ServiceItem[s], Style(s))
    BY <1>23, <2>1, <2>2, ReadPrices DEF PricesSuit, NeedsSuit
  <2> QED
    BY <2>3, <2>4 DEF Suits
<1>24. CASE s = "powerbali"
  <2>1. /\ Style(s) = Written("first", TRUE, "until", TRUE, "figure")
        /\ ServiceItem[s] = PowerbaliItem
    BY <1>24 DEF Style, ServiceItem
  <2>2. LET q == ServiceItem[s]
        IN /\ q.tenure = "firstWord" /\ q.lease = "four"
           /\ q.onlyLeasehold = FALSE /\ q.idr = Labelled /\ q.usd = Labelled
           /\ q.convert = "number" /\ q.both = FALSE /\ q.keyed = FALSE
           /\ q.needs = {"location", "price"}
    BY <2>1 DEF PowerbaliItem, Item
  <2>3. TenureSuits(s, ServiceItem[s], Style(s)) /\ LeaseSuits(s, ServiceItem[s], Style(s))
    BY <1>24, <2>1, <2>2 DEF TenureSuits, LeaseSuits
  <2>4. PricesSuit(s, ServiceItem[s], Style(s)) /\ NeedsSuit(s, ServiceItem[s], Style(s))
    BY <1>24, <2>1, <2>2, ReadPrices DEF PricesSuit, NeedsSuit
  <2> QED
    BY <2>3, <2>4 DEF Suits
<1> QED
  BY <1>1, <1>2, <1>3, <1>4, <1>5, <1>6, <1>7, <1>8, <1>9, <1>10,
     <1>11, <1>12, <1>13, <1>14, <1>15, <1>16, <1>17, <1>18, <1>19, <1>20, <1>21, <1>22,
     <1>23, <1>24

\* The tenure is what the text says; one service keeps its capital.
LEMMA StyledTenure ==
  ASSUME NEW s \in DOMAIN ServiceItem, NEW p \in PageType, InStyle(s, p),
         ~NeverListed(s, p)
  PROVE  ReadTenure(ServiceItem[s].tenure, p.tenure) =
           IF s = "anniedeanproperties" THEN Capital(p.tenure.word) ELSE p.tenure.word
<1> DEFINE how == ServiceItem[s].tenure
           t   == p.tenure
<1>1. TenureSuits(s, ServiceItem[s], Style(s))
  BY ServiceStyles DEF Suits
<1>2. /\ t.form = Style(s).tenure /\ t.capital = Style(s).capital
      /\ t.word \in {"freehold", "leasehold"} /\ t.capital \in BOOLEAN
  BY DEF InStyle, PageType, TenureText, Tenures
<1>3. s = "balitreasureproperties" => t.word = "leasehold"
  BY <1>2 DEF NeverListed
<1> SUFFICES ReadTenure(how, t) =
               IF s = "anniedeanproperties" THEN Capital(t.word) ELSE t.word
  OBVIOUS
<1> HIDE DEF how, t
<1>4. CASE t.form = "bare" /\ how \in {"verbatim", "lowered", "forSale", "leaseSpan"}
  <2>1. Text(t, t.word) = t.word /\ Text(t, Capital(t.word)) = Capital(t.word)
    BY <1>4 DEF Text
  <2>2. /\ how = "verbatim" /\ t.capital => s = "anniedeanproperties"
        /\ how = "leaseSpan" => s = "balitreasureproperties"
        /\ s = "anniedeanproperties" => how = "verbatim" /\ t.capital
    BY <1>1, <1>2 DEF TenureSuits, how
  <2>3. CASE how = "verbatim"
    <3>1. ReadTenure(how, t) = Text(t, IF t.capital THEN Capital(t.word) ELSE t.word)
      BY <2>3, TenureReader
    <3> QED BY <2>1, <2>2, <2>3, <3>1
  <2>4. CASE how = "lowered"
    <3>1. ReadTenure(how, t) = t.word
      BY <2>1, <2>4, TenureReader
    <3> QED BY <2>2, <2>4, <3>1
  <2>5. CASE how = "forSale"
    <3>1. ReadTenure(how, t) = t.word
      BY <1>2, <1>4, <2>5, TenureReader
    <3> QED BY <2>2, <2>5, <3>1
  <2>6. CASE how = "leaseSpan"
    <3>1. ReadTenure(how, t) = t.word
      BY <1>3, <2>2, <2>6, TenureReader
    <3> QED BY <2>2, <2>6, <3>1
  <2> QED BY <1>4, <2>3, <2>4, <2>5, <2>6
<1>5. CASE /\ t.form = "first"
           /\ \/ how \in {"title", "firstWord", "leaseholdOrElse"}
              \/ how \in {"LeaseholdOrElse", "FreeholdOrElse", "twoChars"} /\ t.capital
  <2>1. /\ Starts(t)
        /\ Has(t, "leasehold") <=> t.word = "leasehold"
        /\ Has(t, "freehold") <=> t.word = "freehold"
    BY <1>5 DEF Starts, Has
  <2>2. s # "anniedeanproperties"
    BY <1>1, <1>5 DEF TenureSuits, how
  <2>3. CASE how = "title"
    <3>1. ReadTenure(how, t) = t.word
      BY <1>2, <2>1, <2>3 DEF ReadTenure
    <3> QED BY <2>2, <3>1
  <2>4. CASE how = "firstWord"
    <3>1. ReadTenure(how, t) = t.word
      BY <2>1, <2>4, TenureReader
    <3> QED BY <2>2, <3>1
  <2>5. CASE how \in {"leaseholdOrElse", "LeaseholdOrElse"}
    <3>1. ReadTenure(how, t) = t.word
      BY <1>2, <1>5, <2>1, <2>5, TenureReader
    <3> QED BY <2>2, <3>1
  <2>6. CASE how \in {"FreeholdOrElse", "twoChars"}
    <3>1. ReadTenure(how, t) = t.word
      BY <1>2, <1>5, <2>1, <2>6, TenureReader
    <3> QED BY <2>2, <3>1
  <2> QED BY <1>5, <2>3, <2>4, <2>5, <2>6
<1>6. CASE /\ t.form = "later"
           /\ how \in {"leaseholdOrElse", "lastPart", "freeholdLater", "certificate"}
  <2>1. /\ Has(t, "leasehold") <=> t.word = "leasehold"
        /\ HasLater(t, "leasehold") <=> t.word = "leasehold"
        /\ HasLater(t, "freehold") <=> t.word = "freehold"
    BY <1>6 DEF HasLater, Has
  <2>2. s # "anniedeanproperties"
    BY <1>1, <1>6 DEF TenureSuits, how
  <2>3. CASE how = "certificate"
    <3>1. CASE t.word = "leasehold" BY <2>1, <2>2, <2>3, <3>1 DEF ReadTenure
    <3>2. CASE t.word = "freehold"  BY <2>1, <2>2, <2>3, <3>2 DEF ReadTenure
    <3> QED BY <1>2, <3>1, <3>2
  <2>4. CASE how = "leaseholdOrElse"
    <3>1. ReadTenure(how, t) = t.word
      BY <1>2, <2>1, <2>4, TenureReader
    <3> QED BY <2>2, <3>1
  <2>5. CASE how = "lastPart"
    <3>1. ReadTenure(how, t) = t.word
      BY <1>6, <2>5, TenureReader
    <3> QED BY <2>2, <3>1
  <2>6. CASE how = "freeholdLater"
    <3>1. ReadTenure(how, t) = t.word
      BY <1>2, <2>1, <2>6, TenureReader
    <3> QED BY <2>2, <3>1
  <2> QED BY <1>6, <2>3, <2>4, <2>5, <2>6
<1>7. CASE t.form = "later" /\ how = "leaseOrElse" /\ s = "fazwaz"
  <2>1. Has(t, "leasehold") <=> t.word = "leasehold"
    BY <1>7 DEF Has
  <2>2. t.word = "freehold" => ~t.alike
    BY <1>7 DEF NeverListed, t
  <2>3. ReadTenure(how, t) = IF Has(t, "leasehold") \/ t.alike THEN "leasehold"
                             ELSE "freehold"
    BY <1>7, TenureReader
  <2> QED BY <1>2, <1>7, <2>1, <2>2, <2>3
<1>8. \/ t.form = "bare" /\ how \in {"verbatim", "lowered", "forSale", "leaseSpan"}
      \/ /\ t.form = "first"
         /\ \/ how \in {"title", "firstWord", "leaseholdOrElse"}
            \/ how \in {"LeaseholdOrElse", "FreeholdOrElse", "twoChars"} /\ t.capital
      \/ /\ t.form = "later"
         /\ how \in {"leaseholdOrElse", "lastPart", "freeholdLater", "certificate"}
      \/ t.form = "later" /\ how = "leaseOrElse" /\ s = "fazwaz"
  BY <1>1, <1>2 DEF TenureSuits, how
<1> QED BY <1>4, <1>5, <1>6, <1>7, <1>8

\* Two digits are the last two.
LEMMA TwoDigits == ASSUME NEW n \in 10..99 PROVE n >= 10 /\ n % 100 = n
  OBVIOUS

\* The lease of a leasehold villa is read as a year, the one its text says but for
\* a number before it in the sentence; a freehold villa has none.
LEMMA StyledLease ==
  ASSUME NEW s \in DOMAIN ServiceItem, NEW p \in PageType, InStyle(s, p),
         NEW y \in 2000..2100
  PROVE  LET q == ServiceItem[s]  year0 == ReadLease(q.lease, p.lease, y)
         IN /\ p.tenure.word = "leasehold" /\ s \notin Unread =>
                 year0 \in Nat /\ year0 # 0 /\ year0 <= 9999
            /\ p.tenure.word = "freehold" /\ ~q.onlyLeasehold => year0 = None
            /\ s \in Unread => year0 = None
<1> DEFINE how   == ServiceItem[s].lease
           t     == p.lease
           year0 == ReadLease(how, t, y)
<1>1. LeaseSuits(s, ServiceItem[s], Style(s))
  BY ServiceStyles DEF Suits
<1>2. /\ t \in LeaseText
      /\ t.kind \in {"years", "until", "date", "words", "absent"} /\ t.n \in Nat
      /\ t.before \in Nat
      /\ t.kind = "until" => t.n >= 1000 /\ t.n <= 9999
  BY DEF PageType, LeaseText
<1>3. p.tenure.word = "leasehold" =>
        /\ t.kind = Style(s).lease /\ t.lead = Style(s).lead
        /\ t.kind = "years" => t.n \in 10..99
  BY DEF InStyle
<1>4. p.tenure.word = "freehold" => t.kind = FreeholdLease(s) /\ ~t.lead
  BY DEF InStyle
<1>5. s \in Unread => year0 = None
  BY <1>1, LeaseReader DEF LeaseSuits
<1> SUFFICES /\ p.tenure.word = "leasehold" /\ s \notin Unread =>
                  year0 \in Nat /\ year0 # 0 /\ year0 <= 9999
             /\ p.tenure.word = "freehold" /\ ~ServiceItem[s].onlyLeasehold => year0 = None
  BY <1>5
<1> HIDE DEF how, t, year0
<1>6. ASSUME p.tenure.word = "leasehold", s \notin Unread, t.kind = "years"
      PROVE  year0 = y + t.n \/ (year0 = y + t.before /\ InTwoDigits(t.before))
  <2>1. t.n \in 10..99
    BY <1>3, <1>6
  <2>2. /\ Digits(t) = t.n /\ FourDigits(t) = None
        /\ ~t.lead => Leading(t) = t.n /\ LeadingTwo(t) = t.n
        /\ t.lead => InSentence(t, y) = IF InTwoDigits(t.before) THEN y + t.before
                                        ELSE y + t.n
    <3>1. Digits(t) = t.n
      BY <1>6 DEF Digits
    <3>2. FourDigits(t) = None
      BY <1>6 DEF FourDigits
    <3>3. ~t.lead => Leading(t) = t.n /\ LeadingTwo(t) = t.n
      BY <1>2, <1>6, <2>1, LeadingNumber
    <3>4. t.lead => InSentence(t, y) = IF InTwoDigits(t.before) THEN y + t.before
                                       ELSE y + t.n
      BY <1>6, <2>1, Sentence DEF InTwoDigits
    <3> QED BY <3>1, <3>2, <3>3, <3>4
  <2>3. TwoDigitYears(t, y) = y + t.n
    BY <1>6, <2>1, TwoDigits DEF TwoDigitYears
  <2>4. From(y, t.n) = y + t.n
    BY <2>1 DEF From, None
  <2>5. \/ how \in {"digits", "digitsIfShown", "fourThenTwo", "firstNumber", "beforeWord"}
        \/ how \in {"leading", "twoChars"} /\ ~t.lead
        \/ how \in {"sentence", "sentenceOrUntil"} /\ t.lead
    BY <1>1, <1>3, <1>6 DEF LeaseSuits, how
  <2>6. t.n < 1000 /\ t.n # None
    BY <2>1 DEF None
  <2> QED
    BY <1>6, <2>2, <2>3, <2>4, <2>5, <2>6, LeaseReader DEF year0
<1>7. ASSUME p.tenure.word = "leasehold", s \notin Unread, t.kind = "until"
      PROVE  year0 = t.n
  <2>1. Digits(t) = t.n /\ FourDigits(t) = t.n
    BY <1>7 DEF Digits, FourDigits
  <2>2. how \in {"lastWord", "four", "asYear"} /\ (how = "lastWord" => t.lead)
    BY <1>1, <1>3, <1>7 DEF LeaseSuits, how
  <2> QED BY <1>7, <2>1, <2>2, LeaseReader DEF year0
<1>8. ASSUME p.tenure.word = "leasehold", s \notin Unread
      PROVE  year0 \in Nat /\ year0 # 0 /\ year0 <= 9999
  <2>1. t.kind \in {"years", "until"}
    BY <1>1, <1>3, <1>8 DEF LeaseSuits
  <2>2. CASE t.kind = "years"
    <3>1. year0 = y + t.n \/ (year0 = y + t.before /\ InTwoDigits(t.before))
      BY <1>6, <1>8, <2>2
    <3>2. t.n \in 10..99
      BY <1>3, <1>8, <2>2
    <3> QED BY <3>1, <3>2 DEF InTwoDigits
  <2>3. CASE t.kind = "until"
    <3>1. year0 = t.n
      BY <1>7, <1>8, <2>3
    <3> QED BY <1>2, <2>3, <3>1
  <2> QED BY <2>1, <2>2, <2>3
<1>9. ASSUME p.tenure.word = "freehold", ~ServiceItem[s].onlyLeasehold
      PROVE  year0 = None
  <2>1. how \in {"digits", "digitsIfShown", "fourThenTwo", "firstNumber", "beforeWord",
                 "leading", "sentence", "sentenceOrUntil", "lastWord", "four", "asYear",
                 "none"}
    BY <1>1, <1>9 DEF LeaseSuits, how
  <2>2. \/ t.kind = "absent"
        \/ t.kind = "words" /\ how \in {"digits", "leading"}
    BY <1>1, <1>4, <1>9 DEF LeaseSuits, how
  <2>3. /\ Digits(t) = None /\ FourDigits(t) = None /\ Leading(t) = None
        /\ TwoDigitYears(t, y) = None /\ InSentence(t, y) = None
    BY <2>2, Sentence DEF Digits, FourDigits, Leading, TwoDigitYears
  <2>4. From(y, None) = None /\ None < 1000
    BY DEF From, None
  <2> QED BY <1>4, <1>9, <2>1, <2>2, <2>3, <2>4, LeaseReader DEF year0
<1> QED BY <1>8, <1>9

\* Both prices are read as they are shown.
LEMMA StyledFigures ==
  ASSUME NEW s \in DOMAIN ServiceItem, NEW p \in PageType, InStyle(s, p)
  PROVE  LET q == ServiceItem[s]
         IN /\ Number(q.usd, p.usd) = IF p.usd.form = "absent" THEN None ELSE p.usd.n
            /\ Number(q.idr, p.idr) = IF p.idr.form = "absent" THEN None ELSE p.idr.n
<1> DEFINE q  == ServiceItem[s]
           st == Style(s)
<1>1. PricesSuit(s, q, st)
  BY ServiceStyles DEF Suits
<1>2. /\ p.idr.form \in {st.prices, "absent"} /\ p.usd.form \in {st.prices, "absent"}
      /\ p.idr.form = "absent" => p.usd.form # "absent"
      /\ p.idr.form # "absent" => q.idr[st.prices] # None
      /\ p.usd.form # "absent" => q.usd[st.prices] # None
  BY DEF InStyle
<1> HIDE DEF q, st
<1>3. Number(q.usd, p.usd) = IF p.usd.form = "absent" THEN None ELSE p.usd.n
  BY <1>1, <1>2 DEF PricesSuit, Number, None, Exact
<1>4. Number(q.idr, p.idr) = IF p.idr.form = "absent" THEN None ELSE p.idr.n
  BY <1>1, <1>2 DEF PricesSuit, Number, None, Exact
<1> QED BY <1>3, <1>4 DEF q

\* There is a price of a dollar or more, read or converted.
LEMMA StyledPrices ==
  ASSUME NEW s \in DOMAIN ServiceItem, NEW p \in PageType, InStyle(s, p),
         ~NeverListed(s, p), NEW b \in Rates
  PROVE  LET q == ServiceItem[s]
         IN /\ Number(q.idr, p.idr) \in Nat
            /\ Or(Number(q.usd, p.usd), Fallback(q, p, b)) \in Nat \ {0}
<1> DEFINE q  == ServiceItem[s]
           u  == Number(q.usd, p.usd)
           i  == Number(q.idr, p.idr)
<1>1. PricesSuit(s, q, Style(s))
  BY ServiceStyles DEF Suits
<1>2. /\ q.both => p.idr.form # "absent" /\ p.usd.form # "absent"
      /\ p.idr.form = "absent" => p.usd.form # "absent"
      /\ p.idr.form # "absent" => p.idr.n >= b
  BY DEF InStyle
<1>3. /\ p.idr.n \in Nat /\ p.usd.n \in Nat
      /\ p.usd.form # "absent" => p.usd.n # 0
  BY DEF PageType, PriceText
<1>4. b \in Nat \ {0}
  BY Numbers
<1>5. s = "balirealty" => p.usd.form # "absent"
  BY DEF NeverListed
<1>6. u = IF p.usd.form = "absent" THEN None ELSE p.usd.n
  BY StyledFigures
<1>7. i = IF p.idr.form = "absent" THEN None ELSE p.idr.n
  BY StyledFigures
<1> HIDE DEF q, u, i
<1>8. i \in Nat
  BY <1>3, <1>7 DEF None
<1>9. CASE p.usd.form # "absent"
  BY <1>3, <1>6, <1>8, <1>9 DEF Or, Truthy, q, u, i
<1>10. CASE p.usd.form = "absent"
  <2>1. q.convert = "number" /\ p.idr.form # "absent"
    BY <1>1, <1>2, <1>5, <1>10 DEF PricesSuit
  <2>2. i \in Nat /\ i >= b /\ i # 0
    BY <1>2, <1>4, <1>7, <1>8, <2>1
  <2>3. convertToUsd(i, b) = i \div b
    BY <1>4, <2>2 DEF convertToUsd, Truthy, None, Raw, Wrong
  <2>4. i \div b \in Nat \ {0}
    BY <1>4, <2>2
  <2>5. Fallback(q, p, b) = i \div b
    BY <2>1, <2>3 DEF Fallback, i
  <2> QED
    BY <1>6, <1>8, <1>10, <2>4, <2>5 DEF Or, Truthy, None, Raw, Wrong, q, u, i
<1> QED BY <1>9, <1>10

\* An advert in its source's style is neither skipped nor fails.
LEMMA StyledTaken ==
  ASSUME NEW s \in DOMAIN ServiceItem, NEW p \in PageType, InStyle(s, p),
         ~NeverListed(s, p)
  PROVE  /\ ~Skips(ServiceItem[s], p) /\ ~Throws(ServiceItem[s], p)
         /\ Found(ServiceItem[s], p) = p
<1> DEFINE q == ServiceItem[s]
<1>1. NeedsSuit(s, q, Style(s))
  BY ServiceStyles DEF Suits
<1>2. /\ p.tenure.form = Style(s).tenure
      /\ p.tenure.word = "leasehold" => p.lease.kind = Style(s).lease
      /\ p.tenure.word = "freehold" => p.lease.kind = FreeholdLease(s)
      /\ q.both => p.idr.form # "absent" /\ p.usd.form # "absent"
      /\ p.idr.form = "absent" => p.usd.form # "absent"
      /\ p.size.form = "plain" /\ p.land.form = "plain"
      /\ p.beds > 0 /\ p.baths > 0 /\ p.location # {} /\ p.kind = "villa"
  BY DEF InStyle
<1>3. p.tenure.word \in {"freehold", "leasehold"}
  BY DEF PageType, TenureText, Tenures
<1>4. p.tenure.form # "absent"
  BY <1>2, ServiceStyles DEF Suits, TenureSuits
<1>5. Number(q.idr, p.idr) # Thrown
  <2>1. p.idr.n \in Nat
    BY DEF PageType, PriceText
  <2>2. Number(q.idr, p.idr) \in {None, p.idr.n}
    BY StyledFigures
  <2> QED BY <2>1, <2>2 DEF None, Thrown
<1>6. ReadTenure(q.tenure, p.tenure) # "thrown"
  BY <1>3, StyledTenure DEF Capital
<1> HIDE DEF q
<1>7. ASSUME NEW part \in q.needs PROVE ~Missing(part, p)
  <2>1. p.beds # None /\ p.baths # None
    BY <1>2 DEF None, PageType
  <2>2. part = "leaseBeside" \/ part = "lease" => p.lease.kind # "absent"
    BY <1>1, <1>2, <1>3, <1>7 DEF NeedsSuit
  <2>3. part = "prices" => q.both
    BY <1>1, <1>7 DEF NeedsSuit
  <2>4. part \in {"location", "tenure", "lease", "leaseBeside", "price", "prices", "size",
                  "land", "rooms"}
    BY <1>1, <1>7 DEF NeedsSuit
  <2> QED BY <1>2, <1>4, <2>1, <2>2, <2>3, <2>4 DEF Missing
<1>8. ~Skips(q, p)
  BY <1>2 DEF Skips
<1>9. Found(q, p) = p
  BY <1>1, <1>2 DEF Found, NeedsSuit
<1> QED BY <1>5, <1>6, <1>7, <1>8, <1>9 DEF Throws, q

\* The row of such an advert fits its table and is valid.
LEMMA StyledRow ==
  ASSUME NEW s \in DOMAIN ServiceItem, NEW p \in PageType, InStyle(s, p),
         ~NeverListed(s, p), NEW y \in 2000..2100, NEW b \in Rates
  PROVE  LET it == ReadItem(ServiceItem[s], p, y, b)
         IN Fits(it) /\ it.isValid
<1> DEFINE q  == ServiceItem[s]
           it == ReadItem(q, p, y, b)
           year0 == ReadLease(q.lease, p.lease, y)
<1>1. /\ it.ownership = ReadTenure(q.tenure, p.tenure)
      /\ it.leaseExpiryYear = IF q.onlyLeasehold /\ it.ownership # "leasehold" THEN None
                              ELSE year0
      /\ it.buildingSize = Number(q.size, IF q.sizeOf = "land" THEN p.land ELSE p.size)
      /\ it.landSize = IF q.ares THEN SquareMetres(Number(q.land, p.land))
                        ELSE Number(q.land, p.land)
      /\ it.priceIdr = Number(q.idr, p.idr)
      /\ it.priceUsd = Or(Number(q.usd, p.usd), Fallback(q, p, b))
      /\ it.isValid = checkIsValid(it)
  BY StyledTaken, ItemColumns
<1>2. it.ownership = IF s = "anniedeanproperties" THEN Capital(p.tenure.word)
                     ELSE p.tenure.word
  BY <1>1, StyledTenure
<1>3. it.priceIdr \in Nat /\ it.priceUsd \in Nat \ {0}
  BY <1>1, StyledPrices
<1>4. /\ p.tenure.word = "leasehold" /\ s \notin Unread =>
           year0 \in Nat /\ year0 # 0 /\ year0 <= 9999
      /\ p.tenure.word = "freehold" /\ ~q.onlyLeasehold => year0 = None
      /\ s \in Unread => year0 = None
  BY StyledLease
<1>5. p.tenure.word \in {"freehold", "leasehold"}
  BY DEF PageType, TenureText, Tenures
<1>6. p.tenure.word = "leasehold" /\ s \in Unread => s = "anniedeanproperties"
  BY DEF NeverListed, Unread
<1>7. it.buildingSize \in Nat \ {0} /\ it.landSize \in Nat \ {0}
  <2>1. /\ p.size \in SizeText /\ p.size.form = "plain" /\ p.size.n \in Nat \ {0}
        /\ p.land \in SizeText /\ p.land.form = "plain" /\ p.land.n \in Nat \ {0}
    BY DEF InStyle, PageType, SizeText
  <2>2. q.size \in SizeTables /\ q.land \in SizeTables /\ q.ares \in BOOLEAN
    BY ServiceReaders DEF ReadersOf
  <2>3. it.buildingSize \in Nat \ {0}
    BY <1>1, <2>1, <2>2, SizeNumber
  <2>4. Number(q.land, p.land) = p.land.n
    BY <2>1, <2>2, SizeNumber
  <2>5. it.landSize = IF q.ares THEN 100 * p.land.n ELSE p.land.n
    BY <1>1, <2>1, <2>2, <2>4, Metres
  <2> QED BY <2>1, <2>2, <2>3, <2>5
<1> HIDE DEF q, it, year0
<1>8. /\ it.leaseExpiryYear \in Nat /\ it.ownership # "none"
      /\ it.ownership = "leasehold" =>
           it.leaseExpiryYear # 0 /\ it.leaseExpiryYear <= 9999
  BY <1>1, <1>2, <1>4, <1>5, <1>6 DEF Capital, Unread, None
<1>9. Fits(it)
  <2>1. it.leaseExpiryYear \notin {Empty, NaN}
    BY <1>8 DEF Empty, NaN
  <2>2. it.buildingSize # Empty /\ it.landSize # Empty
    BY <1>7 DEF Empty
  <2>3. PriceFits(it)
    BY <1>3 DEF PriceFits, Empty, Raw
  <2> QED BY <2>1, <2>2, <2>3 DEF Fits
<1>10. checkIsValid(it)
  <2>1. \A n \in Nat \ {0} : Truthy(n)
    BY DEF Truthy
  <2>2. it.ownership = "leasehold" =>
          Truthy(it.leaseExpiryYear) /\ it.leaseExpiryYear <= 9999
    BY <1>8, <2>1
  <2> QED BY <1>3, <1>7, <1>8, <2>1, <2>2 DEF checkIsValid
<1> QED BY <1>1, <1>9, <1>10 DEF q, it

\* No advert in the style of its source is lost: the crawl that meets it stores it
\* or its price, and the row is valid (parseItem, checkIsValid, loadToDb).
THEOREM HouseStyleListed == Spec => HouseStyleIsListed
<1> DEFINE Listed ==
      count'.crawls > count.crawls /\ InStyle(service, page) /\ ~NeverListed(service, page)
        => /\ outcome' \in {"stored", "priced"}
           /\ ~Stored => row'.isValid
<1>1. ListingInv /\ [Next]_vars => [Listed]_vars
  <2> SUFFICES ASSUME ListingInv, Next, count'.crawls > count.crawls,
                      InStyle(service, page), ~NeverListed(service, page)
               PROVE  /\ outcome' \in {"stored", "priced"}
                      /\ ~Stored => row'.isValid
    OBVIOUS
  <2>1. /\ service \in DOMAIN ServiceItem /\ r = ServiceItem[service]
        /\ page \in PageType /\ rate \in Rates
        /\ count \in [crawls : 0..MaxCrawls, edits : 0..MaxEdits, updates : 0..MaxUpdates]
    BY Numbers DEF ListingInv, StateInv, r
  <2>2. year \in 2000..2100
    <3>1. Year0 \in 2000..2100 /\ LastYear \in Year0..2100
      BY ListingAssumption
    <3> QED BY <3>1 DEF ListingInv, StateInv
  <2>3. ~Skips(r, page) /\ ~Throws(r, page)
    BY <2>1, StyledTaken
  <2>4. Fits(Item0) /\ PriceFits(Item0) /\ Item0.isValid
    BY <2>1, <2>2, StyledRow DEF Item0, Fits
  <2>5. CASE CrawlFails BY <2>3, <2>4, <2>5 DEF CrawlFails
  <2>6. CASE CrawlSkips BY <2>3, <2>6 DEF CrawlSkips
  <2>7. CASE CrawlStores BY <2>4, <2>7 DEF CrawlStores
  <2>8. CASE CrawlPrices BY <2>8 DEF CrawlPrices
  <2>9. CASE Update \/ Edit
    <3>1. count'.crawls = count.crawls
      BY <2>1, <2>9 DEF Update, Edit
    <3> QED BY <2>1, <3>1, Numbers
  <2>10. CASE NewYear \/ NewRate
    BY <2>1, <2>10, Numbers DEF NewYear, NewRate
  <2> QED BY <2>5, <2>6, <2>7, <2>8, <2>9, <2>10 DEF Next
<1> QED BY <1>1, ListingInvariant, PTL DEF Spec, HouseStyleIsListed
=============================================================================
