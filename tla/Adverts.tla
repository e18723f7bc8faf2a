------------------------------ MODULE Adverts ------------------------------
(***************************************************************************)
(* parseItem of each of the services (src/parser/services): a record that  *)
(* names the reader of every part of the page, and ReadItem, the row the   *)
(* service makes of a page.  What differs from one service to the next:    *)
(*                                                                         *)
(*   tenure    the reader of ownership                                     *)
(*   lease     the reader of leaseExpiryYear; onlyLeasehold: it is run for *)
(*             an ownership of 'leasehold' only                            *)
(*   idr, usd  the readers of the two prices; convert: what priceUsd falls *)
(*             back on, the price read in IDR ("number"), its text         *)
(*             ("text") or nothing ("nothing"); both: the page gives two   *)
(*             prices, not one in a currency of its own                    *)
(*   size, land  the readers of buildingSize and landSize; ares: the land  *)
(*             is shown in ares and stored in square metres; sizeOf,       *)
(*             bedsOf: the part of the page that is read for them          *)
(*   place     the location is normalised or stored as it is              *)
(*   type      propertyType comes from the title or is always a villa      *)
(*   villasOnly  adverts of other kinds are skipped                        *)
(*   keyed     the lists are looked up under the text of the tenure        *)
(*   needs     the parts whose absence makes parseItem throw               *)
(***************************************************************************)
EXTENDS Readers, Places

Item == [tenure |-> "lowered", lease |-> "none", onlyLeasehold |-> FALSE,
         idr |-> NoPrice, usd |-> NoPrice, convert |-> "number", both |-> FALSE,
         size |-> parseNumeric, land |-> parseNumeric, ares |-> FALSE,
         sizeOf |-> "size", bedsOf |-> "beds", pool |-> "shown", place |-> "normalised",
         type |-> "title", keyed |-> FALSE, villasOnly |-> FALSE,
         needs |-> {"location"}]

\* The prices come from two more requests; ownership is part of the selectors
\* of the lists; indexOf('Yes') is used as a condition.
BalihomeimmoItem ==
  [Item EXCEPT !.tenure = "verbatim", !.lease = "digits", !.idr = parsePrice,
     !.usd = parsePrice, !.both = TRUE, !.keyed = TRUE, !.pool = "inverted",
     !.needs = {"location", "tenure", "prices"}]

\* "IDR 3,500,000,000 / 25 years" holds the price and the years.
BalivillasalesItem ==
  [Item EXCEPT !.lease = "leading", !.idr = Labelled, !.usd = Labelled,
     !.size = Unitless, !.land = Unitless, !.needs = {"location", "price"}]

\* The lease's years are in the description only and are not read.
DotpropertyItem ==
  [Item EXCEPT !.tenure = "title", !.idr = Billions, !.needs = {"location", "price"}]

ExcelbaliItem ==
  [Item EXCEPT !.tenure = "firstWord", !.lease = "fourThenTwo", !.onlyLeasehold = TRUE,
     !.idr = Labelled, !.usd = Labelled, !.size = parseSquare, !.land = parseSquare,
     !.needs = {"location", "price"}]

\* Tenure and years are looked for in the description, leasehold being any text
\* with "lease" in it; without a description, freehold.
FazwazItem ==
  [Item EXCEPT !.tenure = "leaseOrElse", !.lease = "sentence", !.idr = CommasOnly,
     !.size = OrNull, !.land = OrNull, !.needs = {"location", "price"}]

\* No lease year is read here either.
HarcourtspurbabaliItem ==
  [Item EXCEPT !.idr = Labelled, !.size = parseSquare, !.land = parseSquare]

\* Of a price in EUR nothing is read: its text is one without a figure here.
OptimumbaliItem ==
  [Item EXCEPT !.tenure = "twoChars", !.lease = "twoChars", !.onlyLeasehold = TRUE,
     !.idr = Labelled, !.usd = Labelled, !.size = Unitless, !.land = Unitless,
     !.pool = "never", !.needs = {"location", "tenure", "price", "size", "land"}]

\* Mutant of PropertiabaliItem: the land is stored in ares.
PropertiabaliItemInAres ==
  [Item EXCEPT !.tenure = "leaseholdOrElse", !.lease = "leading", !.idr = Labelled,
     !.size = parseSquare, !.land = parseSquare, !.needs = {"location", "tenure"}]

PropertiabaliItem ==
  [Item EXCEPT !.tenure = "leaseholdOrElse", !.lease = "leading", !.idr = Labelled,
     !.size = parseSquare, !.land = parseSquare, !.ares = TRUE,
     !.needs = {"location", "tenure"}]

\* The digits of the status are taken for years; the price is stored as text.
UnikbalivillaItem ==
  [Item EXCEPT !.tenure = "LeaseholdOrElse", !.lease = "digits", !.onlyLeasehold = TRUE,
     !.usd = AsText, !.needs = {}]

VillabalisaleItem ==
  [Item EXCEPT !.tenure = "verbatim", !.lease = "leading", !.usd = Labelled,
     !.size = parseSquare, !.land = parseSquare, !.ares = TRUE,
     !.needs = {"location", "price", "leaseBeside"}]

\* The tenure is what follows the last dash of the title.
RajavillapropertyItem ==
  [Item EXCEPT !.tenure = "lastPart", !.lease = "digitsIfShown", !.usd = Labelled]

\* buildingSize is read from the text of the land's size.
BalimovesItem ==
  [Item EXCEPT !.tenure = "leaseholdOrElse", !.lease = "lastWord", !.idr = Labelled,
     !.usd = Labelled, !.size = parseSquare, !.land = parseSquare, !.sizeOf = "land",
     !.needs = {"location", "tenure", "price", "size", "land"}]

\* Mutant of LazudiItem: the lease is not read.
LazudiItemNoLease ==
  [Item EXCEPT !.tenure = "FreeholdOrElse", !.idr = parsePrice, !.pool = "always",
     !.needs = {"location", "tenure"}]

\* The pool is an index used as a condition: -1 counts as there.
LazudiItem ==
  [Item EXCEPT !.tenure = "FreeholdOrElse", !.lease = "sentence", !.onlyLeasehold = TRUE,
     !.idr = parsePrice, !.pool = "always", !.needs = {"location", "tenure"}]

\* "End of Lease" is the year, whatever its digits are.
SuasarealestateItem ==
  [Item EXCEPT !.lease = "asYear", !.idr = Labelled, !.usd = Labelled,
     !.size = Unitless, !.land = Unitless, !.needs = {"tenure", "size", "land"}]

\* Mutant of PowerbaliItem: any leading number is taken for years.
PowerbaliItemLeading ==
  [Item EXCEPT !.tenure = "firstWord", !.lease = "leading", !.idr = Labelled,
     !.usd = Labelled, !.size = Pointed, !.land = Pointed, !.pool = "never",
     !.needs = {"location", "price"}]

\* The years of "25 years" would be read only where a year was found before.
PowerbaliItem ==
  [Item EXCEPT !.tenure = "firstWord", !.lease = "four", !.idr = Labelled,
     !.usd = Labelled, !.size = Pointed, !.land = Pointed, !.pool = "never",
     !.needs = {"location", "price"}]

\* The conversion is given priceUsd, which is null where it is needed; the
\* location is not normalised.
BalirealtyItem ==
  [Item EXCEPT !.tenure = "FreeholdOrElse", !.lease = "firstNumber",
     !.onlyLeasehold = TRUE, !.idr = parsePrice, !.usd = parsePrice,
     !.convert = "nothing", !.place = "asIs", !.needs = {"tenure"}]

\* Mutant of BalicoconutlivingItem: indexOf('freehold') > 0.
BalicoconutlivingItemLater ==
  [Item EXCEPT !.tenure = "freeholdLater", !.lease = "sentenceOrUntil", !.idr = parsePrice,
     !.size = Unitless, !.land = Unitless, !.needs = {"location", "tenure"}]

BalicoconutlivingItem ==
  [Item EXCEPT !.lease = "sentenceOrUntil", !.idr = parsePrice, !.size = Unitless,
     !.land = Unitless, !.needs = {"location", "tenure"}]

\* The bedrooms are the bathrooms' number.
BaliexceptionItem ==
  [Item EXCEPT !.lease = "leading", !.usd = parsePrice, !.bedsOf = "baths",
     !.type = "villa", !.needs = {"rooms"}]

\* The text of the price in IDR is converted, not its number; no lease year.
AnniedeanpropertiesItem ==
  [Item EXCEPT !.tenure = "verbatim", !.idr = parsePrice, !.usd = parsePrice,
     !.convert = "text", !.both = TRUE, !.needs = {"location", "price", "size", "land"}]

\* Adverts of anything but a villa are left out.
ExotiqpropertyItem ==
  [Item EXCEPT !.tenure = "forSale", !.lease = "digits", !.idr = parsePrice,
     !.villasOnly = TRUE, !.needs = {"location", "lease", "price"}]

\* indexOf('freehold') > 0: not where the text begins with it.
PpbaliItem ==
  [Item EXCEPT !.tenure = "freeholdLater", !.lease = "fourThenTwo",
     !.onlyLeasehold = TRUE, !.idr = parsePrice, !.usd = parsePrice, !.both = TRUE,
     !.size = parseSquare, !.land = parseSquare]

\* The text of the lease is split before it is tested.
BalitreasurepropertiesItem ==
  [Item EXCEPT !.tenure = "leaseSpan", !.lease = "beforeWord", !.idr = parsePrice,
     !.size = Wholes, !.land = Unitless, !.pool = "always",
     !.needs = {"location", "tenure", "land"}]

\* indexOf > 0 again, for either tenure; no lease year.
RumahItem ==
  [Item EXCEPT !.tenure = "certificate", !.idr = Units, !.pool = "never",
     !.needs = {"location", "price"}]

-----------------------------------------------------------------------------
\* parseInner: the parseItem of each source.
ServiceItem ==
  [balihomeimmo |-> BalihomeimmoItem, baliexception |-> BaliexceptionItem,
   balivillasales |-> BalivillasalesItem, balirealty |-> BalirealtyItem,
   balimoves |-> BalimovesItem, excelbali |-> ExcelbaliItem, ppbali |-> PpbaliItem,
   harcourtspurbabali |-> HarcourtspurbabaliItem, dotproperty |-> DotpropertyItem,
   propertiabali |-> PropertiabaliItem,
   balitreasureproperties |-> BalitreasurepropertiesItem, fazwaz |-> FazwazItem,
   unikbalivilla |-> UnikbalivillaItem, rajavillaproperty |-> RajavillapropertyItem,
   lazudi |-> LazudiItem, balicoconutliving |-> BalicoconutlivingItem,
   rumah |-> RumahItem, anniedeanproperties |-> AnniedeanpropertiesItem,
   exotiqproperty |-> ExotiqpropertyItem, optimumbali |-> OptimumbaliItem,
   villabalisale |-> VillabalisaleItem, suasarealestate |-> SuasarealestateItem,
   powerbali |-> PowerbaliItem]

-----------------------------------------------------------------------------
\* What a service finds of a page.
Found(r, p) ==
  IF r.keyed /\ p.tenure.form # "bare"
  THEN [p EXCEPT !.lease.kind = "absent", !.size.form = "absent",
                 !.land.form = "absent", !.beds = None, !.baths = None, !.pool = "none"]
  ELSE p

Missing(part, p) ==
  CASE part = "location" -> p.location = {}
    [] part = "tenure"   -> p.tenure.form = "absent"
    [] part = "lease"    -> p.lease.kind = "absent"
    [] part = "leaseBeside" -> p.lease.kind = "absent" /\ p.tenure.form # "absent"
    [] part = "price"    -> p.idr.form = "absent" /\ p.usd.form = "absent"
    [] part = "prices"   -> p.idr.form = "absent" \/ p.usd.form = "absent"
    [] part = "size"     -> p.size.form = "absent"
    [] part = "land"     -> p.land.form = "absent"
    [] part = "rooms"    -> p.beds = None \/ p.baths = None

\* parseItem throws.
Throws(r, p) == \/ \E part \in r.needs : Missing(part, p)
                \/ Number(r.idr, p.idr) = Thrown
                \/ ReadTenure(r.tenure, p.tenure) = "thrown"

\* parseItem returns undefined, which parse() filters out.
Skips(r, p) == r.villasOnly /\ p.kind # "villa"

Fallback(r, p, rate) ==
  CASE r.convert = "number"  -> convertToUsd(Number(r.idr, p.idr), rate)
    [] r.convert = "text"    -> convertToUsd(Number(AsText, p.idr), rate)
    [] r.convert = "nothing" -> None

SquareMetres(ares) == IF ares > 0 THEN 100 * ares ELSE ares

\* The row of the advert, in year y, under the rate the crawl has read.
ReadItem(r, page, y, rate) ==
  LET p         == Found(r, page)
      ownership == ReadTenure(r.tenure, p.tenure)
      propertyObj ==
        [ownership       |-> ownership,
         leaseExpiryYear |-> IF r.onlyLeasehold /\ ownership # "leasehold" THEN None
                             ELSE ReadLease(r.lease, p.lease, y),
         propertyType    |-> IF r.type = "villa" THEN "villa"
                             ELSE parsePropertyTypeFromTitle(p.title),
         location        |-> IF r.place = "asIs" THEN "elsewhere"
                             ELSE NormalizeLocation(p.location),
         buildingSize    |-> Number(r.size, IF r.sizeOf = "land" THEN p.land ELSE p.size),
         landSize        |-> IF r.ares THEN SquareMetres(Number(r.land, p.land))
                             ELSE Number(r.land, p.land),
         bedroomsCount   |-> IF r.bedsOf = "baths" THEN p.baths ELSE p.beds,
         bathroomsCount  |-> p.baths,
         pool            |-> ReadPool(r.pool, p.pool),
         priceIdr        |-> Number(r.idr, p.idr),
         priceUsd        |-> Or(Number(r.usd, p.usd), Fallback(r, p, rate)),
         isValid         |-> FALSE]
  IN [propertyObj EXCEPT !.isValid = checkIsValid(propertyObj)]

PriceFits(price) == price.priceIdr \notin {Empty, Raw} /\ price.priceUsd \notin {Empty, Raw}

\* Mutant of Fits: the year is kept as a text.
FitsYearText(row) == /\ row.buildingSize # Empty /\ row.landSize # Empty
                     /\ PriceFits(row)

\* The row fits the column types of the table: '' is no number, NaN no integer,
\* and a text with more than digits neither.
Fits(row) == /\ row.leaseExpiryYear \notin {Empty, NaN}
             /\ row.buildingSize # Empty /\ row.landSize # Empty
             /\ PriceFits(row)
=============================================================================
