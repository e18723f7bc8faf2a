----------------------------- MODULE MCListings -----------------------------
(***************************************************************************)
(* Every source, with adverts in the style its parseItem was written for   *)
(* and adverts of which one part, or the tenure and the lease together, are*)
(* written in another way.                                                 *)
(***************************************************************************)
EXTENDS ListingProps

MCService == DOMAIN ServiceItem

Lease(kind, lead) ==
  [kind |-> kind, lead |-> lead, before |-> 0,
   n |-> CASE kind = "years" -> 25 [] kind \in {"until", "date"} -> 2048 [] OTHER -> 0]
Tenure(form, capital, word) ==
  [form |-> form, word |-> word, capital |-> capital, alike |-> FALSE]
Figure0(form, n) == [form |-> form, n |-> IF form = "absent" THEN 0 ELSE n]

\* The currencies a site shows its prices in: <<idr, usd>>.
Shown(s) ==
  LET r0 == ServiceItem[s] IN
  CASE r0.both          -> {<<TRUE, TRUE>>}
    [] r0.usd = NoPrice -> {<<TRUE, FALSE>>}
    [] r0.idr = NoPrice -> {<<FALSE, TRUE>>}
    [] OTHER            -> {<<TRUE, FALSE>>, <<FALSE, TRUE>>}

Page(s, word, shown) ==
  LET st == Style(s) IN
  [tenure |-> Tenure(st.tenure, st.capital, word),
   lease  |-> IF word = "leasehold" THEN Lease(st.lease, st.lead)
              ELSE Lease(FreeholdLease(s), FALSE),
   idr    |-> Figure0(IF shown[1] THEN st.prices ELSE "absent", 800),
   usd    |-> Figure0(IF shown[2] THEN st.prices ELSE "absent", 100),
   size   |-> [form |-> "plain", n |-> 150], land |-> [form |-> "plain", n |-> 300],
   beds   |-> 3, baths |-> 2, pool |-> "Yes", title |-> {"villa"},
   location |-> {"Canggu"}, kind |-> "villa"]

MCHouse == [s \in MCService |-> {Page(s, w, c) : w \in Tenures, c \in Shown(s)}]

PriceForms == {"plain", "figure", "billion", "million", "request", "absent"}
SizeForms  == {"plain", "unit", "grouped", "decimal", "words", "absent"}
TenureTexts == {Tenure(f, c, w) : f \in {"bare", "first", "later", "both", "other", "absent"},
                                  c \in BOOLEAN, w \in Tenures}
LeaseTexts == {Lease("words", TRUE), Lease("absent", FALSE)} \cup
  {Lease(k, l) : k \in {"years", "until", "date"}, l \in BOOLEAN} \cup
  {[kind |-> "years", lead |-> l, before |-> 0, n |-> n] : l \in BOOLEAN, n \in {5, 150}}
\* "A villa of 12 rooms, leasehold for 25 years".
TwoNumbers == {[Lease("years", TRUE) EXCEPT !.before = b] : b \in {3, 12}}

\* One part of a page written in another way.
Deviations(p) ==
  {[p EXCEPT !.idr.form = f] : f \in IF p.idr.form = "absent" THEN {} ELSE PriceForms} \cup
  {[p EXCEPT !.usd.form = f] : f \in IF p.usd.form = "absent" THEN {} ELSE PriceForms} \cup
  {[p EXCEPT !.size.form = f] : f \in SizeForms} \cup
  {[p EXCEPT !.land.form = f] : f \in SizeForms} \cup
  {[p EXCEPT !.beds = None], [p EXCEPT !.baths = None], [p EXCEPT !.pool = "No"],
   [p EXCEPT !.pool = "none"], [p EXCEPT !.kind = "land"]} \cup
  {[p EXCEPT !.title = t] : t \in {{}, {"land"}, {"land", "villa"}, {"hotel", "land"}, {"resort"}}} \cup
  {[p EXCEPT !.location = l] : l \in {{}, {"Canggu", "Kuta"}, {"North Bali"}, {"Ubud", "Central"}}}

\* Every tenure, with the site's lease and with a year; every lease, with the
\* site's way to write either tenure; a description with a second number, and
\* one with "please" in it.
Together(p, s) ==
  {[p EXCEPT !.tenure = t, !.lease = l] :
     t \in TenureTexts, l \in {Lease(Style(s).lease, Style(s).lead), Lease("until", FALSE)}} \cup
  {[p EXCEPT !.tenure.word = w, !.lease = l] : w \in Tenures, l \in LeaseTexts} \cup
  {[p EXCEPT !.lease = l] : l \in
     IF ServiceItem[s].lease \in {"sentence", "sentenceOrUntil"} THEN TwoNumbers ELSE {}} \cup
  {[p EXCEPT !.tenure = [Tenure(f, FALSE, w) EXCEPT !.alike = TRUE], !.lease = l] :
     f \in IF s = "fazwaz" THEN {"first", "later", "both", "other"} ELSE {},
     w \in Tenures, l \in LeaseTexts}

\* Where tenure and lease come from one text, a lease is named there.
Coherent(p, s) ==
  s = "fazwaz" /\ p.lease.kind \in {"years", "until", "date"}
    => Has(p.tenure, "leasehold") \/ p.tenure.alike

MCPages ==
  [s \in MCService |->
     MCHouse[s] \cup UNION {Deviations(p) : p \in MCHouse[s]} \cup
     {p \in Together(Page(s, "leasehold", CHOOSE c \in Shown(s) : TRUE), s) : Coherent(p, s)}]

\* The owner lowers the price; the figures are taken off the page.
MCEdits ==
  [s \in MCService |->
     UNION {{[p EXCEPT !.idr.n = 400, !.usd.n = 50],
             [p EXCEPT !.idr.form = IF @ = "absent" THEN @ ELSE "request",
                       !.usd.form = IF @ = "absent" THEN @ ELSE "request"]} :
             p \in {Page(s, "leasehold", c) : c \in {CHOOSE c \in Shown(s) : TRUE}}}]

MCInputs == {[buildingSize |-> 90, ownership |-> "leasehold"]}
MCRates == {2, 4}
=============================================================================
