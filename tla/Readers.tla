------------------------------ MODULE Readers ------------------------------
(***************************************************************************)
(* How the texts of an advert's page are read: the helpers of              *)
(* ParserBaseService and common.helper, and the ways in which the parseItem *)
(* functions (src/parser/services) get at a tenure, a lease, a price or a  *)
(* size.  Module Adverts says which service reads in which way.            *)
(*                                                                         *)
(* A text is its form, which decides what a reader makes of it, and the    *)
(* number it shows:                                                        *)
(*                                                                         *)
(*   tenure   [form, word, capital, alike]: "bare" (the word alone),       *)
(*            "first" (the word, then more), "later" (more, then the word), *)
(*            "both" (the word, and further on the other tenure's),        *)
(*            "other" (neither word), "absent"; alike: the letters "lease" *)
(*            are there besides, in please, release or lease itself        *)
(*   lease    [kind, n, lead, before]: "years" (25 years), "until" (2048), *)
(*            "date" (31 December 2048), "words", "absent"; lead: words    *)
(*            precede; before: a number does, in the same sentence (0: no) *)
(*   prices   [form, n] per currency: "plain" (digits), "figure" (grouped  *)
(*            digits), "billion", "million" (12.5 Billion), "request" (no  *)
(*            figure), "absent"                                            *)
(*   sizes    [form, n]: "plain", "unit" (150 m2), "grouped" (1,200),      *)
(*            "decimal" (2.5), "words", "absent"                           *)
(***************************************************************************)
EXTENDS Integers, Sequences

\* Column values that are no numbers of the page.  None is 0, null and
\* undefined, which no condition of the code tells apart.
None  == 0
Empty == -1      \* '', the digits of a text that has none
NaN   == -2
Raw   == -3      \* the text as it is
Wrong == -4      \* a number, but not the one the text shows
Thrown == -5     \* the reader threw
Exact == -6      \* in the tables below: the number the text shows

Truthy(v) == v > 0 \/ v = Raw \/ v = Wrong
Or(v, w)  == IF Truthy(v) THEN v ELSE w                            \* v || w

-----------------------------------------------------------------------------
(* Numbers.  parseNumeric and parsePrice keep the digits of a text and     *)
(* nothing else, the 2 of "m2" included, the decimal point not; parseSquare *)
(* takes the first number, its first comma for a point.                    *)
parseNumeric == [absent |-> None, words |-> Empty, plain |-> Exact,
                 unit |-> Wrong, grouped |-> Exact, decimal |-> Wrong]
parseSquare  == [absent |-> None, words |-> None, plain |-> Exact,
                 unit |-> Exact, grouped |-> Wrong, decimal |-> Exact]

\* The ways the services vary them: the unit cut off first; || null; a point
\* makes it parseFloat; parseInt once a group's comma is out.
Unitless == [parseNumeric EXCEPT !.unit = Exact]
OrNull   == [parseNumeric EXCEPT !.words = None]
Pointed  == [parseNumeric EXCEPT !.decimal = Exact]
Wholes   == [parseSquare EXCEPT !.grouped = Exact, !.decimal = Wrong]

\* parsePrice / parseNumeric on a price text: "12.5 Billion" gives 125.
parsePrice == [absent |-> None, request |-> Empty, plain |-> Exact,
               figure |-> Exact, billion |-> Wrong, million |-> Wrong]

\* A text without the currency's label, or without a digit, gives no price.
Labelled == [parsePrice EXCEPT !.request = None]
Billions == [parsePrice EXCEPT !.billion = Exact]
Units    == [parsePrice EXCEPT !.request = None, !.figure = Wrong,
                               !.billion = Exact, !.million = Exact]
\* match(/[0-9]+(,[0-9]+)+/)[0] of a text without a comma between digits.
CommasOnly == [f \in DOMAIN parsePrice |-> IF f = "figure" THEN Exact ELSE Thrown]
AsText   == [f \in DOMAIN parsePrice |->
               CASE f = "absent" -> None [] f = "plain" -> Exact [] OTHER -> Raw]
NoPrice  == [f \in DOMAIN parsePrice |-> None]

Number(table, text) ==
  IF table[text.form] = Exact THEN text.n ELSE table[text.form]

\* A price is divided by the rate if both are there; infoObj texts that are not
\* plain digits divide to NaN.
convertToUsd(idr, rate) ==
  IF ~Truthy(idr) \/ rate = None THEN None
  ELSE CASE idr = Wrong -> Wrong
         [] idr = Raw   -> NaN
         [] OTHER       -> idr \div rate

-----------------------------------------------------------------------------
(* The tenure: freehold, leasehold, or what the text happens to be.        *)
Tenures == {"freehold", "leasehold"}
OtherTenure(word) == IF word = "freehold" THEN "leasehold" ELSE "freehold"

Capital(word) == IF word = "freehold" THEN "Freehold" ELSE "Leasehold"

Has(t, word) == \/ t.form \in {"bare", "first", "later"} /\ t.word = word
                \/ t.form = "both"
HasLater(t, word) == \/ t.form = "later" /\ t.word = word
                     \/ t.form = "both" /\ t.word # word
Starts(t) == t.form \in {"bare", "first", "both"}

\* The text itself; an absent one is undefined.
Text(t, word) == CASE t.form = "absent" -> "none" [] t.form = "bare" -> word
                   [] OTHER -> "text"

ReadTenure(how, t) ==
  CASE how = "verbatim"  -> Text(t, IF t.capital THEN Capital(t.word) ELSE t.word)
    [] how = "lowered"   -> Text(t, t.word)
    [] how = "firstWord" -> IF Starts(t) THEN t.word ELSE Text(t, t.word)
    [] how = "lastPart"  -> IF t.form \in {"bare", "later"} THEN t.word ELSE "text"
    [] how = "leaseholdOrElse" -> IF Has(t, "leasehold") THEN "leasehold" ELSE "freehold"
    [] how = "leaseOrElse" ->
         IF Has(t, "leasehold") \/ t.alike THEN "leasehold" ELSE "freehold"
    [] how = "freeholdOrElse"  -> IF Has(t, "freehold") THEN "freehold" ELSE "leasehold"
    [] how = "LeaseholdOrElse" ->
         IF t.capital /\ Has(t, "leasehold") THEN "leasehold" ELSE "freehold"
    [] how = "FreeholdOrElse"  ->
         IF t.capital /\ Has(t, "freehold") THEN "freehold" ELSE "leasehold"
    [] how = "freeholdLater"   ->
         IF HasLater(t, "freehold") THEN "freehold" ELSE "leasehold"
    [] how = "title" -> CASE Has(t, "freehold")  -> "freehold"
                          [] ~Has(t, "freehold") /\ Has(t, "leasehold") -> "leasehold"
                          [] OTHER -> "none"
    [] how = "certificate" -> CASE HasLater(t, "leasehold") -> "leasehold"
                                [] HasLater(t, "freehold")  -> "freehold"
                                [] OTHER -> "none"
    [] how = "forSale"  -> IF t.form = "bare" /\ t.word = "freehold" THEN "freehold"
                           ELSE "leasehold"
    [] how = "twoChars" -> IF Starts(t) /\ t.capital /\ t.word = "freehold"
                           THEN "freehold" ELSE "leasehold"
    [] how = "leaseSpan" -> IF t.word = "leasehold" THEN "leasehold" ELSE "thrown"

-----------------------------------------------------------------------------
(* The lease's end: a year, or None.  y is the year of the crawl.          *)

\* parseNumeric of the whole text: 31 December 2048 gives 312048.
Digits(t) == CASE t.kind \in {"years", "until"} -> t.n
               [] t.kind = "date" -> 310000 + t.n
               [] OTHER -> None
\* parseInt: the number a text begins with.
Leading(t) == IF t.lead \/ t.kind \in {"words", "absent"} THEN None
              ELSE IF t.kind = "date" THEN 31 ELSE t.n
\* parseInt of the first two characters.
LeadingTwo(t) == LET d == Leading(t) IN
  CASE d < 100 -> d [] d \in 100..999 -> d \div 10 [] OTHER -> d \div 100

InTwoDigits(n) == n \in 10..99
FourDigits(t)  == IF t.kind \in {"until", "date"} THEN t.n ELSE None
\* match(/\d{2} year/): the last two digits before the word.
TwoDigitYears(t, y) == IF t.kind = "years" /\ t.n >= 10 THEN y + (t.n % 100) ELSE None
\* The first two-digit number of the sentence, unless the sentence begins with it.
InSentence(t, y) ==
  CASE t.kind # "years" \/ ~t.lead -> None
    [] t.kind = "years" /\ t.lead /\ InTwoDigits(t.before) -> y + t.before
    [] t.kind = "years" /\ t.lead /\ ~InTwoDigits(t.before) ->
         IF InTwoDigits(t.n) THEN y + t.n ELSE None

\* year + years, when there are years.
From(y, years) == IF years = None THEN None ELSE y + years

ReadLease(how, t, y) ==
  CASE how = "none"     -> None
    [] how = "digits"   -> From(y, Digits(t))
    [] how = "digitsIfShown" -> IF t.kind = "absent" THEN None ELSE y + Digits(t)
    [] how = "leading"  -> From(y, Leading(t))
    [] how = "twoChars" -> IF Leading(t) = None THEN NaN ELSE y + LeadingTwo(t)
    [] how = "sentence" -> InSentence(t, y)
    [] how = "sentenceOrUntil" -> IF t.lead /\ FourDigits(t) # None THEN t.n
                                  ELSE InSentence(t, y)
    [] how = "fourThenTwo" -> IF FourDigits(t) # None THEN t.n ELSE TwoDigitYears(t, y)
    [] how = "four"     -> FourDigits(t)
    [] how = "lastWord" -> CASE t.kind = "words" -> Empty
                             [] t.kind # "words" /\ t.lead -> FourDigits(t)
                             [] OTHER  -> None
    [] how = "asYear"   -> Digits(t)
    [] how = "firstNumber" ->
         LET d == IF t.kind = "date" THEN 31 ELSE Digits(t)
         IN IF d < 1000 THEN From(y, d) ELSE d
    [] how = "beforeWord" -> IF t.kind = "years" THEN y + t.n ELSE None

-----------------------------------------------------------------------------
\* The first of these that a title mentions; a villa if none is.
types == <<"villa", "apartment", "hotel", "resort", "land", "commercial">>

parsePropertyTypeFromTitle(title) ==
  LET included == {i \in DOMAIN types : types[i] \in title}
      first    == types[CHOOSE i \in included : \A j \in included : i <= j]
  IN IF included = {} THEN "villa"
     ELSE IF first \in {"hotel", "resort"} THEN "hotel/resort" ELSE first

ReadPool(how, shown) ==
  CASE how = "shown"    -> shown
    [] how = "always"   -> "Yes"
    [] how = "never"    -> "none"
    [] how = "inverted" -> IF shown = "No" THEN "Yes" ELSE "No"

\* The length of the year's text is four up to 9999.
checkIsValid(item) ==
  /\ item.ownership # "none"
  /\ item.ownership = "leasehold" => /\ Truthy(item.leaseExpiryYear)
                                     /\ item.leaseExpiryYear <= 9999
  /\ item.propertyType # "land" => Truthy(item.buildingSize)
  /\ Truthy(item.priceUsd)

-----------------------------------------------------------------------------
\* The texts there are.  A price that is shown is not 0, a lease has less than
\* 1000 years, and a calendar year four digits.
TenureText == {t \in [form : {"bare", "first", "later", "both", "other", "absent"},
                      word : Tenures, capital : BOOLEAN, alike : BOOLEAN] :
                 t.form \in {"bare", "absent"} => ~t.alike}
LeaseText  == {t \in [kind : {"years", "until", "date", "words", "absent"},
                      n : Nat, lead : BOOLEAN, before : Nat] :
                 /\ t.kind = "years" => t.n < 1000
                 /\ t.kind \in {"until", "date"} => t.n >= 1000 /\ t.n <= 9999
                 /\ t.before # 0 => t.lead}
PriceText  == {t \in [form : DOMAIN parsePrice, n : Nat] : t.form # "absent" => t.n # 0}
SizeText   == [form : DOMAIN parseNumeric, n : Nat]
=============================================================================
