------------------------------ MODULE MCTable ------------------------------
(***************************************************************************)
(* Three rows: two valid and cheaper than the slider's least range, one    *)
(* invalid and dearer; two locations of one group; three requests, of      *)
(* which the first is the page's own.                                      *)
(***************************************************************************)
EXTENDS PropertyTable, Places

Row(location, type, price, valid) ==
  [location |-> location, propertyType |-> type, priceUsd |-> price, isValid |-> valid,
   landSize |-> 200, leaseYearsLeft |-> 25]

MCSheet == [id \in {"r1", "r2", "r3"} |->
  CASE id = "r1" -> Row("Bukit", "villa", 50, TRUE)
    [] id = "r2" -> Row("Uluwatu", "land", 900, FALSE)
    [] OTHER     -> Row("Uluwatu", "land", 50, TRUE)]

\* One of them within the range that a slide to 200 makes.
DearSheet == [MCSheet EXCEPT !["r1"].priceUsd = 300]

MCOption(f) == {"villa", "land"}

\* Two of the options under the header "Bukit".
MCPlace == {option.value : option \in OptionsOf("Bukit")} \cap {"Bukit", "Uluwatu"}
MCGroupBy == [l \in MCPlace |-> "Bukit"]
=============================================================================
