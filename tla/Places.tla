------------------------------- MODULE Places -------------------------------
(***************************************************************************)
(* The location names of the parser (normalizeLocation) and of the web     *)
(* filter (locationOptions): the same list, written twice.  An entry is a  *)
(* name and the group the filter shows it under; a location text is the    *)
(* set of table names that occur in it, in whatever case.                  *)
(***************************************************************************)
EXTENDS Integers, Sequences, FiniteSetsExt

Under(group, names) == [i \in DOMAIN names |-> [value |-> names[i], groupBy |-> group]]

locations ==
  Under("", <<"Amed", "Balian", "Batu Belig", "Karangasem", "Kedungu", "Kerobokan",
    "Ketewel", "Kuta", "Lovina", "Medewi", "Megwi", "North Bali", "Pecatu", "Saba",
    "Sanur", "Sukawati", "Umalas">>) \o
  Under("Bukit", <<"Bukit", "Balangan", "Bingin", "Jimbaran", "Nusa Dua",
    "Padang Padang", "Pecatu", "Uluwatu", "Ungasan">>) \o
  Under("Buwit", <<"Buwit", "Tabanan">>) \o
  Under("Canggu", <<"Canggu", "Babakan", "Batu Bolong", "Berawa", "Cemagi",
    "Echo Beach", "Kayu Tulang", "Nelayan", "North", "Nyanyi", "Padonan",
    "Pantai Lima", "Pererenan", "Seseh", "Tiying Tutul", "Tumbak Bayuh">>) \o
  Under("Other Islands", <<"Other Islands", "Lombok", "Sumba">>) \o
  Under("Seminyak", <<"Seminyak", "Batu Belig", "Drupadi", "Legian", "Oberoi",
    "Petitenget">>) \o
  Under("Tabanan", <<"Tabanan", "Kedungu", "Tanah Lot">>) \o
  Under("Ubud", <<"Ubud", "Central", "Other", "Sayan", "Tegalalang", "Tegallalang">>)

\* The options of the web table's location filter.
locationOptions == locations

\* A text that holds one of these names also holds the name within it.
Mentions(text) ==
  text \cup (IF "North Bali" \in text THEN {"North"} ELSE {})
       \cup (IF "Other Islands" \in text THEN {"Other"} ELSE {})

\* The first entry of the table that occurs in the text; a text without one is
\* kept as it is, here the value "elsewhere".
NormalizeLocation(text) ==
  LET matched == {i \in DOMAIN locations : locations[i].value \in Mentions(text)}
  IN IF matched = {} THEN "elsewhere" ELSE locations[Min(matched)].value

\* What a click on a group's header adds to the filter.
OptionsOf(group) ==
  {locationOptions[i] : i \in {j \in DOMAIN locationOptions :
                               locationOptions[j].groupBy = group}}
=============================================================================
