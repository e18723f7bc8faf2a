------------------------------- MODULE Sources -------------------------------
(***************************************************************************)
(* The crawl policies of the source services (src/parser/services).  Each  *)
(* service has a parse() of its own, and they all have the same skeleton:  *)
(* read the latest USD rate, fetch a list page, fetch every item the page  *)
(* links to, load the batch, go to the next page.  What differs from one   *)
(* service to the next is what a policy says:                              *)
(*                                                                         *)
(*   lists        how many lists (categories) of the site are walked       *)
(*   paged        one batch per page; FALSE: all lists form a single batch *)
(*   front        page 1 is loaded apart, before the loop and its tests    *)
(*   stop         the list that ends the loop: "empty" (no link on it),    *)
(*                "partial" (fewer links than a full page) or "never"      *)
(*   retries      an empty list is counted and fetched again; the loop     *)
(*                ends when the counter passes its limit                   *)
(*   onListError  a failing list request: "throw" (to the caller of        *)
(*                parse) or "stop" (ends the loop normally)                *)
(*   onItemError  a failing item request: "throw" or "skip"                *)
(*   dedup        links that occur twice on a page are kept once           *)
(*   rate         the rate is dereferenced for every item ("always"), for  *)
(*                the items that need a conversion ("fallback"), for none  *)
(*                ("unused"), or not even read ("unread")                  *)
(***************************************************************************)

Skeleton == [lists |-> 1, paged |-> TRUE, front |-> FALSE, stop |-> "empty",
             retries |-> FALSE, onListError |-> "throw",
             onItemError |-> "throw", dedup |-> FALSE, rate |-> "always"]

\* The services that follow the skeleton to the letter.
Harcourtspurbabali == Skeleton
Lazudi             == Skeleton
Fazwaz             == Skeleton
Dotproperty        == Skeleton

\* A USD price on the item page makes the conversion, and the rate, unneeded.
Balihomeimmo   == [Skeleton EXCEPT !.rate = "fallback"]
Balivillasales == [Skeleton EXCEPT !.rate = "fallback"]
Balimoves      == [Skeleton EXCEPT !.rate = "fallback"]
Excelbali      == [Skeleton EXCEPT !.rate = "fallback"]
Optimumbali    == [Skeleton EXCEPT !.rate = "fallback"]

\* No conversion at all; rajavillaproperty has the query commented out.
Rajavillaproperty == [Skeleton EXCEPT !.rate = "unread"]
Unikbalivilla     == [Skeleton EXCEPT !.rate = "unused"]
Villabalisale     == [Skeleton EXCEPT !.rate = "unused"]

Propertiabali == [Skeleton EXCEPT !.dedup = TRUE, !.rate = "fallback"]

\* parseItem catches its request's error and returns nothing; parse() drops it.
Ppbali  == [Skeleton EXCEPT !.onItemError = "skip", !.rate = "fallback"]
Balitreasureproperties == [Skeleton EXCEPT !.onItemError = "skip"]
Rumah   == [Skeleton EXCEPT !.onItemError = "skip"]

\* A list request that fails is where these sites are taken to end.
Suasarealestate == [Skeleton EXCEPT !.onListError = "stop"]
Powerbali  == [Skeleton EXCEPT !.onListError = "stop", !.rate = "fallback"]
Balirealty == [Skeleton EXCEPT !.onListError = "stop", !.stop = "never",
                               !.rate = "fallback"]

\* Two lists; a list ends at its first page with fewer than ten links, which
\* is not loaded; the page counter is shared by the two.
Balicoconutliving == [Skeleton EXCEPT !.lists = 2, !.stop = "partial"]

\* Page 1 apart; then empty pages are fetched again up to a limit.
Baliexception == [Skeleton EXCEPT !.front = TRUE, !.retries = TRUE,
                                  !.stop = "never", !.rate = "unused"]

\* Everything in one batch.
Anniedeanproperties == [Skeleton EXCEPT !.lists = 2, !.paged = FALSE,
                                        !.rate = "fallback"]
Exotiqproperty == [Skeleton EXCEPT !.paged = FALSE, !.onItemError = "skip"]

-----------------------------------------------------------------------------
\* parseInner: the service each source name is dispatched to.
ServicePolicy ==
  [balihomeimmo |-> Balihomeimmo, baliexception |-> Baliexception,
   balivillasales |-> Balivillasales, balirealty |-> Balirealty,
   balimoves |-> Balimoves, excelbali |-> Excelbali, ppbali |-> Ppbali,
   harcourtspurbabali |-> Harcourtspurbabali, dotproperty |-> Dotproperty,
   propertiabali |-> Propertiabali,
   balitreasureproperties |-> Balitreasureproperties, fazwaz |-> Fazwaz,
   unikbalivilla |-> Unikbalivilla, rajavillaproperty |-> Rajavillaproperty,
   lazudi |-> Lazudi, balicoconutliving |-> Balicoconutliving,
   rumah |-> Rumah, anniedeanproperties |-> Anniedeanproperties,
   exotiqproperty |-> Exotiqproperty, optimumbali |-> Optimumbali,
   villabalisale |-> Villabalisale, suasarealestate |-> Suasarealestate,
   powerbali |-> Powerbali]

\* parseAll: the sources of the weekly crawl, in order.  dotproperty, rumah
\* and anniedeanproperties are commented out and only reached by name.
AllSources ==
  <<"balivillasales", "balicoconutliving", "balihomeimmo", "baliexception",
    "balirealty", "balimoves", "excelbali", "ppbali", "harcourtspurbabali",
    "propertiabali", "balitreasureproperties", "fazwaz", "unikbalivilla",
    "rajavillaproperty", "lazudi", "exotiqproperty", "optimumbali",
    "villabalisale", "suasarealestate", "powerbali">>
=============================================================================
