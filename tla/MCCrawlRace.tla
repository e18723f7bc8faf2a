----------------------------- MODULE MCCrawlRace -----------------------------
(***************************************************************************)
(* Two jobs crawl one source at the same time: the weekly parseAll and a   *)
(* POST /parse/:source.  The site has an item whose scraped id is padded   *)
(* ("b "), and pages on which an item occurs twice.                        *)
(***************************************************************************)
EXTENDS CrawlProps, Sources

MCSource == {"excelbali"}
MCPolicy == [s \in MCSource |-> ServicePolicy[s]]
MCPastEnd == [s \in MCSource |-> "empty"]
MCListing == {"a", "b", "b "}
MCStored == [l \in MCListing |-> IF l = "b " THEN "b" ELSE l]
MCLists == {<<"a">>, <<"a", "b ">>, <<"a", "a">>}
MCSites == {[s \in MCSource |-> <<shown, <<"a">> >>] : shown \in MCLists}
MCPlans == [weekly |-> {<<"excelbali">>}, post |-> {<<"excelbali">>, <<>>}]
MCJob == {"weekly", "post"}
MCSweep == {"weekly"}
=============================================================================
