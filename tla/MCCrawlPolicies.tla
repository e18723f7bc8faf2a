--------------------------- MODULE MCCrawlPolicies ---------------------------
(***************************************************************************)
(* One POST /parse/:source for each of the 23 services, on sites that show *)
(* up to two full pages and a short one per list.                          *)
(***************************************************************************)
EXTENDS CrawlProps, Sources

MCSource == DOMAIN ServicePolicy
MCPolicy == ServicePolicy
\* The three services that end on a failing list request are the ones whose
\* sites answer so past their last page.
MCPastEnd == [s \in MCSource |->
                IF ServicePolicy[s].onListError = "stop" THEN "error" ELSE "empty"]
MCListing == {"a", "b", "c"}
MCStored == [l \in MCListing |-> l]
MCLists == {<<>>, <<"a">>, <<"a", "b">>, <<"a", "a", "b">>,
            <<"a", "b", "c", "a">>, <<"c", "b", "a", "c", "b">>}
MCSites == {[s \in MCSource |-> <<x, y>>] : x, y \in MCLists}
MCPlans == [j \in {"post"} |-> {<<s>> : s \in MCSource}]
MCJob == {"post"}
MCSweep == {}
=============================================================================
