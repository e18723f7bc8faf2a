---------------------------- MODULE MCCrawlSweep ----------------------------
(***************************************************************************)
(* The weekly parseAll over three sources of different policies, in their  *)
(* order in AllSources, while the sites change, requests and statements    *)
(* fail, a currency update arrives and the process may die.                *)
(***************************************************************************)
EXTENDS CrawlProps, Sources

MCSource == {"balicoconutliving", "ppbali", "powerbali"}
MCPolicy == [s \in MCSource |-> ServicePolicy[s]]
MCPastEnd == [s \in MCSource |-> IF s = "powerbali" THEN "error" ELSE "empty"]
MCListing == {"a", "b"}
MCStored == [l \in MCListing |-> l]
MCLists == {<<"a">>, <<"a", "b">>, <<"b", "a">>}
MCSites == {[s \in MCSource |-> <<shown, <<"b", "a">> >>] : shown \in MCLists}
MCPlans == [j \in {"weekly"} |->
              {SelectSeq(AllSources, LAMBDA s : s \in MCSource)}]
MCJob == {"weekly"}
MCSweep == {"weekly"}
=============================================================================
