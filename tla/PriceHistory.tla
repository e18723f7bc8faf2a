---------------------------- MODULE PriceHistory ----------------------------
(***************************************************************************)
(* What the tables property and property_price promise together: per       *)
(* listing of a source, under the external id the table keeps, the set of  *)
(* sightings of that listing by a crawl.  A sighting is recorded once,     *)
(* under its own listing, and is never lost or moved.                      *)
(***************************************************************************)
CONSTANTS Key,        \* <<source, external id>>
          Sighting,   \* what a crawl saw of one item
          KeyOf(_),   \* the key of a sighting
          LoadOf(_)   \* the load (job, source and page) it belongs to

VARIABLE history      \* [Key -> SUBSET Sighting]

Recorded == UNION {history[k] : k \in Key}

Init == history = [k \in Key |-> {}]

Added(k) == history'[k] \ history[k]

\* A step of a load records sightings that were not recorded before.
Record ==
  /\ DOMAIN history' = Key
  /\ \A k \in Key :
       /\ history[k] \subseteq history'[k]
       /\ \A o \in Added(k) : o \in Sighting \ Recorded /\ KeyOf(o) = k
  /\ \A k, m \in Key : \A o \in Added(k), q \in Added(m) : LoadOf(o) = LoadOf(q)

Spec == Init /\ [][Record]_history
=============================================================================
