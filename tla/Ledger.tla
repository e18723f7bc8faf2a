------------------------------- MODULE Ledger -------------------------------
(***************************************************************************)
(* What the core and the log database promise together: the changes of a   *)
(* call appear all at once, and never before the trail holds every event   *)
(* of the call.  The trail may run ahead.                                  *)
(***************************************************************************)
CONSTANT Unit           \* the calls that may change something

VARIABLES work,         \* [Unit -> [writes, events]]: what a unit amounts to
          changes,      \* what the core database holds
          trail         \* what the log database holds

Init == changes = {} /\ trail = {}

Audit(u) ==
  /\ trail' = trail \cup work[u].events
  /\ UNCHANGED <<work, changes>>

Change(u) ==
  /\ work[u].events \subseteq trail
  /\ work[u].writes \cap changes = {}
  /\ changes' = changes \cup work[u].writes
  /\ UNCHANGED <<work, trail>>

Next == \E u \in Unit : Audit(u) \/ Change(u)

Spec == Init /\ [][Next]_<<work, changes, trail>>
=============================================================================
