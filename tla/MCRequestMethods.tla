-------------------------- MODULE MCRequestMethods --------------------------
(***************************************************************************)
(* A mutation with two fields: every pair of paths through the methods of  *)
(* the schema, of one service, of two of which one has the other injected, *)
(* and of two that know nothing of each other.                             *)
(***************************************************************************)
EXTENDS RequestProps, Methods

MCUsers == "UserService"
MCDoc == {"mutation"}
MCCall == {"first", "second"}
MCDocOf == [c \in MCCall |-> "mutation"]
MCBefore == [first |-> {}, second |-> {"first"}]
MCPaths == [c \in MCCall |-> Mutations]
=============================================================================
