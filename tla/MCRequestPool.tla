---------------------------- MODULE MCRequestPool ----------------------------
(***************************************************************************)
(* A mutation with two fields and a query whose two fields run at once on  *)
(* one service, for two connections to the core database.                  *)
(***************************************************************************)
EXTENDS RequestProps, Methods

MCUsers == "UserService"
MCDoc == {"mutation", "query"}
MCCall == {"m1", "m2", "q1", "q2"}
MCDocOf == [m1 |-> "mutation", m2 |-> "mutation", q1 |-> "query", q2 |-> "query"]
MCBefore == [c \in MCCall |-> IF c = "m2" THEN {"m1"} ELSE {}]
MCPaths == [m1 |-> UpdateRolePermission, m2 |-> DocumentRemove,
            q1 |-> PermissionsByGroupsWithRoles, q2 |-> GetPermissionsByUserRoles]
=============================================================================
