---------------------------- MODULE MCStandalone ----------------------------
(***************************************************************************)
(* Standalone on small instances of its parts.                             *)
(***************************************************************************)
EXTENDS Standalone

\* Inventory: a delivery of one, and a consumption that empties the opening stock.
MCDeltas == {1, -2}

\* Access: a manager, who may become a waiter; a route for managers, and one for everybody.
CONSTANT u1
MCUsers == {u1}
MCStaffRole == [u \in MCUsers |-> "MANAGER"]
MCRoleGates == {{}, {"MANAGER"}}

\* Terminal: prices whose tax is rounded up, down and from the middle.
CONSTANTS m1, m2
MCMenuItems == {m1, m2}
MCPrice == [m \in MCMenuItems |-> IF m = m1 THEN 10 ELSE 37]
MCSampleCart == [m \in MCMenuItems |-> 1]

\* TableWindow: two tables on the first floor, one on the second.
CONSTANTS f1, f2, t1, t2, t3
MCFloors == {f1, f2}
MCTablesOf == [f \in MCFloors |-> IF f = f1 THEN {t1, t2} ELSE {t3}]

\* AdminTables: a table that is taken, one that is free, and one upstairs.
CONSTANTS a1, a2, a3
MCPlanTables == {a1, a2, a3}
MCFloorOf == [t \in MCPlanTables |-> IF t = a3 THEN "first" ELSE "ground"]
MCInitialStatus ==
  [t \in MCPlanTables |-> CASE t = a1 -> "BILL_REQUESTED" [] t = a2 -> "AVAILABLE"
                            [] t = a3 -> "RESERVED"]
=============================================================================
