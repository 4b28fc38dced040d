----------------------------- MODULE AdminTables -----------------------------
(***************************************************************************)
(* The floor plan of the admin site (tables/page.tsx): cards of tables,    *)
(* whose buttons change the status, the time since which it is taken and   *)
(* the bill of a table in the page's own state.                            *)
(***************************************************************************)
EXTENDS Integers

CONSTANTS PlanTables,   \* ids of tables
          FloorOf,      \* the floor of each
          InitialStatus,\* the status each table starts with
          NoSelection,  \* no table is selected
          MaxParties    \* bound: parties seated at a table

PlanStatus == {"AVAILABLE", "OCCUPIED", "BILL_REQUESTED", "CLEANING", "RESERVED"}

ASSUME PlanTablesAssumption ==
  /\ PlanTables # {} /\ NoSelection \notin PlanTables /\ MaxParties \in Nat
  /\ DOMAIN FloorOf = PlanTables /\ InitialStatus \in [PlanTables -> PlanStatus]

VARIABLES plan,          \* floors: the data of every table
          planFloor,     \* selectedFloorId
          planSelected,  \* selectedTable: a copy of a table's data
          party          \* history: how many parties were seated at a table

planVars == <<plan, planFloor, planSelected, party>>

PlanFloors == {FloorOf[t] : t \in PlanTables}

\* Which of the optional fields are set.
TableData == [status: PlanStatus, order: BOOLEAN, since: BOOLEAN, bill: BOOLEAN]

NobodySelected == [table |-> NoSelection, status |-> "AVAILABLE"]

AdminTablesTypeOK ==
  /\ plan \in [PlanTables -> TableData]
  /\ planFloor \in PlanFloors
  /\ planSelected \in [table: PlanTables \cup {NoSelection}, status: PlanStatus]
  /\ party \in [PlanTables -> 0 .. MaxParties]

Taken(status) == status \in {"OCCUPIED", "BILL_REQUESTED"}

\* A table that is taken at first has an order, a duration and a bill, those of party 0.
AdminTablesInit ==
  /\ plan = [t \in PlanTables |->
               LET taken == Taken(InitialStatus[t])
               IN  [status |-> InitialStatus[t], order |-> taken, since |-> taken, bill |-> taken]]
  /\ planFloor = CHOOSE f \in PlanFloors : TRUE
  /\ planSelected = NobodySelected
  /\ party = [t \in PlanTables |-> 0]

-----------------------------------------------------------------------------

\* Mutant: the bill goes when the table is cleaned.
GoneWhenCleaned(data, status) == data.bill /\ status # "CLEANING"

BillAfter(data, status) == data.bill /\ status # "AVAILABLE"

\* The order number is never touched.
Updated(data, status) ==
  [status |-> status, order |-> data.order, since |-> status = "OCCUPIED",
   bill |-> BillAfter(data, status)]

UpdateTableStatus(t, status) ==
  /\ plan' = [plan EXCEPT ![t] = Updated(@, status)]
  /\ planSelected' = IF planSelected.table = t THEN [planSelected EXCEPT !.status = status]
                                               ELSE planSelected
  /\ UNCHANGED planFloor

Shown(t) == FloorOf[t] = planFloor

\* "Seat Guests", of an available table
SeatGuests(t) ==
  /\ Shown(t)
  /\ plan[t].status = "AVAILABLE"
  /\ party[t] < MaxParties
  /\ party' = [party EXCEPT ![t] = @ + 1]
  /\ UpdateTableStatus(t, "OCCUPIED")

Reserve(t) ==
  /\ Shown(t)
  /\ plan[t].status = "AVAILABLE"
  /\ UpdateTableStatus(t, "RESERVED")
  /\ UNCHANGED party

\* "Clean Table" and "Free Table", of every other
CleanTable(t) ==
  /\ Shown(t)
  /\ plan[t].status # "AVAILABLE"
  /\ UpdateTableStatus(t, "CLEANING")
  /\ UNCHANGED party

FreeTable(t) ==
  /\ Shown(t)
  /\ plan[t].status # "AVAILABLE"
  /\ UpdateTableStatus(t, "AVAILABLE")
  /\ UNCHANGED party

SelectFloor(f) ==
  /\ planFloor' = f
  /\ UNCHANGED <<plan, planSelected, party>>

\* A click on the card; the buttons stop it from getting there.
SelectTable(t) ==
  /\ Shown(t)
  /\ planSelected' = [table |-> t, status |-> plan[t].status]
  /\ UNCHANGED <<plan, planFloor, party>>

AdminTablesNext ==
  \/ \E t \in PlanTables : \/ SeatGuests(t) \/ Reserve(t)
                           \/ CleanTable(t) \/ FreeTable(t) \/ SelectTable(t)
  \/ \E f \in PlanFloors : SelectFloor(f)

-----------------------------------------------------------------------------
\* A free table owes nothing, no party sits down to the bill of an earlier one, and the
\* selected table's status is the one on its card, whatever sequence of buttons led there
\* (tables/page.tsx:192-217).  The page makes no bills: those there are belong to party 0,
\* and stay on a card that is being cleaned after it has left.
BillOfGuests ==
  /\ \A t \in PlanTables : plan[t].bill => plan[t].status # "AVAILABLE" /\ party[t] = 0
  /\ planSelected.table # NoSelection => planSelected.status = plan[planSelected.table].status
=============================================================================
