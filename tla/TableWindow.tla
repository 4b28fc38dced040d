----------------------------- MODULE TableWindow -----------------------------
(***************************************************************************)
(* TableModal.tsx and the table it sets in App.tsx: a table is chosen, or  *)
(* the target of a transfer or merge is picked and confirmed.  Like the    *)
(* cash drawer's, the window's state starts afresh at every opening.       *)
(***************************************************************************)
CONSTANTS Floors,      \* floors of the plan
          TablesOf,    \* the tables of each
          FirstFloor,  \* the one shown first
          FirstTable,  \* the table the page starts with
          NoTable      \* no target

ASSUME PlanAssumption ==
  /\ \A f \in DOMAIN TablesOf : NoTable \notin TablesOf[f]
  /\ DOMAIN TablesOf = Floors
  /\ FirstFloor \in Floors /\ FirstTable \in TablesOf[FirstFloor]

VARIABLES currentTable,  \* App.selectedTable
          mode,          \* actionType; "CLOSED": the window is not open
          floor,         \* selectedFloor
          target,        \* targetTable
          picked,        \* history: what was clicked last since the mode was chosen
          confirmed      \* history: the last transfer or merge

tableVars == <<currentTable, mode, floor, target, picked, confirmed>>

AllTables == UNION {TablesOf[f] : f \in Floors}
Modes == {"SWITCH", "TRANSFER", "MERGE"}
NothingConfirmed == [mode |-> "SWITCH", table |-> NoTable, picked |-> NoTable]

TableWindowTypeOK ==
  /\ currentTable \in AllTables
  /\ mode \in Modes \cup {"CLOSED"}
  /\ floor \in Floors
  /\ target \in AllTables \cup {NoTable} /\ picked \in AllTables \cup {NoTable}
  /\ confirmed \in [mode: Modes, table: AllTables \cup {NoTable},
                    picked: AllTables \cup {NoTable}]

FreshTableWindow ==
  /\ floor' = FirstFloor
  /\ target' = NoTable /\ picked' = NoTable

TableWindowInit ==
  /\ currentTable = FirstTable
  /\ mode = "CLOSED"
  /\ floor = FirstFloor
  /\ target = NoTable /\ picked = NoTable
  /\ confirmed = NothingConfirmed

-----------------------------------------------------------------------------

OpenTables ==
  /\ mode = "CLOSED"
  /\ mode' = "SWITCH"
  /\ FreshTableWindow
  /\ UNCHANGED <<currentTable, confirmed>>

\* onClose, of the header, the footer and Escape
CloseTables ==
  /\ mode # "CLOSED"
  /\ mode' = "CLOSED"
  /\ FreshTableWindow
  /\ UNCHANGED <<currentTable, confirmed>>

\* Mutant: the target of the mode before is kept.
KeptTarget(m) == target

\* The buttons of the modes forget the target.
TargetIn(m) == NoTable

SetActionType(m) ==
  /\ mode # "CLOSED"
  /\ mode' = m
  /\ target' = TargetIn(m)
  /\ picked' = NoTable
  /\ UNCHANGED <<currentTable, floor, confirmed>>

\* The tabs of the floors keep it.
SetSelectedFloor(f) ==
  /\ mode # "CLOSED"
  /\ floor' = f
  /\ UNCHANGED <<currentTable, mode, target, picked, confirmed>>

\* handleTableClick on a table of the floor that is shown, whatever its status is.
SwitchTable(t) ==
  /\ mode = "SWITCH"
  /\ t \in TablesOf[floor]
  /\ currentTable' = t
  /\ mode' = "CLOSED"
  /\ FreshTableWindow
  /\ UNCHANGED confirmed

PickTarget(t) ==
  /\ mode \in {"TRANSFER", "MERGE"}
  /\ t \in TablesOf[floor]
  /\ target' = t
  /\ picked' = t
  /\ UNCHANGED <<currentTable, mode, floor, confirmed>>

\* handleExecuteAction: for both modes the page goes on with the target.
HandleExecuteAction ==
  /\ mode \in {"TRANSFER", "MERGE"}
  /\ target # NoTable
  /\ confirmed' = [mode |-> mode, table |-> target, picked |-> picked]
  /\ currentTable' = target
  /\ mode' = "CLOSED"
  /\ FreshTableWindow

TableWindowNext ==
  \/ OpenTables
  \/ CloseTables
  \/ \E m \in Modes : SetActionType(m)
  \/ \E f \in Floors : SetSelectedFloor(f)
  \/ \E t \in AllTables : SwitchTable(t) \/ PickTarget(t)
  \/ HandleExecuteAction

-----------------------------------------------------------------------------
\* A transfer or merge goes to the table that was clicked last since its mode was chosen,
\* also when another floor is shown meanwhile: a table clicked for a merge is never
\* confirmed as the target of a transfer (TableModal.tsx:120-150).
ConfirmedAsPicked == confirmed.table = confirmed.picked
=============================================================================
