----------------------------- MODULE Standalone -----------------------------
(***************************************************************************)
(* The parts of the system whose state no other part reads or writes:      *)
(* services with rows of their own, the scripts, and the pages that keep   *)
(* their state in the browser.  Since they share nothing, their            *)
(* interleavings show nothing that one part alone does not: a behaviour    *)
(* has one part that moves.                                                *)
(***************************************************************************)
EXTENDS Inventory, Cashier, Access, SyncServer, Seed, Backup,
        Terminal, CashDrawerWindow, TableWindow,
        AdminTables

CONSTANT Parts  \* the parts that are looked at

ASSUME PartsAssumption ==
  Parts \subseteq {"inventory", "cashier", "access", "sync", "seed", "backup", "terminal",
                   "drawer window", "table window", "admin tables"}

VARIABLE part   \* the one that moves

vars == <<part, inventoryVars, cashierVars, accessVars, syncVars, seedVars, backupVars,
          terminalVars, drawerVars, tableVars, planVars>>

Init ==
  /\ part \in Parts
  /\ InventoryInit /\ CashierInit /\ AccessInit /\ SyncInit
  /\ SeedInit /\ BackupInit
  /\ TerminalInit /\ DrawerInit /\ TableWindowInit
  /\ AdminTablesInit

Step ==
  \/ part = "inventory" /\ \E c \in Clerks : InventoryNext(c)
  \/ part = "cashier" /\ \E t \in Terminals : CashierNext(t)
  \/ part = "access" /\ AccessNext
  \/ part = "sync" /\ \E p \in Pushes : SyncNext(p)
  \/ part = "seed" /\ \E s \in Seeders : SeedNext(s)
  \/ part = "backup" /\ BackupNext
  \/ part = "terminal" /\ TerminalNext
  \/ part = "drawer window" /\ DrawerNext
  \/ part = "table window" /\ TableWindowNext
  \/ part = "admin tables" /\ AdminTablesNext

\* The others stand still.
Still(p, partVars) == IF part = p THEN TRUE ELSE UNCHANGED partVars

Next ==
  /\ UNCHANGED part
  /\ Step
  /\ Still("inventory", inventoryVars) /\ Still("cashier", cashierVars)
  /\ Still("access", accessVars) /\ Still("sync", syncVars)
  /\ Still("seed", seedVars) /\ Still("backup", backupVars)
  /\ Still("terminal", terminalVars)
  /\ Still("drawer window", drawerVars) /\ Still("table window", tableVars)
  /\ Still("admin tables", planVars)

Spec == Init /\ [][Next]_vars

\* The types of the part that moves: the others are as their own Init left them.
TypeOK ==
  CASE part = "inventory"       -> InventoryTypeOK
    [] part = "cashier"         -> CashierTypeOK
    [] part = "access"          -> AccessTypeOK
    [] part = "sync"            -> SyncTypeOK
    [] part = "seed"            -> SeedTypeOK
    [] part = "backup"          -> BackupTypeOK
    [] part = "terminal"        -> TerminalTypeOK
    [] part = "drawer window"   -> DrawerTypeOK
    [] part = "table window"    -> TableWindowTypeOK
    [] part = "admin tables"    -> AdminTablesTypeOK
=============================================================================
