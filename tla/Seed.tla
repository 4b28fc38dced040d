-------------------------------- MODULE Seed --------------------------------
(***************************************************************************)
(* prisma/seed.ts: a script of single statements without a transaction     *)
(* around them.  Some leave a row alone that is there already, some fail   *)
(* on it, some write another one.  The script may stop anywhere and be     *)
(* started again, also while it still runs elsewhere.  A statement stands  *)
(* for all rows its loop writes.                                           *)
(***************************************************************************)
EXTENDS Integers, Sequences, FiniteSets

CONSTANTS Seeders,   \* runs of the script at a time
          MaxCopies  \* bound: rows of a statement without a unique key

ASSUME SeedAssumption == MaxCopies \in Nat \ {0}

VARIABLES rows,     \* per statement, how often its rows exist
          at,       \* per run, the statement it is at; 0: it does not run
          seeded    \* history: how many runs came to the end

seedVars == <<rows, at, seeded>>

Upsert(model)       == [model |-> model, how |-> "upsert"]
Create(model)       == [model |-> model, how |-> "create"]
CreateUnique(model) == [model |-> model, how |-> "unique"]

SeedRoles      == <<Upsert("Permission"), Upsert("Role"), Upsert("RolePermission")>>
SeedRestaurant == <<Upsert("Restaurant")>>
SeedPrinters   == <<Create("Printer")>>
SeedStations   == <<Upsert("KitchenStation")>>
SeedStaff      == <<Upsert("User"), Upsert("Staff")>>

\* Mutant: a table number may be used again.
SeedFloorsWithoutKey == <<Create("Floor"), Create("Section"), Create("Table")>>

\* The first floor and its first section come before the first table.
SeedFloors      == <<Create("Floor"), Create("Section"), CreateUnique("Table")>>
SeedCategories  == <<CreateUnique("MenuCategory")>>
SeedMenu        == <<CreateUnique("MenuItem")>>
SeedIngredients == <<CreateUnique("Unit"), CreateUnique("Ingredient"), Create("StockMovement")>>
SeedSuppliers   == <<Create("Supplier")>>
SeedCustomers   == <<CreateUnique("Customer")>>
SeedOrders      == <<CreateUnique("Order"), CreateUnique("Invoice"), Create("Payment")>>
SeedExpenses    == <<Create("Expense")>>

Script ==
  SeedRoles \o SeedRestaurant \o SeedPrinters \o SeedStations \o SeedStaff \o SeedFloors
    \o SeedCategories \o SeedMenu \o SeedIngredients \o SeedSuppliers \o SeedCustomers
    \o SeedOrders \o SeedExpenses

SeedTypeOK ==
  /\ rows \in [DOMAIN Script -> 0 .. MaxCopies]
  /\ at \in [Seeders -> 0 .. Len(Script) + 1]
  /\ seeded \in Nat

SeedInit ==
  /\ rows = [k \in DOMAIN Script |-> 0]
  /\ at = [s \in Seeders |-> 0]
  /\ seeded = 0

-----------------------------------------------------------------------------

StartSeed(s) ==
  /\ at[s] = 0
  /\ at' = [at EXCEPT ![s] = 1]
  /\ UNCHANGED <<rows, seeded>>

\* A create on a unique key is refused when its row exists.
Accepted(k) ==
  /\ Script[k].how = "unique" => rows[k] = 0
  /\ rows[k] < MaxCopies

RowsAfter(k) == IF Script[k].how = "upsert" THEN 1 ELSE rows[k] + 1

Statement(s) ==
  LET k == at[s] IN
  /\ k \in DOMAIN Script
  /\ IF Script[k].how = "upsert" THEN TRUE ELSE Accepted(k)
  /\ rows' = [rows EXCEPT ![k] = RowsAfter(k)]
  /\ at' = [at EXCEPT ![s] = k + 1]
  /\ UNCHANGED seeded

\* main().catch: a statement fails, or the process is killed.  What was written stays.
SeedFails(s) ==
  /\ at[s] # 0
  /\ at' = [at EXCEPT ![s] = 0]
  /\ UNCHANGED <<rows, seeded>>

SeedCompletes(s) ==
  /\ at[s] = Len(Script) + 1
  /\ at' = [at EXCEPT ![s] = 0]
  /\ seeded' = seeded + 1
  /\ UNCHANGED rows

SeedNext(s) ==
  \/ StartSeed(s)
  \/ Statement(s)
  \/ SeedFails(s)
  \/ SeedCompletes(s)

-----------------------------------------------------------------------------
\* The script comes to its end at most once, and no opening stock, payment or expense is
\* written twice, although none of them has a unique key: the table numbers, which come
\* before them, stop every other run (seed.ts:344).  The price is that a run which stopped
\* half-way is never completed by a second one.
Guarded == {k \in DOMAIN Script : \E j \in 1 .. k : Script[j].model = "Table"}

SeededOnce ==
  /\ seeded <= 1
  /\ \A k \in Guarded : rows[k] <= 1
  /\ seeded = 1 => \A k \in DOMAIN Script : rows[k] >= 1
=============================================================================
