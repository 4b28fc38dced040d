------------------------------ MODULE Inventory ------------------------------
(***************************************************************************)
(* InventoryService: stock movements and wastage.  Both handlers compute   *)
(* the new balance from the ingredient row they have read.  A later        *)
(* transaction inserts a movement row with the delta and the balance and   *)
(* then writes the balance, as an absolute value, into the ingredient row. *)
(* The insert locks nothing the other requests need; the update locks the  *)
(* ingredient row until the commit that follows it.                        *)
(***************************************************************************)
EXTENDS Integers

CONSTANTS Clerks,       \* requests to this service in flight at a time
          Ingredients,  \* ids of ingredients
          Nothing,      \* no ingredient
          OpeningStock, \* the opening stock of every ingredient
          Deltas,       \* signed quantities of stock movements
          Wastes,       \* quantities of wastage
          MaxMovements  \* bound: the movement rows that are inserted

ASSUME StockAssumption ==
  /\ Nothing \notin Ingredients
  /\ OpeningStock \in Nat /\ MaxMovements \in Nat
  /\ Deltas \subseteq Int /\ Wastes \subseteq Nat \ {0}

VARIABLES stock,     \* Ingredient.currentStock
          ledger,    \* per ingredient, the sum of the quantities of its StockMovement rows
          audited,   \* per ingredient, createdAt and balanceAfter of its latest StockMovement row
          movements, \* the movement rows inserted so far, the time of the latest of them
          short,     \* history: the ingredients of which more was wasted than there was
          crossed,   \* history: the ingredients read while another request had read them
          count      \* per request in flight, the handler's local variables

rowVars == <<stock, ledger, audited, short>>
inventoryVars == <<rowVars, movements, crossed, count>>

CountIdle == [phase |-> "idle", ingredient |-> Nothing, quantity |-> 0, balance |-> 0, at |-> 0]

CountJob == [phase: {"idle", "insert", "update"}, ingredient: Ingredients \cup {Nothing},
             quantity: Int, balance: Nat, at: Nat]

InventoryTypeOK ==
  /\ stock \in [Ingredients -> Nat]
  /\ ledger \in [Ingredients -> Int]
  /\ audited \in [Ingredients -> [at: Nat, balance: Nat]]
  /\ movements \in Nat
  /\ short \subseteq Ingredients
  /\ crossed \subseteq Ingredients
  /\ count \in [Clerks -> CountJob]

\* The seed creates every ingredient with an OPENING_STOCK movement.
InventoryInit ==
  /\ stock = [i \in Ingredients |-> OpeningStock]
  /\ ledger = stock
  /\ audited = [i \in Ingredients |-> [at |-> 0, balance |-> OpeningStock]]
  /\ movements = 0
  /\ short = {}
  /\ crossed = {}
  /\ count = [c \in Clerks |-> CountIdle]

-----------------------------------------------------------------------------

\* The requests that have read an ingredient and not yet written it.
InFlight(i) == {c \in Clerks : count[c].ingredient = i}

\* A request has read an ingredient and goes on to its transaction.
Counted(c, i, quantity, balance) ==
  /\ count' = [count EXCEPT ![c] = [phase |-> "insert", ingredient |-> i,
                                    quantity |-> quantity, balance |-> balance, at |-> 0]]
  /\ crossed' = IF InFlight(i) = {} THEN crossed ELSE crossed \cup {i}
  /\ UNCHANGED <<rowVars, movements>>

\* recordStockMovement: refused when the balance would be negative.
MovementRead(c, i, q) ==
  /\ count[c] = CountIdle
  /\ stock[i] + q >= 0
  /\ Counted(c, i, q, stock[i] + q)

\* Mutant: the balance after wastage is not clamped.
AfterWasteUnclamped(i, q) == stock[i] - q

\* recordWastage: more than there is may be wasted; the balance is 0 then.
AfterWaste(i, q) == IF stock[i] >= q THEN stock[i] - q ELSE 0

WastageRead(c, i, q) ==
  /\ count[c] = CountIdle
  /\ Counted(c, i, -q, AfterWaste(i, q))

\* The first write of the transaction of both: a movement row, which nobody else sees yet.
MovementInsert(c) ==
  /\ count[c].phase = "insert"
  /\ movements < MaxMovements
  /\ movements' = movements + 1
  /\ count' = [count EXCEPT ![c].phase = "update", ![c].at = movements + 1]
  /\ UNCHANGED <<rowVars, crossed>>

\* The movement rows of i once the row of a request is among them.
RowCommitted(job) ==
  LET i == job.ingredient IN
  /\ ledger' = [ledger EXCEPT ![i] = @ + job.quantity]
  /\ audited' = IF job.at > audited[i].at
                THEN [audited EXCEPT ![i] = [at |-> job.at, balance |-> job.balance]]
                ELSE audited

\* The last write, to the ingredient row, and the commit.
BalanceCommit(c) ==
  LET job == count[c]
      i   == job.ingredient
  IN
  /\ job.phase = "update"
  /\ RowCommitted(job)
  /\ stock' = [stock EXCEPT ![i] = job.balance]
  /\ short' = IF stock[i] + job.quantity < 0 THEN short \cup {i} ELSE short
  /\ count' = [count EXCEPT ![c] = CountIdle]
  /\ UNCHANGED <<movements, crossed>>

\* Mutant: the movement row is inserted outside the transaction and survives it.
RowSurvives(c) ==
  /\ count[c].phase # "idle"
  /\ IF count[c].phase = "update" THEN RowCommitted(count[c]) ELSE UNCHANGED <<ledger, audited>>
  /\ count' = [count EXCEPT ![c] = CountIdle]
  /\ UNCHANGED <<stock, short, movements, crossed>>

\* The transaction fails: nothing is written.
CountAbort(c) ==
  /\ count[c].phase # "idle"
  /\ count' = [count EXCEPT ![c] = CountIdle]
  /\ UNCHANGED <<rowVars, movements, crossed>>

InventoryNext(c) ==
  \/ \E i \in Ingredients, q \in Deltas : MovementRead(c, i, q)
  \/ \E i \in Ingredients, q \in Wastes : WastageRead(c, i, q)
  \/ MovementInsert(c)
  \/ BalanceCommit(c)
  \/ CountAbort(c)

-----------------------------------------------------------------------------
\* The movements of an ingredient add up to its stock, or to less when more of it was
\* wasted than there was.
AddsUp(i) == IF i \in short THEN ledger[i] <= stock[i] ELSE ledger[i] = stock[i]

\* Whatever else goes on, an ingredient that no two requests had in hand at a time has the
\* stock its latest movement row says, and its movements add up to it: what is lost is lost
\* by two requests about one ingredient, never by one that fails or by its neighbours
\* (inventory.service.ts:29-64 and 73-114).
UncrossedIsExact ==
  \A i \in Ingredients \ crossed : stock[i] = audited[i].balance /\ AddsUp(i)

\* Every change of stock writes an entry of the ledger: the movements of an ingredient add up
\* to its stock (docs/database.md, section 1.4).
StockFollowsLedger == \A i \in Ingredients : AddsUp(i)
=============================================================================
