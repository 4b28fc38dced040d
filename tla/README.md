# RestoVyn in TLA+

Specifications of the core of RestoVyn: what its API services do to the shared
rows of the database when requests interleave, what the POS terminal does with
its cart and its offline queue, and the parts that keep a state of their own:
windows and the table plan of the front ends, rights, seed and backups. TLC checks them
on small instances; TLAPS proves, for every instance, the safety of settlement,
of the front of house, of the offline queue and of the separate parts.

## 1. The system

RestoVyn is a restaurant system: a NestJS API over one PostgreSQL database,
a WebSocket gateway that tells clients of changes, a POS terminal (React in
Electron), an admin web, a captain app, and shared packages with the pure
rules. API services keep **no state between requests**. A handler reads rows
(each `await` lets other requests run), decides, commits one transaction whose
values come from what it has read, and broadcasts events. Prisma runs
PostgreSQL at READ COMMITTED and no handler locks a row. That is where the hard
behaviour comes from.

| Component | State | Operations | Interacts with | What makes it correct |
|---|---|---|---|---|
| `orders` service | Order, OrderItem, KOT, syncId | create, cancelItem, updateStatus | tables, kitchen, events, terminals that retry | one order per sync id; a version tells every change; totals name every line that is kept |
| `billing` service | Invoice | generateInvoice | orders, tables, business rules | an invoice names every line that is kept, and none that was not ordered |
| `payments` service | Payment, Refund, Invoice columns | create, splitBill, refund | invoices, orders, tables | money collected and money credited agree; a key charges once; paid means paid |
| `tables` service | Table.status | updateStatus, transferTable | orders, events | no table stays taken by nobody; clients see the table as it is |
| `kitchen` service | KOT.status, priority | updateKOTStatus, updatePriority | tickets from create | (any status is accepted) |
| `inventory` service | Ingredient.currentStock, StockMovement | recordStockMovement, recordWastage | – | stock is what the movements say |
| `cashier` service | CashSession, CashTransaction | openSession, closeSession | business rules | one open drawer per cashier; a closed one stays closed |
| `sync` service | SyncQueue | push, pull | terminals that post again | what a terminal was told is applied is recorded |
| `auth` service, guards | User and Staff rows, tokens of the clients | login, PIN login, refresh, every guarded request | all routes | nobody acts on a right lost longer ago than a token lives |
| business rules | – | billing, split, drawer | API and terminal | exact integers; a split adds up |
| POS page | cart, dialogs, order number | cart, KOT, pay, split, receipt, reload | sync engine, rules | a payment covers its bill; nothing follows the payment of an order |
| POS sync engine | queue in memory, copy in localStorage | enqueue, sync pass, reload | page, API | no action lost or reordered; the queue drains |
| POS cash drawer window | movements, count | add movement, count, close shift | rules | a shift is closed with every movement since the window was opened |
| POS table window | mode, floor, target | switch, transfer, merge | page | the confirmed target is the picked one |
| admin floor plan | cards, selection | open, bill, clean, reserve, free | – | no party sits down to another party's bill, and no free table owes one |
| seed | every table of the database | the script, repeated or twice at a time | database | one run at most gets past the unique table numbers, so what comes after them is written once |
| backup, restore scripts | dumps, archives, checksums | back up, prune, restore | database, file system | the latest archive survives; a verified archive is whole |
| gateway | – | broadcast | all clients | – |
| staff, menu, floors, restaurant, reports, audit, health | rows of their own | reads, single-row writes | – | – |
| other admin pages (kitchen display, inventory, orders, menu), captain app | sample data in page state | – | (no API calls that change state) | – |
| infrastructure | – | deploy, restart | – | – |

Hard behaviour, with lines, is listed under `hazards` in `PROJECT.json`:
stale reads that are written back, check-then-act across an `await`, retries
with idempotency keys and sync ids, events that disagree with rows, crashes
between commit and broadcast, reloads of the page in the middle of a sync pass,
hot keys behind open dialogs, scripts that die half-way and are run again.

## 2. Modules

```
Store ──┬─ Billing ──┬─ Money ──┬─ Settlement ── MCSettlement
        ├─ Payments ─┘   │      │
        │                └─ TenderLedger (abstract, by INSTANCE)
        ├─ Kitchen ── Orders ───┼─ FrontOfHouse ── MCFrontOfHouse
        └─ TableService ────────┘
SyncClient ── OfflineSync
Inventory, Cashier, Access, SyncServer, Seed, Backup,  ┐
Terminal, CashDrawerWindow, TableWindow,               ├─ Standalone ── MCStandalone
AdminTables                                            ┘

Proofs:  MoneyProofs ─┬─ SettlementProofs
                      └─ FrontOfHouseProofs
         BillingRulesProofs ── TerminalProofs ── StandaloneProofs
         SyncClientProofs
```

`Terminal`, `Cashier` and `CashDrawerWindow` calculate with **BillingRules**.

**Store** declares the rows several services share, and `shown`, the table map
the clients build from TABLE_UPDATED. **Billing, Payments, Orders,
TableService, Kitchen, Inventory, Cashier** hold one handler each as a few
actions. A worker `w` is a request in flight; a variable per service
(`bill[w]`, `pay[w]`, `ord[w]`, `move[w]`, `till[t]`, `count[c]`) holds the
handler's local variables, its `phase` the `await` at which it stands:

* `...Read`: the reads and all checks made on them (early returns and
  exceptions are the guards; a refused request changes nothing and has no action).
* `...Replay` / `...Miss`: the outcome of a look-up made after the first read.
* `...Commit`: the transaction. It is one step when nothing another request
  can see or do lies between its writes: it reads nothing, nobody looks at the
  order of its inserts, and two transactions that update rows both of them need
  start with the same one, which is locked until the commit (transfers in
  opposite directions end in a deadlock, which is an abort). Two services do not
  meet this: `cancelItem` reads inside its transaction, so it is two steps (`CancelSum`,
  `CancelCommit`), with the row lock of its first update (`ItemLocked`). The
  stock handlers insert a movement, which locks nothing, before they update the
  ingredient, so they are two steps as well (`MovementInsert`,
  `BalanceCommit`): rows may be inserted in one order and balances written in
  the other.
* `...Notify`: the broadcast, which the process sends after the commit.
* `...Abort`: a read or the transaction fails (connection, time-out, unique
  order or invoice number): nothing is written.

What an order costs is three constants, since three handlers calculate it
differently: `GrandTotal` (`create`: 5% tax, 5% service for DINE_IN only,
variants), `InvoiceTotal` (`generateInvoice`: the same rates, no variants, the
prices of the menu by then) and `CancelTotal` (`cancelItem`: kept items times
1.1, whatever the order type). The theorems hold for any three functions;
`MCFrontOfHouse` fills them in with `BillingRules` and those rates.

`FrontOfHouse` adds `Restart`: the API process dies between two steps, open
transactions roll back, events not sent are lost, rows stay.

**Money** states once what billing and payments promise, whoever else changes
orders and tables: the properties, the parts of the inductive invariants, and
the refinement. `Settlement` is the two services alone; `FrontOfHouse` has
orders, tables, kitchen and restarts around them. Both inherit all of it.

**TenderLedger** is the abstract specification: per bill, what was tendered and
what was credited. `BackedSpec` promises that credit never exceeds what was
tendered; `ExactSpec` that each amount is credited once. `Settlement` and
`FrontOfHouse` implement the first for any number of concurrent requests and the
second for one request at a time. The refinement mapping sends `tendered` to the history
variable `collected` (the sum of the payments per invoice) and `credited` to the invoice's `paidAmount`.

**BillingRules** has the pure functions. `Math.round` of a non-negative quotient
is written with integers. For an inclusive tax the code computes
`amount - amount / (1 + rate / 100)` in floating point; the model rounds the
exact rational. Rates are whole percents (the code only passes 5).

**Standalone** holds the parts whose state no other part reads or writes. They
share nothing, so the product of their behaviours shows nothing that one of them
does not: `part`, chosen by `Init`, is the one that moves, and the others stand
still. A part is a module with its variables, `...Init` and `...Next`.

* **Terminal** is the page: the cart, the three dialogs that settle it, the
  reload, and the history `outbox` of what it handed to the sync engine. The
  dialogs return early when closed, before their hooks: their state starts anew
  each time they open, which is why `OpenPayment` computes the tender from the
  bill of that moment. Buttons behind a dialog and hot keys stay usable, so
  every action can follow every other.
* **CashDrawerWindow** and **TableWindow** are the other two windows of the
  terminal, with every field of theirs that decides something. They too start
  afresh when opened.
* **AdminTables** is the table plan of the admin web; the history `party` says
  who sits at a table.
* **Inventory** and **Cashier** keep a history each of the races their handlers
  are exposed to: `crossed`, the ingredients two requests had in hand at a time,
  and `overlapped`, the cashiers for whom two requests were opening a drawer.
  Their properties are about everything else that goes on meanwhile.
* **Access** is login, PIN login and refresh against the bearer and roles guards.
  A login is two steps, the read of the row and the signing; an owner may
  change or deactivate a user between any two steps. `inForce` remembers when a
  user last had a role, as an active user.
* **SyncServer** is `processPushBatch`: per item a look-up and an upsert, each of
  which may fail, then the answer, which may be lost; `told` is what arrived.
* **Seed** has every statement of the script by what it does with a row that is
  there already (upsert, create, create against a unique key).
* **Backup** is both scripts over one directory: dump, checksum, encryption,
  removal of the plain file, second checksum, retention by age; choice,
  confirmation, verification, decryption and replay. Contents are none, a part, whole or
  damaged. Either script may die between two commands, and a file may decay.

**SyncClient** is the sync engine on the page's event loop, one action per
`await`, with `localStorage` (`stored`) that may refuse a write, answers that
are lost after the server has processed the post (`Unheard`), and reloads.
The filter for unsynced actions is the recursive function `Unsynced`, so that it
can be reasoned about; the history `log` is the order the cashier acted in.
**OfflineSync** replaces the server by the API of this repository: the guard
and the schema of `POST /sync/push` against the headers and fields the engine
sends.

## 3. Runs

| Run | Instance | Shows |
|---|---|---|
| `settlement_concurrent` | 2 requests, 1 order, 2 invoices, 3 payments, 2 keys, bill 3, amounts 1–2 | what survives every interleaving: balance, backing, coverage, one charge per key, the backed ledger |
| `settlement_serial` | 1 request, 2 orders, 3 invoices, 4 payments | one at a time: exact ledger, one invoice per order, order follows invoice, refunds in bounds |
| `foh_races` | 2 requests, 1 order, 2 tables, 1 invoice, 2 payments, versions up to 3 | whatever races: an order becomes PAID by money or by hand, and only three stale or manual writes leave a table taken by nobody |
| `foh_terminals` | 2 requests, 2 takeaway orders, 2 lines, 1 invoice, 1 sync id, a ticket, restarts | retries, cancellations and crashes: one order per sync id, totals and invoices name every kept line, a version tells every change |
| `sync_queue` | 3 actions, 1 reload | no stored action is lost, order kept, honest badge, every pass ends, the queue drains |
| `standalone` | each separate part on its own; sizes below | one property or more per part: stock nobody crossed, one open drawer, payments last, exact splits, recent rights, recorded answers, one seed, kept and verified archives, shift reports, picked targets, bills |
| `settlement_overpaid` | 2 requests | **violated**: payments of a paid invoice exceed its total |
| `foh_events` | 1 request, 1 table | **violated**: clients are told AVAILABLE while guests sit |
| `foh_versions` | 2 requests, 1 order | **violated**: two transitions of one version both commit |
| `sync_api` | 2 actions | **violated**: the terminal's posts never pass the API |
| `stock_race` | 2 clerks | **violated**: a concurrent movement is lost from the stock |
| `terminal_receipt` | the page | **violated**: no receipt shows the order that was paid |

Read the pairs together. One request at a time has an exact ledger; with two,
payments overpay an invoice (`PaidExactly`). An ingredient that no two requests
had in hand is exact (`UncrossedIsExact`, two clerks); one that two had loses a
movement (`StockFollowsLedger`). The properties of `foh_races` and
`foh_terminals` are what remains true of tables, orders and totals for two.

**Bounds.** A bill of 3 with amounts of 1 and 2 is the least where a part
payment can be lost, restored and paid again; two invoices of one order come
from two `generateInvoice` that both found none, and three payments let a third
read what two concurrent ones left. Two requests are enough for each race here:
each is a read that another commit makes old. `MaxVersion` = 3 lets an order
be created and changed twice (a change, and a change based on it);
`MaxReloads` = 1 puts a reload anywhere in a pass and in the passes after it.

The API admits every `OrderStatus` and every `TableStatus` from a client. The
instances of `foh_races`, `foh_events` and `foh_versions` have one member of each
class the handlers tell apart: BILL_REQUESTED, PAID, COMPLETED and CANCELLED
each, and BILLED for those nobody asks about; AVAILABLE, OCCUPIED and
BILL_REQUESTED each, and CLEANING for RESERVED and OUT_OF_SERVICE. `foh_terminals`
has CANCELLED (closes an order) and BILLED (opens it again), which keeps two
orders with two lines within reach. The theorems hold for every set.

In `foh_races` the order has one line, dine-in, and its invoice of 22 is settled
by a payment of 11 and a split of the rest, or a split into 11 and 11; in `foh_terminals` the orders are TAKEAWAY, where create and
cancelItem charge different rates. `foh_races` and `foh_terminals` have the VIEW
`Observed`, which leaves out `shown` and the tickets: no guard, and none of the
properties of these runs, reads them.

| Part of `standalone` | Bounds | Why they are enough |
|---|---|---|
| inventory | 2 clerks, 2 ingredients, 2 movement rows, opening stock 2 | two requests cross on one ingredient or work on two; stock is consumed to 0, wasted beyond 0, restocked |
| cashier | 2 terminals, 2 cashiers, 3 sessions | two terminals open a drawer for one cashier, for two, or one while another closes |
| access | 1 user who may change role, 1 device, tokens of 2 and 3 ticks, 5 ticks | a refresh after the change, and a token that outlives it |
| sync | 2 requests, 2 ids, batches of 2, 1 retry | the same item in both requests, twice in one, and beside another |
| seed | 2 runs, 2 copies | a run beside, or after, one that stopped anywhere |
| backup | days 1 and 2, retention 0 days | a complete backup, then a run of the next day that fails anywhere |
| terminal | 2 items, 1 portion each, 2 actions, 1 reload | an order and its payment, two payments, the same number after a reload |
| drawer window | moved cash up to 2 | pay-ins and pay-outs, zero amounts, a surplus and a shortage |
| table window | 2 floors, 3 tables | a target on the floor that is not shown |
| admin tables | 3 tables, 1 further party | a taken, a free and an upstairs table, and a second party at each |

Bounds are guards named in the modules; deadlock is not checked, since a
restaurant may stop and since the bounded instances run out of ids.

**Symmetry** is used in the settlement and front-of-house runs, which check
safety only and where ids are only compared.

**Fairness** is assumed in `SyncClient` only. `PassFairness`: a `fetch` is
answered or fails, and the loop goes on, which the event loop guarantees.
`ButtonFairness`: the cashier presses the button while there is something to
sync; the code has no timer, so without this nothing would ever be sent.
`ServerFairness` (strong, per action): an action posted again and again is
confirmed in the end; it describes a server that works, and `OfflineSync` drops
it for the API of this repository. `PassEnds` needs only the first.

## 4. Proofs

Every safety property of a passing run is a theorem, for every value of the
constants under the named assumptions of the modules that declare them (ids
differ from null, totals and prices are natural numbers, request amounts are at
least 1, bounds are at least what the code always needs). Where a theorem has a
further hypothesis, the table names it.

### Settlement (`MoneyProofs`, `SettlementProofs`)

| Theorem | Property |
|---|---|
| `TypeCorrect` | `TypeOK` |
| `Balance` | `LedgerBalanced` |
| `Backing` | `CreditIsBacked` |
| `PaidCoverage` | `PaidIsCovered` |
| `OneCharge` | `OneChargePerKey` |
| `PaidOrderCoverage` | `PaidOrderIsCovered` |
| `LedgerRefinement` | `ImplementsBackedLedger` |
| with `OneAtATime`: `SerialPaid`, `SerialInvoices`, `SerialOrders`, `SerialRefunds` | `PaidExactly`, `OneInvoicePerOrder`, `OrderFollowsInvoice`, `RefundWithinPayment` |
| with `OneAtATime`: `SerialLedger` | `ImplementsExactLedger` |

The invariants are not inductive as they stand: a commit writes columns that
were computed from an old row. `MoneyInv` adds what makes an old row harmless
(`SnapshotSound`): it was balanced and backed when it was read, what was
collected for its invoice has only grown since, and the amount that fitted its
due amount still fits it; no service writes an invoice's order or total, so
these two columns are still current. `PaidIsCovered` follows, since a paid row
has nothing due and is balanced. `PaidOrderIsCovered` is inductive because
`collected` never decreases although `isPaid` may.

`MoneyProofs` shows, action by action, that billing and payments keep
`MoneyInv`, and that anything that leaves the rows of money and the handlers of
these two services alone keeps it too (`OthersKeep`). The refinement adds that a
step either tenders on one bill or leaves both maps alone.

The second group assumes `OneAtATime`, that all workers are the same one. What it
says is false otherwise: `settlement_overpaid` is the counterexample. Its
invariant `SerialMoneyInv` says that what a handler has in hand is what the rows
still say (`BillingFresh`, `PaymentsFresh`) and that every amount collected was
credited (`CreditIsExact`), which also turns the backed ledger into the exact one.

### Front of house (`FrontOfHouseProofs`)

| Theorem | Property | Hypotheses |
|---|---|---|
| `HouseTypes` | `TypeOK` | |
| `OneOrderPerSyncId` | `SyncOnce` | |
| `VersionsTell` | `VersionTellsChanges` | |
| `HouseMoney` | `LedgerBalanced`, `CreditIsBacked`, `PaidIsCovered`, `OneChargePerKey` | |
| `HouseLedger` | `ImplementsBackedLedger` | |
| `PaidForOrSetByHand` | `PaidForOrSet` | |
| `KeptLinesAreCharged` | `LinesAreCharged` | |
| `GhostsAreLeftByStaleHands` | `GhostsAreStale` | |
| `SerialTransitions` | `NoLostTransition` | `OneAtATime` |
| `SerialHouseMoney` | `PaidExactly`, `OneInvoicePerOrder`, `RefundWithinPayment` | `OneAtATime` |
| `SerialHouseLedger` | `ImplementsExactLedger` | `OneAtATime` |
| `SerialGhosts` | only a status set by hand leaves a table taken by nobody | `OneAtATime` |

`HouseInv` is `MoneyInv` with the types of the other services, `SyncOnce`, and
what their handlers have read of rows that are never deleted (`OrdJobsSound`,
`MoveJobsSound`): the order a handler holds exists, its tables are tables.
`SyncOnce` needs no more, since the unique index decides at the commit, not the
look-up that `create` makes first. None of the theorems without `OneAtATime`
assumes anything about the statuses a client may set, the number of requests or
the prices.

`PaidForOrSet` follows from `MoneyInv`, step by step: `payments.create` closes an
order only when the row it writes has nothing due, that row is balanced and its
credit is backed by what was collected, and a balanced split covers the bill.

`LinesAreCharged` needs a strengthening (`LinesSound`): what a handler has in
hand is as sound as the rows. A bill about to be committed names every line that
is kept *by then* (lines are only ever cancelled, so a set that was large enough
stays so), and what `cancelItem` has summed up holds every line but its own that
is still kept. A line missed by one of two crossing cancellations is charged too
much, never too little, which is what the property allows.

`GhostsAreStale` is about single steps, from any state in which `HouseInv` holds:
each action either leaves the tables and the open orders on them alone, or takes
a table for an order it leaves open there, or closes an order and frees its
table, or is one of the three that are named.

`SerialHouseInv` adds `HandsFresh`: the version, the order to move and the table
to bill that a handler has read are still so at its commit. With it two of the
three ways to leave a table taken by nobody are impossible (`SerialGhosts`).

### Offline queue (`SyncClientProofs`)

| Theorem | Property |
|---|---|
| `QueueTypes` | `TypeOK` |
| `HonestBadge` | `BadgeIsHonest` |
| `NothingOvertakes` | `InOrder` |
| `NothingForgotten` | `StoredUntilTaken` |

`QueueInv` says what ties the two copies of the queue: whatever is in
`localStorage` and was not processed is waiting in memory too, so that the copy
a pass writes over `localStorage` at its end forgets nothing. That `Unsynced` keeps
exactly the unsynced actions, in order, is proved by induction on the length of
the queue.

### Separate parts (`StandaloneProofs`, `TerminalProofs`, `BillingRulesProofs`)

`PartSteps` says that a step of the system is a step of the part that moves or
leaves a part alone, so that each part has an inductive invariant of its own:

| Theorem | Property | What makes it inductive |
|---|---|---|
| `StandaloneTypes` | `TypeOK` | the invariants below, put together |
| `UncrossedStock` | `UncrossedIsExact` | `InventoryInv`: a request that is alone with its ingredient (`Alone`) has a balance that fits the row, and a movement row later than all of it |
| `AppliedIsRecorded` | `AnsweredIsRecorded` | `SyncInv`: a handler's APPLIED results are recorded before it answers |
| `RecentRights` | `RightsAreRecent` | `AccessInv`: a token that is valid was signed of rights in force when it was issued, and these are still remembered |
| `OneDrawer` | `OneOpenDrawer` | `CashierInv`: a request alone in opening a drawer for a cashier finds none open when it commits (`SoleOpener`) |
| `ShiftsAddUp` | `ShiftReportAddsUp` | `DrawerInv`: the window's movements add up to those of the shift |
| `TargetsArePicked` | `ConfirmedAsPicked` | `TableWindowInv`: the target is the table that was picked |
| `BillsAreOfGuests` | `BillOfGuests` | `AdminTablesInv`: one lemma for the update all buttons share |
| `SeededOneTime` | `SeededOnce` | `SeedInv`: the first `create` against a unique key is a gate (`Gate`); at most one run is behind it, and what is behind it was written by that run |
| `LatestArchive` | `ArchiveKept` | `BackupInv`: a file is dated no earlier than its day, a run that prunes has its own archive, and it is not older than the retention |
| `VerifiedRestoration` | `VerifiedIsWhole` | `PlainInv`, on top of `BackupInv`: without encryption a checksum was made of a whole dump, and the file a restoration reads is not replaced |
| `PaymentsAreLast` | `PaidLast` | `OutboxSound`: no entry of this page has a number above the current one, and a paid one is below it |
| `BillSplitsFairly` | `SplitsFairly` | state types only; `SplitIsFair` does the rest |
| `BillIsOfCart` | `BillFollowsCart` | state types only; the lemmas on sums and roundings do the rest |

`SeededOnce` is about the table numbers and what comes after them in the script.
Printers, floors and sections have no unique key and come before: every run
writes them again. `BillOfGuests` leaves a bill on a card that is being cleaned,
after its party has left, and says nothing of order numbers. `ShiftReportAddsUp`
starts when the window is opened: what was entered in a window that was closed
without a report is in no report.

`BillingRulesProofs` is about the pure functions, for every input: `SplitIsFair`
(equal shares add up to the total and differ by one minor unit at most) and
`PercentRounds` (a rounded percentage is off by half a unit at most). Totals are
folds over a finite map. What a fold computes needs an induction, which the
library's theorems state with an operator parameter; here the good subsets are a
*set*, and a least bad one is refuted by well-foundedness (`SubsetInduction`; `UpTo`
in `SyncClientProofs` does the same for numbers).

### Only model-checked

`PassEnds` and `Drains` are liveness properties under fairness, which the prover
does not reach. Of the violated properties, `PaidExactly` and
`NoLostTransition` are proved for one request at a time, and of
`StockFollowsLedger` what is proved is `UncrossedIsExact`. `ClientsSeeTables`,
`ReceiptIsOfPaidOrder`, and `Drains` against the API, fail even then.

## 5. Where the code and what is said of it disagree

Six runs end in a violation; `findings` in `PROJECT.json` quotes the lines.
(1) Concurrent payments overwrite each other's `paidAmount`. (2) `updateStatus`
broadcasts AVAILABLE for a table that stays OCCUPIED. (3) The optimistic
version is compared outside the transaction that increments it. (4) The sync
engine's posts carry neither a token nor the fields the API parses. (5) Stock
is written as an absolute balance from an old read. (6) The receipt is opened
over a cart that the same handler has emptied and an order number it has counted up.

These further disagreements show in reading, without a run:

* `docs/offline-sync.md:23-26` has the server create the order before it answers
  APPLIED; `sync.service.ts:35-52` only records a SyncQueue row with that status.
  `AnsweredIsRecorded` is about that row.
* `docs/security.md:7` says that refresh tokens are stored and can be revoked;
  `auth.service.ts` signs and verifies them and stores none.
* `login`, `pinLogin` and `refresh` look at `User.isActive` and never at
  `Staff.status`: a staff member who is suspended there keeps every right.
* `cancelItem` charges kept items times 1.1 (`orders.service.ts:395`), while
  `create` and the invoice charge 5% and, for DINE_IN only, 5% service
  (`orders.service.ts:187-191`, `docs/billing.md`, section 2).
* The invoice leaves variants out and takes the prices of the menu by then
  (`billing.service.ts:61-67`): it need not agree with the order's total.
* `docs/kitchen.md:27-28` has the tickets of a cancelled order or item become
  CANCELLED; `updateStatus` and `cancelItem` leave the tickets alone.
* A transfer does not increment the order's version (`tables.service.ts:130`).

## 6. Not modelled, and why

* `OrdersService.addItems` has no caller; `KitchenService.updatePriority`
  changes only how a list is sorted; `SyncService.getDeltaPull` only reads.
* How an order is priced: three constant functions of its lines stand for the
  three calculations, and `BillingRules` has the rules they share. A menu
  whose prices change between an order and its second bill is left out.
* The permissions guard decides on the token as the roles guard does.
* Staff, menu, floors, restaurant, audit, reports, health and providers read,
  or write single rows on which nothing else decides.
* The other admin pages have fixed sample data: the kitchen display takes its
  four tickets off the screen into a list nothing reads, the inventory page
  subtracts a logged quantity from one row, the order list filters, the menu page
  switches one flag. No step of theirs relates two pieces of state. The
  captain app has a cart like the terminal's without dialogs.
* Edge and cloud deployment: only the restart of the API is used
  (`FrontOfHouse`), and the directory of the backups. Uploads of archives leave
  no local state.
* Events other than TABLE_UPDATED, and rooms of the gateway: no client keeps
  state from them.

## 7. Plan

1. *Done*: settlement with its abstract ledger; front of house; offline queue;
   the separate parts.
2. *Done*: proofs of every safety property that a passing run checks, and of both
   refinements in both compositions.
3. *Done*: what the concurrent front of house keeps: `PaidForOrSet`,
   `LinesAreCharged`, `GhostsAreStale`.
4. `Terminal` composed with `SyncClient`: what is posted is a prefix of the outbox.
5. More lemmas of `BillingRules`: discounts, and inclusive taxes against exclusive
   ones.
