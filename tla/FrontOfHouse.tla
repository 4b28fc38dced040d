---------------------------- MODULE FrontOfHouse ----------------------------
(***************************************************************************)
(* Orders, kitchen tickets, tables, billing and payments together: the     *)
(* rows they share, every request of theirs, in any interleaving.          *)
(***************************************************************************)
EXTENDS Orders, TableService, Money

CONSTANTS MaxVersion,  \* bound: the highest version of an order
          CanRestart   \* the API process may crash and start again

ASSUME BoundAssumption == MaxVersion \in Nat /\ CanRestart \in BOOLEAN

requests == <<ord, move, bill, pay>>
vars == <<storeVars, orderRows, paymentRows, requests>>

Init ==
  /\ placed = {}
  /\ order = [o \in Orders |-> BlankOrder]
  /\ active = [o \in Orders |-> {}]
  /\ table = [t \in Tables |-> "AVAILABLE"]
  /\ issued = {}
  /\ invoice = [i \in Invoices |-> BlankInvoice]
  /\ shown = table
  /\ KitchenInit
  /\ OrdersInit
  /\ TableServiceInit
  /\ BillingInit
  /\ PaymentsInit

OrdersStep(w) ==
  /\ <<move[w], bill[w], pay[w]>> = <<MoveIdle, BillIdle, PayIdle>>
  /\ OrdersNext(w)
  /\ UNCHANGED <<paymentRows, move, bill, pay>>

TablesStep(w) ==
  /\ <<ord[w], bill[w], pay[w]>> = <<OrdIdle, BillIdle, PayIdle>>
  /\ TableServiceNext(w)
  /\ UNCHANGED <<orderRows, paymentRows, ord, bill, pay>>

BillingStep(w) ==
  /\ <<ord[w], move[w], pay[w]>> = <<OrdIdle, MoveIdle, PayIdle>>
  /\ BillingNext(w)
  /\ UNCHANGED <<orderRows, paymentRows, ord, move, pay>>

PaymentsStep(w) ==
  /\ <<ord[w], move[w], bill[w]>> = <<OrdIdle, MoveIdle, BillIdle>>
  /\ PaymentsNext(w)
  /\ UNCHANGED <<orderRows, ord, move, bill>>

KitchenStep == KitchenNext /\ UNCHANGED <<lines, syncId, paymentRows, requests>>

\* The process ends between two steps: transactions that are open roll back, events that
\* are not sent are lost, and the rows stay.
Restart ==
  /\ CanRestart
  /\ ord' = [w \in Workers |-> OrdIdle]
  /\ move' = [w \in Workers |-> MoveIdle]
  /\ bill' = [w \in Workers |-> BillIdle]
  /\ pay' = [w \in Workers |-> PayIdle]
  /\ UNCHANGED <<storeVars, orderRows, paymentRows>>

Next ==
  /\ \/ \E w \in Workers : OrdersStep(w) \/ TablesStep(w) \/ BillingStep(w) \/ PaymentsStep(w)
     \/ KitchenStep
     \/ Restart
  /\ \A o \in Orders : order'[o].version <= MaxVersion

Spec == Init /\ [][Next]_vars

TypeOK == MoneyTypeOK /\ KitchenTypeOK /\ OrdersTypeOK /\ TableServiceTypeOK

Quiet == \A w \in Workers : <<ord[w], move[w], bill[w], pay[w]>>
                            = <<OrdIdle, MoveIdle, BillIdle, PayIdle>>

-----------------------------------------------------------------------------
\* Whatever the interleaving, and across restarts.

\* A sync id is used for one order only, however often and wherever a terminal retries.
SyncOnce == \A s \in SyncIds : \A o, p \in SyncedAs(s) : o = p

\* Whoever keeps a version and finds it unchanged has missed no change of the order's
\* status or total, and never sees a version again (docs/database.md, section 1.3).
VersionTellsChanges ==
  [][\A o \in placed :
       /\ order'[o].version >= order[o].version
       /\ order'[o].version = order[o].version =>
            /\ order'[o].status = order[o].status
            /\ order'[o].grandTotal = order[o].grandTotal
            /\ active'[o] = active[o]]_vars

\* The total of an order that has lost no line is create's; of one that has, it is cancelItem's
\* for some of its lines, those it has kept among them.
Charged(o) ==
  IF active[o] = lines[o]
  THEN order[o].grandTotal = GrandTotal[order[o].orderType][lines[o]]
  ELSE \E S \in SUBSET lines[o] : /\ active[o] \subseteq S /\ S # lines[o]
                                  /\ order[o].grandTotal = CancelTotal[S]

Billed(o, total) ==
  \E S \in SUBSET lines[o] : /\ active[o] \subseteq S
                             /\ total = InvoiceTotal[order[o].orderType][S]

\* What the guests are asked for: a bill may still name lines that were cancelled while it
\* was made out, but it names every line they keep, and none they have not ordered, whichever
\* requests were summing up, failing or billing in between (orders.service.ts:378-405 and
\* billing.service.ts:22-89).
LinesAreCharged ==
  /\ \A o \in placed : Charged(o)
  /\ \A i \in issued : Billed(invoice[i].orderId, invoice[i].grandTotal)

\* An order becomes PAID because somebody asks updateStatus for it, or because an invoice of
\* it has been paid in full by then; no other handler, however stale what it has read, makes
\* it so (payments.service.ts:97-104 and 185-191).
PaidForOrSet ==
  [][\A o \in placed :
       order[o].status # "PAID" /\ order'[o].status = "PAID" =>
         \/ \E w \in Workers : StatusCommit(w) /\ ord[w].orderId = o
         \/ \E i \in issued : /\ invoice[i].orderId = o
                              /\ collected'[i] >= invoice[i].grandTotal]_vars

\* A table that is taken although no order on it is open.
Ghost(t) == table[t] \in {"OCCUPIED", "BILL_REQUESTED"} /\ ActiveOn(t) = {}

\* Nothing but three things leaves a table taken by nobody: the staff set its status by hand,
\* a transfer commits for an order that was closed or moved away since it was found, and an
\* invoice is committed for an order that was moved since it was read (orders.service.ts:
\* 467-483, payments.service.ts:97-113, tables.service.ts:43-88, billing.service.ts:105-118).
GhostsAreStale ==
  [][\A t \in Tables :
       Ghost(t)' /\ ~ Ghost(t) =>
         \E w \in Workers :
           \/ \E s \in TableTargets : SetStatus(w, t, s)
           \/ TransferCommit(w) /\ move[w].orderId \notin ActiveOn(move[w].from)
           \/ /\ \E i \in Invoices : BillCommit(w, i)
              /\ order[bill[w].orderId].tableId # bill[w].tableId]_vars

\* What these rest on: the handlers work on orders and tables that exist.
OrdJobsSound ==
  \A w \in Workers :
    /\ ord[w].phase \in {"status", "cancel", "sum"} => ord[w].orderId \in placed
    /\ ord[w].phase = "status" => ord[w].to \in StatusTargets
    /\ ord[w].phase = "notify" => ord[w].tableId \in Tables

MoveJobsSound ==
  \A w \in Workers :
    /\ move[w].phase \in {"find", "tx", "notify"} => move[w].from \in Tables
    /\ move[w].phase # "idle" => move[w].to \in Tables
    /\ move[w].phase = "tx" => move[w].orderId \in placed

HouseInv == /\ MoneyInv
            /\ KitchenTypeOK
            /\ OrdersTypeOK
            /\ TableServiceTypeOK
            /\ OrdJobsSound
            /\ MoveJobsSound
            /\ SyncOnce

\* What makes LinesAreCharged inductive: so it is with what the handlers have in hand.
CancelSound(w) ==
  LET job == ord[w] IN
  /\ job.phase \in {"cancel", "sum"} => job.line \in lines[job.orderId]
  /\ job.phase = "sum" => /\ job.kept \subseteq lines[job.orderId] \ {job.line}
                          /\ active[job.orderId] \ {job.line} \subseteq job.kept

LinesSound ==
  /\ LinesAreCharged
  /\ \A o \in placed : active[o] \subseteq lines[o]
  /\ \A w \in Workers :
       /\ bill[w].phase \in {"check", "tx"} => Billed(bill[w].orderId, bill[w].grandTotal)
       /\ CancelSound(w)

-----------------------------------------------------------------------------
\* With one request at a time.

\* What a handler has read is still so when it commits.
HandsFresh ==
  \A w \in Workers :
    /\ ord[w].phase = "status" => ord[w].version = order[ord[w].orderId].version
    /\ move[w].phase = "tx" => move[w].orderId \in ActiveOn(move[w].from)
    /\ bill[w].phase \in {"check", "tx"} =>
         order[bill[w].orderId].tableId = bill[w].tableId

SerialHouseInv == HouseInv /\ SerialMoneyInv /\ HandsFresh

\* updateStatus only overwrites the version the client has seen (orders.service.ts:441).
NoLostTransition ==
  [][\A w \in Workers : \A o \in placed :
       StatusCommit(w) /\ ord[w].orderId = o => order[o].version = ord[w].version]_vars

\* Once all handlers are done, the clients show every table as it is.
ClientsSeeTables == Quiet => shown = table
=============================================================================
