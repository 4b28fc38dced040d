------------------------------- MODULE Store -------------------------------
(***************************************************************************)
(* The rows of the central PostgreSQL database that several services of    *)
(* the API share (prisma/schema.prisma), and the table map the clients     *)
(* build from the TABLE_UPDATED events of the gateway.  The services keep  *)
(* no state of their own between requests: a handler reads rows, decides,  *)
(* and then commits a transaction whose values come from what it has read. *)
(***************************************************************************)
EXTENDS Integers

CONSTANTS Workers,   \* the requests the API can have in flight
          Orders,    \* ids of orders
          Lines,     \* the lines an order can have
          Tables,    \* ids of tables
          Invoices,  \* ids of invoices
          None,      \* a nullable column holding null
          GrandTotal \* per order type, what OrdersService.create charges for a set of lines

ASSUME NoneAssumption == None \notin Orders \cup Tables \cup Invoices \cup Workers

OrderType == {"DINE_IN", "TAKEAWAY", "DELIVERY"}

\* Amounts are integers in minor units, never negative.
ASSUME GrandTotalAssumption == GrandTotal \in [OrderType -> [SUBSET Lines -> Nat]]

VARIABLES placed,    \* ids of the order rows that exist
          order,     \* Order rows
          active,    \* per order, its OrderItem rows with isCancelled = false
          table,     \* Table rows: their status
          issued,    \* ids of the invoice rows that exist
          invoice,   \* Invoice rows
          shown      \* the table status the clients last heard

storeVars == <<placed, order, active, table, issued, invoice, shown>>

OrderStatus == {"DRAFT", "CONFIRMED", "KOT_CREATED", "PREPARING", "READY", "SERVED",
                "BILL_REQUESTED", "BILLED", "PAID", "COMPLETED", "CANCELLED"}

\* Statuses the services treat as the end of an order.
Closed == {"COMPLETED", "CANCELLED"}

TableStatus == {"AVAILABLE", "OCCUPIED", "RESERVED", "BILL_REQUESTED", "CLEANING",
                "OUT_OF_SERVICE"}

OrderRow == [orderType: OrderType, status: OrderStatus, version: Nat,
             tableId: Tables \cup {None}, grandTotal: Nat]

InvoiceRow == [orderId: Orders \cup {None}, grandTotal: Nat, paidAmount: Nat,
               dueAmount: Nat, isPaid: BOOLEAN]

\* The value of the row of an id that is not in the table yet.
BlankOrder == [orderType |-> "DINE_IN", status |-> "DRAFT", version |-> 0, tableId |-> None,
               grandTotal |-> 0]
BlankInvoice == [orderId |-> None, grandTotal |-> 0, paidAmount |-> 0, dueAmount |-> 0,
                 isPaid |-> FALSE]

StoreTypeOK ==
  /\ placed \subseteq Orders
  /\ order \in [Orders -> OrderRow]
  /\ active \in [Orders -> SUBSET Lines]
  /\ table \in [Tables -> TableStatus]
  /\ issued \subseteq Invoices
  /\ invoice \in [Invoices -> InvoiceRow]
  /\ shown \in [Tables -> TableStatus]

\* tx.order.update({ status: s, version: { increment: 1 } })
WithStatus(row, s) ==
  [orderType |-> row.orderType, status |-> s, version |-> row.version + 1,
   tableId |-> row.tableId, grandTotal |-> row.grandTotal]

\* tx.table.update({ where: t, data: { status: s } }), skipped for an order with no table.
SetTable(t, s) == table' = IF t = None THEN table ELSE [table EXCEPT ![t] = s]

\* broadcastEvent(TABLE_UPDATED, t, s), as the clients apply it.
Hear(t, s) == shown' = [shown EXCEPT ![t] = s]
=============================================================================
