------------------------------ MODULE Billing ------------------------------
(***************************************************************************)
(* BillingService.generateInvoice: from an order to its invoice.           *)
(*                                                                         *)
(* The handler awaits the database three times: it reads the order with    *)
(* its lines, it looks for an invoice the order already has, and it        *)
(* commits a transaction with what it read first.  Other requests run      *)
(* between these steps.                                                    *)
(***************************************************************************)
EXTENDS Store

\* Per order type, what the invoice charges for a set of lines.  It is not what create has
\* charged: variants are left out, and the prices are those of the menu by now.
CONSTANT InvoiceTotal

ASSUME InvoiceTotalAssumption == InvoiceTotal \in [OrderType -> [SUBSET Lines -> Nat]]

VARIABLE bill   \* per request in flight, generateInvoice's local variables

BillPhase == {"idle", "check", "tx", "notify"}

BillJob == [phase: BillPhase, orderId: Orders \cup {None}, tableId: Tables \cup {None},
            grandTotal: Nat]

BillIdle == [phase |-> "idle", orderId |-> None, tableId |-> None, grandTotal |-> 0]

BillingTypeOK ==
  /\ bill \in [Workers -> BillJob]
  /\ \A w \in Workers :
       /\ bill[w].phase \in {"check", "tx"} => bill[w].orderId \in placed
       /\ bill[w].phase = "notify" => bill[w].tableId \in Tables

BillingInit == bill = [w \in Workers |-> BillIdle]

-----------------------------------------------------------------------------

Unbillable == Closed

\* Mutant: paid invoices are not looked at.
OpenInvoiceOf(o) == \E i \in issued : invoice[i].orderId = o /\ ~ invoice[i].isPaid

InvoiceOf(o) == \E i \in issued : invoice[i].orderId = o

\* tx.invoice.create
NewInvoice(job) ==
  [orderId |-> job.orderId, grandTotal |-> job.grandTotal, paidAmount |-> 0,
   dueAmount |-> job.grandTotal, isPaid |-> FALSE]

\* The order with its lines that are not cancelled; the total follows from them.
BillRead(w, o) ==
  /\ bill[w] = BillIdle
  /\ o \in placed
  /\ order[o].status \notin Unbillable
  /\ bill' = [bill EXCEPT ![w] = [phase |-> "check", orderId |-> o,
                                  tableId |-> order[o].tableId,
                                  grandTotal |-> InvoiceTotal[order[o].orderType][active[o]]]]
  /\ UNCHANGED storeVars

\* An invoice found is the answer.
BillReplay(w) ==
  /\ bill[w].phase = "check"
  /\ InvoiceOf(bill[w].orderId)
  /\ bill' = [bill EXCEPT ![w] = BillIdle]
  /\ UNCHANGED storeVars

BillMiss(w) ==
  /\ bill[w].phase = "check"
  /\ ~ InvoiceOf(bill[w].orderId)
  /\ bill' = [bill EXCEPT ![w].phase = "tx"]
  /\ UNCHANGED storeVars

BillCommit(w, i) ==
  LET job == bill[w] IN
  /\ job.phase = "tx"
  /\ i \in Invoices \ issued
  /\ issued' = issued \cup {i}
  /\ invoice' = [invoice EXCEPT ![i] = NewInvoice(job)]
  /\ order' = [order EXCEPT ![job.orderId] = WithStatus(@, "BILLED")]
  /\ SetTable(job.tableId, "BILL_REQUESTED")
  /\ bill' = [bill EXCEPT ![w] = IF job.tableId = None THEN BillIdle
                                 ELSE [job EXCEPT !.phase = "notify"]]
  /\ UNCHANGED <<placed, active, shown>>

BillNotify(w) ==
  /\ bill[w].phase = "notify"
  /\ Hear(bill[w].tableId, "BILL_REQUESTED")
  /\ bill' = [bill EXCEPT ![w] = BillIdle]
  /\ UNCHANGED <<placed, order, active, table, issued, invoice>>

\* A read or the transaction fails: the invoice number of the millisecond is taken,
\* the connection drops, the transaction times out.  Nothing is written.
BillAbort(w) ==
  /\ bill[w].phase \in {"check", "tx"}
  /\ bill' = [bill EXCEPT ![w] = BillIdle]
  /\ UNCHANGED storeVars

BillingNext(w) ==
  \/ \E o \in Orders : BillRead(w, o)
  \/ BillReplay(w)
  \/ BillMiss(w)
  \/ \E i \in Invoices : BillCommit(w, i)
  \/ BillNotify(w)
  \/ BillAbort(w)
=============================================================================
