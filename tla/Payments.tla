------------------------------ MODULE Payments ------------------------------
(***************************************************************************)
(* PaymentsService: create, splitBill and refund.                          *)
(*                                                                         *)
(* Each handler reads rows, checks them, and then commits a transaction    *)
(* that writes values computed from the rows it has read: no row is locked *)
(* or read again, and PostgreSQL runs at READ COMMITTED.  The              *)
(* transactions read nothing (create and splitBill) or only write rows one *)
(* after the other that start with the same row, so each commit is one     *)
(* step.                                                                   *)
(***************************************************************************)
EXTENDS Store, Functions, FiniteSets

CONSTANTS PaymentIds,  \* ids of payments
          Keys,        \* idempotency keys the clients choose
          Amounts      \* amounts a request can carry

ASSUME KeyAssumption == None \notin Keys

\* createPaymentSchema, splitBillSchema, refundPaymentSchema: int().min(1)
ASSUME AmountAssumption == Amounts \subseteq Nat \ {0}

VARIABLES made,      \* ids of the payment rows that exist
          payment,   \* Payment rows, with the sum of their Refund rows
          collected, \* history: per invoice, the sum of the payments made on it
          pay        \* per request in flight, the handler's local variables

paymentRows == <<made, payment, collected>>
paymentsVars == <<made, payment, collected, pay>>

PaymentStatus == {"PENDING", "SUCCESS", "FAILED", "REFUNDED", "PARTIALLY_REFUNDED", "VOIDED"}

PaymentRow == [invoiceId: Invoices \cup {None}, amount: Nat, key: Keys \cup {None},
               status: PaymentStatus, refunded: Nat]

BlankPayment == [invoiceId |-> None, amount |-> 0, key |-> None, status |-> "PENDING",
                 refunded |-> 0]

PayPhase == {"idle", "lookup", "tx", "split", "refund", "notify"}

\* seen, tableId: the invoice row and its order's table as read; refunded: the sum of
\* the payment's refunds as read.
PayJob == [phase: PayPhase, invoiceId: Invoices \cup {None}, seen: InvoiceRow,
           tableId: Tables \cup {None}, amount: Nat, key: Keys \cup {None},
           paymentId: PaymentIds \cup {None}, refunded: Nat]

PayIdle == [phase |-> "idle", invoiceId |-> None, seen |-> BlankInvoice, tableId |-> None,
            amount |-> 0, key |-> None, paymentId |-> None, refunded |-> 0]

Collecting == {"lookup", "tx", "split"}

PaymentsTypeOK ==
  /\ made \subseteq PaymentIds
  /\ payment \in [PaymentIds -> PaymentRow]
  /\ collected \in [Invoices -> Nat]
  /\ pay \in [Workers -> PayJob]
  /\ \A w \in Workers :
       /\ pay[w].phase \in Collecting =>
            pay[w].invoiceId \in issued /\ pay[w].seen.orderId \in Orders
       /\ pay[w].phase \in {"lookup", "tx", "refund"} => pay[w].amount \in Amounts
       /\ pay[w].phase = "refund" => pay[w].paymentId \in made
       /\ pay[w].phase = "notify" => pay[w].tableId \in Tables

PaymentsInit ==
  /\ made = {}
  /\ payment = [p \in PaymentIds |-> BlankPayment]
  /\ collected = [i \in Invoices |-> 0]
  /\ pay = [w \in Workers |-> PayIdle]

-----------------------------------------------------------------------------
\* What the handlers compute.

\* Mutant: keys are not looked up and have no unique index.
KeyNeverTaken(k) == FALSE

KeyTaken(k) == \E p \in made : payment[p].key = k

\* Mutants: the due amount is forgotten; the whole due is credited; the paid amount is
\* replaced instead of added to.
CreditedWithoutDue(seen, amount) ==
  [seen EXCEPT !.paidAmount = @ + amount, !.isPaid = amount = seen.dueAmount]

CreditedInWhole(seen, amount) ==
  [seen EXCEPT !.paidAmount = seen.grandTotal, !.dueAmount = 0, !.isPaid = TRUE]

CreditedAfresh(seen, amount) ==
  [seen EXCEPT !.paidAmount = amount, !.dueAmount = seen.grandTotal - amount,
               !.isPaid = amount = seen.grandTotal]

\* The invoice row after an amount is paid on the row that was read.
Credited(seen, amount) ==
  LET paid == seen.paidAmount + amount
      rest == seen.grandTotal - paid
      due  == IF rest > 0 THEN rest ELSE 0
  IN  [orderId |-> seen.orderId, grandTotal |-> seen.grandTotal, paidAmount |-> paid,
       dueAmount |-> due, isPaid |-> due = 0]

SettledInFull(seen) ==
  [orderId |-> seen.orderId, grandTotal |-> seen.grandTotal, paidAmount |-> seen.grandTotal,
   dueAmount |-> 0, isPaid |-> TRUE]

\* tx.invoice.update: the paid amount, the due amount and isPaid.  No service ever writes
\* the other columns of an invoice, so the row that was read stands for them.
SetInvoice(i, row) == invoice' = [invoice EXCEPT ![i] = row]

NewPayment(i, amount, key) ==
  [invoiceId |-> i, amount |-> amount, key |-> key, status |-> "SUCCESS", refunded |-> 0]

SumOf(f) == FoldFunction(+, 0, f)

\* Mutant: tenders below the due amount pass too.
BalancedLoosely(seen, tenders) == SumOf(tenders) <= seen.dueAmount

\* validateSplitPayments on the due amount that was read.
Balanced(seen, tenders) == SumOf(tenders) = seen.dueAmount

\* Mutant: only the table is dealt with.
FreeTableOnly(o, t) == SetTable(t, "AVAILABLE") /\ UNCHANGED order

\* The order is PAID and its table free, whatever their statuses were.
CloseOrder(o, t) ==
  /\ order' = [order EXCEPT ![o] = WithStatus(@, "PAID")]
  /\ SetTable(t, "AVAILABLE")

\* Mutant: earlier refunds are forgotten.
RefundableInFull(p) == payment[p].amount

Refundable(p) == payment[p].amount - payment[p].refunded

RefundStatus(total, amount) == IF total = amount THEN "REFUNDED" ELSE "PARTIALLY_REFUNDED"

\* Mutant: refunds are summed up with the wrong sign.
WithNegativeRefund(row, amount, refundedSeen) == [row EXCEPT !.refunded = @ - amount]

\* A refund row is added; the status follows from the sum of refunds that was read.
WithRefund(row, amount, refundedSeen) ==
  [invoiceId |-> row.invoiceId, amount |-> row.amount, key |-> row.key,
   status |-> RefundStatus(refundedSeen + amount, row.amount),
   refunded |-> row.refunded + amount]

-----------------------------------------------------------------------------
\* create: read and check the invoice, look the key up, commit, broadcast.

ReadForPayment(w, i, phase, amount, key) ==
  pay' = [pay EXCEPT ![w] =
            [phase |-> phase, invoiceId |-> i, seen |-> invoice[i],
             tableId |-> order[invoice[i].orderId].tableId, amount |-> amount, key |-> key,
             paymentId |-> None, refunded |-> 0]]

PayRead(w, i, amount, key) ==
  /\ pay[w] = PayIdle
  /\ i \in issued
  /\ ~ invoice[i].isPaid
  /\ amount <= invoice[i].dueAmount
  /\ ReadForPayment(w, i, "lookup", amount, key)
  /\ UNCHANGED <<storeVars, paymentRows>>

\* The payment the key names is the answer.
PayReplay(w) ==
  /\ pay[w].phase = "lookup"
  /\ KeyTaken(pay[w].key)
  /\ pay' = [pay EXCEPT ![w] = PayIdle]
  /\ UNCHANGED <<storeVars, paymentRows>>

PayMiss(w) ==
  /\ pay[w].phase = "lookup"
  /\ ~ KeyTaken(pay[w].key)
  /\ pay' = [pay EXCEPT ![w].phase = "tx"]
  /\ UNCHANGED <<storeVars, paymentRows>>

\* The unique index on idempotencyKey refuses the insert of a key that is taken by now.
PayCommit(w, p) ==
  LET job  == pay[w]
      i    == job.invoiceId
      row  == Credited(job.seen, job.amount)
  IN
  /\ job.phase = "tx"
  /\ p \in PaymentIds \ made
  /\ ~ KeyTaken(job.key)
  /\ made' = made \cup {p}
  /\ payment' = [payment EXCEPT ![p] = NewPayment(i, job.amount, job.key)]
  /\ collected' = [collected EXCEPT ![i] = @ + job.amount]
  /\ SetInvoice(i, row)
  /\ IF row.isPaid THEN CloseOrder(job.seen.orderId, job.tableId)
                    ELSE UNCHANGED <<order, table>>
  /\ pay' = [pay EXCEPT ![w] = IF row.isPaid /\ job.tableId # None
                               THEN [PayIdle EXCEPT !.phase = "notify",
                                                    !.tableId = job.tableId]
                               ELSE PayIdle]
  /\ UNCHANGED <<placed, active, issued, shown>>

PayNotify(w) ==
  /\ pay[w].phase = "notify"
  /\ Hear(pay[w].tableId, "AVAILABLE")
  /\ pay' = [pay EXCEPT ![w] = PayIdle]
  /\ UNCHANGED <<placed, order, active, table, issued, invoice, paymentRows>>

-----------------------------------------------------------------------------
\* splitBill: one transaction for all tenders.  It sends no TABLE_UPDATED.

\* The request is refused here unless its tenders, two or more of at least 1 each, balance
\* the due amount.  Which tenders they are matters to the transaction only.
SplitRead(w, i) ==
  /\ pay[w] = PayIdle
  /\ i \in issued
  /\ ~ invoice[i].isPaid
  /\ invoice[i].dueAmount >= 2
  /\ ReadForPayment(w, i, "split", 0, None)
  /\ UNCHANGED <<storeVars, paymentRows>>

\* tenders: the amounts of the request, by the id their row gets; two or more of them.
SplitCommit(w, tenders) ==
  LET job == pay[w]
      i   == job.invoiceId
      new == DOMAIN tenders
  IN
  /\ job.phase = "split"
  /\ \E p, q \in new : p # q
  /\ Balanced(job.seen, tenders)
  /\ made' = made \cup new
  /\ payment' = [p \in PaymentIds |-> IF p \in new THEN NewPayment(i, tenders[p], None)
                                                   ELSE payment[p]]
  /\ collected' = [collected EXCEPT ![i] = @ + SumOf(tenders)]
  /\ SetInvoice(i, SettledInFull(job.seen))
  /\ CloseOrder(job.seen.orderId, job.tableId)
  /\ pay' = [pay EXCEPT ![w] = PayIdle]
  /\ UNCHANGED <<placed, active, issued, shown>>

-----------------------------------------------------------------------------
\* refund: the invoice and the order are left as they are.

RefundRead(w, p, amount) ==
  /\ pay[w] = PayIdle
  /\ p \in made
  /\ amount <= Refundable(p)
  /\ pay' = [pay EXCEPT ![w] = [PayIdle EXCEPT !.phase = "refund", !.paymentId = p,
                                  !.amount = amount, !.refunded = payment[p].refunded]]
  /\ UNCHANGED <<storeVars, paymentRows>>

RefundCommit(w) ==
  LET job == pay[w]
      p   == job.paymentId
  IN
  /\ job.phase = "refund"
  /\ payment' = [payment EXCEPT ![p] = WithRefund(@, job.amount, job.refunded)]
  /\ pay' = [pay EXCEPT ![w] = PayIdle]
  /\ UNCHANGED <<storeVars, made, collected>>

-----------------------------------------------------------------------------
\* A read or the transaction fails and nothing is written.
PayAbort(w) ==
  /\ pay[w].phase \in Collecting \cup {"refund"}
  /\ pay' = [pay EXCEPT ![w] = PayIdle]
  /\ UNCHANGED <<storeVars, paymentRows>>

Tenders == UNION {[S -> Amounts] : S \in SUBSET (PaymentIds \ made)}

PaymentsNext(w) ==
  \/ \E i \in Invoices, a \in Amounts, k \in Keys : PayRead(w, i, a, k)
  \/ PayReplay(w)
  \/ PayMiss(w)
  \/ \E p \in PaymentIds : PayCommit(w, p)
  \/ PayNotify(w)
  \/ \E i \in Invoices : SplitRead(w, i)
  \/ \E tenders \in Tenders : SplitCommit(w, tenders)
  \/ \E p \in PaymentIds, a \in Amounts : RefundRead(w, p, a)
  \/ RefundCommit(w)
  \/ PayAbort(w)
=============================================================================
