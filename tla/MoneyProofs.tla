---------------------------- MODULE MoneyProofs ----------------------------
(***************************************************************************)
(* Every step of billing and payments keeps the promises of Money, for any *)
(* number of requests, orders, invoices, payments and amounts, and so does *)
(* every step of another service that leaves the money rows alone.         *)
(***************************************************************************)
EXTENDS Money, TLAPS

\* What a step keeps.  An order can be PAID by other services too, so that conjunct is
\* kept only by steps that do not.
PaidOrdersKept == PaidOrderIsCovered => PaidOrderIsCovered'
MoneyKept == MoneyInv' /\ PaidOrdersKept

-----------------------------------------------------------------------------
\* The operators that compute rows.

LEMMA WithStatusType ==
  ASSUME NEW row \in OrderRow, NEW s \in OrderStatus
  PROVE  WithStatus(row, s) \in OrderRow /\ WithStatus(row, s).status = s
  BY DEF WithStatus, OrderRow

LEMMA SetTableType ==
  ASSUME table \in [Tables -> TableStatus], NEW t \in Tables \cup {None},
         NEW s \in TableStatus, SetTable(t, s)
  PROVE  table' \in [Tables -> TableStatus]
  BY NoneAssumption DEF SetTable

\* An amount within the due of a balanced row gives a balanced row.
LEMMA CreditedRow ==
  ASSUME NEW seen \in InvoiceRow, NEW amount \in Nat,
         seen.paidAmount + seen.dueAmount = seen.grandTotal,
         amount <= seen.dueAmount
  PROVE  LET row == Credited(seen, amount) IN
         /\ row \in InvoiceRow
         /\ row.orderId = seen.orderId
         /\ row.grandTotal = seen.grandTotal
         /\ row.paidAmount = seen.paidAmount + amount
         /\ row.paidAmount + row.dueAmount = row.grandTotal
         /\ row.isPaid => row.dueAmount = 0
  <1> DEFINE row == Credited(seen, amount)
  <1>1. row \in InvoiceRow
    BY DEF Credited, InvoiceRow
  <1>2. row.orderId = seen.orderId /\ row.grandTotal = seen.grandTotal
    BY DEF Credited
  <1>3. row.paidAmount = seen.paidAmount + amount
    BY DEF Credited
  <1>4. row.dueAmount = seen.dueAmount - amount
    BY DEF Credited, InvoiceRow
  <1>5. row.isPaid => row.dueAmount = 0
    BY DEF Credited, InvoiceRow
  <1> QED
    BY <1>1, <1>2, <1>3, <1>4, <1>5 DEF InvoiceRow

LEMMA SettledRow ==
  ASSUME NEW seen \in InvoiceRow
  PROVE  LET row == SettledInFull(seen) IN
         /\ row \in InvoiceRow
         /\ row.orderId = seen.orderId
         /\ row.grandTotal = seen.grandTotal
         /\ row.paidAmount = seen.grandTotal
         /\ row.dueAmount = 0
         /\ row.isPaid
  BY DEF SettledInFull, InvoiceRow

-----------------------------------------------------------------------------
\* The initial states.

LEMMA MoneyInitially ==
  ASSUME StoreTypeOK, issued = {}, invoice = [i \in Invoices |-> BlankInvoice],
         BillingInit, PaymentsInit
  PROVE  MoneyInv /\ Ledger!Init
  <1> USE DEF BillingInit, PaymentsInit
  <1>1. BillingTypeOK
    BY DEF BillingTypeOK, BillJob, BillIdle, BillPhase
  <1>2. PaymentsTypeOK
    BY DEF PaymentsTypeOK, PaymentRow, BlankPayment, PaymentStatus, PayJob, PayIdle, PayPhase,
           Collecting, BlankInvoice, InvoiceRow
  <1>3. UnissuedIsBlank /\ IssuedHasOrder /\ LedgerBalanced /\ CreditIsBacked
        /\ PaidMeansNothingDue
    BY DEF UnissuedIsBlank, IssuedHasOrder, LedgerBalanced, CreditIsBacked, PaidMeansNothingDue
  <1>4. SnapshotSound /\ OneChargePerKey
    BY DEF SnapshotSound, PayIdle, Collecting, OneChargePerKey
  <1>5. Ledger!Init
    BY DEF BlankInvoice, Ledger!Init
  <1> QED
    BY <1>1, <1>2, <1>3, <1>4, <1>5 DEF MoneyInv, MoneyTypeOK

-----------------------------------------------------------------------------
\* Billing.

\* The conjuncts of MoneyInv about money only read the rows and the payments' snapshots.
LEMMA MoneyFrame ==
  ASSUME MoneyInv, UNCHANGED <<placed, order, issued, invoice, made, payment, collected, pay>>
  PROVE  /\ UnissuedIsBlank' /\ IssuedHasOrder' /\ LedgerBalanced' /\ CreditIsBacked'
         /\ PaidMeansNothingDue' /\ SnapshotSound' /\ OneChargePerKey' /\ PaidOrdersKept
  BY DEF MoneyInv, UnissuedIsBlank, IssuedHasOrder, LedgerBalanced, CreditIsBacked,
         PaidMeansNothingDue, SnapshotSound, OneChargePerKey, PaidOrderIsCovered, PaidOrdersKept

LEMMA PaymentsTypeFrame ==
  ASSUME PaymentsTypeOK, UNCHANGED paymentsVars, issued \subseteq issued'
  PROVE  PaymentsTypeOK'
  BY DEF PaymentsTypeOK, paymentsVars

LEMMA StoreTypeFrame ==
  ASSUME StoreTypeOK, UNCHANGED storeVars
  PROVE  StoreTypeOK'
  BY DEF StoreTypeOK, storeVars

LEMMA BillReadKeeps ==
  ASSUME MoneyInv, NEW w \in Workers, NEW o \in Orders, BillRead(w, o), UNCHANGED paymentsVars
  PROVE  MoneyKept
  <1>1. StoreTypeOK' /\ PaymentsTypeOK'
    BY StoreTypeFrame, PaymentsTypeFrame DEF MoneyInv, MoneyTypeOK, BillRead, storeVars
  <1>2. BillingTypeOK'
    <2>1. /\ InvoiceTotal[order[o].orderType][active[o]] \in Nat
          /\ order[o].tableId \in Tables \cup {None}
      BY InvoiceTotalAssumption DEF MoneyInv, MoneyTypeOK, StoreTypeOK, OrderRow
    <2>2. bill'[w] \in BillJob /\ bill'[w].phase = "check" /\ bill'[w].orderId \in placed
      BY <2>1 DEF BillRead, MoneyInv, MoneyTypeOK, BillingTypeOK, BillJob, BillPhase
    <2> QED
      BY <2>2 DEF BillRead, MoneyInv, MoneyTypeOK, BillingTypeOK, storeVars
  <1> QED
    BY <1>1, <1>2, MoneyFrame DEF MoneyKept, MoneyInv, MoneyTypeOK, BillRead, storeVars, paymentsVars

\* The steps that only change what the request has in hand.
LEMMA BillStepKeeps ==
  ASSUME MoneyInv, NEW w \in Workers, BillReplay(w) \/ BillMiss(w) \/ BillAbort(w),
         UNCHANGED paymentsVars
  PROVE  MoneyKept
  <1>0. UNCHANGED storeVars
    BY DEF BillReplay, BillMiss, BillAbort
  <1>1. StoreTypeOK' /\ PaymentsTypeOK'
    BY <1>0, StoreTypeFrame, PaymentsTypeFrame DEF MoneyInv, MoneyTypeOK, storeVars
  <1>2. BillingTypeOK'
    BY <1>0 DEF BillReplay, BillMiss, BillAbort, MoneyInv, MoneyTypeOK, BillingTypeOK, BillJob, BillIdle,
                BillPhase, storeVars
  <1> QED
    BY <1>0, <1>1, <1>2, MoneyFrame DEF MoneyKept, MoneyInv, MoneyTypeOK, storeVars, paymentsVars

LEMMA BillNotifyKeeps ==
  ASSUME MoneyInv, NEW w \in Workers, BillNotify(w), UNCHANGED paymentsVars
  PROVE  MoneyKept
  <1>1. StoreTypeOK'
    BY DEF BillNotify, Hear, MoneyInv, MoneyTypeOK, StoreTypeOK, BillingTypeOK, TableStatus
  <1>2. BillingTypeOK'
    BY DEF BillNotify, MoneyInv, MoneyTypeOK, BillingTypeOK, BillJob, BillIdle, BillPhase
  <1>3. PaymentsTypeOK'
    BY PaymentsTypeFrame DEF MoneyInv, MoneyTypeOK, BillNotify
  <1> QED
    BY <1>1, <1>2, <1>3, MoneyFrame DEF MoneyKept, MoneyInv, MoneyTypeOK, BillNotify, paymentsVars

LEMMA BillCommitKeeps ==
  ASSUME MoneyInv, NEW w \in Workers, NEW i \in Invoices, BillCommit(w, i), UNCHANGED paymentsVars
  PROVE  MoneyKept
  <1> DEFINE job == bill[w]
             o   == job.orderId
             row == NewInvoice(job)
  <1>0. /\ o \in placed /\ o \in Orders /\ job \in BillJob
        /\ i \notin issued /\ issued' = issued \cup {i}
        /\ invoice' = [invoice EXCEPT ![i] = row]
        /\ order' = [order EXCEPT ![o] = WithStatus(order[o], "BILLED")]
        /\ UNCHANGED <<placed, active, shown, made, payment, collected, pay>>
    BY DEF BillCommit, MoneyInv, MoneyTypeOK, StoreTypeOK, BillingTypeOK, paymentsVars
  <1>1. row \in InvoiceRow /\ row.paidAmount = 0 /\ row.dueAmount = row.grandTotal
        /\ row.orderId = o /\ ~ row.isPaid
    BY <1>0 DEF NewInvoice, InvoiceRow, BillJob
  <1>2. WithStatus(order[o], "BILLED") \in OrderRow
        /\ WithStatus(order[o], "BILLED").status = "BILLED"
    BY <1>0, WithStatusType DEF MoneyInv, MoneyTypeOK, StoreTypeOK, OrderStatus
  <1>3. StoreTypeOK'
    <2>1. table' \in [Tables -> TableStatus]
      BY <1>0, SetTableType DEF BillCommit, MoneyInv, MoneyTypeOK, StoreTypeOK, BillJob, TableStatus
    <2> QED
      BY <1>0, <1>1, <1>2, <2>1 DEF MoneyInv, MoneyTypeOK, StoreTypeOK
  <1>4. BillingTypeOK'
    <2> DEFINE new == IF job.tableId = None THEN BillIdle ELSE [job EXCEPT !.phase = "notify"]
    <2>1. bill' = [bill EXCEPT ![w] = new]
      BY DEF BillCommit
    <2>2. new \in BillJob /\ new.phase \in {"idle", "notify"}
          /\ (new.phase = "notify" => new.tableId \in Tables)
      BY <1>0 DEF BillJob, BillPhase, BillIdle
    <2> HIDE DEF new
    <2> QED
      BY <1>0, <2>1, <2>2 DEF MoneyInv, MoneyTypeOK, BillingTypeOK
  <1>5. PaymentsTypeOK'
    BY <1>0, PaymentsTypeFrame DEF MoneyInv, MoneyTypeOK
  <1>6. UnissuedIsBlank' /\ IssuedHasOrder' /\ LedgerBalanced' /\ CreditIsBacked'
        /\ PaidMeansNothingDue'
    <2>1. invoice'[i] = row /\ \A j \in Invoices \ {i} : invoice'[j] = invoice[j]
      BY <1>0 DEF MoneyInv, MoneyTypeOK, StoreTypeOK
    <2>2. collected[i] = 0
      BY <1>0 DEF MoneyInv, UnissuedIsBlank
    <2>3. issued \subseteq Invoices
      BY DEF MoneyInv, MoneyTypeOK, StoreTypeOK
    <2>4. UnissuedIsBlank' /\ IssuedHasOrder'
      BY <1>0, <1>1, <2>1, <2>3 DEF MoneyInv, UnissuedIsBlank, IssuedHasOrder
    <2>5. LedgerBalanced'
      BY <1>0, <1>1, <2>1, <2>3 DEF MoneyInv, LedgerBalanced, InvoiceRow
    <2>6. CreditIsBacked'
      BY <1>0, <1>1, <2>1, <2>2, <2>3 DEF MoneyInv, CreditIsBacked
    <2>7. PaidMeansNothingDue'
      BY <1>0, <1>1, <2>1, <2>3 DEF MoneyInv, PaidMeansNothingDue
    <2> QED
      BY <2>4, <2>5, <2>6, <2>7
  <1>7. SnapshotSound'
    BY <1>0 DEF MoneyInv, MoneyTypeOK, PaymentsTypeOK, SnapshotSound
  <1>8. OneChargePerKey'
    BY <1>0 DEF MoneyInv, OneChargePerKey
  <1>9. PaidOrdersKept
    BY <1>0, <1>2 DEF MoneyInv, MoneyTypeOK, StoreTypeOK, PaidOrderIsCovered, PaidOrdersKept
  <1> QED
    BY <1>3, <1>4, <1>5, <1>6, <1>7, <1>8, <1>9 DEF MoneyKept, MoneyInv, MoneyTypeOK

-----------------------------------------------------------------------------
\* Payments.

LEMMA BillingTypeFrame ==
  ASSUME BillingTypeOK, UNCHANGED <<bill, placed>>
  PROVE  BillingTypeOK'
  BY DEF BillingTypeOK

LEMMA SnapshotFrame ==
  ASSUME MoneyInv, NEW w \in Workers, UNCHANGED <<invoice, collected>>,
         pay' \in [Workers -> PayJob], \A v \in Workers \ {w} : pay'[v] = pay[v],
         pay'[w].phase \in Collecting =>
           LET seen == pay'[w].seen
               i    == pay'[w].invoiceId
           IN  /\ seen.orderId = invoice[i].orderId
               /\ seen.grandTotal = invoice[i].grandTotal
               /\ seen.paidAmount + seen.dueAmount = seen.grandTotal
               /\ seen.paidAmount <= collected[i]
               /\ IF pay'[w].phase = "split" THEN seen.dueAmount >= 2
                                             ELSE pay'[w].amount <= seen.dueAmount
  PROVE  SnapshotSound'
  <1> SUFFICES ASSUME NEW v \in Workers, pay'[v].phase \in Collecting
               PROVE  LET seen == pay'[v].seen
                          i    == pay'[v].invoiceId
                      IN  /\ seen.orderId = invoice'[i].orderId
                          /\ seen.grandTotal = invoice'[i].grandTotal
                          /\ seen.paidAmount + seen.dueAmount = seen.grandTotal
                          /\ seen.paidAmount <= collected'[i]
                          /\ IF pay'[v].phase = "split" THEN seen.dueAmount >= 2
                                                        ELSE pay'[v].amount <= seen.dueAmount
    BY DEF SnapshotSound
  <1>1. CASE v = w
    BY <1>1
  <1>2. CASE v # w
    BY <1>2 DEF MoneyInv, SnapshotSound
  <1> QED
    BY <1>1, <1>2

\* The conjuncts of MoneyInv that only read the rows.
LEMMA RowFrame ==
  ASSUME MoneyInv, UNCHANGED <<placed, order, issued, invoice, made, payment, collected>>
  PROVE  /\ UnissuedIsBlank' /\ IssuedHasOrder' /\ LedgerBalanced' /\ CreditIsBacked'
         /\ PaidMeansNothingDue' /\ OneChargePerKey' /\ PaidOrdersKept
  BY DEF MoneyInv, UnissuedIsBlank, IssuedHasOrder, LedgerBalanced, CreditIsBacked,
         PaidMeansNothingDue, OneChargePerKey, PaidOrderIsCovered, PaidOrdersKept

\* Reading an invoice gives a request a balanced and backed row.
LEMMA ReadForPaymentKeeps ==
  ASSUME MoneyInv, NEW w \in Workers, NEW i \in issued, NEW phase \in Collecting,
         NEW amount \in Nat, NEW key \in Keys \cup {None},
         IF phase = "split" THEN invoice[i].dueAmount >= 2
                            ELSE amount \in Amounts /\ amount <= invoice[i].dueAmount,
         ReadForPayment(w, i, phase, amount, key),
         UNCHANGED <<storeVars, paymentRows, bill>>
  PROVE  MoneyKept
  <1> DEFINE t == order[invoice[i].orderId].tableId
             job == [phase |-> phase, invoiceId |-> i, seen |-> invoice[i], tableId |-> t,
                     amount |-> amount, key |-> key, paymentId |-> None, refunded |-> 0]
  <1>1. i \in Invoices /\ invoice[i] \in InvoiceRow /\ invoice[i].orderId \in Orders
        /\ t \in Tables \cup {None}
    BY DEF MoneyInv, MoneyTypeOK, StoreTypeOK, IssuedHasOrder, OrderRow
  <1>2. pay' = [pay EXCEPT ![w] = job]
    BY DEF ReadForPayment
  <1>3. job \in PayJob
    BY <1>1 DEF PayJob, PayPhase, Collecting
  <1>4. pay' \in [Workers -> PayJob] /\ pay'[w] = job
        /\ \A v \in Workers \ {w} : pay'[v] = pay[v]
    BY <1>2, <1>3 DEF MoneyInv, MoneyTypeOK, PaymentsTypeOK
  <1>5. PaymentsTypeOK'
    BY <1>1, <1>4 DEF MoneyInv, MoneyTypeOK, PaymentsTypeOK, storeVars, paymentRows, Collecting
  <1>6. SnapshotSound'
    BY <1>1, <1>4, SnapshotFrame DEF MoneyInv, LedgerBalanced, CreditIsBacked, storeVars, paymentRows
  <1> QED
    BY <1>5, <1>6, RowFrame, StoreTypeFrame, BillingTypeFrame
       DEF MoneyKept, MoneyInv, MoneyTypeOK, storeVars, paymentRows

\* The steps that end a request, or send it from the look-up to the transaction.
LEMMA PayStepKeeps ==
  ASSUME MoneyInv, NEW w \in Workers, PayReplay(w) \/ PayMiss(w) \/ PayAbort(w), UNCHANGED bill
  PROVE  MoneyKept
  <1>0. UNCHANGED <<storeVars, paymentRows>>
    BY DEF PayReplay, PayMiss, PayAbort
  <1>1. \/ pay' = [pay EXCEPT ![w] = PayIdle]
        \/ pay[w].phase = "lookup" /\ pay' = [pay EXCEPT ![w].phase = "tx"]
    BY DEF PayReplay, PayMiss, PayAbort
  <1>2. PayIdle \in PayJob
    BY DEF PayIdle, PayJob, PayPhase, BlankInvoice, InvoiceRow
  <1>3. pay' \in [Workers -> PayJob] /\ \A v \in Workers \ {w} : pay'[v] = pay[v]
    BY <1>1, <1>2 DEF MoneyInv, MoneyTypeOK, PaymentsTypeOK, PayJob, PayPhase
  <1>4. PaymentsTypeOK'
    BY <1>0, <1>1, <1>3 DEF MoneyInv, MoneyTypeOK, PaymentsTypeOK, storeVars, paymentRows, Collecting,
                            PayIdle, PayJob
  <1>5. SnapshotSound'
    BY <1>0, <1>1, <1>3, SnapshotFrame
       DEF MoneyInv, MoneyTypeOK, PaymentsTypeOK, SnapshotSound, storeVars, paymentRows, Collecting,
           PayIdle, PayJob
  <1> QED
    BY <1>0, <1>4, <1>5, RowFrame, StoreTypeFrame, BillingTypeFrame
       DEF MoneyKept, MoneyInv, MoneyTypeOK, storeVars, paymentRows

LEMMA PayNotifyKeeps ==
  ASSUME MoneyInv, NEW w \in Workers, PayNotify(w), UNCHANGED bill
  PROVE  MoneyKept
  <1>1. StoreTypeOK'
    BY DEF PayNotify, Hear, MoneyInv, MoneyTypeOK, StoreTypeOK, PaymentsTypeOK, TableStatus
  <1>2. PayIdle \in PayJob
    BY DEF PayIdle, PayJob, PayPhase, BlankInvoice, InvoiceRow
  <1>3. pay' \in [Workers -> PayJob] /\ pay'[w] = PayIdle
        /\ \A v \in Workers \ {w} : pay'[v] = pay[v]
    BY <1>2 DEF PayNotify, MoneyInv, MoneyTypeOK, PaymentsTypeOK
  <1>4. PaymentsTypeOK'
    BY <1>3 DEF PayNotify, MoneyInv, MoneyTypeOK, PaymentsTypeOK, paymentRows, Collecting, PayIdle
  <1>5. SnapshotSound'
    BY <1>3, SnapshotFrame DEF PayNotify, paymentRows, Collecting, PayIdle
  <1> QED
    BY <1>1, <1>4, <1>5, RowFrame, BillingTypeFrame DEF MoneyKept, PayNotify, MoneyInv, MoneyTypeOK, paymentRows

LEMMA RefundReadKeeps ==
  ASSUME MoneyInv, NEW w \in Workers, NEW p \in PaymentIds, NEW amount \in Amounts,
         RefundRead(w, p, amount), UNCHANGED bill
  PROVE  MoneyKept
  <1> DEFINE job == [PayIdle EXCEPT !.phase = "refund", !.paymentId = p, !.amount = amount,
                                    !.refunded = payment[p].refunded]
  <1>1. p \in made /\ UNCHANGED <<storeVars, paymentRows>> /\ pay' = [pay EXCEPT ![w] = job]
    BY DEF RefundRead
  <1>2. payment[p].refunded \in Nat
    BY DEF MoneyInv, MoneyTypeOK, PaymentsTypeOK, PaymentRow
  <1>3. job \in PayJob /\ job.phase = "refund" /\ job.paymentId = p /\ job.amount = amount
    BY <1>2, AmountAssumption DEF PayIdle, PayJob, PayPhase, BlankInvoice, InvoiceRow
  <1>4. pay' \in [Workers -> PayJob] /\ pay'[w] = job
        /\ \A v \in Workers \ {w} : pay'[v] = pay[v]
    BY <1>1, <1>3 DEF MoneyInv, MoneyTypeOK, PaymentsTypeOK
  <1>5. PaymentsTypeOK'
    BY <1>1, <1>3, <1>4 DEF MoneyInv, MoneyTypeOK, PaymentsTypeOK, storeVars, paymentRows, Collecting
  <1>6. SnapshotSound'
    BY <1>1, <1>3, <1>4, SnapshotFrame DEF storeVars, paymentRows, Collecting
  <1> QED
    BY <1>1, <1>5, <1>6, RowFrame, StoreTypeFrame, BillingTypeFrame
       DEF MoneyKept, MoneyInv, MoneyTypeOK, storeVars, paymentRows

\* What both ways to collect money have in common: a balanced row, backed by what was
\* collected before and now, is written over the invoice, whatever that says by now.
LEMMA CollectKeeps ==
  ASSUME MoneyInv, NEW w \in Workers, pay[w].phase \in Collecting,
         NEW i \in Invoices, i = pay[w].invoiceId,
         NEW row \in InvoiceRow, NEW sum \in Nat,
         row.orderId = pay[w].seen.orderId,
         row.grandTotal = pay[w].seen.grandTotal,
         row.paidAmount + row.dueAmount = row.grandTotal,
         row.paidAmount = pay[w].seen.paidAmount + sum,
         row.isPaid => row.dueAmount = 0,
         SetInvoice(i, row),
         collected' = [collected EXCEPT ![i] = @ + sum],
         \/ UNCHANGED order
         \/ row.isPaid /\ order' = [order EXCEPT ![row.orderId] = WithStatus(@, "PAID")],
         pay' \in [Workers -> PayJob], pay'[w].phase \in {"idle", "notify"},
         \A v \in Workers \ {w} : pay'[v] = pay[v],
         UNCHANGED <<placed, issued>>
  PROVE  /\ invoice' \in [Invoices -> InvoiceRow]
         /\ order' \in [Orders -> OrderRow]
         /\ collected' \in [Invoices -> Nat]
         /\ UnissuedIsBlank' /\ IssuedHasOrder' /\ LedgerBalanced' /\ CreditIsBacked'
         /\ PaidMeansNothingDue' /\ SnapshotSound' /\ PaidOrdersKept
  <1>0. /\ i \in issued /\ invoice[i] \in InvoiceRow /\ collected[i] \in Nat
        /\ row.orderId = invoice[i].orderId
        /\ row.grandTotal = invoice[i].grandTotal
        /\ pay[w].seen.paidAmount <= collected[i]
        /\ pay[w].seen \in InvoiceRow
        /\ row.orderId \in Orders
    BY DEF MoneyInv, MoneyTypeOK, StoreTypeOK, PaymentsTypeOK, SnapshotSound, PayJob
  <1>1. invoice' \in [Invoices -> InvoiceRow] /\ invoice'[i] = row
        /\ \A j \in Invoices \ {i} : invoice'[j] = invoice[j]
    BY DEF SetInvoice, MoneyInv, MoneyTypeOK, StoreTypeOK
  <1>2. collected' \in [Invoices -> Nat] /\ collected'[i] = collected[i] + sum
        /\ \A j \in Invoices \ {i} : collected'[j] = collected[j]
    BY <1>0 DEF MoneyInv, MoneyTypeOK, PaymentsTypeOK
  <1>3. order' \in [Orders -> OrderRow]
    BY <1>0, WithStatusType DEF MoneyInv, MoneyTypeOK, StoreTypeOK, OrderStatus
  <1>4. row.paidAmount <= collected'[i]
    BY <1>0, <1>2 DEF InvoiceRow
  <1>5. \A j \in Invoices : collected[j] <= collected'[j]
    BY <1>0, <1>2 DEF MoneyInv, MoneyTypeOK, PaymentsTypeOK
  <1>6. issued \subseteq Invoices
    BY DEF MoneyInv, MoneyTypeOK, StoreTypeOK
  <1>7. UnissuedIsBlank'
    BY <1>0, <1>1, <1>2 DEF MoneyInv, UnissuedIsBlank
  <1>8. IssuedHasOrder'
    BY <1>0, <1>1, <1>6 DEF MoneyInv, IssuedHasOrder
  <1>9. LedgerBalanced'
    BY <1>1, <1>6 DEF MoneyInv, LedgerBalanced
  <1>10. CreditIsBacked'
    BY <1>1, <1>2, <1>4, <1>6 DEF MoneyInv, CreditIsBacked
  <1>11. PaidMeansNothingDue'
    BY <1>1, <1>6 DEF MoneyInv, PaidMeansNothingDue
  <1>12. SnapshotSound'
    <2> SUFFICES ASSUME NEW v \in Workers, pay'[v].phase \in Collecting
                 PROVE  LET seen == pay'[v].seen
                            j    == pay'[v].invoiceId
                        IN  /\ seen.orderId = invoice'[j].orderId
                            /\ seen.grandTotal = invoice'[j].grandTotal
                            /\ seen.paidAmount + seen.dueAmount = seen.grandTotal
                            /\ seen.paidAmount <= collected'[j]
                            /\ IF pay'[v].phase = "split" THEN seen.dueAmount >= 2
                                                          ELSE pay'[v].amount <= seen.dueAmount
      BY DEF SnapshotSound
    <2> DEFINE j == pay[v].invoiceId
    <2>1. v # w /\ pay'[v] = pay[v]
      BY DEF Collecting
    <2>2. j \in Invoices /\ pay[v].seen \in InvoiceRow /\ collected[j] \in Nat /\ collected'[j] \in Nat
      BY <1>2, <1>6, <2>1 DEF MoneyInv, MoneyTypeOK, PaymentsTypeOK, PayJob
    <2>3. invoice'[j].orderId = invoice[j].orderId /\ invoice'[j].grandTotal = invoice[j].grandTotal
      BY <1>0, <1>1, <2>2
    <2>4. collected[j] <= collected'[j]
      BY <1>5, <2>2
    <2>5. /\ pay[v].seen.orderId = invoice[j].orderId
          /\ pay[v].seen.grandTotal = invoice[j].grandTotal
          /\ pay[v].seen.paidAmount + pay[v].seen.dueAmount = pay[v].seen.grandTotal
          /\ pay[v].seen.paidAmount <= collected[j]
          /\ IF pay[v].phase = "split" THEN pay[v].seen.dueAmount >= 2
                                       ELSE pay[v].amount <= pay[v].seen.dueAmount
      BY <2>1 DEF MoneyInv, SnapshotSound
    <2>6. pay[v].seen.paidAmount <= collected'[j]
      BY <2>2, <2>4, <2>5 DEF InvoiceRow
    <2> QED
      BY <2>1, <2>3, <2>5, <2>6
  <1>13. PaidOrdersKept
    <2> SUFFICES ASSUME PaidOrderIsCovered, NEW o \in Orders, order'[o].status = "PAID"
                 PROVE  \E j \in issued' : invoice'[j].orderId = o
                                           /\ collected'[j] >= invoice'[j].grandTotal
      BY DEF PaidOrderIsCovered, PaidOrdersKept
    <2>1. CASE order'[o] = order[o]
      <3>1. PICK j \in issued : invoice[j].orderId = o /\ collected[j] >= invoice[j].grandTotal
        BY <2>1 DEF PaidOrderIsCovered
      <3>2. j \in Invoices /\ invoice[j] \in InvoiceRow /\ collected[j] \in Nat
            /\ collected'[j] \in Nat /\ collected[j] <= collected'[j]
        BY <1>2, <1>5, <1>6 DEF MoneyInv, MoneyTypeOK, StoreTypeOK, PaymentsTypeOK
      <3>3. invoice'[j].orderId = o /\ invoice'[j].grandTotal = invoice[j].grandTotal
        BY <1>0, <1>1, <3>1, <3>2
      <3>4. collected'[j] >= invoice'[j].grandTotal
        BY <3>1, <3>2, <3>3 DEF InvoiceRow
      <3> QED
        BY <3>3, <3>4
    <2>2. CASE order'[o] # order[o]
      <3>1. row.isPaid /\ row.orderId = o
        BY <1>0, <2>2 DEF MoneyInv, MoneyTypeOK, StoreTypeOK
      <3>2. collected'[i] >= invoice'[i].grandTotal
        BY <1>0, <1>1, <1>2, <1>4, <3>1 DEF InvoiceRow
      <3> QED
        BY <1>0, <1>1, <3>1, <3>2
    <2> QED
      BY <2>1, <2>2
  <1> QED
    BY <1>1, <1>2, <1>3, <1>7, <1>8, <1>9, <1>10, <1>11, <1>12, <1>13

LEMMA PayCommitKeeps ==
  ASSUME MoneyInv, NEW w \in Workers, NEW p \in PaymentIds, PayCommit(w, p), UNCHANGED bill
  PROVE  MoneyKept
  <1> DEFINE job  == pay[w]
             i    == job.invoiceId
             row  == Credited(job.seen, job.amount)
             next == IF row.isPaid /\ job.tableId # None
                     THEN [PayIdle EXCEPT !.phase = "notify", !.tableId = job.tableId]
                     ELSE PayIdle
             paid == NewPayment(i, job.amount, job.key)
  <1>0. /\ job \in PayJob /\ job.phase = "tx" /\ i \in issued /\ i \in Invoices
        /\ job.amount \in Nat /\ job.seen.orderId \in Orders
        /\ job.seen.paidAmount + job.seen.dueAmount = job.seen.grandTotal
        /\ job.amount <= job.seen.dueAmount
    BY AmountAssumption DEF PayCommit, MoneyInv, MoneyTypeOK, StoreTypeOK, PaymentsTypeOK, SnapshotSound,
                            Collecting
  <1>1. job.seen \in InvoiceRow /\ job.tableId \in Tables \cup {None}
        /\ job.key \in Keys \cup {None}
    BY <1>0 DEF PayJob
  <1>2. /\ row \in InvoiceRow
        /\ row.orderId = job.seen.orderId
        /\ row.grandTotal = job.seen.grandTotal
        /\ row.paidAmount = job.seen.paidAmount + job.amount
        /\ row.paidAmount + row.dueAmount = row.grandTotal
        /\ row.isPaid => row.dueAmount = 0
    BY <1>0, <1>1, CreditedRow
  <1> HIDE DEF row
  <1>3. /\ p \notin made /\ ~ KeyTaken(job.key) /\ made' = made \cup {p}
        /\ payment' = [payment EXCEPT ![p] = paid]
        /\ collected' = [collected EXCEPT ![i] = @ + job.amount]
        /\ SetInvoice(i, row)
        /\ IF row.isPaid THEN CloseOrder(job.seen.orderId, job.tableId)
                         ELSE UNCHANGED <<order, table>>
        /\ pay' = [pay EXCEPT ![w] = next]
        /\ UNCHANGED <<placed, active, issued, shown>>
    BY DEF PayCommit, row
  <1>4. next \in PayJob /\ next.phase \in {"idle", "notify"}
        /\ (next.phase = "notify" => next.tableId \in Tables)
    BY <1>1 DEF PayIdle, PayJob, PayPhase, BlankInvoice, InvoiceRow
  <1> HIDE DEF next
  <1>5. pay' \in [Workers -> PayJob] /\ pay'[w] = next
        /\ \A v \in Workers \ {w} : pay'[v] = pay[v]
    BY <1>3, <1>4 DEF MoneyInv, MoneyTypeOK, PaymentsTypeOK
  <1>6. /\ invoice' \in [Invoices -> InvoiceRow]
        /\ order' \in [Orders -> OrderRow]
        /\ collected' \in [Invoices -> Nat]
        /\ UnissuedIsBlank' /\ IssuedHasOrder' /\ LedgerBalanced' /\ CreditIsBacked'
        /\ PaidMeansNothingDue' /\ SnapshotSound' /\ PaidOrdersKept
    <2>1. \/ UNCHANGED order
          \/ row.isPaid /\ order' = [order EXCEPT ![row.orderId] = WithStatus(@, "PAID")]
      BY <1>2, <1>3 DEF CloseOrder
    <2>2. pay[w].phase \in Collecting
      BY <1>0 DEF Collecting
    <2> HIDE DEF i
    <2>3. i = pay[w].invoiceId
      BY DEF i
    <2> QED
      BY <1>0, <1>2, <1>3, <1>4, <1>5, <2>1, <2>2, <2>3, CollectKeeps
  <1>7. table' \in [Tables -> TableStatus]
    BY <1>1, <1>3, SetTableType DEF CloseOrder, MoneyInv, MoneyTypeOK, StoreTypeOK, TableStatus
  <1>8. StoreTypeOK'
    BY <1>3, <1>6, <1>7 DEF MoneyInv, MoneyTypeOK, StoreTypeOK
  <1>9. payment' \in [PaymentIds -> PaymentRow] /\ payment'[p] = paid
        /\ \A q \in PaymentIds \ {p} : payment'[q] = payment[q]
    <2>1. paid \in PaymentRow
      BY <1>0, <1>1 DEF NewPayment, PaymentRow, PaymentStatus
    <2> QED
      BY <1>3, <2>1 DEF MoneyInv, MoneyTypeOK, PaymentsTypeOK
  <1>10. PaymentsTypeOK'
    BY <1>3, <1>4, <1>5, <1>6, <1>9 DEF MoneyInv, MoneyTypeOK, PaymentsTypeOK, Collecting
  <1>11. OneChargePerKey'
    <2>1. \A q \in made : payment[q].key # job.key
      BY <1>3 DEF KeyTaken
    <2>2. payment'[p].key = job.key
      BY <1>9 DEF NewPayment
    <2>3. made \subseteq PaymentIds \ {p}
      BY <1>3 DEF MoneyInv, MoneyTypeOK, PaymentsTypeOK
    <2> QED
      BY <1>3, <1>9, <2>1, <2>2, <2>3 DEF MoneyInv, OneChargePerKey
  <1> QED
    BY <1>3, <1>6, <1>8, <1>10, <1>11, BillingTypeFrame DEF MoneyKept, MoneyInv, MoneyTypeOK

LEMMA SplitCommitKeeps ==
  ASSUME MoneyInv, NEW w \in Workers, NEW tenders \in Tenders, SplitCommit(w, tenders),
         UNCHANGED bill
  PROVE  MoneyKept
  <1> DEFINE job == pay[w]
             i   == job.invoiceId
             new == DOMAIN tenders
             row == SettledInFull(job.seen)
  <1>0. /\ job \in PayJob /\ job.phase = "split" /\ i \in issued /\ i \in Invoices
        /\ job.seen.orderId \in Orders
        /\ job.seen.paidAmount + job.seen.dueAmount = job.seen.grandTotal
    BY DEF SplitCommit, MoneyInv, MoneyTypeOK, StoreTypeOK, PaymentsTypeOK, SnapshotSound, Collecting
  <1>1. job.seen \in InvoiceRow /\ job.tableId \in Tables \cup {None}
    BY <1>0 DEF PayJob
  <1>2. /\ row \in InvoiceRow
        /\ row.orderId = job.seen.orderId
        /\ row.grandTotal = job.seen.grandTotal
        /\ row.paidAmount = job.seen.grandTotal
        /\ row.dueAmount = 0
        /\ row.isPaid
    BY <1>1, SettledRow
  <1> HIDE DEF row
  <1>3. new \subseteq PaymentIds \ made /\ \A q \in new : tenders[q] \in Nat
    BY AmountAssumption DEF Tenders
  <1>4. SumOf(tenders) = job.seen.dueAmount /\ SumOf(tenders) \in Nat
    BY <1>1 DEF SplitCommit, Balanced, InvoiceRow
  <1>5. /\ made' = made \cup new
        /\ payment' = [q \in PaymentIds |-> IF q \in new THEN NewPayment(i, tenders[q], None)
                                                        ELSE payment[q]]
        /\ collected' = [collected EXCEPT ![i] = @ + SumOf(tenders)]
        /\ SetInvoice(i, row)
        /\ CloseOrder(job.seen.orderId, job.tableId)
        /\ pay' = [pay EXCEPT ![w] = PayIdle]
        /\ UNCHANGED <<placed, active, issued, shown>>
    BY DEF SplitCommit, row
  <1>6. PayIdle \in PayJob /\ PayIdle.phase = "idle"
    BY DEF PayIdle, PayJob, PayPhase, BlankInvoice, InvoiceRow
  <1>7. pay' \in [Workers -> PayJob] /\ pay'[w] = PayIdle
        /\ \A v \in Workers \ {w} : pay'[v] = pay[v]
    BY <1>5, <1>6 DEF MoneyInv, MoneyTypeOK, PaymentsTypeOK
  <1>8. /\ invoice' \in [Invoices -> InvoiceRow]
        /\ order' \in [Orders -> OrderRow]
        /\ collected' \in [Invoices -> Nat]
        /\ UnissuedIsBlank' /\ IssuedHasOrder' /\ LedgerBalanced' /\ CreditIsBacked'
        /\ PaidMeansNothingDue' /\ SnapshotSound' /\ PaidOrdersKept
    <2>1. order' = [order EXCEPT ![row.orderId] = WithStatus(@, "PAID")]
      BY <1>2, <1>5 DEF CloseOrder
    <2>2. pay[w].phase \in Collecting
      BY <1>0 DEF Collecting
    <2>3. row.paidAmount = job.seen.paidAmount + SumOf(tenders)
          /\ row.paidAmount + row.dueAmount = row.grandTotal
      BY <1>0, <1>1, <1>2, <1>4 DEF InvoiceRow
    <2> HIDE DEF i
    <2>4. i = pay[w].invoiceId
      BY DEF i
    <2> QED
      BY <1>0, <1>2, <1>4, <1>5, <1>6, <1>7, <2>1, <2>2, <2>3, <2>4, CollectKeeps
  <1>9. table' \in [Tables -> TableStatus]
    BY <1>1, <1>5, SetTableType DEF CloseOrder, MoneyInv, MoneyTypeOK, StoreTypeOK, TableStatus
  <1>10. StoreTypeOK'
    BY <1>5, <1>8, <1>9 DEF MoneyInv, MoneyTypeOK, StoreTypeOK
  <1>11. payment' \in [PaymentIds -> PaymentRow]
    <2>1. \A q \in new : NewPayment(i, tenders[q], None) \in PaymentRow
      BY <1>0, <1>3 DEF NewPayment, PaymentRow, PaymentStatus
    <2> QED
      BY <1>5, <2>1 DEF MoneyInv, MoneyTypeOK, PaymentsTypeOK
  <1>12. PaymentsTypeOK'
    BY <1>3, <1>5, <1>6, <1>7, <1>8, <1>11 DEF MoneyInv, MoneyTypeOK, PaymentsTypeOK, Collecting
  <1>13. OneChargePerKey'
    <2>1. \A q \in new : payment'[q].key = None
      BY <1>3, <1>5 DEF NewPayment
    <2>2. \A q \in made : q \notin new /\ payment'[q] = payment[q]
      BY <1>3, <1>5 DEF MoneyInv, MoneyTypeOK, PaymentsTypeOK
    <2> QED
      BY <1>5, <2>1, <2>2 DEF MoneyInv, OneChargePerKey
  <1> QED
    BY <1>5, <1>8, <1>10, <1>12, <1>13, BillingTypeFrame DEF MoneyKept, MoneyInv, MoneyTypeOK

LEMMA RefundCommitKeeps ==
  ASSUME MoneyInv, NEW w \in Workers, RefundCommit(w), UNCHANGED bill
  PROVE  MoneyKept
  <1> DEFINE job == pay[w]
             p   == job.paymentId
             row == WithRefund(payment[p], job.amount, job.refunded)
  <1>0. /\ p \in made /\ p \in PaymentIds /\ job.amount \in Nat /\ payment[p] \in PaymentRow
        /\ payment' = [payment EXCEPT ![p] = row]
        /\ pay' = [pay EXCEPT ![w] = PayIdle]
        /\ UNCHANGED <<storeVars, made, collected>>
    BY AmountAssumption DEF RefundCommit, MoneyInv, MoneyTypeOK, PaymentsTypeOK
  <1>1. row \in PaymentRow /\ row.key = payment[p].key
    BY <1>0 DEF WithRefund, RefundStatus, PaymentRow, PaymentStatus
  <1> HIDE DEF row
  <1>2. payment' \in [PaymentIds -> PaymentRow] /\ \A q \in PaymentIds : payment'[q].key = payment[q].key
    BY <1>0, <1>1 DEF MoneyInv, MoneyTypeOK, PaymentsTypeOK
  <1>3. PayIdle \in PayJob /\ PayIdle.phase = "idle"
    BY DEF PayIdle, PayJob, PayPhase, BlankInvoice, InvoiceRow
  <1>4. pay' \in [Workers -> PayJob] /\ pay'[w] = PayIdle
        /\ \A v \in Workers \ {w} : pay'[v] = pay[v]
    BY <1>0, <1>3 DEF MoneyInv, MoneyTypeOK, PaymentsTypeOK
  <1>5. PaymentsTypeOK'
    BY <1>0, <1>2, <1>3, <1>4 DEF MoneyInv, MoneyTypeOK, PaymentsTypeOK, Collecting, storeVars
  <1>6. SnapshotSound'
    BY <1>0, <1>3, <1>4, SnapshotFrame DEF Collecting, storeVars
  <1>7. OneChargePerKey'
    BY <1>0, <1>2 DEF MoneyInv, MoneyTypeOK, PaymentsTypeOK, OneChargePerKey
  <1>8. UnissuedIsBlank' /\ IssuedHasOrder' /\ LedgerBalanced' /\ CreditIsBacked'
        /\ PaidMeansNothingDue' /\ PaidOrdersKept
    BY <1>0 DEF MoneyInv, UnissuedIsBlank, IssuedHasOrder, LedgerBalanced, CreditIsBacked,
                PaidMeansNothingDue, PaidOrderIsCovered, PaidOrdersKept, storeVars
  <1> QED
    BY <1>0, <1>5, <1>6, <1>7, <1>8, StoreTypeFrame, BillingTypeFrame
       DEF MoneyKept, MoneyInv, MoneyTypeOK, storeVars

-----------------------------------------------------------------------------
\* A step of either service, and a step of anybody else.

LEMMA BillingKeeps ==
  ASSUME MoneyInv, NEW w \in Workers, BillingNext(w), UNCHANGED paymentsVars
  PROVE  MoneyKept
  <1>1. ASSUME NEW o \in Orders, BillRead(w, o) PROVE MoneyKept
    BY <1>1, BillReadKeeps
  <1>2. ASSUME BillReplay(w) \/ BillMiss(w) \/ BillAbort(w) PROVE MoneyKept
    BY <1>2, BillStepKeeps
  <1>3. ASSUME NEW i \in Invoices, BillCommit(w, i) PROVE MoneyKept
    BY <1>3, BillCommitKeeps
  <1>4. ASSUME BillNotify(w) PROVE MoneyKept
    BY <1>4, BillNotifyKeeps
  <1> QED
    BY <1>1, <1>2, <1>3, <1>4 DEF BillingNext

LEMMA PaymentsKeep ==
  ASSUME MoneyInv, NEW w \in Workers, PaymentsNext(w), UNCHANGED bill
  PROVE  MoneyKept
  <1>1. ASSUME NEW i \in Invoices, NEW a \in Amounts, NEW k \in Keys, PayRead(w, i, a, k)
        PROVE  MoneyKept
    <2>1. a \in Nat
      BY AmountAssumption
    <2> QED
      BY <1>1, <2>1, ReadForPaymentKeeps DEF PayRead, Collecting
  <1>2. ASSUME PayReplay(w) \/ PayMiss(w) \/ PayAbort(w) PROVE MoneyKept
    BY <1>2, PayStepKeeps
  <1>3. ASSUME NEW p \in PaymentIds, PayCommit(w, p) PROVE MoneyKept
    BY <1>3, PayCommitKeeps
  <1>4. ASSUME PayNotify(w) PROVE MoneyKept
    BY <1>4, PayNotifyKeeps
  <1>5. ASSUME NEW i \in Invoices, SplitRead(w, i) PROVE MoneyKept
    BY <1>5, ReadForPaymentKeeps DEF SplitRead, Collecting
  <1>6. ASSUME NEW tenders \in Tenders, SplitCommit(w, tenders) PROVE MoneyKept
    BY <1>6, SplitCommitKeeps
  <1>7. ASSUME NEW p \in PaymentIds, NEW a \in Amounts, RefundRead(w, p, a) PROVE MoneyKept
    BY <1>7, RefundReadKeeps
  <1>8. ASSUME RefundCommit(w) PROVE MoneyKept
    BY <1>8, RefundCommitKeeps
  <1> QED
    BY <1>1, <1>2, <1>3, <1>4, <1>5, <1>6, <1>7, <1>8 DEF PaymentsNext

\* Other services place orders and change their rows; they may lose the requests in flight,
\* but never write an invoice or a payment.
LEMMA OthersKeep ==
  ASSUME MoneyInv, StoreTypeOK', placed \subseteq placed',
         UNCHANGED <<issued, invoice, made, payment, collected>>,
         UNCHANGED bill \/ bill' = [w \in Workers |-> BillIdle],
         UNCHANGED pay \/ pay' = [w \in Workers |-> PayIdle]
  PROVE  MoneyInv'
  <1> USE DEF MoneyInv, MoneyTypeOK
  <1>1. BillingTypeOK'
    BY DEF BillingTypeOK, BillJob, BillIdle, BillPhase
  <1>2. PayIdle \in PayJob /\ PayIdle.phase = "idle"
    BY DEF PayIdle, PayJob, PayPhase, BlankInvoice, InvoiceRow
  <1>3. PaymentsTypeOK'
    BY <1>2 DEF PaymentsTypeOK, Collecting
  <1>4. SnapshotSound'
    BY <1>2 DEF SnapshotSound, Collecting
  <1>5. UnissuedIsBlank' /\ LedgerBalanced' /\ CreditIsBacked' /\ PaidMeansNothingDue'
        /\ OneChargePerKey'
    BY DEF UnissuedIsBlank, LedgerBalanced, CreditIsBacked, PaidMeansNothingDue, OneChargePerKey
  <1>6. IssuedHasOrder'
    BY DEF IssuedHasOrder
  <1> QED
    BY <1>1, <1>3, <1>4, <1>5, <1>6

\* As long as they do not set an order to PAID, that conjunct is kept too.
LEMMA OthersKeepPaidOrders ==
  ASSUME UNCHANGED <<issued, invoice, collected>>,
         \A o \in Orders : order'[o].status = "PAID" => order[o].status = "PAID"
  PROVE  PaidOrdersKept
  BY DEF PaidOrdersKept, PaidOrderIsCovered

\* An invoice marked paid was paid in full.
LEMMA PaidIsCoveredByInv == MoneyInv => PaidIsCovered
  <1> SUFFICES ASSUME MoneyInv, NEW i \in issued, invoice[i].isPaid
               PROVE  collected[i] >= invoice[i].grandTotal
    BY DEF PaidIsCovered
  <1>1. invoice[i] \in InvoiceRow /\ collected[i] \in Nat
    BY DEF MoneyInv, MoneyTypeOK, StoreTypeOK, PaymentsTypeOK
  <1>2. invoice[i].paidAmount = invoice[i].grandTotal /\ invoice[i].paidAmount <= collected[i]
    BY <1>1 DEF MoneyInv, PaidMeansNothingDue, LedgerBalanced, CreditIsBacked, InvoiceRow
  <1> QED
    BY <1>1, <1>2 DEF InvoiceRow

-----------------------------------------------------------------------------
\* Refinement of the abstract ledger.

\* A step that leaves the invoices' paid amounts and the collections alone stutters.
LEMMA LedgerStutter ==
  ASSUME UNCHANGED collected,
         \A i \in Invoices : invoice'[i].paidAmount = invoice[i].paidAmount
  PROVE  UNCHANGED Ledger!ledger
  BY DEF Ledger!ledger

LEMMA LedgerCollect ==
  ASSUME MoneyInv, MoneyInv', NEW i \in Invoices, NEW sum \in Nat, sum > 0, i \in issued',
         collected' = [collected EXCEPT ![i] = @ + sum],
         NEW row, SetInvoice(i, row)
  PROVE  Ledger!BackedStep
  <1>1. collected \in [Invoices -> Nat] /\ collected' \in [Invoices -> Nat]
        /\ invoice \in [Invoices -> InvoiceRow] /\ invoice' \in [Invoices -> InvoiceRow]
    BY DEF MoneyInv, MoneyTypeOK, StoreTypeOK, PaymentsTypeOK
  <1>2. collected'[i] > collected[i]
    BY <1>1
  <1>3. \A j \in Invoices \ {i} : collected'[j] = collected[j] /\ invoice'[j] = invoice[j]
    BY <1>1 DEF SetInvoice
  <1>4. invoice'[i].paidAmount \in 0 .. collected'[i]
    BY <1>1 DEF MoneyInv, CreditIsBacked, InvoiceRow
  <1> QED
    BY <1>1, <1>2, <1>3, <1>4 DEF Ledger!BackedStep, Ledger!Tender

LEMMA BillingStutters ==
  ASSUME MoneyInv, NEW w \in Workers, BillingNext(w), UNCHANGED paymentsVars
  PROVE  UNCHANGED Ledger!ledger
  <1>1. UNCHANGED collected
    BY DEF paymentsVars
  <1>2. ASSUME NEW i \in Invoices, BillCommit(w, i)
        PROVE  \A j \in Invoices : invoice'[j].paidAmount = invoice[j].paidAmount
    BY <1>2
       DEF BillCommit, NewInvoice, MoneyInv, MoneyTypeOK, StoreTypeOK, UnissuedIsBlank, BlankInvoice
  <1>3. ASSUME NEW o \in Orders, BillRead(w, o) PROVE UNCHANGED invoice
    BY <1>3 DEF BillRead, storeVars
  <1>4. ASSUME BillReplay(w) \/ BillMiss(w) \/ BillNotify(w) \/ BillAbort(w)
        PROVE  UNCHANGED invoice
    BY <1>4 DEF BillReplay, BillMiss, BillNotify, BillAbort, storeVars
  <1> QED
    BY <1>1, <1>2, <1>3, <1>4, LedgerStutter DEF BillingNext

LEMMA PaymentsTender ==
  ASSUME MoneyInv, MoneyInv', NEW w \in Workers, PaymentsNext(w)
  PROVE  Ledger!BackedStep \/ UNCHANGED Ledger!ledger
  <1>1. ASSUME NEW p \in PaymentIds, PayCommit(w, p) PROVE Ledger!BackedStep
    <2> DEFINE i   == pay[w].invoiceId
               row == Credited(pay[w].seen, pay[w].amount)
    <2>1. i \in issued /\ i \in Invoices /\ pay[w].amount \in Nat /\ pay[w].amount > 0
      BY <1>1, AmountAssumption DEF PayCommit, MoneyInv, MoneyTypeOK, StoreTypeOK, PaymentsTypeOK, Collecting
    <2>2. /\ UNCHANGED issued /\ SetInvoice(i, row)
          /\ collected' = [collected EXCEPT ![i] = @ + pay[w].amount]
      BY <1>1 DEF PayCommit
    <2> HIDE DEF i, row
    <2> QED
      BY <2>1, <2>2, LedgerCollect
  <1>2. ASSUME NEW tenders \in Tenders, SplitCommit(w, tenders) PROVE Ledger!BackedStep
    <2> DEFINE i   == pay[w].invoiceId
               row == SettledInFull(pay[w].seen)
               sum == SumOf(tenders)
    <2>1. i \in issued /\ i \in Invoices /\ pay[w].seen \in InvoiceRow
      BY <1>2 DEF SplitCommit, MoneyInv, MoneyTypeOK, StoreTypeOK, PaymentsTypeOK, Collecting, PayJob
    <2>2. sum \in Nat
      BY <1>2, <2>1 DEF SplitCommit, Balanced, InvoiceRow
    <2>3. sum > 0
      BY <1>2, <2>1 DEF SplitCommit, Balanced, InvoiceRow, MoneyInv, SnapshotSound, Collecting
    <2>4. /\ UNCHANGED issued /\ SetInvoice(i, row)
          /\ collected' = [collected EXCEPT ![i] = @ + sum]
      BY <1>2 DEF SplitCommit
    <2> HIDE DEF i, row, sum
    <2> QED
      BY <2>1, <2>2, <2>3, <2>4, LedgerCollect
  <1>3. ASSUME RefundCommit(w) PROVE UNCHANGED Ledger!ledger
    BY <1>3, LedgerStutter DEF RefundCommit, storeVars
  <1>4. ASSUME PayReplay(w) \/ PayMiss(w) \/ PayNotify(w) \/ PayAbort(w)
        PROVE  UNCHANGED Ledger!ledger
    BY <1>4, LedgerStutter
       DEF PayReplay, PayMiss, PayNotify, PayAbort, storeVars, paymentRows
  <1>5. ASSUME \/ \E i \in Invoices, a \in Amounts, k \in Keys : PayRead(w, i, a, k)
               \/ \E i \in Invoices : SplitRead(w, i)
               \/ \E p \in PaymentIds, a \in Amounts : RefundRead(w, p, a)
        PROVE  UNCHANGED Ledger!ledger
    BY <1>5, LedgerStutter DEF PayRead, SplitRead, RefundRead, storeVars, paymentRows
  <1> QED
    BY <1>1, <1>2, <1>3, <1>4, <1>5 DEF PaymentsNext

-----------------------------------------------------------------------------
\* One request at a time: nothing in hand is ever old.

LEMMA SerialInitially ==
  ASSUME issued = {}, invoice = [i \in Invoices |-> BlankInvoice], BillingInit, PaymentsInit
  PROVE  SerialMoneyInv
  BY DEF SerialMoneyInv, BillingFresh, PaymentsFresh, CreditIsExact, OneInvoicePerOrder,
         RefundWithinPayment, BillingInit, PaymentsInit, BillIdle, PayIdle, BlankInvoice, Collecting

LEMMA SerialBilling ==
  ASSUME OneAtATime, MoneyInv, SerialMoneyInv, NEW w \in Workers, pay[w] = PayIdle,
         BillingNext(w), UNCHANGED paymentsVars
  PROVE  SerialMoneyInv'
  <1>1. PaymentsFresh' /\ RefundWithinPayment'
    BY DEF SerialMoneyInv, OneAtATime, PaymentsFresh, RefundWithinPayment, paymentsVars, PayIdle,
           Collecting
  <1>2. \A v \in Workers : v = w
    BY DEF OneAtATime
  <1>3. bill \in [Workers -> BillJob]
    BY DEF MoneyInv, MoneyTypeOK, BillingTypeOK
  <1>4. ASSUME NEW i \in Invoices, BillCommit(w, i) PROVE SerialMoneyInv'
    <2> DEFINE row == NewInvoice(bill[w])
    <2>1. /\ i \notin issued /\ issued' = issued \cup {i} /\ bill[w].phase = "tx"
          /\ invoice' = [invoice EXCEPT ![i] = row]
          /\ UNCHANGED collected
      BY <1>4 DEF BillCommit, paymentsVars
    <2>2. row.orderId = bill[w].orderId /\ row.paidAmount = 0
      BY DEF NewInvoice
    <2> HIDE DEF row
    <2>3. issued \subseteq Invoices /\ invoice \in [Invoices -> InvoiceRow]
      BY DEF MoneyInv, MoneyTypeOK, StoreTypeOK
    <2>4. bill'[w].phase \in {"idle", "notify"}
      BY <1>3, <1>4 DEF BillCommit, BillIdle, BillJob
    <2>5. BillingFresh'
      BY <1>2, <2>4 DEF BillingFresh
    <2>6. CreditIsExact'
      BY <2>1, <2>2, <2>3 DEF SerialMoneyInv, CreditIsExact, MoneyInv, UnissuedIsBlank
    <2>7. \A j \in issued : invoice[j].orderId # row.orderId
      BY <2>1, <2>2 DEF SerialMoneyInv, BillingFresh, InvoiceOf
    <2>8. OneInvoicePerOrder'
      BY <2>1, <2>3, <2>7 DEF SerialMoneyInv, OneInvoicePerOrder
    <2> QED
      BY <1>1, <2>5, <2>6, <2>8 DEF SerialMoneyInv
  <1>5. ASSUME UNCHANGED <<issued, invoice>>,
               bill'[w].phase = "tx" => ~ InvoiceOf(bill'[w].orderId)
        PROVE  SerialMoneyInv'
    BY <1>1, <1>2, <1>5 DEF SerialMoneyInv, BillingFresh, InvoiceOf, CreditIsExact,
                            OneInvoicePerOrder, paymentsVars
  <1>6. ASSUME NEW o \in Orders, BillRead(w, o) PROVE SerialMoneyInv'
    BY <1>3, <1>5, <1>6 DEF BillRead, storeVars
  <1>7. ASSUME BillReplay(w) \/ BillMiss(w) \/ BillAbort(w) PROVE SerialMoneyInv'
    BY <1>3, <1>5, <1>7 DEF BillReplay, BillMiss, BillAbort, BillIdle, BillJob, storeVars
  <1>8. ASSUME BillNotify(w) PROVE SerialMoneyInv'
    BY <1>3, <1>5, <1>8 DEF BillNotify, BillIdle
  <1> QED
    BY <1>4, <1>6, <1>7, <1>8 DEF BillingNext

LEMMA SerialPayments ==
  ASSUME OneAtATime, MoneyInv, SerialMoneyInv, NEW w \in Workers, bill[w] = BillIdle,
         PaymentsNext(w), UNCHANGED bill
  PROVE  SerialMoneyInv'
  <1>1. BillingFresh'
    BY DEF OneAtATime, BillingFresh, BillIdle
  <1>2. \A v \in Workers : v = w
    BY DEF OneAtATime
  <1>3. /\ pay \in [Workers -> PayJob] /\ issued \subseteq Invoices
        /\ invoice \in [Invoices -> InvoiceRow] /\ collected \in [Invoices -> Nat]
        /\ payment \in [PaymentIds -> PaymentRow] /\ made \subseteq PaymentIds
    BY DEF MoneyInv, MoneyTypeOK, StoreTypeOK, PaymentsTypeOK
  <1>4. PayIdle.phase = "idle"
    BY DEF PayIdle
  \* A commit that collects money.
  <1>5. ASSUME NEW i \in Invoices, NEW row \in InvoiceRow, NEW sum \in Nat,
               row.orderId = invoice[i].orderId,
               row.paidAmount = invoice[i].paidAmount + sum,
               SetInvoice(i, row), collected' = [collected EXCEPT ![i] = @ + sum],
               UNCHANGED issued, pay'[w].phase \in {"idle", "notify"}, RefundWithinPayment'
        PROVE  SerialMoneyInv'
    <2>1. PaymentsFresh'
      BY <1>2, <1>5 DEF PaymentsFresh, Collecting
    <2>2. CreditIsExact'
      BY <1>3, <1>5 DEF SetInvoice, SerialMoneyInv, CreditIsExact
    <2>3. OneInvoicePerOrder'
      BY <1>3, <1>5 DEF SetInvoice, SerialMoneyInv, OneInvoicePerOrder
    <2> QED
      BY <1>1, <1>5, <2>1, <2>2, <2>3 DEF SerialMoneyInv
  <1>6. ASSUME NEW p \in PaymentIds, PayCommit(w, p) PROVE SerialMoneyInv'
    <2> DEFINE job == pay[w]
               i   == job.invoiceId
               row == Credited(job.seen, job.amount)
    <2>1. /\ job.phase = "tx" /\ i \in Invoices /\ job.amount \in Nat /\ job.amount > 0
          /\ job.seen = invoice[i]
          /\ job.seen \in InvoiceRow
          /\ job.seen.paidAmount + job.seen.dueAmount = job.seen.grandTotal
          /\ job.amount <= job.seen.dueAmount
      BY <1>3, <1>6, AmountAssumption
      DEF PayCommit, MoneyInv, MoneyTypeOK, PaymentsTypeOK, SnapshotSound, SerialMoneyInv,
          PaymentsFresh, Collecting, PayJob
    <2>2. row \in InvoiceRow /\ row.orderId = job.seen.orderId
          /\ row.paidAmount = job.seen.paidAmount + job.amount
      BY <2>1, CreditedRow
    <2> HIDE DEF row
    <2>3. /\ made' = made \cup {p}
          /\ payment' = [payment EXCEPT ![p] = NewPayment(i, job.amount, job.key)]
          /\ collected' = [collected EXCEPT ![i] = @ + job.amount]
          /\ SetInvoice(i, row) /\ UNCHANGED issued
          /\ pay'[w].phase \in {"idle", "notify"}
      BY <1>3, <1>6 DEF PayCommit, PayIdle, row
    <2>4. RefundWithinPayment'
      BY <1>3, <2>1, <2>3 DEF NewPayment, SerialMoneyInv, RefundWithinPayment
    <2> QED
      BY <1>5, <2>1, <2>2, <2>3, <2>4
  <1>7. ASSUME NEW tenders \in Tenders, SplitCommit(w, tenders) PROVE SerialMoneyInv'
    <2> DEFINE job == pay[w]
               i   == job.invoiceId
               row == SettledInFull(job.seen)
    <2>1. /\ job.phase = "split" /\ i \in Invoices
          /\ job.seen = invoice[i]
          /\ job.seen \in InvoiceRow
          /\ job.seen.paidAmount + job.seen.dueAmount = job.seen.grandTotal
      BY <1>3, <1>7
      DEF SplitCommit, MoneyInv, MoneyTypeOK, PaymentsTypeOK, SnapshotSound, SerialMoneyInv,
          PaymentsFresh, Collecting
    <2>2. row \in InvoiceRow /\ row.orderId = job.seen.orderId
          /\ row.paidAmount = job.seen.grandTotal
      BY <2>1, SettledRow
    <2> HIDE DEF row
    <2>3. SumOf(tenders) \in Nat /\ row.paidAmount = job.seen.paidAmount + SumOf(tenders)
      BY <1>7, <2>1, <2>2 DEF SplitCommit, Balanced, InvoiceRow
    <2>4. /\ made' = made \cup DOMAIN tenders
          /\ payment' = [q \in PaymentIds |-> IF q \in DOMAIN tenders
                                              THEN NewPayment(i, tenders[q], None)
                                              ELSE payment[q]]
          /\ collected' = [collected EXCEPT ![i] = @ + SumOf(tenders)]
          /\ SetInvoice(i, row) /\ UNCHANGED issued
          /\ pay'[w].phase \in {"idle", "notify"}
      BY <1>3, <1>4, <1>7 DEF SplitCommit, row
    <2>5. /\ DOMAIN tenders \subseteq PaymentIds \ made
          /\ \A q \in DOMAIN tenders : tenders[q] \in Nat \ {0}
      BY AmountAssumption DEF Tenders
    <2>6. RefundWithinPayment'
      BY <1>3, <2>4, <2>5 DEF NewPayment, SerialMoneyInv, RefundWithinPayment
    <2> QED
      BY <1>5, <2>1, <2>2, <2>3, <2>4, <2>6
  <1>8. ASSUME RefundCommit(w) PROVE SerialMoneyInv'
    <2> DEFINE job == pay[w]
               p   == job.paymentId
               row == WithRefund(payment[p], job.amount, job.refunded)
    <2>1. /\ p \in made /\ job.amount \in Nat /\ payment[p] \in PaymentRow
          /\ job.refunded = payment[p].refunded
          /\ job.amount + job.refunded <= payment[p].amount
      BY <1>3, <1>8, AmountAssumption
      DEF RefundCommit, MoneyInv, MoneyTypeOK, PaymentsTypeOK, SerialMoneyInv, PaymentsFresh
    <2>2. /\ row.amount = payment[p].amount
          /\ row.refunded <= row.amount
          /\ row.status = "REFUNDED" <=> row.refunded = row.amount
      BY <2>1 DEF WithRefund, RefundStatus, PaymentRow
    <2> HIDE DEF row
    <2>3. /\ payment' = [payment EXCEPT ![p] = row] /\ pay'[w].phase = "idle"
          /\ UNCHANGED <<made, issued, invoice, collected>>
      BY <1>3, <1>4, <1>8 DEF RefundCommit, storeVars, row
    <2>4. RefundWithinPayment'
      BY <1>3, <2>1, <2>2, <2>3 DEF SerialMoneyInv, RefundWithinPayment
    <2>5. PaymentsFresh'
      BY <1>2, <2>3 DEF PaymentsFresh, Collecting
    <2> QED
      BY <1>1, <2>3, <2>4, <2>5 DEF SerialMoneyInv, CreditIsExact, OneInvoicePerOrder
  \* A step that only changes what the request has in hand.
  <1>9. ASSUME UNCHANGED <<issued, invoice, paymentRows>>, PaymentsFresh'
        PROVE  SerialMoneyInv'
    BY <1>1, <1>9 DEF SerialMoneyInv, CreditIsExact, OneInvoicePerOrder, RefundWithinPayment,
                      paymentRows
  <1>10. ASSUME NEW i \in issued, ~ invoice[i].isPaid, UNCHANGED <<storeVars, paymentRows>>,
                NEW phase \in Collecting, NEW amount, NEW key,
                ReadForPayment(w, i, phase, amount, key)
         PROVE  SerialMoneyInv'
    <2>1. PaymentsFresh'
      BY <1>2, <1>3, <1>10 DEF ReadForPayment, PaymentsFresh, Collecting, storeVars
    <2> QED
      BY <1>9, <1>10, <2>1 DEF storeVars
  <1>11. ASSUME NEW i \in Invoices, NEW a \in Amounts, NEW k \in Keys, PayRead(w, i, a, k)
         PROVE  SerialMoneyInv'
    BY <1>10, <1>11 DEF PayRead, Collecting
  <1>12. ASSUME NEW i \in Invoices, SplitRead(w, i) PROVE SerialMoneyInv'
    BY <1>10, <1>12 DEF SplitRead, Collecting
  <1>13. ASSUME NEW p \in PaymentIds, NEW a \in Amounts, RefundRead(w, p, a)
         PROVE  SerialMoneyInv'
    <2>1. /\ pay'[w].phase = "refund" /\ pay'[w].paymentId = p /\ pay'[w].amount = a
          /\ pay'[w].refunded = payment[p].refunded
          /\ UNCHANGED <<storeVars, paymentRows>>
          /\ a <= payment[p].amount - payment[p].refunded
      BY <1>3, <1>13 DEF RefundRead, Refundable, PayIdle
    <2>2. a \in Nat /\ payment[p] \in PaymentRow
      BY <1>3, AmountAssumption
    <2>3. a + payment[p].refunded <= payment[p].amount
      BY <2>1, <2>2 DEF PaymentRow
    <2>4. PaymentsFresh'
      BY <1>2, <2>1, <2>3 DEF PaymentsFresh, Collecting, paymentRows
    <2> QED
      BY <1>9, <2>1, <2>4 DEF storeVars
  <1>14. ASSUME PayReplay(w) \/ PayMiss(w) \/ PayAbort(w) \/ PayNotify(w)
         PROVE  SerialMoneyInv'
    <2>1. UNCHANGED <<issued, invoice, paymentRows>>
      BY <1>14 DEF PayReplay, PayMiss, PayAbort, PayNotify, storeVars
    <2>2. CASE pay' = [pay EXCEPT ![w] = PayIdle]
      <3>1. PaymentsFresh'
        BY <1>2, <1>3, <1>4, <2>2 DEF PaymentsFresh, Collecting
      <3> QED
        BY <1>9, <2>1, <3>1
    <2>3. CASE pay[w].phase = "lookup" /\ pay' = [pay EXCEPT ![w].phase = "tx"]
      <3>1. PaymentsFresh'
        BY <1>2, <1>3, <2>1, <2>3
        DEF SerialMoneyInv, PaymentsFresh, Collecting, PayJob, paymentRows
      <3> QED
        BY <1>9, <2>1, <3>1
    <2> QED
      BY <1>14, <2>2, <2>3 DEF PayReplay, PayMiss, PayAbort, PayNotify
  <1> QED
    BY <1>6, <1>7, <1>8, <1>11, <1>12, <1>13, <1>14 DEF PaymentsNext

LEMMA OthersKeepSerial ==
  ASSUME SerialMoneyInv, UNCHANGED <<issued, invoice, made, payment, collected>>,
         UNCHANGED bill \/ bill' = [w \in Workers |-> BillIdle],
         UNCHANGED pay \/ pay' = [w \in Workers |-> PayIdle]
  PROVE  SerialMoneyInv'
  <1>1. BillingFresh'
    BY DEF SerialMoneyInv, BillingFresh, InvoiceOf, BillIdle
  <1>2. PaymentsFresh'
    BY DEF SerialMoneyInv, PaymentsFresh, PayIdle, Collecting
  <1>3. CreditIsExact' /\ OneInvoicePerOrder' /\ RefundWithinPayment'
    BY DEF SerialMoneyInv, CreditIsExact, OneInvoicePerOrder, RefundWithinPayment
  <1> QED
    BY <1>1, <1>2, <1>3 DEF SerialMoneyInv

\* The payments of a paid invoice add up to its grand total.
LEMMA PaidExactlyByInv == MoneyInv /\ SerialMoneyInv => PaidExactly
  <1> SUFFICES ASSUME MoneyInv, SerialMoneyInv, NEW i \in issued, invoice[i].isPaid
               PROVE  collected[i] = invoice[i].grandTotal
    BY DEF PaidExactly
  <1>1. i \in Invoices /\ invoice[i] \in InvoiceRow
    BY DEF MoneyInv, MoneyTypeOK, StoreTypeOK
  <1> QED
    BY <1>1 DEF MoneyInv, SerialMoneyInv, PaidMeansNothingDue, LedgerBalanced, CreditIsExact,
                InvoiceRow

\* When all that is collected is credited, a step of the backed ledger is one of the exact.
LEMMA ExactTender ==
  ASSUME MoneyInv, MoneyInv', CreditIsExact, CreditIsExact', Ledger!BackedStep
  PROVE  Ledger!ExactStep
  <1>1. PICK i \in Invoices : Ledger!Tender(i)
    BY DEF Ledger!BackedStep
  <1>2. /\ invoice[i].paidAmount = collected[i] /\ collected[i] \in Nat
        /\ invoice'[i].paidAmount = collected'[i] /\ collected'[i] \in Nat
    BY DEF CreditIsExact, MoneyInv, MoneyTypeOK, PaymentsTypeOK
  <1> QED
    BY <1>1, <1>2 DEF Ledger!ExactStep
=============================================================================
