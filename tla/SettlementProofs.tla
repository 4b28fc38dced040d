-------------------------- MODULE SettlementProofs --------------------------
(***************************************************************************)
(* The safety of billing and payments: for any number of requests at a     *)
(* time, and the stronger promises for one request at a time.              *)
(***************************************************************************)
EXTENDS Settlement, MoneyProofs

-----------------------------------------------------------------------------
\* The invariant.

LEMMA InitInv == Init => IInv /\ Ledger!Init
  <1> SUFFICES ASSUME Init PROVE IInv /\ Ledger!Init
    OBVIOUS
  <1>1. StoreTypeOK
    <2>1. GrandTotal["DINE_IN"][Lines] \in Nat /\ "DINE_IN" \in OrderType
      BY GrandTotalAssumption DEF OrderType
    <2> QED
      BY <2>1 DEF Init, StoreTypeOK, OrderRow, InvoiceRow, BlankInvoice, OrderStatus, TableStatus
  <1>2. MoneyInv /\ Ledger!Init
    BY <1>1, MoneyInitially DEF Init
  <1>3. PaidOrderIsCovered
    BY DEF Init, PaidOrderIsCovered
  <1> QED
    BY <1>2, <1>3 DEF IInv

LEMMA NextInv == IInv /\ [Next]_vars => IInv'
  <1> SUFFICES ASSUME IInv, [Next]_vars PROVE IInv'
    OBVIOUS
  <1> USE DEF IInv
  <1>1. ASSUME NEW w \in Workers, BillingStep(w) PROVE IInv'
    BY <1>1, BillingKeeps DEF BillingStep, MoneyKept, PaidOrdersKept
  <1>2. ASSUME NEW w \in Workers, PaymentsStep(w) PROVE IInv'
    BY <1>2, PaymentsKeep DEF PaymentsStep, MoneyKept, PaidOrdersKept
  <1>3. ASSUME UNCHANGED vars PROVE IInv'
    <2>1. MoneyInv'
      BY <1>3, OthersKeep DEF vars, storeVars, paymentsVars, MoneyInv, MoneyTypeOK, StoreTypeOK
    <2>2. PaidOrdersKept
      BY <1>3, OthersKeepPaidOrders DEF vars, storeVars, paymentsVars
    <2> QED
      BY <2>1, <2>2 DEF PaidOrdersKept
  <1> QED
    BY <1>1, <1>2, <1>3 DEF Next

\* What billing and payments keep, in every interleaving of their handlers.
THEOREM Invariance == Spec => []IInv
  <1>1. Init => IInv
    BY InitInv
  <1> QED
    BY <1>1, NextInv, PTL DEF Spec

\* Every row and every request's local variables have their types, always.
THEOREM TypeCorrect == Spec => []TypeOK
  <1>1. IInv => TypeOK
    BY DEF IInv, MoneyInv, TypeOK
  <1> QED
    BY <1>1, Invariance, PTL

\* The paid and the due amount of every invoice add up, under any interleaving of any
\* number of payments, splits and refunds.
THEOREM Balance == Spec => []LedgerBalanced
  <1>1. IInv => LedgerBalanced
    BY DEF IInv, MoneyInv
  <1> QED
    BY <1>1, Invariance, PTL

\* An invoice is never credited with more than was collected for it.
THEOREM Backing == Spec => []CreditIsBacked
  <1>1. IInv => CreditIsBacked
    BY DEF IInv, MoneyInv
  <1> QED
    BY <1>1, Invariance, PTL

\* An invoice marked paid was paid in full.
THEOREM PaidCoverage == Spec => []PaidIsCovered
  <1>1. IInv => PaidIsCovered
    BY PaidIsCoveredByInv DEF IInv
  <1> QED
    BY <1>1, Invariance, PTL

\* A request and its retries charge the customer once.
THEOREM OneCharge == Spec => []OneChargePerKey
  <1>1. IInv => OneChargePerKey
    BY DEF IInv, MoneyInv
  <1> QED
    BY <1>1, Invariance, PTL

\* No order is PAID without an invoice of its own that was paid in full.
THEOREM PaidOrderCoverage == Spec => []PaidOrderIsCovered
  <1>1. IInv => PaidOrderIsCovered
    BY DEF IInv
  <1> QED
    BY <1>1, Invariance, PTL

-----------------------------------------------------------------------------
\* Refinement of the abstract ledger.

LEMMA LedgerNext == IInv /\ IInv' /\ [Next]_vars => [Ledger!BackedStep]_(Ledger!ledger)
  <1> SUFFICES ASSUME IInv, IInv', [Next]_vars
               PROVE  Ledger!BackedStep \/ UNCHANGED Ledger!ledger
    OBVIOUS
  <1>1. ASSUME NEW w \in Workers, BillingStep(w) PROVE UNCHANGED Ledger!ledger
    BY <1>1, BillingStutters DEF BillingStep, IInv
  <1>2. ASSUME NEW w \in Workers, PaymentsStep(w)
        PROVE  Ledger!BackedStep \/ UNCHANGED Ledger!ledger
    BY <1>2, PaymentsTender DEF PaymentsStep, IInv
  <1>3. ASSUME UNCHANGED vars PROVE UNCHANGED Ledger!ledger
    BY <1>3, LedgerStutter DEF vars, storeVars, paymentsVars
  <1> QED
    BY <1>1, <1>2, <1>3 DEF Next

\* Any number of concurrent requests keep the abstract ledger's weaker promise.
THEOREM LedgerRefinement == Spec => ImplementsBackedLedger
  <1>1. Init => Ledger!Init
    BY InitInv
  <1> QED
    BY <1>1, LedgerNext, Invariance, PTL DEF Spec, ImplementsBackedLedger, Ledger!BackedSpec

-----------------------------------------------------------------------------
\* One request at a time.

LEMMA SerialInit == Init => SerialInv
  <1>1. Init => OrderFollowsInvoice
    BY DEF Init, OrderFollowsInvoice
  <1>2. Init => SerialMoneyInv
    BY SerialInitially DEF Init
  <1> QED
    BY <1>1, <1>2, InitInv DEF SerialInv

\* Closing an order with its only invoice keeps the two together.
LEMMA ClosedTogether ==
  ASSUME IInv, OneInvoicePerOrder, OrderFollowsInvoice,
         NEW i \in issued, NEW row, row.orderId = invoice[i].orderId, ~ invoice[i].isPaid,
         row.isPaid \in BOOLEAN,
         SetInvoice(i, row), UNCHANGED issued,
         IF row.isPaid THEN order' = [order EXCEPT ![row.orderId] = WithStatus(@, "PAID")]
                       ELSE UNCHANGED order
  PROVE  OrderFollowsInvoice'
  <1>1. issued \subseteq Invoices /\ invoice \in [Invoices -> InvoiceRow]
        /\ order \in [Orders -> OrderRow] /\ \A j \in issued : invoice[j].orderId \in Orders
    BY DEF IInv, MoneyInv, MoneyTypeOK, StoreTypeOK, IssuedHasOrder
  <1>2. invoice'[i] = row /\ \A j \in issued \ {i} : invoice'[j] = invoice[j]
    BY <1>1 DEF SetInvoice
  <1>3. \A j \in issued \ {i} : invoice[j].orderId # row.orderId
    BY DEF OneInvoicePerOrder
  <1> QED
    BY <1>1, <1>2, <1>3 DEF OrderFollowsInvoice, WithStatus

LEMMA SerialNext == OneAtATime /\ SerialInv /\ [Next]_vars => SerialInv'
  <1> SUFFICES ASSUME OneAtATime, SerialInv, [Next]_vars PROVE SerialInv'
    OBVIOUS
  <1>1. IInv' /\ IInv /\ MoneyInv /\ SerialMoneyInv
    BY NextInv DEF SerialInv, IInv
  <1>2. ASSUME NEW w \in Workers, BillingStep(w) PROVE SerialInv'
    <2>1. SerialMoneyInv'
      BY <1>1, <1>2, SerialBilling DEF BillingStep
    <2>2. ASSUME NEW i \in Invoices, BillCommit(w, i) PROVE OrderFollowsInvoice'
      <3> DEFINE o == bill[w].orderId
      <3>1. /\ i \notin issued /\ issued' = issued \cup {i}
            /\ invoice' = [invoice EXCEPT ![i] = NewInvoice(bill[w])]
            /\ order' = [order EXCEPT ![o] = WithStatus(@, "BILLED")]
        BY <2>2 DEF BillCommit
      <3>2. /\ issued \subseteq Invoices /\ invoice \in [Invoices -> InvoiceRow]
            /\ order \in [Orders -> OrderRow]
        BY <1>1 DEF MoneyInv, MoneyTypeOK, StoreTypeOK
      <3>3. \A j \in issued : invoice[j].orderId # o
        BY <1>1, <2>2 DEF BillCommit, SerialMoneyInv, BillingFresh, InvoiceOf
      <3>4. o \in Orders
        BY <1>1, <2>2 DEF BillCommit, MoneyInv, MoneyTypeOK, StoreTypeOK, BillingTypeOK
      <3>5. \A j \in issued : order'[invoice[j].orderId] = order[invoice[j].orderId]
        BY <1>1, <3>1, <3>2, <3>3, <3>4 DEF MoneyInv, IssuedHasOrder, MoneyTypeOK, StoreTypeOK
      <3> QED
        BY <3>1, <3>2, <3>4, <3>5 DEF NewInvoice, WithStatus, SerialInv, OrderFollowsInvoice
    <2>3. ASSUME UNCHANGED <<issued, invoice, order>> PROVE OrderFollowsInvoice'
      BY <2>3 DEF SerialInv, OrderFollowsInvoice
    <2>4. OrderFollowsInvoice'
      BY <1>2, <2>2, <2>3 DEF BillingStep, BillingNext, BillRead, BillReplay, BillMiss, BillNotify,
                              BillAbort, storeVars
    <2> QED
      BY <1>1, <2>1, <2>4 DEF SerialInv
  <1>3. ASSUME NEW w \in Workers, PaymentsStep(w) PROVE SerialInv'
    <2>1. SerialMoneyInv'
      BY <1>1, <1>3, SerialPayments DEF PaymentsStep
    <2>2. pay[w].phase \in Collecting =>
            /\ pay[w].invoiceId \in issued
            /\ pay[w].seen = invoice[pay[w].invoiceId] /\ ~ pay[w].seen.isPaid
      BY <1>1 DEF MoneyInv, MoneyTypeOK, PaymentsTypeOK, SerialMoneyInv, PaymentsFresh
    <2>3. ASSUME NEW p \in PaymentIds, PayCommit(w, p) PROVE OrderFollowsInvoice'
      <3> DEFINE i   == pay[w].invoiceId
                 row == Credited(pay[w].seen, pay[w].amount)
      <3>1. i \in issued /\ row.orderId = invoice[i].orderId /\ ~ invoice[i].isPaid
            /\ row.isPaid \in BOOLEAN /\ row.orderId = pay[w].seen.orderId
        BY <2>2, <2>3 DEF PayCommit, Collecting, Credited
      <3>2. /\ SetInvoice(i, row) /\ UNCHANGED issued
            /\ IF row.isPaid THEN CloseOrder(pay[w].seen.orderId, pay[w].tableId)
                             ELSE UNCHANGED order
        BY <2>3 DEF PayCommit
      <3> HIDE DEF i, row
      <3> QED
        BY <1>1, <3>1, <3>2, ClosedTogether DEF CloseOrder, SerialInv, SerialMoneyInv
    <2>4. ASSUME NEW tenders \in Tenders, SplitCommit(w, tenders) PROVE OrderFollowsInvoice'
      <3> DEFINE i   == pay[w].invoiceId
                 row == SettledInFull(pay[w].seen)
      <3>1. i \in issued /\ row.orderId = invoice[i].orderId /\ ~ invoice[i].isPaid
            /\ row.isPaid = TRUE /\ row.orderId = pay[w].seen.orderId
        BY <2>2, <2>4 DEF SplitCommit, Collecting, SettledInFull
      <3>2. /\ SetInvoice(i, row) /\ UNCHANGED issued
            /\ CloseOrder(pay[w].seen.orderId, pay[w].tableId)
        BY <2>4 DEF SplitCommit
      <3> HIDE DEF i, row
      <3> QED
        BY <1>1, <3>1, <3>2, ClosedTogether DEF CloseOrder, SerialInv, SerialMoneyInv
    <2>5. ASSUME UNCHANGED <<issued, invoice, order>> PROVE OrderFollowsInvoice'
      BY <2>5 DEF SerialInv, OrderFollowsInvoice
    <2>6. OrderFollowsInvoice'
      BY <1>3, <2>3, <2>4, <2>5
      DEF PaymentsStep, PaymentsNext, PayRead, PayReplay, PayMiss, PayNotify, SplitRead, RefundRead,
          RefundCommit, PayAbort, storeVars
    <2> QED
      BY <1>1, <2>1, <2>6 DEF SerialInv
  <1>4. ASSUME UNCHANGED vars PROVE SerialInv'
    <2>1. SerialMoneyInv'
      BY <1>1, <1>4, OthersKeepSerial DEF vars, storeVars, paymentsVars
    <2> QED
      BY <1>1, <1>4, <2>1 DEF SerialInv, OrderFollowsInvoice, vars, storeVars
  <1> QED
    BY <1>2, <1>3, <1>4 DEF Next

\* With one request at a time, what a handler has read is still so when it commits.
THEOREM SerialInvariance ==
  ASSUME OneAtATime
  PROVE  Spec => []SerialInv
  <1>1. SerialInv /\ [Next]_vars => SerialInv'
    BY SerialNext
  <1> QED
    BY <1>1, SerialInit, PTL DEF Spec

\* With one request at a time, the payments of a paid invoice add up to its total.
THEOREM SerialPaid ==
  ASSUME OneAtATime
  PROVE  Spec => []PaidExactly
  <1>1. SerialInv => PaidExactly
    BY PaidExactlyByInv DEF SerialInv, IInv
  <1> QED
    BY <1>1, SerialInvariance, PTL

\* With one request at a time, no order is billed twice.
THEOREM SerialInvoices ==
  ASSUME OneAtATime
  PROVE  Spec => []OneInvoicePerOrder
  <1>1. SerialInv => OneInvoicePerOrder
    BY DEF SerialInv, SerialMoneyInv
  <1> QED
    BY <1>1, SerialInvariance, PTL

\* With one request at a time, an order is PAID exactly when its invoice is.
THEOREM SerialOrders ==
  ASSUME OneAtATime
  PROVE  Spec => []OrderFollowsInvoice
  <1>1. SerialInv => OrderFollowsInvoice
    BY DEF SerialInv
  <1> QED
    BY <1>1, SerialInvariance, PTL

\* With one request at a time, no payment is refunded beyond its amount.
THEOREM SerialRefunds ==
  ASSUME OneAtATime
  PROVE  Spec => []RefundWithinPayment
  <1>1. SerialInv => RefundWithinPayment
    BY DEF SerialInv, SerialMoneyInv
  <1> QED
    BY <1>1, SerialInvariance, PTL

\* With one request at a time, every amount tendered is credited, once.
THEOREM SerialLedger ==
  ASSUME OneAtATime
  PROVE  Spec => ImplementsExactLedger
  <1>1. Init => Ledger!Init
    BY InitInv
  <1>2. SerialInv /\ SerialInv' /\ [Next]_vars => [Ledger!ExactStep]_(Ledger!ledger)
    <2> SUFFICES ASSUME SerialInv, SerialInv', [Next]_vars
                 PROVE  Ledger!ExactStep \/ UNCHANGED Ledger!ledger
      OBVIOUS
    <2>1. Ledger!BackedStep \/ UNCHANGED Ledger!ledger
      BY LedgerNext DEF SerialInv
    <2>2. MoneyInv /\ MoneyInv' /\ CreditIsExact /\ CreditIsExact'
      BY DEF SerialInv, IInv, SerialMoneyInv
    <2> QED
      BY <2>1, <2>2, ExactTender
  <1> QED
    BY <1>1, <1>2, SerialInvariance, PTL DEF Spec, ImplementsExactLedger, Ledger!ExactSpec
=============================================================================
