------------------------------- MODULE Money -------------------------------
(***************************************************************************)
(* What billing and payments promise about money, whoever else changes     *)
(* orders and tables at the same time: the rows they share with Settlement *)
(* and FrontOfHouse, the invariants, and the abstract ledger they implement.*)
(***************************************************************************)
EXTENDS Billing, Payments

MoneyTypeOK == StoreTypeOK /\ BillingTypeOK /\ PaymentsTypeOK

-----------------------------------------------------------------------------
\* Whatever the interleaving.

\* The paid and the due amount of an invoice always add up to its grand total, also
\* when two handlers overwrite each other's columns (payments.service.ts:83-94).
LedgerBalanced ==
  \A i \in issued : invoice[i].paidAmount + invoice[i].dueAmount = invoice[i].grandTotal

\* An invoice is never credited with more money than was collected for it, although
\* what it is credited with may come from a row read long ago: an update can be lost,
\* money can not be invented.
CreditIsBacked == \A i \in issued : invoice[i].paidAmount <= collected[i]

\* An invoice marked paid was paid in full.
PaidIsCovered ==
  \A i \in issued : invoice[i].isPaid => collected[i] >= invoice[i].grandTotal

\* A request and its retries with one idempotency key charge the customer once, also
\* when they run at the same time (payments.service.ts:55-63 and the unique index).
OneChargePerKey ==
  \A p, q \in made : payment[p].key = payment[q].key /\ payment[p].key # None => p = q

\* An order is only ever marked PAID after one of its invoices was paid in full, whatever
\* happened to the columns of that invoice or to the order since (payments.service.ts:97-104
\* and 185-191).
PaidOrderIsCovered ==
  \A o \in Orders : order[o].status = "PAID" =>
    \E i \in issued : invoice[i].orderId = o /\ collected[i] >= invoice[i].grandTotal

\* What makes these inductive: the row a handler has read is old, but it was balanced and
\* backed when it was read, what was collected only grows, and an amount that fitted the
\* due of that row still fits it.
SnapshotSound ==
  \A w \in Workers : pay[w].phase \in Collecting =>
    LET seen == pay[w].seen
        i    == pay[w].invoiceId
    IN  /\ seen.orderId = invoice[i].orderId
        /\ seen.grandTotal = invoice[i].grandTotal
        /\ seen.paidAmount + seen.dueAmount = seen.grandTotal
        /\ seen.paidAmount <= collected[i]
        /\ IF pay[w].phase = "split" THEN seen.dueAmount >= 2
                                    ELSE pay[w].amount <= seen.dueAmount

PaidMeansNothingDue == \A i \in issued : invoice[i].isPaid => invoice[i].dueAmount = 0

UnissuedIsBlank ==
  \A i \in Invoices \ issued : invoice[i] = BlankInvoice /\ collected[i] = 0

IssuedHasOrder == \A i \in issued : invoice[i].orderId \in placed

MoneyInv == /\ MoneyTypeOK
            /\ UnissuedIsBlank
            /\ IssuedHasOrder
            /\ LedgerBalanced
            /\ CreditIsBacked
            /\ PaidMeansNothingDue
            /\ SnapshotSound
            /\ OneChargePerKey

-----------------------------------------------------------------------------
\* With one request at a time.

OneAtATime == \A v, w \in Workers : v = w

\* The payments of a paid invoice add up to its grand total (docs/billing.md, section 4).
PaidExactly == \A i \in issued : invoice[i].isPaid => collected[i] = invoice[i].grandTotal

\* An order has at most one invoice (billing.service.ts:51-58).
OneInvoicePerOrder ==
  \A i, j \in issued : invoice[i].orderId = invoice[j].orderId => i = j

\* No more is refunded than was paid, and the status tells how much
\* (payments.service.ts:225-254).
RefundWithinPayment ==
  \A p \in made : /\ payment[p].refunded <= payment[p].amount
                  /\ payment[p].status = "REFUNDED" <=> payment[p].refunded = payment[p].amount

\* What makes these inductive: what a handler has in hand is still what the rows say, and
\* every amount that was collected was credited.
BillingFresh == \A w \in Workers : bill[w].phase = "tx" => ~ InvoiceOf(bill[w].orderId)

PaymentsFresh ==
  \A w \in Workers :
    /\ pay[w].phase \in Collecting => /\ pay[w].seen = invoice[pay[w].invoiceId]
                                     /\ ~ pay[w].seen.isPaid
    /\ pay[w].phase = "refund" =>
         LET p == pay[w].paymentId
         IN  /\ pay[w].refunded = payment[p].refunded
             /\ pay[w].amount + pay[w].refunded <= payment[p].amount

CreditIsExact == \A i \in Invoices : collected[i] = invoice[i].paidAmount

SerialMoneyInv == /\ BillingFresh
                  /\ PaymentsFresh
                  /\ CreditIsExact
                  /\ OneInvoicePerOrder
                  /\ RefundWithinPayment

-----------------------------------------------------------------------------
\* The abstract ledger: what was collected and what the invoices say was paid.

Ledger == INSTANCE TenderLedger WITH
            Bills    <- Invoices,
            tendered <- collected,
            credited <- [i \in Invoices |-> invoice[i].paidAmount]

\* Any number of requests at a time: the handlers implement the backed ledger.
ImplementsBackedLedger == Ledger!BackedSpec

\* One request at a time: they implement the exact one.
ImplementsExactLedger == Ledger!ExactSpec
=============================================================================
