--------------------------- MODULE MCFrontOfHouse ---------------------------
(***************************************************************************)
(* FrontOfHouse on a small instance.  A line costs 20 and comes with a     *)
(* variant for 10 more.  create charges 5% tax and, for dine-in, 5%        *)
(* service; an invoice charges the same rates and forgets the variants;    *)
(* cancelItem charges one tenth on top, whatever the type of the order.    *)
(***************************************************************************)
EXTENDS FrontOfHouse, TLC

CONSTANT Station   \* where the first line of the menu is cooked; the others nowhere

Rules == INSTANCE BillingRules

Charge(type, S, extras) ==
  Rules!BillTotal(
    [items |-> [l \in S |-> [basePrice |-> 20, extras |-> extras, quantity |-> 1,
                            itemDiscount |-> 0]],
     taxes |-> <<[ratePercent |-> 5, isInclusive |-> FALSE]>>,
     billDiscountAmount |-> 0, billDiscountPercent |-> 0,
     serviceChargePercent |-> IF type = "DINE_IN" THEN 5 ELSE 0,
     deliveryChargeAmount |-> 0])

MCGrandTotal == [type \in OrderType |-> [S \in SUBSET Lines |-> Charge(type, S, 10)]]

MCInvoiceTotal == [type \in OrderType |-> [S \in SUBSET Lines |-> Charge(type, S, 0)]]

MCCancelTotal ==
  [S \in SUBSET Lines |-> Rules!RoundedQuotient(30 * Cardinality(S) * 11, 10)]

MCStationOf == [l \in Lines |-> Station]

\* What the guards and the properties of a run read: everything but what the clients last
\* heard of a table and the status of a ticket, which the handlers write and never read.
Observed == <<placed, order, active, table, issued, invoice, lines, syncId, paymentRows,
              requests>>

Symmetry == Permutations(Workers) \cup Permutations(Orders) \cup Permutations(Lines)
            \cup Permutations(Tables) \cup Permutations(Invoices) \cup Permutations(PaymentIds)
            \cup Permutations(Keys) \cup Permutations(SyncIds)
=============================================================================
