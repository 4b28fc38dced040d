----------------------------- MODULE Settlement -----------------------------
(***************************************************************************)
(* Billing and payments together: from placed orders to paid invoices.     *)
(* A worker serves one request at a time; with one worker the API is used  *)
(* by one person, with two the requests of two terminals interleave.       *)
(***************************************************************************)
EXTENDS Money

vars == <<storeVars, bill, paymentsVars>>

\* Orders as OrdersService.create leaves them.  Their type decides on the totals only, and
\* InvoiceTotal is any function.
Init ==
  /\ placed = Orders
  /\ active = [o \in Orders |-> Lines]
  /\ \E tableOf \in [Orders -> Tables \cup {None}] :
       /\ order = [o \in Orders |-> [orderType |-> "DINE_IN", status |-> "CONFIRMED",
                                     version |-> 1, tableId |-> tableOf[o],
                                     grandTotal |-> GrandTotal["DINE_IN"][Lines]]]
       /\ table = [t \in Tables |-> IF \E o \in Orders : tableOf[o] = t
                                    THEN "OCCUPIED" ELSE "AVAILABLE"]
  /\ issued = {}
  /\ invoice = [i \in Invoices |-> BlankInvoice]
  /\ shown = table
  /\ BillingInit
  /\ PaymentsInit

BillingStep(w) == pay[w] = PayIdle /\ BillingNext(w) /\ UNCHANGED paymentsVars

PaymentsStep(w) == bill[w] = BillIdle /\ PaymentsNext(w) /\ UNCHANGED bill

Next == \E w \in Workers : BillingStep(w) \/ PaymentsStep(w)

Spec == Init /\ [][Next]_vars

TypeOK == MoneyTypeOK

\* The inductive invariant, for any number of requests at a time.
IInv == MoneyInv /\ PaidOrderIsCovered

-----------------------------------------------------------------------------
\* With one request at a time.

\* An order is PAID exactly when its invoice is paid: it can not be billed again.
OrderFollowsInvoice ==
  \A i \in issued : invoice[i].isPaid <=> order[invoice[i].orderId].status = "PAID"

\* What makes it inductive.
SerialInv == IInv /\ SerialMoneyInv /\ OrderFollowsInvoice
=============================================================================
