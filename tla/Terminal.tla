------------------------------ MODULE Terminal ------------------------------
(***************************************************************************)
(* The POS page (App.tsx): the cart, the dialogs that settle it and show   *)
(* the receipt, and the actions it hands to the sync engine.  Buttons      *)
(* behind an open dialog keep the keyboard focus, and the hot keys work at *)
(* any time, so every operation can follow every other one.  A reload      *)
(* starts the page afresh; what was handed over stays in the queue.  Left  *)
(* out is what only changes what is shown: the menu filter and the table's *)
(* name.                                                                   *)
(***************************************************************************)
EXTENDS BillingRules, Sequences, FiniteSets

CONSTANTS MenuItems,   \* ids of menu items
          Price,       \* their prices
          SampleCart,  \* the portions the page starts with
          MaxQuantity, \* bound: portions of one item in the cart
          MaxActions,  \* bound: actions handed to the sync engine
          MaxReloads   \* bound: reloads of the page

ASSUME PriceAssumption == Price \in [MenuItems -> Nat \ {0}]
ASSUME MenuAssumption == IsFiniteSet(MenuItems)
ASSUME TerminalBounds ==
  /\ MaxQuantity \in Nat /\ MaxActions \in Nat /\ MaxReloads \in Nat
  /\ SampleCart \in [MenuItems -> 0 .. MaxQuantity]

VARIABLES cart,        \* portions per item; 0: the item is not in the cart
          dineIn,      \* orderType = DINE_IN
          orderNumber, \* counted from 0
          tendered,    \* PaymentModal: the sum of its tenders; NotOpen: it is closed
          splitOpen,   \* isSplitOpen
          receiptOpen, \* isReceiptOpen
          outbox,      \* history: what was handed to syncEngine.enqueueAction
          page         \* history: how often the page was reloaded

terminalVars == <<cart, dineIn, orderNumber, tendered, splitOpen, receiptOpen, outbox, page>>
dialogs      == <<tendered, splitOpen, receiptOpen>>

NotOpen == -1

\* Of an action its order number, and of a payment the total; items and tenders are left out.
Entry == [type: {"CREATE_ORDER"}, page: 0 .. MaxReloads, orderNumber: Nat]
         \cup [type: {"PROCESS_PAYMENT"}, page: 0 .. MaxReloads, orderNumber: Nat,
               grandTotal: Nat]

TerminalTypeOK ==
  /\ cart \in [MenuItems -> 0 .. MaxQuantity]
  /\ dineIn \in BOOLEAN /\ splitOpen \in BOOLEAN /\ receiptOpen \in BOOLEAN
  /\ page \in 0 .. MaxReloads
  /\ orderNumber \in 0 .. MaxActions
  /\ tendered \in Nat \cup {NotOpen}
  /\ outbox \in Seq(Entry) /\ Len(outbox) <= MaxActions

EmptyCart == [m \in MenuItems |-> 0]

TerminalInit ==
  /\ cart = SampleCart
  /\ dineIn = TRUE
  /\ orderNumber = 0
  /\ tendered = NotOpen
  /\ splitOpen = FALSE /\ receiptOpen = FALSE
  /\ outbox = <<>>
  /\ page = 0

-----------------------------------------------------------------------------
\* billing: calculateOrderBilling of the cart, with GST and, at a table, service charge.

GST == [ratePercent |-> 5, isInclusive |-> FALSE]

CartItems(c) ==
  [m \in {n \in MenuItems : c[n] > 0} |->
     [basePrice |-> Price[m], extras |-> 0, quantity |-> c[m], itemDiscount |-> 0]]

CartBill(c, served) ==
  [items |-> CartItems(c), billDiscountAmount |-> 0, billDiscountPercent |-> 0,
   taxes |-> <<GST>>, serviceChargePercent |-> IF served THEN 5 ELSE 0,
   deliveryChargeAmount |-> 0]

\* One portion more than fits, for BillFollowsCart.
Totals ==
  [c \in [MenuItems -> 0 .. MaxQuantity + 1] |-> [served \in BOOLEAN |->
     BillTotal(CartBill(c, served))]]

GrandTotal == Totals[cart][dineIn]

-----------------------------------------------------------------------------

\* addToCart and updateQuantity(id, 1)
MorePortions(q) == q + 1

AddToCart(m) ==
  /\ cart[m] < MaxQuantity
  /\ cart' = [cart EXCEPT ![m] = MorePortions(@)]
  /\ UNCHANGED <<dineIn, orderNumber, dialogs, outbox, page>>

\* updateQuantity(id, -1): an item of which nothing is left leaves the cart.
RemoveFromCart(m) ==
  /\ cart[m] > 0
  /\ cart' = [cart EXCEPT ![m] = @ - 1]
  /\ UNCHANGED <<dineIn, orderNumber, dialogs, outbox, page>>

ClearCart ==
  /\ cart' = EmptyCart
  /\ UNCHANGED <<dineIn, orderNumber, dialogs, outbox, page>>

SetOrderType(served) ==
  /\ dineIn' = served
  /\ UNCHANGED <<cart, orderNumber, dialogs, outbox, page>>

\* handleFireKot: the cart stays as it is.
HandleFireKot ==
  /\ cart # EmptyCart
  /\ Len(outbox) < MaxActions
  /\ outbox' = Append(outbox, [type |-> "CREATE_ORDER", page |-> page,
                               orderNumber |-> orderNumber])
  /\ UNCHANGED <<cart, dineIn, orderNumber, dialogs, page>>

-----------------------------------------------------------------------------
\* The dialogs.  F12 and F8 do not look at the cart.

\* PaymentModal starts with one tender over the total of that moment.
OpenPayment ==
  /\ tendered = NotOpen
  /\ tendered' = GrandTotal
  /\ UNCHANGED <<cart, dineIn, orderNumber, splitOpen, receiptOpen, outbox, page>>

\* handleQuickCash, handleSelectSingleTender: the tender is made anew.
RenewTender ==
  /\ tendered # NotOpen
  /\ tendered' = GrandTotal
  /\ UNCHANGED <<cart, dineIn, orderNumber, splitOpen, receiptOpen, outbox, page>>

\* handleSubmit refuses a short payment.
Covers(sum, total) == sum >= total

\* Mutant: the number stays.
SameNumber(n) == n

NextNumber(n) == n + 1

\* handleSubmit and handlePaymentComplete: the receipt opens over the cart and the number of
\* the next order.
HandlePaymentComplete ==
  /\ tendered # NotOpen
  /\ Covers(tendered, GrandTotal)
  /\ Len(outbox) < MaxActions
  /\ outbox' = Append(outbox, [type |-> "PROCESS_PAYMENT", page |-> page,
                               orderNumber |-> orderNumber, grandTotal |-> GrandTotal])
  /\ tendered' = NotOpen
  /\ cart' = EmptyCart
  /\ orderNumber' = NextNumber(orderNumber)
  /\ receiptOpen' = TRUE
  /\ UNCHANGED <<dineIn, splitOpen, page>>

OpenSplit ==
  /\ splitOpen' = TRUE
  /\ UNCHANGED <<cart, dineIn, orderNumber, tendered, receiptOpen, outbox, page>>

\* onCompleteSplit: the shares are dropped, and PaymentModal opens over the whole total.
CompleteSplit(persons) ==
  /\ splitOpen
  /\ IsBalanced(GrandTotal, EqualSplit(GrandTotal, persons))
  /\ splitOpen' = FALSE
  /\ tendered' = IF tendered = NotOpen THEN GrandTotal ELSE tendered
  /\ UNCHANGED <<cart, dineIn, orderNumber, receiptOpen, outbox, page>>

\* onClose of a dialog
ClosePayment ==
  /\ tendered' = NotOpen
  /\ UNCHANGED <<cart, dineIn, orderNumber, splitOpen, receiptOpen, outbox, page>>

CloseSplit ==
  /\ splitOpen' = FALSE
  /\ UNCHANGED <<cart, dineIn, orderNumber, tendered, receiptOpen, outbox, page>>

CloseReceipt ==
  /\ receiptOpen' = FALSE
  /\ UNCHANGED <<cart, dineIn, orderNumber, tendered, splitOpen, outbox, page>>

\* Escape
CloseAll ==
  /\ tendered' = NotOpen
  /\ splitOpen' = FALSE /\ receiptOpen' = FALSE
  /\ UNCHANGED <<cart, dineIn, orderNumber, outbox, page>>

\* The page is loaded again: the order number starts over.
ReloadPage ==
  /\ page < MaxReloads
  /\ page' = page + 1
  /\ cart' = SampleCart
  /\ dineIn' = TRUE
  /\ orderNumber' = 0
  /\ tendered' = NotOpen
  /\ splitOpen' = FALSE /\ receiptOpen' = FALSE
  /\ UNCHANGED outbox

\* The buttons of the split dialog.
Persons == 2 .. 6

TerminalNext ==
  \/ \E m \in MenuItems : AddToCart(m) \/ RemoveFromCart(m)
  \/ ClearCart
  \/ \E served \in BOOLEAN : SetOrderType(served)
  \/ HandleFireKot
  \/ OpenPayment
  \/ RenewTender
  \/ HandlePaymentComplete
  \/ OpenSplit
  \/ \E persons \in Persons : CompleteSplit(persons)
  \/ ClosePayment
  \/ CloseSplit
  \/ CloseReceipt
  \/ CloseAll
  \/ ReloadPage

-----------------------------------------------------------------------------
Payments == {k \in DOMAIN outbox : outbox[k].type = "PROCESS_PAYMENT"}

\* As long as the page is not reloaded, an order number is paid once, and nothing is ordered
\* on it afterwards: what the server replays from the queue never reopens a paid order
\* (App.tsx:204-218).  A reload starts over with numbers that may be in the queue.
PaidLast ==
  \A k \in Payments : \A j \in DOMAIN outbox :
    j > k /\ outbox[j].page = outbox[k].page =>
      outbox[j].orderNumber > outbox[k].orderNumber

\* The receipt that opens when a payment is completed is the one of the order that was paid
\* (PaymentModal.tsx:247): it shows its number and its total.
ReceiptIsOfPaidOrder ==
  receiptOpen =>
    \E k \in Payments : /\ outbox[k].orderNumber = orderNumber
                       /\ outbox[k].grandTotal = GrandTotal

\* The equal split of the bill in the dialog adds up to it, no two shares differ by more than one minor
\* unit, and the larger ones come first (docs/billing.md, section 4).
SplitsFairly ==
  splitOpen => \A n \in Persons :
    LET shares == EqualSplit(GrandTotal, n)
    IN  /\ IsBalanced(GrandTotal, shares)
        /\ \A k \in 1 .. n - 1 : shares[k] >= shares[k + 1]
        /\ shares[1] - shares[n] <= 1

\* A portion more costs at least its price more, whatever the rounding of tax and charge;
\* a bill is never below its items, and never above them by more than the two rates and
\* their roundings.
BillFollowsCart ==
  LET items == Subtotal(CartItems(cart))
  IN  /\ \A m \in MenuItems :
           LET more == [cart EXCEPT ![m] = @ + 1]
           IN  Totals[more][dineIn] >= GrandTotal + Price[m]
      /\ GrandTotal >= items
      /\ 100 * GrandTotal <= 110 * items + 100
=============================================================================
