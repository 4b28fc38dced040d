---------------------------- MODULE TerminalProofs ----------------------------
(***************************************************************************)
(* What the POS page shows and hands over, for every menu, every cart and  *)
(* every number of orders: the invariants of Terminal and the steps that   *)
(* keep them.  The theorems are in StandaloneProofs.                       *)
(***************************************************************************)
EXTENDS Terminal, BillingRulesProofs

\* A cart, with the portion more that BillFollowsCart adds.
Carts == [MenuItems -> 0 .. MaxQuantity + 1]

Cost(c) == [m \in MenuItems |-> Price[m] * c[m]]

CartCost(c) == SumOn(Cost(c), MenuItems)

LEMMA CostType ==
  ASSUME NEW c \in Carts
  PROVE  /\ \A m \in MenuItems : Cost(c)[m] \in Nat
         /\ CartCost(c) \in Nat
  <1>1. \A m \in MenuItems : Cost(c)[m] \in Nat
    <2> TAKE m \in MenuItems
    <2>1. Price[m] \in Nat /\ c[m] \in Nat
      BY PriceAssumption, TerminalBounds DEF Carts
    <2>2. Price[m] * c[m] \in Nat
      BY <2>1, Multiple
    <2> QED
      BY <2>2 DEF Cost
  <1> QED
    BY <1>1, MenuAssumption, SumType DEF CartCost

LEMMA TimesZero ==
  ASSUME NEW p \in Nat
  PROVE  p * 0 = 0
  OBVIOUS

\* The items of the bill are those of which there is a portion.
LEMMA CartItemsCost ==
  ASSUME NEW c \in Carts
  PROVE  /\ Subtotal(CartItems(c)) = CartCost(c)
         /\ ItemDiscountsTotal(CartItems(c)) = 0
  <1> DEFINE R == {m \in MenuItems : c[m] > 0}
             items == CartItems(c)
             lines == [k \in R |-> LineSubtotal(items[k])]
             cuts == [k \in R |-> LineDiscount(items[k])]
  <1>1. DOMAIN items = R /\ \A m \in R : items[m].basePrice = Price[m] /\ items[m].extras = 0
                              /\ items[m].quantity = c[m] /\ items[m].itemDiscount = 0
    BY DEF CartItems
  <1>2. \A m \in MenuItems : Price[m] \in Nat /\ c[m] \in Nat /\ Cost(c)[m] = Price[m] * c[m]
    BY PriceAssumption, TerminalBounds DEF Carts, Cost
  <1>3. \A m \in R : LineSubtotal(items[m]) = Cost(c)[m]
    <2> TAKE m \in R
    <2>1. Price[m] + 0 = Price[m]
      BY <1>2
    <2> QED
      BY <1>1, <1>2, <2>1 DEF LineSubtotal
  <1>4. \A m \in MenuItems \ R : Cost(c)[m] = 0
    <2> TAKE m \in MenuItems \ R
    <2>1. c[m] = 0
      BY <1>2
    <2> QED
      BY <1>2, <2>1, TimesZero
  <1>5. \A m \in R : LineDiscount(items[m]) = 0
    BY <1>1, <1>3, CostType DEF LineDiscount, Least
  <1>6. SumOn(lines, R) = CartCost(c)
    <2>1. \A m \in R : lines[m] = Cost(c)[m]
      BY <1>3
    <2>2. R \in SUBSET MenuItems
      OBVIOUS
    <2> HIDE DEF lines, R
    <2> QED
      BY <1>4, <2>1, <2>2, CostType, MenuAssumption, SumSame DEF CartCost
  <1>7. SumOn(cuts, R) = 0
    <2> DEFINE none == [m \in MenuItems |-> 0]
    <2>1. /\ \A m \in R : cuts[m] = none[m]
          /\ \A m \in MenuItems : none[m] \in Nat
          /\ \A m \in MenuItems \ R : none[m] = 0
      BY <1>5
    <2>2. R \in SUBSET MenuItems /\ {} \in SUBSET MenuItems
      OBVIOUS
    <2>3. \A m \in MenuItems \ {} : none[m] = 0
      OBVIOUS
    <2> HIDE DEF cuts, none, R
    <2>4. SumOn(cuts, R) = SumOn(none, MenuItems)
      BY <2>1, <2>2, MenuAssumption, SumSame
    <2>5. SumOn(none, {}) = SumOn(none, MenuItems)
      BY <2>1, <2>2, <2>3, MenuAssumption, SumSame
    <2>6. SumOn(none, {}) = 0
      BY FS_EmptySet, SumUnfolds
    <2> QED
      BY <2>4, <2>5, <2>6
  <1>8. DOMAIN lines = R /\ DOMAIN cuts = R
    OBVIOUS
  <1> HIDE DEF R, items
  <1>9. TotalOf(lines) = SumOn(lines, R) /\ TotalOf(cuts) = SumOn(cuts, R)
    BY <1>8, TotalIsSum
  <1>10. Subtotal(items) = TotalOf(lines) /\ ItemDiscountsTotal(items) = TotalOf(cuts)
    BY <1>1 DEF Subtotal, ItemDiscountsTotal
  <1> QED
    BY <1>6, <1>7, <1>9, <1>10 DEF items

LEMMA CartTaxable ==
  ASSUME NEW c \in Carts, NEW served \in BOOLEAN
  PROVE  TaxableAmount(CartBill(c, served)) = CartCost(c)
  <1>1. CartCost(c) \in Nat
    BY CostType
  <1>2. /\ CartBill(c, served).items = CartItems(c)
        /\ CartBill(c, served).billDiscountAmount = 0
        /\ CartBill(c, served).billDiscountPercent = 0
    BY DEF CartBill
  <1>3. BillDiscount(CartCost(c), 0, 0) = 0
    BY DEF BillDiscount
  <1>4. AtLeastZero(CartCost(c) - 0) = CartCost(c)
    BY <1>1 DEF AtLeastZero
  <1> QED
    BY <1>2, <1>3, <1>4, CartItemsCost DEF TaxableAmount

LEMMA OnlyGST ==
  ASSUME NEW t \in Nat
  PROVE  TaxesOf(t, Exclusive(<<GST>>)) = Percent(t, 5)
  <1> DEFINE taxes == Exclusive(<<GST>>)
             f == [k \in DOMAIN taxes |-> TaxAmount(t, taxes[k])]
  <1>1. DOMAIN taxes = {1} /\ taxes[1] = GST
    <2>1. DOMAIN <<GST>> = {1} /\ <<GST>>[1] = GST
      OBVIOUS
    <2>2. ~ GST.isInclusive
      BY DEF GST
    <2>3. {k \in DOMAIN <<GST>> : ~ <<GST>>[k].isInclusive} = {1}
      BY <2>1, <2>2
    <2>4. taxes = [x \in {1} |-> <<GST>>[x]]
      BY <2>3 DEF Exclusive, Restrict
    <2> QED
      BY <2>1, <2>4
  <1>2. TaxAmount(t, GST) = Percent(t, 5)
    BY DEF TaxAmount, GST
  <1>3. DOMAIN f = {1} /\ f[1] = Percent(t, 5)
    BY <1>1, <1>2
  <1>4. TaxesOf(t, taxes) = SumOn(f, {1})
    <2>1. TaxesOf(t, taxes) = TotalOf(f)
      BY DEF TaxesOf
    <2> HIDE DEF f
    <2> QED
      BY <1>3, <2>1, TotalIsSum
  <1>5. IsFiniteSet({1}) /\ IsFiniteSet({})
    BY FS_Singleton, FS_EmptySet
  <1>6. Percent(t, 5) \in Nat
    BY PercentRounds
  <1>7. SumOn(f, {1}) = f[1] + SumOn(f, {})
    <2>1. \A x \in {1} : f[x] \in Nat
      BY <1>3, <1>6
    <2>2. {1} \ {1} = {}
      OBVIOUS
    <2> HIDE DEF f
    <2> QED
      BY <1>5, <2>1, <2>2, SumRemove
  <1>8. SumOn(f, {}) = 0
    BY <1>5, SumUnfolds
  <1> QED
    BY <1>3, <1>4, <1>6, <1>7, <1>8

LEMMA CartTotal ==
  ASSUME NEW c \in Carts, NEW served \in BOOLEAN
  PROVE  Totals[c][served] = CartCost(c) + Percent(CartCost(c), 5)
                               + (IF served THEN Percent(CartCost(c), 5) ELSE 0)
  <1> DEFINE t == CartCost(c)
             b == CartBill(c, served)
  <1>1. t \in Nat
    BY CostType
  <1>2. Totals[c][served] = BillTotal(b)
    BY DEF Totals, Carts
  <1>3. b.taxes = <<GST>> /\ b.serviceChargePercent = (IF served THEN 5 ELSE 0)
          /\ b.deliveryChargeAmount = 0
    BY DEF CartBill
  <1>4. TaxableAmount(b) = t
    BY CartTaxable
  <1>5. TaxesOf(t, Exclusive(b.taxes)) = Percent(t, 5)
    BY <1>1, <1>3, OnlyGST
  <1>6. Percent(t, 0) = 0
    <2> HIDE DEF t
    <2>1. Percent(t, 0) \in Nat /\ 200 * Percent(t, 0) <= 2 * (t * 0) + 100
      BY <1>1, PercentRounds
    <2>2. t * 0 = 0
      BY <1>1, TimesZero
    <2>3. 200 * Percent(t, 0) <= 100
      BY <2>1, <2>2
    <2> QED
      BY <2>1, <2>3
  <1>7. AtLeastZero(0) = 0
    BY DEF AtLeastZero
  <1>8. Percent(t, 5) \in Nat
    BY <1>1, PercentRounds
  <1>9. BillTotal(b) = t + Percent(t, 5) + Percent(t, b.serviceChargePercent) + 0
    <2> HIDE DEF t, b
    <2> QED
      BY <1>3, <1>4, <1>5, <1>7 DEF BillTotal
  <1>10. Percent(t, b.serviceChargePercent) = IF served THEN Percent(t, 5) ELSE 0
    BY <1>3, <1>6
  <1> SUFFICES Totals[c][served] = t + Percent(t, 5) + (IF served THEN Percent(t, 5) ELSE 0)
    OBVIOUS
  <1> HIDE DEF t, b
  <1> QED
    BY <1>1, <1>2, <1>8, <1>9, <1>10

LEMMA TotalType ==
  ASSUME NEW c \in Carts, NEW served \in BOOLEAN
  PROVE  Totals[c][served] \in Nat
  <1>1. CartCost(c) \in Nat
    BY CostType
  <1>2. Percent(CartCost(c), 5) \in Nat
    BY <1>1, PercentRounds
  <1> QED
    BY <1>1, <1>2, CartTotal

LEMMA GrandTotalType ==
  ASSUME TerminalTypeOK
  PROVE  GrandTotal \in Nat
  <1>1. cart \in Carts /\ dineIn \in BOOLEAN
    BY TerminalBounds DEF TerminalTypeOK, Carts
  <1> QED
    BY <1>1, TotalType DEF GrandTotal

\* One portion more.
LEMMA MoreCost ==
  ASSUME NEW c \in Carts, NEW m \in MenuItems, c[m] <= MaxQuantity
  PROVE  LET more == [c EXCEPT ![m] = @ + 1]
         IN  more \in Carts /\ CartCost(more) = CartCost(c) + Price[m]
  <1> DEFINE more == [c EXCEPT ![m] = @ + 1]
  <1>1. more \in Carts /\ c[m] \in Nat /\ Price[m] \in Nat
    BY PriceAssumption, TerminalBounds DEF Carts
  <1>2. /\ more[m] = c[m] + 1
        /\ \A n \in MenuItems \ {m} : more[n] = c[n]
    BY DEF Carts
  <1> HIDE DEF more
  <1> DEFINE f == Cost(c)
             g == Cost(more)
             rest == MenuItems \ {m}
  <1>3. /\ \A n \in MenuItems : f[n] \in Nat /\ g[n] \in Nat
        /\ \A n \in rest : g[n] = f[n]
    BY <1>1, <1>2, CostType DEF Cost
  <1>4. g[m] = f[m] + Price[m]
    <2>1. Price[m] * (c[m] + 1) = Price[m] * c[m] + Price[m]
      BY <1>1
    <2> QED
      BY <1>2, <2>1 DEF Cost
  <1>5. IsFiniteSet(rest)
    BY MenuAssumption, FS_Subset, rest \subseteq MenuItems
  <1> HIDE DEF f, g
  <1>6. /\ SumOn(f, MenuItems) = f[m] + SumOn(f, rest)
        /\ SumOn(g, MenuItems) = g[m] + SumOn(g, rest)
    BY <1>3, MenuAssumption, SumRemove
  <1>7. SumOn(g, rest) = SumOn(f, rest) /\ SumOn(f, rest) \in Nat
    <2>1. rest \in SUBSET rest /\ rest \ rest = {}
      OBVIOUS
    <2> HIDE DEF rest
    <2>2. \A n \in rest : f[n] \in Nat
      BY <1>3 DEF rest
    <2> QED
      BY <1>3, <1>5, <2>1, <2>2, SumSame, SumType
  <1>8. f[m] \in Nat
    BY <1>3
  <1>9. SumOn(g, MenuItems) = SumOn(f, MenuItems) + Price[m]
    <2> HIDE DEF rest
    <2> QED
      BY <1>1, <1>4, <1>6, <1>7, <1>8
  <1> QED
    BY <1>1, <1>9 DEF f, g, more, CartCost

\* The hundredth of a sum is off by the rounding of two percentages at most.
LEMMA TotalBounds ==
  ASSUME NEW t \in Nat, NEW u \in Nat, t <= u, NEW served \in BOOLEAN
  PROVE  LET total(s) == s + Percent(s, 5) + (IF served THEN Percent(s, 5) ELSE 0)
         IN  /\ total(u) >= total(t) + (u - t)
             /\ total(t) >= t
             /\ 100 * total(t) <= 110 * t + 100
  <1>1. /\ Percent(t, 5) \in Nat /\ Percent(u, 5) \in Nat
        /\ 200 * Percent(t, 5) <= 2 * (t * 5) + 100
    BY PercentRounds
  <1>2. Percent(t, 5) <= Percent(u, 5)
    BY PercentMonotone
  <1> QED
    BY <1>1, <1>2

LEMMA CartBillFollows ==
  ASSUME TerminalTypeOK
  PROVE  BillFollowsCart
  <1>1. cart \in Carts /\ dineIn \in BOOLEAN /\ \A m \in MenuItems : cart[m] <= MaxQuantity
    BY TerminalBounds DEF TerminalTypeOK, Carts
  <1> DEFINE items == Subtotal(CartItems(cart))
             t == CartCost(cart)
  <1>2. items = t /\ t \in Nat
    BY <1>1, CartItemsCost, CostType
  <1>3. GrandTotal = t + Percent(t, 5) + (IF dineIn THEN Percent(t, 5) ELSE 0)
    BY <1>1, CartTotal DEF GrandTotal
  <1>4. ASSUME NEW m \in MenuItems
        PROVE  LET more == [cart EXCEPT ![m] = @ + 1]
               IN  Totals[more][dineIn] >= GrandTotal + Price[m]
    <2> DEFINE more == [cart EXCEPT ![m] = @ + 1]
               u == CartCost(more)
    <2>1. more \in Carts /\ u = t + Price[m] /\ Price[m] \in Nat
      BY <1>1, MoreCost, PriceAssumption
    <2>2. Totals[more][dineIn] = u + Percent(u, 5) + (IF dineIn THEN Percent(u, 5) ELSE 0)
      <3> HIDE DEF more
      <3> QED
        BY <1>1, <2>1, CartTotal
    <2> HIDE DEF more, u, t
    <2>3. u \in Nat /\ t <= u /\ u - t = Price[m]
      BY <1>2, <2>1
    <2>4. u + Percent(u, 5) + (IF dineIn THEN Percent(u, 5) ELSE 0)
            >= t + Percent(t, 5) + (IF dineIn THEN Percent(t, 5) ELSE 0) + (u - t)
      BY <1>1, <1>2, <2>3, TotalBounds
    <2>5. Totals[more][dineIn] >= GrandTotal + Price[m]
      BY <1>3, <2>2, <2>3, <2>4
    <2> QED
      BY <2>5 DEF more
  <1>5. GrandTotal >= items /\ 100 * GrandTotal <= 110 * items + 100
    <2> HIDE DEF t, items
    <2> QED
      BY <1>1, <1>2, <1>3, TotalBounds, t <= t
  <1> QED
    BY <1>4, <1>5 DEF BillFollowsCart

-----------------------------------------------------------------------------
\* What is handed over stays, its order numbers below the page's, and those of the payments
\* of this page strictly below.
OutboxSound ==
  /\ orderNumber <= Len(outbox)
  /\ \A k \in DOMAIN outbox :
       /\ outbox[k].page <= page
       /\ outbox[k].page = page => outbox[k].orderNumber <= orderNumber
  /\ \A k \in Payments : outbox[k].page = page => outbox[k].orderNumber < orderNumber

TerminalInv == TerminalTypeOK /\ OutboxSound /\ PaidLast

LEMMA TerminalInitial == TerminalInit => TerminalInv
  <1> SUFFICES ASSUME TerminalInit PROVE TerminalInv
    OBVIOUS
  <1>1. TerminalTypeOK
    <2>1. dineIn \in BOOLEAN /\ splitOpen \in BOOLEAN /\ receiptOpen \in BOOLEAN
      BY Zenon DEF TerminalInit
    <2>2. /\ cart \in [MenuItems -> 0 .. MaxQuantity] /\ page \in 0 .. MaxReloads
          /\ orderNumber \in 0 .. MaxActions /\ tendered \in Nat \cup {NotOpen}
          /\ outbox \in Seq(Entry) /\ Len(outbox) <= MaxActions
      BY TerminalBounds DEF TerminalInit
    <2> QED
      BY <2>1, <2>2 DEF TerminalTypeOK
  <1>2. DOMAIN outbox = {} /\ Len(outbox) = 0
    BY DEF TerminalInit
  <1>3. OutboxSound /\ PaidLast
    BY <1>2 DEF TerminalInit, OutboxSound, PaidLast, Payments
  <1> QED
    BY <1>1, <1>3 DEF TerminalInv

\* Nothing is handed over.
LEMMA OutboxStays ==
  ASSUME TerminalInv, TerminalTypeOK', UNCHANGED <<outbox, orderNumber, page>>
  PROVE  TerminalInv'
  BY DEF TerminalInv, OutboxSound, PaidLast, Payments

\* An action of this page is added, and the number of a payment is used up.
LEMMA HandedOver ==
  ASSUME TerminalInv, TerminalTypeOK', NEW e \in Entry, outbox' = Append(outbox, e),
         e.page = page, e.orderNumber = orderNumber, UNCHANGED page,
         orderNumber' = IF e.type = "PROCESS_PAYMENT" THEN orderNumber + 1 ELSE orderNumber
  PROVE  TerminalInv'
  <1> USE DEF TerminalInv
  <1>1. /\ outbox \in Seq(Entry) /\ page \in Nat /\ orderNumber \in Nat
        /\ \A k \in DOMAIN outbox : outbox[k].page \in Nat /\ outbox[k].orderNumber \in Nat
    <2>1. \A x \in Entry : x.page \in Nat /\ x.orderNumber \in Nat
      BY TerminalBounds DEF Entry
    <2> QED
      BY <2>1, TerminalBounds DEF TerminalTypeOK
  <1> DEFINE n == Len(outbox) + 1
  <1>2. /\ Len(outbox') = n /\ DOMAIN outbox' = DOMAIN outbox \cup {n}
        /\ outbox'[n] = e /\ \A k \in DOMAIN outbox : k < n /\ outbox'[k] = outbox[k]
    BY <1>1
  <1>3. Payments' = Payments \cup (IF e.type = "PROCESS_PAYMENT" THEN {n} ELSE {})
    BY <1>1, <1>2 DEF Payments
  <1>4. n \notin DOMAIN outbox /\ Payments \subseteq DOMAIN outbox
    BY <1>1 DEF Payments
  <1> HIDE DEF n
  <1>5. OutboxSound'
    <2>1. orderNumber' <= Len(outbox')
      BY <1>1, <1>2 DEF OutboxSound, n
    <2>2. ASSUME NEW k \in DOMAIN outbox'
          PROVE  /\ outbox'[k].page <= page'
                 /\ outbox'[k].page = page' => outbox'[k].orderNumber <= orderNumber'
      BY <1>1, <1>2 DEF OutboxSound
    <2>3. ASSUME NEW k \in Payments', outbox'[k].page = page'
          PROVE  outbox'[k].orderNumber < orderNumber'
      BY <1>1, <1>2, <1>3, <1>4, <2>3 DEF OutboxSound
    <2> QED
      BY <2>1, <2>2, <2>3 DEF OutboxSound
  <1>6. PaidLast'
    <2> SUFFICES ASSUME NEW k \in Payments', NEW j \in DOMAIN outbox', j > k,
                        outbox'[j].page = outbox'[k].page
                 PROVE  outbox'[j].orderNumber > outbox'[k].orderNumber
      BY DEF PaidLast
    <2>1. CASE k \in DOMAIN outbox /\ j \in DOMAIN outbox
      <3>1. k \in Payments
        BY <1>3, <1>4, <2>1
      <3> QED
        BY <1>2, <2>1, <3>1 DEF PaidLast
    <2>2. CASE k \in DOMAIN outbox /\ j = n
      <3>1. k \in Payments
        BY <1>3, <1>4, <2>2
      <3>2. outbox[k].orderNumber < orderNumber
        BY <1>2, <2>2, <3>1 DEF OutboxSound
      <3> QED
        BY <1>1, <1>2, <2>2, <3>2
    <2>3. CASE k = n
      BY <1>1, <1>2, <2>3 DEF n
    <2> QED
      BY <1>2, <1>3, <1>4, <2>1, <2>2, <2>3
  <1> QED
    BY <1>5, <1>6

LEMMA TerminalStep ==
  ASSUME TerminalInv, TerminalNext
  PROVE  TerminalInv'
  <1>0. /\ TerminalTypeOK /\ GrandTotal \in Nat
        /\ cart \in [MenuItems -> 0 .. MaxQuantity] /\ EmptyCart \in [MenuItems -> 0 .. MaxQuantity]
        /\ SampleCart \in [MenuItems -> 0 .. MaxQuantity]
        /\ MaxQuantity \in Nat /\ MaxActions \in Nat /\ MaxReloads \in Nat
    BY GrandTotalType, TerminalBounds DEF TerminalInv, TerminalTypeOK, EmptyCart
  <1>1. ASSUME NEW m \in MenuItems, AddToCart(m) \/ RemoveFromCart(m) PROVE TerminalInv'
    <2>1. cart' \in [MenuItems -> 0 .. MaxQuantity]
      <3>1. cart[m] \in 0 .. MaxQuantity
        BY <1>0
      <3> QED
        BY <1>0, <1>1, <3>1 DEF AddToCart, RemoveFromCart, MorePortions
    <2>2. UNCHANGED <<dineIn, orderNumber, dialogs, outbox, page>>
      BY <1>1 DEF AddToCart, RemoveFromCart
    <2> QED
      BY <1>0, <2>1, <2>2, OutboxStays DEF TerminalTypeOK, dialogs
  <1>2. CASE ClearCart
    BY <1>0, <1>2, OutboxStays DEF ClearCart, TerminalTypeOK, dialogs
  <1>3. ASSUME NEW served \in BOOLEAN, SetOrderType(served) PROVE TerminalInv'
    BY <1>0, <1>3, OutboxStays DEF SetOrderType, TerminalTypeOK, dialogs
  <1>4. CASE HandleFireKot
    <2> DEFINE e == [type |-> "CREATE_ORDER", page |-> page, orderNumber |-> orderNumber]
    <2>1. e \in Entry
      BY <1>0 DEF Entry, TerminalTypeOK
    <2>2. /\ outbox' = Append(outbox, e)
          /\ Len(outbox) < MaxActions
          /\ UNCHANGED <<cart, dineIn, orderNumber, dialogs, page>>
      BY <1>4 DEF HandleFireKot
    <2>3. e.type = "CREATE_ORDER" /\ e.page = page /\ e.orderNumber = orderNumber
      OBVIOUS
    <2> HIDE DEF e
    <2>4. outbox' \in Seq(Entry) /\ Len(outbox') = Len(outbox) + 1 /\ Len(outbox) \in Nat
      BY <1>0, <2>1, <2>2 DEF TerminalTypeOK
    <2>5. TerminalTypeOK'
      BY <1>0, <2>2, <2>4 DEF TerminalTypeOK, dialogs
    <2> QED
      BY <2>1, <2>2, <2>3, <2>5, HandedOver
  <1>5. CASE OpenPayment \/ RenewTender
    BY <1>0, <1>5, OutboxStays DEF OpenPayment, RenewTender, TerminalTypeOK
  <1>6. CASE HandlePaymentComplete
    <2> DEFINE e == [type |-> "PROCESS_PAYMENT", page |-> page, orderNumber |-> orderNumber,
                     grandTotal |-> GrandTotal]
    <2>1. e \in Entry
      BY <1>0 DEF Entry, TerminalTypeOK
    <2>2. /\ outbox' = Append(outbox, e)
          /\ Len(outbox) < MaxActions
          /\ orderNumber' = orderNumber + 1
          /\ tendered' = NotOpen /\ cart' = EmptyCart /\ receiptOpen' = TRUE
          /\ UNCHANGED <<dineIn, splitOpen, page>>
      BY <1>6 DEF HandlePaymentComplete, NextNumber
    <2>3. e.type = "PROCESS_PAYMENT" /\ e.page = page /\ e.orderNumber = orderNumber
      OBVIOUS
    <2> HIDE DEF e
    <2>4. outbox' \in Seq(Entry) /\ Len(outbox') = Len(outbox) + 1 /\ Len(outbox) \in Nat
      BY <1>0, <2>1, <2>2 DEF TerminalTypeOK
    <2>5. orderNumber' \in 0 .. MaxActions
      BY <1>0, <2>2, <2>4 DEF TerminalTypeOK, TerminalInv, OutboxSound
    <2>6. TerminalTypeOK'
      BY <1>0, <2>2, <2>4, <2>5 DEF TerminalTypeOK
    <2> QED
      BY <2>1, <2>2, <2>3, <2>6, HandedOver
  <1>7. ASSUME NEW persons \in Persons, CompleteSplit(persons) PROVE TerminalInv'
    BY <1>0, <1>7, OutboxStays DEF CompleteSplit, TerminalTypeOK
  <1>8. CASE OpenSplit \/ ClosePayment \/ CloseSplit \/ CloseReceipt \/ CloseAll
    BY <1>0, <1>8, OutboxStays
    DEF OpenSplit, ClosePayment, CloseSplit, CloseReceipt, CloseAll, TerminalTypeOK
  <1>9. CASE ReloadPage
    <2>1. /\ UNCHANGED outbox /\ page' = page + 1 /\ orderNumber' = 0 /\ page < MaxReloads
          /\ cart' = SampleCart /\ dineIn' = TRUE /\ tendered' = NotOpen
          /\ splitOpen' = FALSE /\ receiptOpen' = FALSE
      BY <1>9 DEF ReloadPage
    <2>2. TerminalTypeOK'
      <3>1. dineIn' \in BOOLEAN /\ splitOpen' \in BOOLEAN /\ receiptOpen' \in BOOLEAN
        BY <2>1, Zenon
      <3>2. page' \in 0 .. MaxReloads
        BY <1>0, <2>1 DEF TerminalTypeOK
      <3> QED
        BY <1>0, <2>1, <3>1, <3>2 DEF TerminalTypeOK
    <2>3. \A k \in DOMAIN outbox : outbox[k].page \in Nat /\ outbox[k].page <= page
      <3>1. \A x \in Entry : x.page \in Nat
        BY <1>0 DEF Entry
      <3> QED
        BY <1>0, <3>1 DEF TerminalTypeOK, TerminalInv, OutboxSound
    <2>4. page \in Nat /\ Len(outbox) \in Nat
      BY <1>0 DEF TerminalTypeOK
    <2>5. \A k \in DOMAIN outbox : outbox'[k].page < page'
      BY <2>1, <2>3, <2>4
    <2>6. OutboxSound'
      BY <2>1, <2>3, <2>4, <2>5 DEF OutboxSound, Payments
    <2>7. PaidLast'
      BY <2>1 DEF TerminalInv, PaidLast, Payments
    <2> QED
      BY <2>2, <2>6, <2>7 DEF TerminalInv
  <1> QED
    BY <1>1, <1>2, <1>3, <1>4, <1>5, <1>6, <1>7, <1>8, <1>9 DEF TerminalNext

\* The dialog splits whatever the total is.
LEMMA DialogSplits ==
  ASSUME TerminalTypeOK
  PROVE  SplitsFairly
  <1>1. GrandTotal \in Nat /\ \A n \in Persons : n \in Nat \ {0}
    BY GrandTotalType DEF Persons
  <1> QED
    BY <1>1, SplitIsFair DEF SplitsFairly
=============================================================================
