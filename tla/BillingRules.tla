---------------------------- MODULE BillingRules ----------------------------
(***************************************************************************)
(* The pure functions of @restovyn/business-rules: what a line, a bill and *)
(* a cash drawer come to, and how a bill is split.  Amounts are integers   *)
(* in minor units.  Rates are whole percents here, so that rounding is     *)
(* exact: Math.round of n / d with n >= 0 is the floor of (2n + d) / 2d.   *)
(***************************************************************************)
EXTENDS Integers, Functions

Least(a, b) == IF a <= b THEN a ELSE b
AtLeastZero(a) == IF a >= 0 THEN a ELSE 0

RoundedQuotient(n, d) == (2 * n + d) \div (2 * d)

Percent(amount, rate) == RoundedQuotient(amount * rate, 100)

\* The tax that is part of an amount which includes it: amount - amount / (1 + rate / 100).
PercentWithin(amount, rate) == RoundedQuotient(amount * rate, 100 + rate)

\* The lines of an order, its taxes and the shares of a split are functions on any finite set:
\* their order does not matter.
TotalOf(f) == FoldFunction(+, 0, f)

-----------------------------------------------------------------------------
\* calculateLineItem.  extras: the variant, modifier and add-on prices together.

\* Mutant: the quantity is forgotten.
LineSubtotalOfOne(l) == l.basePrice + l.extras

LineSubtotal(l) == (l.basePrice + l.extras) * l.quantity
LineDiscount(l) == Least(LineSubtotal(l), l.itemDiscount)

-----------------------------------------------------------------------------
\* calculateOrderBilling

Subtotal(items)           == TotalOf([k \in DOMAIN items |-> LineSubtotal(items[k])])
ItemDiscountsTotal(items) == TotalOf([k \in DOMAIN items |-> LineDiscount(items[k])])

\* An amount takes precedence over a percentage.
BillDiscount(net, amount, rate) ==
  IF amount > 0 THEN Least(net, amount)
  ELSE IF rate > 0 THEN Least(net, Percent(net, rate))
  ELSE 0

TaxAmount(taxable, tax) ==
  IF tax.isInclusive THEN PercentWithin(taxable, tax.ratePercent)
                     ELSE Percent(taxable, tax.ratePercent)

Exclusive(taxes) == Restrict(taxes, {k \in DOMAIN taxes : ~ taxes[k].isInclusive})

TaxesOf(taxable, taxes) == TotalOf([k \in DOMAIN taxes |-> TaxAmount(taxable, taxes[k])])

TaxableAmount(b) ==
  LET net == AtLeastZero(Subtotal(b.items) - ItemDiscountsTotal(b.items))
  IN  AtLeastZero(net - BillDiscount(net, b.billDiscountAmount, b.billDiscountPercent))

BillTotal(b) ==
  LET taxable == TaxableAmount(b)
  IN  taxable + TaxesOf(taxable, Exclusive(b.taxes))
      + Percent(taxable, b.serviceChargePercent) + AtLeastZero(b.deliveryChargeAmount)

-----------------------------------------------------------------------------
\* calculateEqualSplit and validateSplitPayments

\* Mutant: the remainder goes to nobody.
EqualSplitRoundedDown(total, persons) == [k \in 1 .. persons |-> total \div persons]

EqualSplit(total, persons) ==
  [k \in 1 .. persons |-> total \div persons + (IF k <= total % persons THEN 1 ELSE 0)]

Difference(total, amounts) == total - TotalOf(amounts)
IsBalanced(total, amounts) == Difference(total, amounts) = 0

-----------------------------------------------------------------------------
\* calculateCashDrawerSession.  A drawer: what the transactions of a session add up to.

ExpectedClosingCash(openingCash, d) ==
  openingCash + d.cashSales - d.cashRefunds - d.cashExpenses + d.cashAdjustments
=============================================================================
