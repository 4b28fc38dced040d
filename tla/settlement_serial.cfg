SPECIFICATION Spec
CONSTANTS
  None = None
  Workers = {w1}
  Orders = {o1, o2}
  Lines = {l1}
  Tables = {t1}
  Invoices = {i1, i2, i3}
  PaymentIds = {p1, p2, p3, p4}
  Keys = {k1, k2}
  Amounts = {1, 2}
  Bill = 3
  GrandTotal <- MCGrandTotal
  InvoiceTotal <- MCGrandTotal
SYMMETRY Symmetry
CHECK_DEADLOCK FALSE
INVARIANTS
  OneInvoicePerOrder
  OrderFollowsInvoice
  RefundWithinPayment
PROPERTIES
  ImplementsExactLedger
