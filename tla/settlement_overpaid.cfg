SPECIFICATION Spec
CONSTANTS
  None = None
  Workers = {w1, w2}
  Orders = {o1}
  Lines = {l1}
  Tables = {t1}
  Invoices = {i1}
  PaymentIds = {p1, p2}
  Keys = {k1, k2}
  Amounts = {1, 2}
  Bill = 2
  GrandTotal <- MCGrandTotal
  InvoiceTotal <- MCGrandTotal
CHECK_DEADLOCK FALSE
INVARIANTS
  PaidExactly
