SPECIFICATION Spec
CONSTANTS
  None = None
  Workers = {w1, w2}
  Orders = {o1}
  Lines = {l1}
  Tables = {t1, t2}
  Invoices = {i1}
  PaymentIds = {p1, p2}
  Keys = {k1}
  Amounts = {11}
  OrderTypes = {"DINE_IN"}
  SyncIds = {}
  Stations = {}
  Station = None
  KotTargets = {}
  StatusTargets = {"BILL_REQUESTED", "BILLED", "PAID", "COMPLETED", "CANCELLED"}
  TableTargets = {"AVAILABLE", "OCCUPIED", "BILL_REQUESTED", "CLEANING"}
  MaxVersion = 3
  CanRestart = FALSE
  GrandTotal <- MCGrandTotal
  InvoiceTotal <- MCInvoiceTotal
  CancelTotal <- MCCancelTotal
  StationOf <- MCStationOf
\* StatusTargets: every status a handler asks about; BILLED stands for those none asks about
\* (DRAFT to SERVED).  TableTargets: CLEANING stands for RESERVED and OUT_OF_SERVICE.
VIEW Observed
SYMMETRY Symmetry
CHECK_DEADLOCK FALSE
INVARIANTS
  TypeOK
PROPERTIES
  PaidForOrSet
  GhostsAreStale
