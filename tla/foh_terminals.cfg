SPECIFICATION Spec
CONSTANTS
  None = None
  Workers = {w1, w2}
  Orders = {o1, o2}
  Lines = {l1, l2}
  Tables = {}
  Invoices = {i1}
  PaymentIds = {}
  Keys = {}
  Amounts = {22, 42}
  OrderTypes = {"TAKEAWAY"}
  SyncIds = {s1}
  Stations = {st1}
  Station = st1
  KotTargets = {"ACCEPTED"}
  StatusTargets = {"BILLED", "CANCELLED"}
  TableTargets = {}
  MaxVersion = 3
  CanRestart = TRUE
  GrandTotal <- MCGrandTotal
  InvoiceTotal <- MCInvoiceTotal
  CancelTotal <- MCCancelTotal
  StationOf <- MCStationOf
\* StatusTargets: CANCELLED closes an order, BILLED opens it again; PAID and COMPLETED
\* would refuse cancellations besides: foh_races sets them.
VIEW Observed
SYMMETRY Symmetry
CHECK_DEADLOCK FALSE
INVARIANTS
  SyncOnce
  LinesAreCharged
PROPERTIES
  VersionTellsChanges
