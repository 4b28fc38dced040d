SPECIFICATION Spec
CONSTANTS
  None = None
  Workers = {w1, w2}
  Orders = {o1}
  Lines = {l1}
  Tables = {t1}
  Invoices = {}
  PaymentIds = {}
  Keys = {}
  Amounts = {22, 42}
  OrderTypes = {"DINE_IN"}
  SyncIds = {}
  Stations = {}
  Station = None
  KotTargets = {}
  StatusTargets = {"PREPARING", "BILL_REQUESTED", "BILLED", "PAID", "COMPLETED", "CANCELLED"}
  TableTargets = {"AVAILABLE", "OCCUPIED", "BILL_REQUESTED", "CLEANING"}
  MaxVersion = 3
  CanRestart = FALSE
  GrandTotal <- MCGrandTotal
  InvoiceTotal <- MCInvoiceTotal
  CancelTotal <- MCCancelTotal
  StationOf <- MCStationOf
CHECK_DEADLOCK FALSE
PROPERTIES
  NoLostTransition
