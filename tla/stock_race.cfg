SPECIFICATION Spec
CONSTANTS
  Parts = {"inventory"}
  Clerks = {c1, c2}
  Ingredients = {i1}
  Nothing = Nothing
  OpeningStock = 2
  Deltas <- MCDeltas
  Wastes = {1, 3}
  MaxMovements = 2
  Terminals = {x1}
  Staff = {p1, p2}
  Sessions = {s1, s2}
  NoOne = NoOne
  Floats = {1}
  Counts = {0}
  u1 = u1
  Users <- MCUsers
  PinUsers = {u1}
  Roles = {"MANAGER", "WAITER"}
  StaffRole <- MCStaffRole
  RoleGates <- MCRoleGates
  Devices = {d1}
  Nobody = Nobody
  AccessLife = 2
  RefreshLife = 3
  MaxTime = 5
  Pushes = {q1, q2}
  SyncIds = {y1, y2}
  MaxBatch = 2
  MaxRetries = 1
  Seeders = {z1, z2}
  MaxCopies = 2
  Retention = 0
  LastDay = 2
  m1 = m1
  m2 = m2
  MenuItems <- MCMenuItems
  Price <- MCPrice
  SampleCart <- MCSampleCart
  MaxQuantity = 1
  MaxActions = 2
  MaxReloads = 1
  OpeningFloat = 3
  CashSales = 2
  MovementAmounts = {0, 1, 2}
  CountedAmounts = {4, 5}
  MaxMoved = 2
  f1 = f1
  f2 = f2
  t1 = t1
  t2 = t2
  t3 = t3
  Floors <- MCFloors
  TablesOf <- MCTablesOf
  FirstFloor = f1
  FirstTable = t1
  NoTable = NoTable
  a1 = a1
  a2 = a2
  a3 = a3
  PlanTables <- MCPlanTables
  FloorOf <- MCFloorOf
  InitialStatus <- MCInitialStatus
  NoSelection = NoSelection
  MaxParties = 1
CHECK_DEADLOCK FALSE
INVARIANTS
  StockFollowsLedger
