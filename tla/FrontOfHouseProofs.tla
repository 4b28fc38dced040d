------------------------- MODULE FrontOfHouseProofs -------------------------
(***************************************************************************)
(* The safety of the front of house: for any number of requests at a time, *)
(* across restarts, and the stronger promises for one request at a time.   *)
(***************************************************************************)
EXTENDS FrontOfHouse, MoneyProofs

-----------------------------------------------------------------------------
\* The orders service.

LEMMA OrdIdleType == OrdIdle \in OrdJob /\ OrdIdle.phase = "idle"
  BY DEF OrdIdle, OrdJob, OrdPhase, OrderStatus, OrderType, TableStatus

\* The event to send names a table.
LEMMA ThenTellKeeps ==
  ASSUME OrdersTypeOK, OrdJobsSound, placed \subseteq placed', NEW w \in Workers,
         NEW t \in Tables \cup {None}, NEW s \in TableStatus, ThenTell(w, t, s)
  PROVE  ord' \in [Workers -> OrdJob] /\ OrdJobsSound'
  <1> DEFINE job == IF t = None THEN OrdIdle
                    ELSE [OrdIdle EXCEPT !.phase = "notify", !.tableId = t, !.news = s]
  <1>1. ord' = [ord EXCEPT ![w] = job]
    BY DEF ThenTell
  <1>2. job \in OrdJob /\ job.phase \in {"idle", "notify"}
        /\ (job.phase = "notify" => job.tableId \in Tables)
    BY DEF OrdIdle, OrdJob, OrdPhase, OrderStatus, OrderType, TableStatus
  <1> HIDE DEF job
  <1> QED
    BY <1>1, <1>2 DEF OrdersTypeOK, OrdJobsSound

\* What a step of the orders service keeps.
OrdersKept ==
  /\ StoreTypeOK' /\ KitchenTypeOK' /\ OrdersTypeOK' /\ OrdJobsSound' /\ SyncOnce'
  /\ placed \subseteq placed' /\ UNCHANGED <<issued, invoice>>

\* The steps that only change what the request has in hand.
LEMMA OrderJobKeeps ==
  ASSUME HouseInv, NEW w \in Workers, NEW job \in OrdJob,
         ord' = [ord EXCEPT ![w] = job], UNCHANGED <<storeVars, orderRows>>,
         job.phase \in {"status", "cancel", "sum"} => job.orderId \in placed,
         job.phase = "status" => job.to \in StatusTargets,
         job.phase = "notify" => job.tableId \in Tables
  PROVE  OrdersKept
  <1>1. StoreTypeOK' /\ KitchenTypeOK'
    BY StoreTypeFrame DEF HouseInv, MoneyInv, MoneyTypeOK, KitchenTypeOK, storeVars, orderRows
  <1>2. OrdersTypeOK' /\ OrdJobsSound'
    BY DEF HouseInv, OrdersTypeOK, OrdJobsSound, storeVars, orderRows
  <1>3. SyncOnce'
    BY DEF HouseInv, SyncOnce, SyncedAs, storeVars, orderRows
  <1> QED
    BY <1>1, <1>2, <1>3 DEF OrdersKept, storeVars

LEMMA CreateCommitKeeps ==
  ASSUME HouseInv, NEW w \in Workers, NEW o \in Orders, CreateCommit(w, o)
  PROVE  OrdersKept
  <1> DEFINE job == ord[w]
             row == NewOrder(job.orderType, job.tableId, job.kept)
  <1>1. /\ job \in OrdJob /\ o \notin placed /\ placed' = placed \cup {o}
        /\ Insertable(job.syncId)
        /\ order' = [order EXCEPT ![o] = row]
        /\ lines' = [lines EXCEPT ![o] = job.kept]
        /\ active' = [active EXCEPT ![o] = job.kept]
        /\ syncId' = [syncId EXCEPT ![o] = job.syncId]
        /\ kot' = [kot EXCEPT ![o] = Tickets(job.kept)]
        /\ SetTable(job.tableId, "OCCUPIED")
        /\ ThenTell(w, job.tableId, "OCCUPIED")
        /\ UNCHANGED <<issued, invoice, shown>>
    BY DEF CreateCommit, HouseInv, OrdersTypeOK
  <1>2. /\ job.kept \in SUBSET Lines /\ job.syncId \in SyncIds \cup {None}
        /\ job.orderType \in OrderType
        /\ job.tableId \in Tables \cup {None} /\ "OCCUPIED" \in TableStatus
    BY <1>1 DEF OrdJob, TableStatus
  <1>3. row \in OrderRow
    BY <1>2, GrandTotalAssumption DEF NewOrder, OrderRow, OrderStatus
  <1> HIDE DEF row
  <1>4. StoreTypeOK'
    <2>1. table' \in [Tables -> TableStatus]
      BY <1>1, <1>2, SetTableType DEF HouseInv, MoneyInv, MoneyTypeOK, StoreTypeOK
    <2> QED
      BY <1>1, <1>2, <1>3, <2>1 DEF HouseInv, MoneyInv, MoneyTypeOK, StoreTypeOK
  <1>5. KitchenTypeOK'
    <2>1. Tickets(job.kept) \in [Stations -> KOTStatus \cup {None}]
      BY DEF Tickets, KOTStatus
    <2> QED
      BY <1>1, <2>1 DEF HouseInv, KitchenTypeOK
  <1>6. ord' \in [Workers -> OrdJob] /\ OrdJobsSound'
    BY <1>1, <1>2, ThenTellKeeps DEF HouseInv
  <1>7. OrdersTypeOK'
    BY <1>1, <1>2, <1>6 DEF HouseInv, OrdersTypeOK
  <1>8. SyncOnce'
    <2>1. /\ syncId'[o] = job.syncId /\ \A p \in placed : p # o /\ syncId'[p] = syncId[p]
          /\ o \notin placed
      BY <1>1 DEF HouseInv, OrdersTypeOK, MoneyInv, MoneyTypeOK, StoreTypeOK
    <2>2. job.syncId # None => \A p \in placed : syncId[p] # job.syncId
      BY <1>1 DEF Insertable, SyncedAs
    <2> SUFFICES ASSUME NEW s \in SyncIds, NEW p \in placed', NEW q \in placed',
                        syncId'[p] = s, syncId'[q] = s
                 PROVE  p = q
      BY DEF SyncOnce, SyncedAs
    <2>3. s # None
      BY SyncIdAssumption
    <2>4. CASE p = o \/ q = o
      BY <1>1, <2>1, <2>2, <2>3, <2>4
    <2>5. CASE p # o /\ q # o
      BY <1>1, <2>1, <2>5 DEF HouseInv, SyncOnce, SyncedAs
    <2> QED
      BY <2>4, <2>5
  <1> QED
    BY <1>1, <1>4, <1>5, <1>6, <1>7, <1>8 DEF OrdersKept

LEMMA StatusCommitKeeps ==
  ASSUME HouseInv, NEW w \in Workers, StatusCommit(w)
  PROVE  OrdersKept
  <1> DEFINE o  == ord[w].orderId
             to == ord[w].to
             t  == order[o].tableId
  <1>1. /\ o \in placed /\ o \in Orders /\ to \in OrderStatus /\ order[o] \in OrderRow
        /\ t \in Tables \cup {None}
    BY StatusTargetAssumption
    DEF StatusCommit, HouseInv, OrdJobsSound, MoneyInv, MoneyTypeOK, StoreTypeOK, OrderRow
  <1>2. /\ order' = [order EXCEPT ![o] = WithStatus(@, to)]
        /\ IF t = None THEN UNCHANGED table ELSE SetTable(t, TableAfter(to, table[t]))
        /\ ThenTell(w, t, Announced(to))
        /\ UNCHANGED <<placed, active, issued, invoice, shown, orderRows>>
    BY DEF StatusCommit
  <1>3. order' \in [Orders -> OrderRow]
    BY <1>1, <1>2, WithStatusType DEF HouseInv, MoneyInv, MoneyTypeOK, StoreTypeOK
  <1>4. table' \in [Tables -> TableStatus]
    <2>1. table \in [Tables -> TableStatus]
      BY DEF HouseInv, MoneyInv, MoneyTypeOK, StoreTypeOK
    <2>2. CASE t = None
      BY <1>2, <2>1, <2>2
    <2>3. CASE t # None
      <3>1. TableAfter(to, table[t]) \in TableStatus
        BY <1>1, <2>1, <2>3 DEF TableAfter, TableStatus
      <3> QED
        BY <1>1, <1>2, <2>1, <2>3, <3>1, SetTableType
    <2> QED
      BY <2>2, <2>3
  <1>5. StoreTypeOK'
    BY <1>2, <1>3, <1>4 DEF HouseInv, MoneyInv, MoneyTypeOK, StoreTypeOK
  <1>6. ord' \in [Workers -> OrdJob] /\ OrdJobsSound'
    <2>1. Announced(to) \in TableStatus
      BY DEF Announced, TableStatus
    <2> QED
      BY <1>1, <1>2, <2>1, ThenTellKeeps DEF HouseInv
  <1>7. KitchenTypeOK' /\ OrdersTypeOK' /\ SyncOnce'
    BY <1>2, <1>6 DEF HouseInv, KitchenTypeOK, OrdersTypeOK, SyncOnce, SyncedAs, orderRows
  <1> QED
    BY <1>2, <1>5, <1>6, <1>7 DEF OrdersKept

LEMMA CancelCommitKeeps ==
  ASSUME HouseInv, NEW w \in Workers, CancelCommit(w)
  PROVE  OrdersKept
  <1> DEFINE o   == ord[w].orderId
             row == Recalculated(order[o], ord[w].kept)
  <1>1. /\ o \in placed /\ o \in Orders /\ order[o] \in OrderRow /\ ord[w].kept \in SUBSET Lines
    BY DEF CancelCommit, HouseInv, OrdJobsSound, OrdersTypeOK, OrdJob, MoneyInv, MoneyTypeOK,
           StoreTypeOK
  <1>2. row \in OrderRow
    BY <1>1, CancelTotalAssumption DEF Recalculated, OrderRow
  <1>3. /\ active' = [active EXCEPT ![o] = @ \ {ord[w].line}]
        /\ order' = [order EXCEPT ![o] = row]
        /\ ord' = [ord EXCEPT ![w] = OrdIdle]
        /\ UNCHANGED <<placed, table, issued, invoice, shown, orderRows>>
    BY DEF CancelCommit
  <1> HIDE DEF row
  <1>4. StoreTypeOK'
    BY <1>1, <1>2, <1>3 DEF HouseInv, MoneyInv, MoneyTypeOK, StoreTypeOK
  <1>5. KitchenTypeOK' /\ OrdersTypeOK' /\ OrdJobsSound' /\ SyncOnce'
    BY <1>3, OrdIdleType
    DEF HouseInv, KitchenTypeOK, OrdersTypeOK, OrdJobsSound, SyncOnce, SyncedAs, orderRows
  <1> QED
    BY <1>3, <1>4, <1>5 DEF OrdersKept

LEMMA TableNotifyKeeps ==
  ASSUME HouseInv, NEW w \in Workers, TableNotify(w)
  PROVE  OrdersKept
  <1>1. ord[w].tableId \in Tables /\ ord[w].news \in TableStatus
    BY DEF TableNotify, HouseInv, OrdJobsSound, OrdersTypeOK, OrdJob
  <1>2. StoreTypeOK'
    BY <1>1 DEF TableNotify, Hear, HouseInv, MoneyInv, MoneyTypeOK, StoreTypeOK
  <1>3. KitchenTypeOK' /\ OrdersTypeOK' /\ OrdJobsSound' /\ SyncOnce'
    BY OrdIdleType DEF TableNotify, HouseInv, KitchenTypeOK, OrdersTypeOK, OrdJobsSound, SyncOnce,
                       SyncedAs, orderRows
  <1> QED
    BY <1>2, <1>3 DEF TableNotify, OrdersKept

LEMMA OrdersKeep ==
  ASSUME HouseInv, NEW w \in Workers, OrdersNext(w)
  PROVE  OrdersKept
  <1> USE OrdIdleType
  <1>0. ord[w] \in OrdJob
    BY DEF HouseInv, OrdersTypeOK
  <1>1. ASSUME NEW type \in OrderTypes, NEW t \in Tables \cup {None}, NEW L \in SUBSET Lines,
               NEW s \in SyncIds \cup {None}, CreateLookup(w, type, t, L, s)
        PROVE  OrdersKept
    <2> DEFINE job == [OrdIdle EXCEPT !.phase = "insert", !.orderType = type, !.kept = L,
                                      !.syncId = s, !.tableId = t]
    <2>0. type \in OrderType
      BY OrderTypeAssumption
    <2>1. job \in OrdJob /\ job.phase = "insert"
      BY <2>0 DEF OrdJob, OrdPhase, OrdIdle
    <2>2. ord' = [ord EXCEPT ![w] = job] /\ UNCHANGED <<storeVars, orderRows>>
      BY <1>1 DEF CreateLookup
    <2> HIDE DEF job
    <2> QED
      BY <2>1, <2>2, OrderJobKeeps
  <1>2. ASSUME NEW o \in Orders, CreateCommit(w, o) PROVE OrdersKept
    BY <1>2, CreateCommitKeeps
  <1>3. ASSUME NEW t \in Tables \cup {None}, NEW s \in SyncIds, CreateReplay(w, t, s)
        PROVE  OrdersKept
    <2> DEFINE job == IF t = None THEN OrdIdle
                      ELSE [OrdIdle EXCEPT !.phase = "notify", !.tableId = t, !.news = "OCCUPIED"]
    <2>1. /\ job \in OrdJob /\ job.phase \in {"idle", "notify"}
          /\ job.phase = "notify" => job.tableId \in Tables
      BY DEF OrdJob, OrdPhase, OrdIdle, TableStatus
    <2>2. ord' = [ord EXCEPT ![w] = job] /\ UNCHANGED <<storeVars, orderRows>>
      BY <1>3 DEF CreateReplay, ThenTell
    <2> HIDE DEF job
    <2> QED
      BY <2>1, <2>2, OrderJobKeeps
  <1>4. ASSUME NEW o \in Orders, NEW to \in StatusTargets, StatusRead(w, o, to) PROVE OrdersKept
    <2> DEFINE job == [OrdIdle EXCEPT !.phase = "status", !.orderId = o, !.to = to,
                                      !.version = order[o].version]
    <2>1. order[o].version \in Nat
      BY DEF HouseInv, MoneyInv, MoneyTypeOK, StoreTypeOK, OrderRow
    <2>2. job \in OrdJob /\ job.phase = "status" /\ job.orderId = o /\ job.to = to
      BY <2>1, StatusTargetAssumption DEF OrdJob, OrdPhase, OrdIdle
    <2>3. o \in placed /\ ord' = [ord EXCEPT ![w] = job] /\ UNCHANGED <<storeVars, orderRows>>
      BY <1>4 DEF StatusRead
    <2> HIDE DEF job
    <2> QED
      BY <2>2, <2>3, OrderJobKeeps
  <1>5. ASSUME StatusCommit(w) PROVE OrdersKept
    BY <1>5, StatusCommitKeeps
  <1>6. ASSUME NEW o \in Orders, NEW l \in Lines, CancelRead(w, o, l) PROVE OrdersKept
    <2> DEFINE job == [OrdIdle EXCEPT !.phase = "cancel", !.orderId = o, !.line = l]
    <2>1. job \in OrdJob /\ job.phase = "cancel" /\ job.orderId = o
      BY DEF OrdJob, OrdPhase, OrdIdle
    <2>2. o \in placed /\ ord' = [ord EXCEPT ![w] = job] /\ UNCHANGED <<storeVars, orderRows>>
      BY <1>6 DEF CancelRead
    <2> HIDE DEF job
    <2> QED
      BY <2>1, <2>2, OrderJobKeeps
  <1>7. ASSUME CancelSum(w) PROVE OrdersKept
    <2> DEFINE job == [ord[w] EXCEPT !.phase = "sum",
                                     !.kept = Remaining(w)]
    <2>1. ord[w].orderId \in placed /\ active[ord[w].orderId] \subseteq Lines
      BY <1>7 DEF CancelSum, HouseInv, OrdJobsSound, MoneyInv, MoneyTypeOK, StoreTypeOK
    <2>2. job \in OrdJob /\ job.phase = "sum" /\ job.orderId = ord[w].orderId
      BY <1>0, <2>1 DEF OrdJob, OrdPhase, Remaining
    <2>3. ord' = [ord EXCEPT ![w] = job] /\ UNCHANGED <<storeVars, orderRows>>
      BY <1>7 DEF CancelSum, HouseInv, OrdersTypeOK
    <2> HIDE DEF job
    <2> QED
      BY <2>1, <2>2, <2>3, OrderJobKeeps
  <1>8. ASSUME CancelCommit(w) PROVE OrdersKept
    BY <1>8, CancelCommitKeeps
  <1>9. ASSUME TableNotify(w) PROVE OrdersKept
    BY <1>9, TableNotifyKeeps
  <1>10. ASSUME OrderAbort(w) PROVE OrdersKept
    BY <1>10, OrderJobKeeps DEF OrderAbort
  <1> QED
    BY <1>1, <1>2, <1>3, <1>4, <1>5, <1>6, <1>7, <1>8, <1>9, <1>10 DEF OrdersNext

-----------------------------------------------------------------------------
\* The tables service.

TablesKept ==
  /\ StoreTypeOK' /\ TableServiceTypeOK' /\ MoveJobsSound'
  /\ UNCHANGED <<placed, issued, invoice>>

LEMMA TablesKeep ==
  ASSUME HouseInv, NEW w \in Workers, TableServiceNext(w)
  PROVE  TablesKept
  <1>1. move[w] \in MoveJob /\ StoreTypeOK
    BY DEF HouseInv, TableServiceTypeOK, MoneyInv, MoneyTypeOK
  <1>2. ASSUME NEW job \in MoveJob, move' = [move EXCEPT ![w] = job],
               job.phase \in {"find", "tx", "notify"} => job.from \in Tables,
               job.phase # "idle" => job.to \in Tables,
               job.phase = "tx" => job.orderId \in placed,
               StoreTypeOK', UNCHANGED <<placed, issued, invoice>>
        PROVE  TablesKept
    BY <1>2 DEF TablesKept, HouseInv, TableServiceTypeOK, MoveJobsSound
  <1>3. MoveIdle \in MoveJob /\ MoveIdle.phase = "idle"
    BY DEF MoveIdle, MoveJob, MovePhase, TableStatus
  <1>4. ASSUME NEW t \in Tables, NEW s \in TableTargets, SetStatus(w, t, s) PROVE TablesKept
    <2> DEFINE job == [MoveIdle EXCEPT !.phase = "set", !.to = t, !.status = s]
    <2>1. s \in TableStatus
      BY TableTargetAssumption
    <2>2. job \in MoveJob /\ job.phase = "set" /\ job.to = t
      BY <2>1 DEF MoveJob, MovePhase, MoveIdle
    <2>3. StoreTypeOK'
      BY <1>1, <1>4, <2>1 DEF SetStatus, StoreTypeOK
    <2>4. move' = [move EXCEPT ![w] = job] /\ UNCHANGED <<placed, issued, invoice>>
      BY <1>4 DEF SetStatus
    <2> HIDE DEF job
    <2> QED
      BY <1>2, <2>2, <2>3, <2>4
  <1>5. ASSUME SetNotify(w) PROVE TablesKept
    <2>1. StoreTypeOK'
      BY <1>1, <1>5 DEF SetNotify, Hear, StoreTypeOK, HouseInv, MoveJobsSound, MoveJob
    <2> QED
      BY <1>2, <1>3, <1>5, <2>1 DEF SetNotify
  <1>6. ASSUME NEW from \in Tables, NEW to \in Tables, TransferRead(w, from, to) PROVE TablesKept
    <2> DEFINE job == [MoveIdle EXCEPT !.phase = "find", !.from = from, !.to = to]
    <2>1. job \in MoveJob /\ job.phase = "find" /\ job.from = from /\ job.to = to
      BY DEF MoveJob, MovePhase, MoveIdle, TableStatus
    <2>2. move' = [move EXCEPT ![w] = job] /\ UNCHANGED storeVars
      BY <1>6 DEF TransferRead
    <2> HIDE DEF job
    <2> QED
      BY <1>1, <1>2, <2>1, <2>2, StoreTypeFrame DEF storeVars
  <1>7. ASSUME NEW o \in Orders, TransferFind(w, o) PROVE TablesKept
    <2> DEFINE job == [move[w] EXCEPT !.phase = "tx", !.orderId = o]
    <2>1. job \in MoveJob /\ job.phase = "tx" /\ job.from = move[w].from /\ job.to = move[w].to
          /\ job.orderId = o
      BY <1>1 DEF MoveJob, MovePhase
    <2>2. move[w].from \in Tables /\ move[w].to \in Tables /\ o \in placed
      BY <1>7 DEF TransferFind, ActiveOn, HouseInv, MoveJobsSound
    <2>3. move' = [move EXCEPT ![w] = job] /\ UNCHANGED storeVars
      BY <1>7 DEF TransferFind, HouseInv, TableServiceTypeOK
    <2> HIDE DEF job
    <2> QED
      BY <1>1, <1>2, <2>1, <2>2, <2>3, StoreTypeFrame DEF storeVars
  <1>8. ASSUME TransferCommit(w) PROVE TablesKept
    <2> DEFINE job == [move[w] EXCEPT !.phase = "notify"]
               o   == move[w].orderId
    <2>1. job \in MoveJob /\ job.phase = "notify" /\ job.from = move[w].from
          /\ job.to = move[w].to
      BY <1>1 DEF MoveJob, MovePhase
    <2>2. move[w].from \in Tables /\ move[w].to \in Tables /\ o \in Orders /\ order[o] \in OrderRow
      BY <1>1, <1>8 DEF TransferCommit, HouseInv, MoveJobsSound, StoreTypeOK
    <2>3. /\ move' = [move EXCEPT ![w] = job]
          /\ order' = [order EXCEPT ![o].tableId = move[w].to]
          /\ table' = [table EXCEPT ![move[w].from] = "AVAILABLE", ![move[w].to] = "OCCUPIED"]
          /\ UNCHANGED <<placed, active, issued, invoice, shown>>
      BY <1>8 DEF TransferCommit, HouseInv, TableServiceTypeOK
    <2> HIDE DEF job
    <2>4. order' \in [Orders -> OrderRow]
      BY <1>1, <2>2, <2>3 DEF StoreTypeOK, OrderRow
    <2>5. table' \in [Tables -> TableStatus]
      BY <1>1, <2>2, <2>3 DEF StoreTypeOK, TableStatus
    <2>6. StoreTypeOK'
      BY <1>1, <2>3, <2>4, <2>5 DEF StoreTypeOK
    <2> QED
      BY <1>2, <2>1, <2>2, <2>3, <2>6
  <1>9. ASSUME TransferNotify(w) PROVE TablesKept
    <2>1. StoreTypeOK'
      BY <1>1, <1>9 DEF TransferNotify, StoreTypeOK, HouseInv, MoveJobsSound, TableStatus
    <2> QED
      BY <1>2, <1>3, <1>9, <2>1 DEF TransferNotify
  <1>10. ASSUME TransferAbort(w) PROVE TablesKept
    BY <1>1, <1>2, <1>3, <1>10, StoreTypeFrame DEF TransferAbort, storeVars
  <1> QED
    BY <1>4, <1>5, <1>6, <1>7, <1>8, <1>9, <1>10 DEF TableServiceNext

-----------------------------------------------------------------------------
\* The other steps.

LEMMA KitchenKeeps ==
  ASSUME KitchenTypeOK, KitchenNext
  PROVE  KitchenTypeOK' /\ UNCHANGED storeVars
  BY KotTargetAssumption DEF KitchenNext, UpdateKOTStatus, KitchenTypeOK

LEMMA BillingFrame ==
  ASSUME NEW w \in Workers, BillingNext(w)
  PROVE  UNCHANGED <<placed, active>>
  BY DEF BillingNext, BillRead, BillReplay, BillMiss, BillCommit, BillNotify, BillAbort, storeVars

LEMMA PaymentsFrame ==
  ASSUME NEW w \in Workers, PaymentsNext(w)
  PROVE  UNCHANGED <<placed, active>>
  BY DEF PaymentsNext, PayRead, PayReplay, PayMiss, PayCommit, PayNotify, SplitRead, SplitCommit,
         RefundRead, RefundCommit, PayAbort, storeVars

\* The conjuncts of HouseInv about orders and tables, for the steps of billing and payments.
LEMMA HouseFrame ==
  ASSUME HouseInv, UNCHANGED <<placed, orderRows, ord, move>>
  PROVE  /\ KitchenTypeOK' /\ OrdersTypeOK' /\ TableServiceTypeOK'
         /\ OrdJobsSound' /\ MoveJobsSound' /\ SyncOnce'
  BY DEF HouseInv, KitchenTypeOK, OrdersTypeOK, TableServiceTypeOK, OrdJobsSound, MoveJobsSound,
         SyncOnce, SyncedAs, orderRows

-----------------------------------------------------------------------------
\* The invariant.

LEMMA HouseInit == Init => HouseInv /\ Ledger!Init
  <1> SUFFICES ASSUME Init PROVE HouseInv /\ Ledger!Init
    OBVIOUS
  <1>1. StoreTypeOK
    BY DEF Init, StoreTypeOK, OrderRow, BlankOrder, InvoiceRow, BlankInvoice, OrderStatus,
           OrderType, TableStatus
  <1>2. MoneyInv /\ Ledger!Init
    BY <1>1, MoneyInitially DEF Init
  <1>3. KitchenTypeOK /\ OrdersTypeOK /\ OrdJobsSound
    BY OrdIdleType DEF Init, KitchenInit, OrdersInit, KitchenTypeOK, OrdersTypeOK, OrdJobsSound
  <1>4. TableServiceTypeOK /\ MoveJobsSound
    BY DEF Init, TableServiceInit, TableServiceTypeOK, MoveJobsSound, MoveIdle, MoveJob, MovePhase,
           TableStatus
  <1>5. SyncOnce
    BY DEF Init, SyncOnce, SyncedAs
  <1> QED
    BY <1>2, <1>3, <1>4, <1>5 DEF HouseInv

LEMMA HouseNext == HouseInv /\ [Next]_vars => HouseInv'
  <1> SUFFICES ASSUME HouseInv, [Next]_vars PROVE HouseInv'
    OBVIOUS
  <1>0. MoneyInv
    BY DEF HouseInv
  <1>1. ASSUME NEW w \in Workers, OrdersStep(w) PROVE HouseInv'
    <2>1. OrdersKept /\ UNCHANGED <<paymentRows, move, bill, pay>>
      BY <1>1, OrdersKeep DEF OrdersStep
    <2>2. MoneyInv'
      BY <1>0, <2>1, OthersKeep DEF OrdersKept, paymentRows
    <2>3. TableServiceTypeOK' /\ MoveJobsSound'
      BY <2>1 DEF OrdersKept, HouseInv, TableServiceTypeOK, MoveJobsSound
    <2> QED
      BY <2>1, <2>2, <2>3 DEF OrdersKept, HouseInv
  <1>2. ASSUME NEW w \in Workers, TablesStep(w) PROVE HouseInv'
    <2>1. TablesKept /\ UNCHANGED <<orderRows, paymentRows, ord, bill, pay>>
      BY <1>2, TablesKeep DEF TablesStep
    <2>2. MoneyInv'
      BY <1>0, <2>1, OthersKeep DEF TablesKept, paymentRows
    <2>3. KitchenTypeOK' /\ OrdersTypeOK' /\ OrdJobsSound' /\ SyncOnce'
      BY <2>1
      DEF TablesKept, HouseInv, KitchenTypeOK, OrdersTypeOK, OrdJobsSound, SyncOnce, SyncedAs,
          orderRows
    <2> QED
      BY <2>1, <2>2, <2>3 DEF TablesKept, HouseInv
  <1>3. ASSUME NEW w \in Workers, BillingStep(w) PROVE HouseInv'
    <2>1. MoneyInv'
      BY <1>0, <1>3, BillingKeeps DEF BillingStep, MoneyKept, paymentRows, paymentsVars
    <2> QED
      BY <1>3, <2>1, BillingFrame, HouseFrame DEF BillingStep, HouseInv
  <1>4. ASSUME NEW w \in Workers, PaymentsStep(w) PROVE HouseInv'
    <2>1. MoneyInv'
      BY <1>0, <1>4, PaymentsKeep DEF PaymentsStep, MoneyKept
    <2> QED
      BY <1>4, <2>1, PaymentsFrame, HouseFrame DEF PaymentsStep, HouseInv
  <1>5. ASSUME KitchenStep PROVE HouseInv'
    <2>1. KitchenTypeOK' /\ UNCHANGED <<storeVars, lines, syncId, paymentRows, requests>>
      BY <1>5, KitchenKeeps DEF KitchenStep, HouseInv
    <2>2. MoneyInv'
      BY <1>0, <2>1, OthersKeep, StoreTypeFrame
      DEF storeVars, paymentRows, requests, MoneyInv, MoneyTypeOK
    <2> QED
      BY <2>1, <2>2 DEF HouseInv, OrdersTypeOK, TableServiceTypeOK, OrdJobsSound, MoveJobsSound,
                        SyncOnce, SyncedAs, storeVars, requests
  <1>6. ASSUME Restart PROVE HouseInv'
    <2>1. MoneyInv'
      BY <1>0, <1>6, OthersKeep, StoreTypeFrame
      DEF Restart, storeVars, paymentRows, MoneyInv, MoneyTypeOK
    <2>2. KitchenTypeOK' /\ OrdersTypeOK' /\ OrdJobsSound' /\ SyncOnce'
      BY <1>6, OrdIdleType DEF Restart, HouseInv, KitchenTypeOK, OrdersTypeOK, OrdJobsSound,
                               SyncOnce, SyncedAs, storeVars, orderRows
    <2>3. TableServiceTypeOK' /\ MoveJobsSound'
      BY <1>6 DEF Restart, TableServiceTypeOK, MoveJobsSound, MoveIdle, MoveJob, MovePhase,
                  TableStatus
    <2> QED
      BY <2>1, <2>2, <2>3 DEF HouseInv
  <1>7. ASSUME UNCHANGED vars PROVE HouseInv'
    <2>1. MoneyInv'
      BY <1>0, <1>7, OthersKeep, StoreTypeFrame
      DEF vars, storeVars, paymentRows, requests, MoneyInv, MoneyTypeOK
    <2> QED
      BY <1>7, <2>1, HouseFrame DEF vars, storeVars, requests, HouseInv
  <1> QED
    BY <1>1, <1>2, <1>3, <1>4, <1>5, <1>6, <1>7 DEF Next

\* What billing and payments keep, and the jobs of orders and tables, in every interleaving of
\* the four services with restarts.
THEOREM HouseInvariance == Spec => []HouseInv
  <1>1. Init => HouseInv
    BY HouseInit
  <1> QED
    BY <1>1, HouseNext, PTL DEF Spec

\* Rows, handlers and tickets keep their types.
THEOREM HouseTypes == Spec => []TypeOK
  <1>1. HouseInv => TypeOK
    BY DEF HouseInv, MoneyInv, TypeOK
  <1> QED
    BY <1>1, HouseInvariance, PTL

\* A sync id is used for one order only, however many terminals retry and whenever the API
\* restarts.
THEOREM OneOrderPerSyncId == Spec => []SyncOnce
  <1>1. HouseInv => SyncOnce
    BY DEF HouseInv
  <1> QED
    BY <1>1, HouseInvariance, PTL

\* What billing and payments promise also holds while orders are placed, cancelled, moved
\* and cooked and the API restarts.
THEOREM HouseMoney ==
  Spec => [](LedgerBalanced /\ CreditIsBacked /\ PaidIsCovered /\ OneChargePerKey)
  <1>1. HouseInv => LedgerBalanced /\ CreditIsBacked /\ PaidIsCovered /\ OneChargePerKey
    BY PaidIsCoveredByInv DEF HouseInv, MoneyInv
  <1> QED
    BY <1>1, HouseInvariance, PTL

LEMMA HouseTenders == HouseInv /\ HouseInv' /\ [Next]_vars => [Ledger!BackedStep]_(Ledger!ledger)
  <1> SUFFICES ASSUME HouseInv, HouseInv', [Next]_vars
               PROVE  Ledger!BackedStep \/ UNCHANGED Ledger!ledger
    OBVIOUS
  <1>0. MoneyInv /\ MoneyInv'
    BY DEF HouseInv
  <1>1. ASSUME UNCHANGED <<invoice, paymentRows>> PROVE UNCHANGED Ledger!ledger
    BY <1>1, LedgerStutter DEF paymentRows
  <1>2. ASSUME NEW w \in Workers, OrdersStep(w) PROVE UNCHANGED Ledger!ledger
    BY <1>1, <1>2, OrdersKeep DEF OrdersStep, OrdersKept
  <1>3. ASSUME NEW w \in Workers, TablesStep(w) PROVE UNCHANGED Ledger!ledger
    BY <1>1, <1>3, TablesKeep DEF TablesStep, TablesKept
  <1>4. ASSUME NEW w \in Workers, BillingStep(w) PROVE UNCHANGED Ledger!ledger
    BY <1>0, <1>4, BillingStutters DEF BillingStep, paymentRows, paymentsVars
  <1>5. ASSUME NEW w \in Workers, PaymentsStep(w)
        PROVE  Ledger!BackedStep \/ UNCHANGED Ledger!ledger
    BY <1>0, <1>5, PaymentsTender DEF PaymentsStep
  <1>6. ASSUME KitchenStep \/ Restart \/ UNCHANGED vars PROVE UNCHANGED Ledger!ledger
    BY <1>1, <1>6, KitchenKeeps DEF KitchenStep, Restart, vars, storeVars, HouseInv
  <1> QED
    BY <1>2, <1>3, <1>4, <1>5, <1>6 DEF Next

\* The whole front of house implements the backed ledger.
THEOREM HouseLedger == Spec => ImplementsBackedLedger
  <1>1. Init => Ledger!Init
    BY HouseInit
  <1> QED
    BY <1>1, HouseTenders, HouseInvariance, PTL
    DEF Spec, ImplementsBackedLedger, Ledger!BackedSpec

-----------------------------------------------------------------------------
\* Who makes an order PAID.

\* One of the two things that make an order PAID in a step.
Accounted(o) ==
  \/ \E w \in Workers : StatusCommit(w) /\ ord[w].orderId = o
  \/ \E i \in issued : invoice[i].orderId = o /\ collected'[i] >= invoice[i].grandTotal

\* What a payment of what was due on the row it has read brings the invoice to.
LEMMA CollectCovers ==
  ASSUME MoneyInv, NEW w \in Workers, pay[w].phase \in Collecting, NEW amount \in Nat,
         amount >= pay[w].seen.dueAmount,
         collected' = [collected EXCEPT ![pay[w].invoiceId] = @ + amount]
  PROVE  \E i \in issued : /\ invoice[i].orderId = pay[w].seen.orderId
                           /\ collected'[i] >= invoice[i].grandTotal
  <1> DEFINE i == pay[w].invoiceId
  <1>1. /\ i \in issued /\ i \in Invoices /\ collected \in [Invoices -> Nat]
        /\ pay[w].seen \in InvoiceRow
    BY DEF MoneyInv, MoneyTypeOK, StoreTypeOK, PaymentsTypeOK, PayJob
  <1>2. /\ pay[w].seen.orderId = invoice[i].orderId
        /\ pay[w].seen.grandTotal = invoice[i].grandTotal
        /\ pay[w].seen.paidAmount + pay[w].seen.dueAmount = pay[w].seen.grandTotal
        /\ pay[w].seen.paidAmount <= collected[i]
    BY DEF MoneyInv, SnapshotSound
  <1>3. collected'[i] >= invoice[i].grandTotal
    BY <1>1, <1>2 DEF InvoiceRow
  <1> QED
    BY <1>1, <1>2, <1>3

LEMMA PaidByPayment ==
  ASSUME MoneyInv, NEW w \in Workers, PaymentsNext(w), NEW o \in placed,
         order[o].status # "PAID", order'[o].status = "PAID"
  PROVE  \E i \in issued : invoice[i].orderId = o /\ collected'[i] >= invoice[i].grandTotal
  <1>0. order \in [Orders -> OrderRow] /\ placed \subseteq Orders
    BY DEF MoneyInv, MoneyTypeOK, StoreTypeOK
  <1>1. ASSUME NEW p, NEW t, CloseOrder(p, t) PROVE o = p
    BY <1>0, <1>1 DEF CloseOrder
  <1>2. ASSUME NEW p \in PaymentIds, PayCommit(w, p)
        PROVE  \E i \in issued : invoice[i].orderId = o /\ collected'[i] >= invoice[i].grandTotal
    <2> DEFINE row == Credited(pay[w].seen, pay[w].amount)
    <2>1. pay[w].phase \in Collecting /\ pay[w].phase = "tx"
      BY <1>2 DEF PayCommit, Collecting
    <2>2. /\ pay[w].seen \in InvoiceRow /\ pay[w].amount \in Nat
          /\ pay[w].seen.paidAmount + pay[w].seen.dueAmount = pay[w].seen.grandTotal
      BY <2>1, AmountAssumption DEF MoneyInv, MoneyTypeOK, PaymentsTypeOK, PayJob, SnapshotSound
    <2>3. row.isPaid /\ o = pay[w].seen.orderId
      BY <1>1, <1>2 DEF PayCommit
    <2>4. pay[w].amount >= pay[w].seen.dueAmount
      <3> DEFINE rest == pay[w].seen.grandTotal - (pay[w].seen.paidAmount + pay[w].amount)
                 due  == IF rest > 0 THEN rest ELSE 0
      <3>1. row.isPaid = (due = 0)
        BY DEF Credited
      <3>2. due = 0
        BY <2>3, <3>1, Zenon
      <3>3. /\ pay[w].seen.paidAmount \in Nat /\ pay[w].seen.grandTotal \in Nat
            /\ pay[w].seen.dueAmount \in Nat
        BY <2>2 DEF InvoiceRow
      <3> QED
        BY <2>2, <3>2, <3>3
    <2> QED
      BY <1>2, <2>1, <2>2, <2>3, <2>4, CollectCovers DEF PayCommit
  <1>3. ASSUME NEW tenders \in Tenders, SplitCommit(w, tenders)
        PROVE  \E i \in issued : invoice[i].orderId = o /\ collected'[i] >= invoice[i].grandTotal
    <2>1. pay[w].phase \in Collecting /\ o = pay[w].seen.orderId
      BY <1>1, <1>3 DEF SplitCommit, Collecting
    <2>2. SumOf(tenders) = pay[w].seen.dueAmount /\ SumOf(tenders) \in Nat
          /\ SumOf(tenders) >= pay[w].seen.dueAmount
      BY <1>3 DEF SplitCommit, Balanced, MoneyInv, MoneyTypeOK, PaymentsTypeOK, PayJob, InvoiceRow
    <2> QED
      BY <1>3, <2>1, <2>2, CollectCovers DEF SplitCommit
  <1> QED
    BY <1>2, <1>3
    DEF PaymentsNext, PayRead, PayReplay, PayMiss, PayNotify, SplitRead, RefundRead, RefundCommit,
        PayAbort, storeVars

LEMMA HousePays ==
  HouseInv /\ [Next]_vars =>
    \A o \in placed : order[o].status # "PAID" /\ order'[o].status = "PAID" => Accounted(o)
  <1> SUFFICES ASSUME HouseInv, [Next]_vars, NEW o \in placed,
                      order[o].status # "PAID", order'[o].status = "PAID"
               PROVE  Accounted(o)
    OBVIOUS
  <1>0. order \in [Orders -> OrderRow] /\ placed \subseteq Orders /\ MoneyInv
    BY DEF HouseInv, MoneyInv, MoneyTypeOK, StoreTypeOK
  <1>1. ASSUME NEW w \in Workers, OrdersNext(w) PROVE Accounted(o)
    <2>1. ASSUME NEW p \in Orders, CreateCommit(w, p) PROVE FALSE
      BY <1>0, <2>1 DEF CreateCommit
    <2>2. ASSUME CancelCommit(w) PROVE FALSE
      BY <1>0, <2>2 DEF CancelCommit, Recalculated
    <2>3. ASSUME StatusCommit(w) PROVE ord[w].orderId = o
      BY <1>0, <2>3 DEF StatusCommit
    <2> QED
      BY <1>1, <2>1, <2>2, <2>3
      DEF OrdersNext, CreateLookup, CreateReplay, StatusRead, CancelRead, CancelSum, TableNotify,
          OrderAbort, storeVars, Accounted
  <1>2. ASSUME NEW w \in Workers, TableServiceNext(w) PROVE FALSE
    <2>1. ASSUME TransferCommit(w) PROVE FALSE
      BY <1>0, <2>1 DEF TransferCommit, OrderRow
    <2> QED
      BY <1>2, <2>1
      DEF TableServiceNext, SetStatus, SetNotify, TransferRead, TransferFind, TransferNotify,
          TransferAbort, storeVars
  <1>3. ASSUME NEW w \in Workers, BillingNext(w) PROVE FALSE
    <2>1. ASSUME NEW i \in Invoices, BillCommit(w, i) PROVE FALSE
      BY <1>0, <2>1 DEF BillCommit, WithStatus
    <2> QED
      BY <1>3, <2>1
      DEF BillingNext, BillRead, BillReplay, BillMiss, BillNotify, BillAbort, storeVars
  <1>4. ASSUME NEW w \in Workers, PaymentsNext(w) PROVE Accounted(o)
    BY <1>0, <1>4, PaidByPayment DEF Accounted
  <1>5. ASSUME KitchenStep \/ Restart \/ UNCHANGED vars PROVE FALSE
    BY <1>5, KitchenKeeps DEF KitchenStep, Restart, vars, storeVars, HouseInv
  <1> QED
    BY <1>1, <1>2, <1>3, <1>4, <1>5 DEF Next, OrdersStep, TablesStep, BillingStep, PaymentsStep

\* With any number of requests at a time, an order becomes PAID only because updateStatus is
\* asked for it or because an invoice of it is paid in full by then.
THEOREM PaidForOrSetByHand == Spec => PaidForOrSet
  <1>1. HouseInv /\ [Next]_vars =>
          [\A o \in placed :
             order[o].status # "PAID" /\ order'[o].status = "PAID" =>
               \/ \E w \in Workers : StatusCommit(w) /\ ord[w].orderId = o
               \/ \E i \in issued : /\ invoice[i].orderId = o
                                    /\ collected'[i] >= invoice[i].grandTotal]_vars
    BY HousePays DEF Accounted
  <1> QED
    BY <1>1, HouseInvariance, PTL DEF Spec, PaidForOrSet

-----------------------------------------------------------------------------
\* What the guests are asked for.

\* A step that gives no order other lines than it has, or another type, but may cancel some.
Shrinks ==
  /\ placed \subseteq placed'
  /\ \A o \in placed : /\ lines'[o] = lines[o] /\ active'[o] \subseteq active[o]
                       /\ order'[o].orderType = order[o].orderType

\* A step that also leaves the totals and the cancelled lines as they are.
SameLines ==
  /\ placed' = placed
  /\ \A o \in placed : /\ lines'[o] = lines[o] /\ active'[o] = active[o]
                       /\ order'[o].orderType = order[o].orderType
                       /\ order'[o].grandTotal = order[o].grandTotal

LineRows == \A o \in placed : Charged(o) /\ active[o] \subseteq lines[o]

LineBills == \A i \in issued : Billed(invoice[i].orderId, invoice[i].grandTotal)

BillSound(w) == bill[w].phase \in {"check", "tx"} => Billed(bill[w].orderId, bill[w].grandTotal)

LinesParts == /\ LineRows /\ LineBills
              /\ \A w \in Workers : BillSound(w) /\ CancelSound(w)

LEMMA LinesSoundParts == LinesSound <=> LinesParts
  BY DEF LinesSound, LinesAreCharged, LinesParts, LineRows, LineBills, BillSound

LEMMA SameRows ==
  ASSUME LineRows, SameLines
  PROVE  LineRows' /\ Shrinks
  BY DEF LineRows, SameLines, Shrinks, Charged

\* A bill made out before a line was cancelled still names every line that is kept.
LEMMA BilledStays ==
  ASSUME Shrinks, NEW o \in placed, NEW total, Billed(o, total)
  PROVE  Billed(o, total)'
  BY DEF Shrinks, Billed

LEMMA BillsStay ==
  ASSUME HouseInv, LineBills, Shrinks, issued' = issued,
         \A i \in issued : /\ invoice'[i].orderId = invoice[i].orderId
                           /\ invoice'[i].grandTotal = invoice[i].grandTotal
  PROVE  LineBills'
  <1> SUFFICES ASSUME NEW i \in issued PROVE Billed(invoice[i].orderId, invoice[i].grandTotal)'
    BY DEF LineBills
  <1>1. invoice[i].orderId \in placed /\ Billed(invoice[i].orderId, invoice[i].grandTotal)
    BY DEF HouseInv, MoneyInv, IssuedHasOrder, LineBills
  <1> QED
    BY <1>1, BilledStays DEF Billed

LEMMA BillJobStays ==
  ASSUME HouseInv, Shrinks, NEW w \in Workers, BillSound(w),
         bill'[w] = bill[w] \/ bill'[w].phase \notin {"check", "tx"}
  PROVE  BillSound(w)'
  <1> SUFFICES ASSUME bill'[w] = bill[w], bill[w].phase \in {"check", "tx"}
               PROVE  BillSound(w)'
    BY DEF BillSound
  <1>1. bill[w].orderId \in placed /\ Billed(bill[w].orderId, bill[w].grandTotal)
    BY DEF HouseInv, MoneyInv, MoneyTypeOK, BillingTypeOK, BillSound
  <1> QED
    BY <1>1, BilledStays DEF BillSound, Billed

LEMMA CancelJobStays ==
  ASSUME HouseInv, Shrinks, NEW w \in Workers, CancelSound(w),
         ord'[w] = ord[w] \/ ord'[w].phase \notin {"cancel", "sum"}
  PROVE  CancelSound(w)'
  <1> SUFFICES ASSUME ord'[w] = ord[w], ord[w].phase \in {"cancel", "sum"} PROVE CancelSound(w)'
    BY DEF CancelSound
  <1>1. ord[w].orderId \in placed
    BY DEF HouseInv, OrdJobsSound
  <1> QED
    BY <1>1 DEF CancelSound, Shrinks

\* The steps that leave lines, totals and invoices as they are; two of them give their
\* handler something new to hold.
LEMMA LinesStay ==
  ASSUME HouseInv, LinesParts, SameLines, issued' = issued,
         \A i \in issued : /\ invoice'[i].orderId = invoice[i].orderId
                           /\ invoice'[i].grandTotal = invoice[i].grandTotal,
         \A w \in Workers : /\ \/ bill'[w] = bill[w] \/ bill'[w].phase \notin {"check", "tx"}
                               \/ BillSound(w)'
                            /\ \/ ord'[w] = ord[w] \/ ord'[w].phase \notin {"cancel", "sum"}
                               \/ CancelSound(w)'
  PROVE  LinesParts'
  <1>1. LineRows' /\ Shrinks
    BY SameRows DEF LinesParts
  <1>2. LineBills'
    BY <1>1, BillsStay DEF LinesParts
  <1>3. ASSUME NEW w \in Workers PROVE BillSound(w)' /\ CancelSound(w)'
    BY <1>1, BillJobStays, CancelJobStays DEF LinesParts
  <1> QED
    BY <1>1, <1>2, <1>3 DEF LinesParts

LEMMA CreateCommitCharges ==
  ASSUME HouseInv, LinesParts, NEW w \in Workers, NEW o \in Orders, CreateCommit(w, o),
         bill' = bill
  PROVE  LinesParts'
  <1> DEFINE job == ord[w]
  <1>0. /\ placed \subseteq Orders /\ order \in [Orders -> OrderRow]
        /\ active \in [Orders -> SUBSET Lines] /\ lines \in [Orders -> SUBSET Lines]
        /\ ord \in [Workers -> OrdJob]
    BY DEF HouseInv, MoneyInv, MoneyTypeOK, StoreTypeOK, OrdersTypeOK
  <1>1. /\ placed' = placed \cup {o} /\ o \notin placed
        /\ order'[o] = NewOrder(job.orderType, job.tableId, job.kept)
        /\ lines'[o] = job.kept /\ active'[o] = job.kept
        /\ \A p \in placed : /\ p # o /\ order'[p] = order[p] /\ lines'[p] = lines[p]
                             /\ active'[p] = active[p]
        /\ UNCHANGED <<issued, invoice>>
    BY <1>0 DEF CreateCommit
  <1>2. Shrinks
    BY <1>1 DEF Shrinks
  <1>3. LineRows'
    BY <1>1 DEF LinesParts, LineRows, Charged, NewOrder
  <1>4. LineBills'
    BY <1>1, <1>2, BillsStay DEF LinesParts
  <1>5. ord'[w].phase \notin {"cancel", "sum"} /\ \A v \in Workers \ {w} : ord'[v] = ord[v]
    BY <1>0 DEF CreateCommit, ThenTell, OrdIdle
  <1>6. ASSUME NEW v \in Workers PROVE BillSound(v)' /\ CancelSound(v)'
    BY <1>2, <1>5, BillJobStays, CancelJobStays DEF LinesParts
  <1> QED
    BY <1>3, <1>4, <1>6 DEF LinesParts

LEMMA CancelCommitCharges ==
  ASSUME HouseInv, LinesParts, NEW w \in Workers, CancelCommit(w), UNCHANGED <<lines, bill>>
  PROVE  LinesParts'
  <1>0. /\ placed \subseteq Orders /\ order \in [Orders -> OrderRow]
        /\ active \in [Orders -> SUBSET Lines] /\ lines \in [Orders -> SUBSET Lines]
        /\ ord \in [Workers -> OrdJob]
    BY DEF HouseInv, MoneyInv, MoneyTypeOK, StoreTypeOK, OrdersTypeOK
  <1>1. PICK o \in placed : o = ord[w].orderId
    BY DEF CancelCommit, HouseInv, OrdJobsSound
  <1>2. /\ ord[w].line \in lines[o]
        /\ ord[w].kept \subseteq lines[o] \ {ord[w].line}
        /\ active[o] \ {ord[w].line} \subseteq ord[w].kept
    BY <1>1 DEF CancelCommit, LinesParts, CancelSound
  <1>3. /\ active'[o] = active[o] \ {ord[w].line}
        /\ order'[o].grandTotal = CancelTotal[ord[w].kept]
        /\ order'[o].orderType = order[o].orderType
        /\ \A p \in placed \ {o} : order'[p] = order[p] /\ active'[p] = active[p]
        /\ UNCHANGED <<placed, lines, issued, invoice>>
    BY <1>0, <1>1 DEF CancelCommit, Recalculated
  <1>4. Shrinks
    BY <1>3 DEF Shrinks
  <1>5. LineRows'
    <2>1. Charged(o)' /\ active'[o] \subseteq lines'[o]
      <3>1. active'[o] # lines'[o] /\ active'[o] \subseteq ord[w].kept
            /\ ord[w].kept \in SUBSET lines'[o] /\ ord[w].kept # lines'[o]
        BY <1>2, <1>3
      <3> QED
        BY <1>3, <3>1 DEF Charged
    <2>2. ASSUME NEW p \in placed, p # o PROVE Charged(p)' /\ active'[p] \subseteq lines'[p]
      BY <1>3, <2>2 DEF LinesParts, LineRows, Charged
    <2> QED
      BY <1>3, <2>1, <2>2 DEF LineRows
  <1>6. LineBills'
    BY <1>3, <1>4, BillsStay DEF LinesParts
  <1>7. ord'[w].phase \notin {"cancel", "sum"} /\ \A v \in Workers \ {w} : ord'[v] = ord[v]
    BY <1>0 DEF CancelCommit, OrdIdle
  <1>8. ASSUME NEW v \in Workers PROVE BillSound(v)' /\ CancelSound(v)'
    BY <1>4, <1>7, BillJobStays, CancelJobStays DEF LinesParts
  <1> QED
    BY <1>5, <1>6, <1>8 DEF LinesParts

LEMMA OrdersCharge ==
  ASSUME HouseInv, LinesParts, NEW w \in Workers, OrdersNext(w), bill' = bill
  PROVE  LinesParts'
  <1>0. /\ placed \subseteq Orders /\ order \in [Orders -> OrderRow]
        /\ ord \in [Workers -> OrdJob]
    BY DEF HouseInv, MoneyInv, MoneyTypeOK, StoreTypeOK, OrdersTypeOK
  <1>1. ASSUME SameLines, UNCHANGED <<issued, invoice>>,
               \A v \in Workers \ {w} : ord'[v] = ord[v],
               ord'[w].phase \notin {"cancel", "sum"} \/ CancelSound(w)'
        PROVE  LinesParts'
    BY <1>1, LinesStay
  <1>2. ASSUME UNCHANGED <<placed, order, active, lines>> PROVE SameLines
    BY <1>2 DEF SameLines
  <1>3. ASSUME NEW t, NEW s, ThenTell(w, t, s)
        PROVE  ord'[w].phase \notin {"cancel", "sum"} /\ \A v \in Workers \ {w} : ord'[v] = ord[v]
    BY <1>0, <1>3 DEF ThenTell, OrdIdle
  <1>4. ASSUME NEW type \in OrderTypes, NEW t \in Tables \cup {None}, NEW L \in SUBSET Lines,
               NEW s \in SyncIds \cup {None}, CreateLookup(w, type, t, L, s)
        PROVE  LinesParts'
    <2>1. ord'[w].phase \notin {"cancel", "sum"} /\ \A v \in Workers \ {w} : ord'[v] = ord[v]
      BY <1>0, <1>4 DEF CreateLookup, OrdIdle
    <2> QED
      BY <1>1, <1>2, <1>4, <2>1 DEF CreateLookup, storeVars, orderRows
  <1>5. ASSUME NEW o \in Orders, CreateCommit(w, o) PROVE LinesParts'
    BY <1>5, CreateCommitCharges
  <1>6. ASSUME NEW t \in Tables \cup {None}, NEW s \in SyncIds, CreateReplay(w, t, s)
        PROVE  LinesParts'
    BY <1>1, <1>2, <1>3, <1>6 DEF CreateReplay, storeVars, orderRows
  <1>7. ASSUME NEW o \in Orders, NEW to \in StatusTargets, StatusRead(w, o, to)
        PROVE  LinesParts'
    <2>1. ord'[w].phase \notin {"cancel", "sum"} /\ \A v \in Workers \ {w} : ord'[v] = ord[v]
      BY <1>0, <1>7 DEF StatusRead, OrdIdle
    <2> QED
      BY <1>1, <1>2, <1>7, <2>1 DEF StatusRead, storeVars, orderRows
  <1>8. ASSUME StatusCommit(w) PROVE LinesParts'
    <2>1. SameLines
      BY <1>0, <1>8 DEF StatusCommit, WithStatus, SameLines, orderRows
    <2> QED
      BY <1>1, <1>3, <1>8, <2>1 DEF StatusCommit
  <1>9. ASSUME NEW o \in Orders, NEW l \in Lines, CancelRead(w, o, l) PROVE LinesParts'
    <2>1. /\ ord'[w].phase = "cancel" /\ ord'[w].orderId = o /\ ord'[w].line = l
          /\ l \in lines'[o]
          /\ \A v \in Workers \ {w} : ord'[v] = ord[v]
      BY <1>0, <1>9 DEF CancelRead, OrdIdle, orderRows
    <2>2. CancelSound(w)'
      BY <2>1 DEF CancelSound
    <2> QED
      BY <1>1, <1>2, <1>9, <2>1, <2>2 DEF CancelRead, storeVars, orderRows
  <1>10. ASSUME CancelSum(w) PROVE LinesParts'
    <2> DEFINE o == ord[w].orderId
    <2>1. /\ ord'[w].phase = "sum" /\ ord'[w].orderId = o /\ ord'[w].line = ord[w].line
          /\ ord'[w].kept = active[o] \ {ord[w].line}
          /\ \A v \in Workers \ {w} : ord'[v] = ord[v]
      BY <1>0, <1>10 DEF CancelSum, Remaining, OrdJob
    <2>2. ord[w].line \in lines[o] /\ active[o] \subseteq lines[o]
          /\ UNCHANGED <<active, lines>>
      BY <1>10 DEF CancelSum, LinesParts, LineRows, CancelSound, HouseInv, OrdJobsSound,
                   storeVars, orderRows
    <2>3. CancelSound(w)'
      BY <2>1, <2>2 DEF CancelSound
    <2> QED
      BY <1>1, <1>2, <1>10, <2>1, <2>3 DEF CancelSum, storeVars, orderRows
  <1>11. ASSUME CancelCommit(w) PROVE LinesParts'
    BY <1>11, CancelCommitCharges DEF CancelCommit, orderRows
  <1>12. ASSUME TableNotify(w) \/ OrderAbort(w) PROVE LinesParts'
    <2>1. ord'[w].phase \notin {"cancel", "sum"} /\ \A v \in Workers \ {w} : ord'[v] = ord[v]
      BY <1>0, <1>12 DEF TableNotify, OrderAbort, OrdIdle
    <2>2. UNCHANGED <<placed, order, active, lines, issued, invoice>>
      BY <1>12 DEF TableNotify, OrderAbort, storeVars, orderRows
    <2> QED
      BY <1>1, <1>2, <2>1, <2>2
  <1> QED
    BY <1>4, <1>5, <1>6, <1>7, <1>8, <1>9, <1>10, <1>11, <1>12 DEF OrdersNext

LEMMA TablesCharge ==
  ASSUME HouseInv, LinesParts, NEW w \in Workers, TableServiceNext(w),
         UNCHANGED <<lines, ord, bill>>
  PROVE  LinesParts'
  <1>1. ASSUME TransferCommit(w) PROVE SameLines
    BY <1>1 DEF TransferCommit, SameLines, HouseInv, MoneyInv, MoneyTypeOK, StoreTypeOK, OrderRow
  <1>2. ASSUME UNCHANGED <<placed, order, active>> PROVE SameLines
    BY <1>2 DEF SameLines
  <1>3. SameLines /\ UNCHANGED <<issued, invoice>>
    BY <1>1, <1>2
    DEF TableServiceNext, SetStatus, SetNotify, TransferRead, TransferFind, TransferCommit,
        TransferNotify, TransferAbort, storeVars
  <1> QED
    BY <1>3, LinesStay

LEMMA BillingCharges ==
  ASSUME HouseInv, LinesParts, NEW w \in Workers, BillingNext(w), UNCHANGED <<lines, ord>>
  PROVE  LinesParts'
  <1>0. /\ bill \in [Workers -> BillJob] /\ placed \subseteq Orders /\ issued \subseteq Invoices
        /\ order \in [Orders -> OrderRow] /\ invoice \in [Invoices -> InvoiceRow]
    BY DEF HouseInv, MoneyInv, MoneyTypeOK, StoreTypeOK, BillingTypeOK
  <1>1. ASSUME UNCHANGED <<placed, order, active, issued, invoice>>,
               \A v \in Workers \ {w} : bill'[v] = bill[v],
               bill'[w].phase \notin {"check", "tx"} \/ BillSound(w)'
        PROVE  LinesParts'
    <2>1. SameLines
      BY <1>1 DEF SameLines
    <2> QED
      BY <1>1, <2>1, LinesStay
  <1>2. ASSUME NEW o \in Orders, BillRead(w, o) PROVE LinesParts'
    <2>1. /\ bill'[w].orderId = o
          /\ bill'[w].grandTotal = InvoiceTotal[order[o].orderType][active[o]]
          /\ \A v \in Workers \ {w} : bill'[v] = bill[v]
          /\ UNCHANGED storeVars /\ o \in placed
      BY <1>0, <1>2 DEF BillRead
    <2>2. active[o] \subseteq lines[o]
      BY <2>1 DEF LinesParts, LineRows
    <2>3. BillSound(w)'
      BY <2>1, <2>2 DEF BillSound, Billed, storeVars
    <2> QED
      BY <1>1, <2>1, <2>3 DEF storeVars
  <1>3. ASSUME BillMiss(w) PROVE LinesParts'
    <2>1. /\ bill'[w].orderId = bill[w].orderId /\ bill'[w].grandTotal = bill[w].grandTotal
          /\ bill[w].phase = "check"
          /\ \A v \in Workers \ {w} : bill'[v] = bill[v]
          /\ UNCHANGED storeVars
      BY <1>0, <1>3 DEF BillMiss, BillJob
    <2>2. BillSound(w)'
      BY <2>1 DEF LinesParts, BillSound, Billed, storeVars
    <2> QED
      BY <1>1, <2>1, <2>2 DEF storeVars
  <1>4. ASSUME NEW i \in Invoices, BillCommit(w, i) PROVE LinesParts'
    <2> DEFINE o == bill[w].orderId
    <2>1. /\ o \in placed /\ Billed(o, bill[w].grandTotal)
          /\ issued' = issued \cup {i} /\ i \notin issued
          /\ invoice'[i].orderId = o /\ invoice'[i].grandTotal = bill[w].grandTotal
          /\ \A j \in issued : invoice'[j] = invoice[j]
      BY <1>0, <1>4 DEF BillCommit, NewInvoice, LinesParts, BillSound, HouseInv, MoneyInv,
                        MoneyTypeOK, BillingTypeOK
    <2>2. /\ \A v \in Workers \ {w} : bill'[v] = bill[v]
          /\ bill'[w].phase \notin {"check", "tx"}
      BY <1>0, <1>4 DEF BillCommit, BillIdle, BillJob
    <2>3. SameLines
      BY <1>0, <1>4 DEF BillCommit, WithStatus, SameLines
    <2>4. LineRows' /\ Shrinks
      BY <2>3, SameRows DEF LinesParts
    <2>5. LineBills'
      <3> SUFFICES ASSUME NEW j \in issued'
                   PROVE  Billed(invoice[j].orderId, invoice[j].grandTotal)'
        BY DEF LineBills
      <3>1. CASE j = i
        BY <2>1, <2>4, <3>1, BilledStays DEF Billed
      <3>2. CASE j # i
        <4>1. j \in issued /\ invoice[j].orderId \in placed
              /\ Billed(invoice[j].orderId, invoice[j].grandTotal)
          BY <2>1, <3>2 DEF HouseInv, MoneyInv, IssuedHasOrder, LinesParts, LineBills
        <4>2. PICK p, total : p = invoice[j].orderId /\ total = invoice[j].grandTotal
          OBVIOUS
        <4>3. Billed(p, total)'
          BY <2>4, <4>1, <4>2, BilledStays
        <4>4. invoice'[j].orderId = p /\ invoice'[j].grandTotal = total
          BY <2>1, <4>1, <4>2
        <4> QED
          BY <4>3, <4>4 DEF Billed
      <3> QED
        BY <3>1, <3>2
    <2>6. ASSUME NEW v \in Workers PROVE BillSound(v)' /\ CancelSound(v)'
      BY <2>2, <2>4, BillJobStays, CancelJobStays DEF LinesParts
    <2> QED
      BY <2>4, <2>5, <2>6 DEF LinesParts
  <1>5. ASSUME BillReplay(w) \/ BillNotify(w) \/ BillAbort(w) PROVE LinesParts'
    <2>1. /\ UNCHANGED <<placed, order, active, issued, invoice>>
          /\ \A v \in Workers \ {w} : bill'[v] = bill[v]
          /\ bill'[w].phase \notin {"check", "tx"}
      BY <1>0, <1>5 DEF BillReplay, BillNotify, BillAbort, BillIdle, storeVars
    <2> QED
      BY <1>1, <2>1
  <1> QED
    BY <1>2, <1>3, <1>4, <1>5 DEF BillingNext

LEMMA PaymentsCharge ==
  ASSUME HouseInv, LinesParts, NEW w \in Workers, PaymentsNext(w), UNCHANGED <<lines, ord, bill>>
  PROVE  LinesParts'
  <1>0. /\ placed \subseteq Orders /\ order \in [Orders -> OrderRow] /\ issued \subseteq Invoices
        /\ invoice \in [Invoices -> InvoiceRow] /\ UNCHANGED <<placed, active>>
    BY PaymentsFrame DEF HouseInv, MoneyInv, MoneyTypeOK, StoreTypeOK
  <1>1. ASSUME NEW p, NEW t, CloseOrder(p, t) PROVE SameLines
    BY <1>0, <1>1 DEF CloseOrder, WithStatus, SameLines
  <1>2. CASE UNCHANGED <<order, issued, invoice>>
    <2>1. SameLines
      BY <1>0, <1>2 DEF SameLines
    <2> QED
      BY <1>2, <2>1, LinesStay
  <1>3. ASSUME pay[w].phase \in Collecting, SameLines, issued' = issued, NEW row,
               row.orderId = pay[w].seen.orderId, row.grandTotal = pay[w].seen.grandTotal,
               SetInvoice(pay[w].invoiceId, row)
        PROVE  LinesParts'
    <2>1. /\ pay[w].seen.orderId = invoice[pay[w].invoiceId].orderId
          /\ pay[w].seen.grandTotal = invoice[pay[w].invoiceId].grandTotal
      BY <1>3 DEF HouseInv, MoneyInv, SnapshotSound
    <2>2. \A i \in issued : /\ invoice'[i].orderId = invoice[i].orderId
                            /\ invoice'[i].grandTotal = invoice[i].grandTotal
      BY <1>0, <1>3, <2>1 DEF SetInvoice
    <2> QED
      BY <1>3, <2>2, LinesStay
  <1>4. ASSUME NEW p \in PaymentIds, PayCommit(w, p) PROVE LinesParts'
    <2> DEFINE row == Credited(pay[w].seen, pay[w].amount)
    <2>1. row.orderId = pay[w].seen.orderId /\ row.grandTotal = pay[w].seen.grandTotal
      BY DEF Credited
    <2>2. pay[w].phase \in Collecting /\ issued' = issued /\ SetInvoice(pay[w].invoiceId, row)
      BY <1>4 DEF PayCommit, Collecting
    <2>3. SameLines
      <3>1. CASE UNCHANGED order
        BY <1>0, <3>1 DEF SameLines
      <3> QED
        BY <1>1, <1>4, <3>1 DEF PayCommit
    <2> HIDE DEF row
    <2> QED
      BY <1>3, <2>1, <2>2, <2>3
  <1>5. ASSUME NEW tenders \in Tenders, SplitCommit(w, tenders) PROVE LinesParts'
    <2> DEFINE row == SettledInFull(pay[w].seen)
    <2>1. row.orderId = pay[w].seen.orderId /\ row.grandTotal = pay[w].seen.grandTotal
      BY DEF SettledInFull
    <2>2. pay[w].phase \in Collecting /\ issued' = issued /\ SetInvoice(pay[w].invoiceId, row)
          /\ SameLines
      BY <1>1, <1>5 DEF SplitCommit, Collecting
    <2> HIDE DEF row
    <2> QED
      BY <1>3, <2>1, <2>2
  <1> QED
    BY <1>2, <1>4, <1>5
    DEF PaymentsNext, PayRead, PayReplay, PayMiss, PayNotify, SplitRead, RefundRead, RefundCommit,
        PayAbort, storeVars

LEMMA HouseCharges == HouseInv /\ LinesSound /\ [Next]_vars => LinesSound'
  <1> SUFFICES ASSUME HouseInv, LinesParts, [Next]_vars PROVE LinesParts'
    BY LinesSoundParts DEF LinesParts, LineRows, LineBills, BillSound, LinesSound, LinesAreCharged
  <1>1. ASSUME KitchenStep \/ Restart \/ UNCHANGED vars PROVE LinesParts'
    <2>1. UNCHANGED <<placed, order, active, lines, issued, invoice>>
      BY <1>1, KitchenKeeps DEF KitchenStep, Restart, vars, storeVars, orderRows, HouseInv
    <2>2. SameLines
      BY <2>1 DEF SameLines
    <2>3. \A w \in Workers : /\ bill'[w] = bill[w] \/ bill'[w] = BillIdle
                             /\ ord'[w] = ord[w] \/ ord'[w] = OrdIdle
      BY <1>1 DEF KitchenStep, Restart, vars, requests
    <2> QED
      BY <2>1, <2>2, <2>3, LinesStay DEF BillIdle, OrdIdle
  <1> QED
    BY <1>1, OrdersCharge, TablesCharge, BillingCharges, PaymentsCharge
    DEF Next, OrdersStep, TablesStep, BillingStep, PaymentsStep, orderRows

\* With any number of requests at a time, orders and invoices charge every line the guests
\* keep and none they have not ordered.
THEOREM KeptLinesAreCharged == Spec => []LinesAreCharged
  <1>1. Init => LinesSound
    BY DEF Init, LinesSound, LinesAreCharged, BillingInit, OrdersInit, BillIdle, OrdIdle,
           CancelSound
  <1>2. LinesSound => LinesAreCharged
    BY DEF LinesSound
  <1> QED
    BY <1>1, <1>2, HouseCharges, HouseInvariance, PTL DEF Spec

-----------------------------------------------------------------------------
\* Versions.

\* What a client that keeps a version is promised of one order in one step.
Tells(o) ==
  /\ order'[o].version >= order[o].version
  /\ order'[o].version = order[o].version =>
       /\ order'[o].status = order[o].status
       /\ order'[o].grandTotal = order[o].grandTotal
       /\ active'[o] = active[o]

\* One order gets a row with a higher version, or the same row at another table.
LEMMA RowTells ==
  ASSUME StoreTypeOK, NEW o \in Orders, NEW row, order' = [order EXCEPT ![o] = row],
         \A p \in Orders \ {o} : active'[p] = active[p],
         \/ row.version = order[o].version + 1
         \/ UNCHANGED active /\ row.version = order[o].version /\ row.status = order[o].status
            /\ row.grandTotal = order[o].grandTotal
  PROVE  \A p \in Orders : Tells(p)
  <1> SUFFICES ASSUME NEW p \in Orders PROVE Tells(p)
    OBVIOUS
  <1>1. order[p] \in OrderRow /\ order[p].version \in Nat
    BY DEF StoreTypeOK, OrderRow
  <1>2. CASE p = o
    BY <1>1, <1>2 DEF StoreTypeOK, Tells
  <1>3. CASE p # o
    BY <1>1, <1>3 DEF StoreTypeOK, Tells
  <1> QED
    BY <1>2, <1>3

LEMMA SameTells ==
  ASSUME StoreTypeOK, UNCHANGED <<order, active>>
  PROVE  \A p \in Orders : Tells(p)
  BY DEF StoreTypeOK, OrderRow, Tells

LEMMA HouseTells == HouseInv /\ [Next]_vars => \A o \in placed : Tells(o)
  <1> SUFFICES ASSUME HouseInv, [Next]_vars PROVE \A o \in placed : Tells(o)
    OBVIOUS
  <1>0. StoreTypeOK /\ placed \subseteq Orders
    BY DEF HouseInv, MoneyInv, MoneyTypeOK, StoreTypeOK
  <1>1. ASSUME NEW w \in Workers, OrdersNext(w) PROVE \A o \in placed : Tells(o)
    <2>1. ASSUME NEW o \in Orders, CreateCommit(w, o) PROVE \A p \in placed : Tells(p)
      <3>1. \A p \in placed : p # o /\ order'[p] = order[p] /\ active'[p] = active[p]
        BY <1>0, <2>1 DEF CreateCommit, StoreTypeOK
      <3> QED
        BY <1>0, <3>1 DEF Tells, StoreTypeOK, OrderRow
    <2>2. ASSUME StatusCommit(w) PROVE \A p \in placed : Tells(p)
      <3> DEFINE o   == ord[w].orderId
                 row == WithStatus(order[o], ord[w].to)
      <3>1. o \in Orders /\ order' = [order EXCEPT ![o] = row] /\ UNCHANGED active
            /\ row.version = order[o].version + 1
        BY <1>0, <2>2 DEF StatusCommit, WithStatus, HouseInv, OrdJobsSound
      <3> HIDE DEF row
      <3> QED
        BY <1>0, <3>1, RowTells
    <2>3. ASSUME CancelCommit(w) PROVE \A p \in placed : Tells(p)
      <3> DEFINE o   == ord[w].orderId
                 row == Recalculated(order[o], ord[w].kept)
      <3>1. /\ o \in Orders /\ order' = [order EXCEPT ![o] = row]
            /\ \A p \in Orders \ {o} : active'[p] = active[p]
            /\ row.version = order[o].version + 1
        BY <1>0, <2>3 DEF CancelCommit, Recalculated, HouseInv, OrdJobsSound, StoreTypeOK
      <3> HIDE DEF row
      <3> QED
        BY <1>0, <3>1, RowTells
    <2> QED
      BY <1>0, <1>1, <2>1, <2>2, <2>3, SameTells
      DEF OrdersNext, CreateLookup, CreateReplay, StatusRead, CancelRead, CancelSum, TableNotify,
          OrderAbort, storeVars
  <1>2. ASSUME NEW w \in Workers, TableServiceNext(w) PROVE \A o \in placed : Tells(o)
    <2>1. ASSUME TransferCommit(w) PROVE \A p \in placed : Tells(p)
      <3> DEFINE o   == move[w].orderId
                 row == [order[o] EXCEPT !.tableId = move[w].to]
      <3>1. o \in Orders /\ order' = [order EXCEPT ![o] = row] /\ UNCHANGED active
        BY <1>0, <2>1 DEF TransferCommit, HouseInv, MoveJobsSound
      <3>2. row.version = order[o].version /\ row.status = order[o].status
            /\ row.grandTotal = order[o].grandTotal
        BY <1>0, <3>1 DEF StoreTypeOK, OrderRow
      <3> HIDE DEF row
      <3> QED
        BY <1>0, <3>1, <3>2, RowTells
    <2> QED
      BY <1>0, <1>2, <2>1, SameTells
      DEF TableServiceNext, SetStatus, SetNotify, TransferRead, TransferFind, TransferNotify,
          TransferAbort, storeVars
  <1>3. ASSUME NEW w \in Workers, BillingNext(w) PROVE \A o \in placed : Tells(o)
    <2>1. ASSUME NEW i \in Invoices, BillCommit(w, i) PROVE \A p \in placed : Tells(p)
      <3> DEFINE o   == bill[w].orderId
                 row == WithStatus(order[o], "BILLED")
      <3>1. o \in Orders /\ order' = [order EXCEPT ![o] = row] /\ UNCHANGED active
            /\ row.version = order[o].version + 1
        BY <1>0, <2>1 DEF BillCommit, WithStatus, HouseInv, MoneyInv, MoneyTypeOK, BillingTypeOK
      <3> HIDE DEF row
      <3> QED
        BY <1>0, <3>1, RowTells
    <2> QED
      BY <1>0, <1>3, <2>1, SameTells
      DEF BillingNext, BillRead, BillReplay, BillMiss, BillNotify, BillAbort, storeVars
  <1>4. ASSUME NEW w \in Workers, PaymentsNext(w) PROVE \A o \in placed : Tells(o)
    <2>1. ASSUME NEW t, pay[w].phase \in Collecting, CloseOrder(pay[w].seen.orderId, t),
                 UNCHANGED active
          PROVE  \A p \in placed : Tells(p)
      <3> DEFINE o   == pay[w].seen.orderId
                 row == WithStatus(order[o], "PAID")
      <3>1. o \in Orders /\ order' = [order EXCEPT ![o] = row]
            /\ row.version = order[o].version + 1
        BY <2>1 DEF CloseOrder, WithStatus, HouseInv, MoneyInv, MoneyTypeOK, PaymentsTypeOK
      <3> HIDE DEF row
      <3> QED
        BY <1>0, <2>1, <3>1, RowTells
    <2>2. ASSUME NEW p \in PaymentIds, PayCommit(w, p) PROVE \A q \in placed : Tells(q)
      BY <1>0, <2>1, <2>2, SameTells DEF PayCommit, Collecting
    <2>3. ASSUME NEW tenders \in Tenders, SplitCommit(w, tenders)
          PROVE  \A q \in placed : Tells(q)
      BY <2>1, <2>3 DEF SplitCommit, Collecting
    <2> QED
      BY <1>0, <1>4, <2>2, <2>3, SameTells
      DEF PaymentsNext, PayRead, PayReplay, PayMiss, PayNotify, SplitRead, RefundRead,
          RefundCommit, PayAbort, storeVars
  <1>5. ASSUME KitchenStep \/ Restart \/ UNCHANGED vars PROVE \A o \in placed : Tells(o)
    BY <1>0, <1>5, SameTells, KitchenKeeps DEF KitchenStep, Restart, vars, storeVars, HouseInv
  <1> QED
    BY <1>1, <1>2, <1>3, <1>4, <1>5 DEF Next, OrdersStep, TablesStep, BillingStep, PaymentsStep

\* A client that finds the version it knows has missed no change of status, total or lines.
THEOREM VersionsTell == Spec => VersionTellsChanges
  <1>1. HouseInv /\ [Next]_vars =>
          [\A o \in placed :
             /\ order'[o].version >= order[o].version
             /\ order'[o].version = order[o].version =>
                  /\ order'[o].status = order[o].status
                  /\ order'[o].grandTotal = order[o].grandTotal
                  /\ active'[o] = active[o]]_vars
    BY HouseTells DEF Tells
  <1> QED
    BY <1>1, HouseInvariance, PTL DEF Spec, VersionTellsChanges

-----------------------------------------------------------------------------
\* One request at a time: what a handler has read is still so.

\* A step that leaves all handlers idle that could hold an order.
LEMMA NothingInHand ==
  ASSUME OneAtATime, NEW w \in Workers,
         ord'[w].phase # "status", move'[w].phase # "tx",
         bill'[w].phase \notin {"check", "tx"}
  PROVE  HandsFresh'
  BY DEF OneAtATime, HandsFresh

LEMMA OrdersStepFresh ==
  ASSUME OneAtATime, HouseInv, NEW w \in Workers, OrdersStep(w)
  PROVE  HandsFresh'
  <1> USE OrdIdleType
  <1>0. ord \in [Workers -> OrdJob]
    BY DEF HouseInv, OrdersTypeOK
  <1>1. /\ move'[w].phase = "idle" /\ bill'[w].phase = "idle" /\ OrdersNext(w)
        /\ \A v \in Workers : v = w
    BY DEF OrdersStep, MoveIdle, BillIdle, OneAtATime
  <1>2. ASSUME NEW o \in Orders, NEW to \in StatusTargets, StatusRead(w, o, to)
        PROVE  HandsFresh'
    <2>1. ord'[w].phase = "status" /\ ord'[w].orderId = o /\ ord'[w].version = order[o].version
      BY <1>0, <1>2 DEF StatusRead, OrdIdle
    <2> QED
      BY <1>1, <1>2, <2>1 DEF StatusRead, HandsFresh, storeVars
  <1>3. ASSUME NEW t, NEW s, ThenTell(w, t, s) PROVE ord'[w].phase # "status"
    BY <1>0, <1>3 DEF ThenTell, OrdIdle
  <1>4. ASSUME NEW type \in OrderTypes, NEW t \in Tables \cup {None}, NEW L \in SUBSET Lines,
               NEW s \in SyncIds \cup {None}, CreateLookup(w, type, t, L, s)
        PROVE  ord'[w].phase # "status"
    BY <1>0, <1>4 DEF CreateLookup, OrdIdle
  <1>5. ASSUME NEW o \in Orders, NEW l \in Lines, CancelRead(w, o, l)
        PROVE  ord'[w].phase # "status"
    BY <1>0, <1>5 DEF CancelRead, OrdIdle
  <1>6. ASSUME CancelSum(w) PROVE ord'[w].phase # "status"
    BY <1>0, <1>6 DEF CancelSum, OrdJob
  <1>7. ASSUME CancelCommit(w) \/ TableNotify(w) \/ OrderAbort(w) PROVE ord'[w].phase # "status"
    BY <1>0, <1>7 DEF CancelCommit, TableNotify, OrderAbort
  <1>8. CASE ord'[w].phase # "status"
    BY <1>1, <1>8, NothingInHand
  <1> QED
    BY <1>1, <1>2, <1>3, <1>4, <1>5, <1>6, <1>7, <1>8
    DEF OrdersNext, CreateCommit, CreateReplay, StatusCommit

LEMMA TablesStepFresh ==
  ASSUME OneAtATime, HouseInv, NEW w \in Workers, TablesStep(w)
  PROVE  HandsFresh'
  <1>0. move \in [Workers -> MoveJob]
    BY DEF HouseInv, TableServiceTypeOK
  <1>1. /\ ord'[w].phase = "idle" /\ bill'[w].phase = "idle" /\ TableServiceNext(w)
        /\ \A v \in Workers : v = w
    BY DEF TablesStep, OrdIdle, BillIdle, OneAtATime
  <1>2. ASSUME move'[w].phase # "tx" PROVE HandsFresh'
    BY <1>1, <1>2, NothingInHand
  <1>3. ASSUME NEW o \in Orders, TransferFind(w, o) PROVE HandsFresh'
    <2>1. move'[w].orderId = o /\ move'[w].from = move[w].from /\ o \in ActiveOn(move[w].from)
      BY <1>0, <1>3 DEF TransferFind, MoveJob
    <2>2. move'[w].orderId \in ActiveOn(move[w].from)'
      BY <1>3, <2>1 DEF TransferFind, ActiveOn, storeVars
    <2> QED
      BY <1>1, <2>2 DEF HandsFresh
  <1>4. ASSUME \/ \E t \in Tables, s \in TableTargets : SetStatus(w, t, s)
               \/ SetNotify(w) \/ TransferCommit(w) \/ TransferNotify(w) \/ TransferAbort(w)
               \/ \E from, to \in Tables : TransferRead(w, from, to)
        PROVE  move'[w].phase # "tx"
    <2>1. ASSUME SetNotify(w) \/ TransferNotify(w) \/ TransferAbort(w)
          PROVE  move'[w].phase # "tx"
      BY <1>0, <2>1 DEF SetNotify, TransferNotify, TransferAbort, MoveIdle
    <2>2. ASSUME NEW t \in Tables, NEW s \in TableTargets, SetStatus(w, t, s)
          PROVE  move'[w].phase # "tx"
      BY <1>0, <2>2 DEF SetStatus, MoveIdle
    <2>3. ASSUME NEW from \in Tables, NEW to \in Tables, TransferRead(w, from, to)
          PROVE  move'[w].phase # "tx"
      BY <1>0, <2>3 DEF TransferRead, MoveIdle
    <2>4. ASSUME TransferCommit(w) PROVE move'[w].phase # "tx"
      BY <1>0, <2>4 DEF TransferCommit, MoveJob
    <2> QED
      BY <1>4, <2>1, <2>2, <2>3, <2>4
  <1> QED
    BY <1>1, <1>2, <1>3, <1>4 DEF TableServiceNext

LEMMA BillingStepFresh ==
  ASSUME OneAtATime, HouseInv, HandsFresh, NEW w \in Workers, BillingStep(w)
  PROVE  HandsFresh'
  <1>0. bill \in [Workers -> BillJob]
    BY DEF HouseInv, MoneyInv, MoneyTypeOK, BillingTypeOK
  <1>1. /\ ord'[w].phase = "idle" /\ move'[w].phase = "idle" /\ BillingNext(w)
        /\ \A v \in Workers : v = w
    BY DEF BillingStep, OrdIdle, MoveIdle, OneAtATime
  <1>2. ASSUME bill'[w].phase \notin {"check", "tx"} PROVE HandsFresh'
    BY <1>1, <1>2, NothingInHand
  <1>3. ASSUME NEW o \in Orders, BillRead(w, o) PROVE HandsFresh'
    <2>1. bill'[w].orderId = o /\ bill'[w].tableId = order[o].tableId
      BY <1>0, <1>3 DEF BillRead
    <2> QED
      BY <1>1, <1>3, <2>1 DEF BillRead, HandsFresh, storeVars
  <1>4. ASSUME BillMiss(w) PROVE HandsFresh'
    <2>1. bill'[w].orderId = bill[w].orderId /\ bill'[w].tableId = bill[w].tableId
          /\ bill[w].phase = "check"
      BY <1>0, <1>4 DEF BillMiss, BillJob
    <2> QED
      BY <1>1, <1>4, <2>1 DEF BillMiss, HandsFresh, storeVars
  <1>5. ASSUME NEW i \in Invoices, BillCommit(w, i) PROVE bill'[w].phase \notin {"check", "tx"}
    BY <1>0, <1>5 DEF BillCommit, BillIdle, BillJob
  <1>6. ASSUME BillReplay(w) \/ BillNotify(w) \/ BillAbort(w)
        PROVE  bill'[w].phase \notin {"check", "tx"}
    BY <1>0, <1>6 DEF BillReplay, BillNotify, BillAbort, BillIdle
  <1> QED
    BY <1>1, <1>2, <1>3, <1>4, <1>5, <1>6 DEF BillingNext

LEMMA PaymentsStepFresh ==
  ASSUME OneAtATime, NEW w \in Workers, PaymentsStep(w)
  PROVE  HandsFresh'
  BY NothingInHand DEF PaymentsStep, OrdIdle, MoveIdle, BillIdle

LEMMA SerialHouseInit == Init => SerialHouseInv
  <1> SUFFICES ASSUME Init PROVE SerialHouseInv
    OBVIOUS
  <1>1. SerialMoneyInv
    BY SerialInitially DEF Init
  <1>2. HandsFresh
    BY DEF Init, OrdersInit, TableServiceInit, BillingInit, OrdIdle, MoveIdle, BillIdle, HandsFresh
  <1> QED
    BY <1>1, <1>2, HouseInit DEF SerialHouseInv

LEMMA SerialHouseNext == OneAtATime /\ SerialHouseInv /\ [Next]_vars => SerialHouseInv'
  <1> SUFFICES ASSUME OneAtATime, SerialHouseInv, [Next]_vars PROVE SerialHouseInv'
    OBVIOUS
  <1>0. HouseInv' /\ HouseInv /\ MoneyInv /\ SerialMoneyInv /\ HandsFresh
    BY HouseNext DEF SerialHouseInv, HouseInv
  <1>1. ASSUME UNCHANGED <<issued, invoice, paymentRows>>,
               UNCHANGED bill \/ bill' = [w \in Workers |-> BillIdle],
               UNCHANGED pay \/ pay' = [w \in Workers |-> PayIdle]
        PROVE  SerialMoneyInv'
    BY <1>0, <1>1, OthersKeepSerial DEF paymentRows
  <1>2. ASSUME NEW w \in Workers, OrdersStep(w) PROVE SerialHouseInv'
    <2>1. SerialMoneyInv'
      BY <1>0, <1>1, <1>2, OrdersKeep DEF OrdersStep, OrdersKept
    <2> QED
      BY <1>0, <1>2, <2>1, OrdersStepFresh DEF SerialHouseInv
  <1>3. ASSUME NEW w \in Workers, TablesStep(w) PROVE SerialHouseInv'
    <2>1. SerialMoneyInv'
      BY <1>0, <1>1, <1>3, TablesKeep DEF TablesStep, TablesKept
    <2> QED
      BY <1>0, <1>3, <2>1, TablesStepFresh DEF SerialHouseInv
  <1>4. ASSUME NEW w \in Workers, BillingStep(w) PROVE SerialHouseInv'
    <2>1. SerialMoneyInv'
      BY <1>0, <1>4, SerialBilling DEF BillingStep, paymentRows, paymentsVars
    <2> QED
      BY <1>0, <1>4, <2>1, BillingStepFresh DEF SerialHouseInv
  <1>5. ASSUME NEW w \in Workers, PaymentsStep(w) PROVE SerialHouseInv'
    <2>1. SerialMoneyInv'
      BY <1>0, <1>5, SerialPayments DEF PaymentsStep
    <2> QED
      BY <1>0, <1>5, <2>1, PaymentsStepFresh DEF SerialHouseInv
  <1>6. ASSUME KitchenStep \/ UNCHANGED vars PROVE SerialHouseInv'
    <2>1. UNCHANGED <<storeVars, lines, paymentRows, requests>>
      BY <1>0, <1>6, KitchenKeeps DEF KitchenStep, vars, orderRows, HouseInv
    <2>2. SerialMoneyInv'
      BY <1>1, <2>1 DEF storeVars, requests
    <2>3. HandsFresh'
      BY <1>0, <2>1 DEF HandsFresh, ActiveOn, storeVars, requests
    <2> QED
      BY <1>0, <2>2, <2>3 DEF SerialHouseInv
  <1>7. ASSUME Restart PROVE SerialHouseInv'
    <2>1. SerialMoneyInv'
      BY <1>1, <1>7 DEF Restart, storeVars
    <2>2. HandsFresh'
      BY <1>7 DEF Restart, HandsFresh, OrdIdle, MoveIdle, BillIdle
    <2> QED
      BY <1>0, <2>1, <2>2 DEF SerialHouseInv
  <1> QED
    BY <1>2, <1>3, <1>4, <1>5, <1>6, <1>7 DEF Next

\* With one request at a time, what a handler has read is still so when it commits.
THEOREM SerialHouse ==
  ASSUME OneAtATime
  PROVE  Spec => []SerialHouseInv
  <1>1. SerialHouseInv /\ [Next]_vars => SerialHouseInv'
    BY SerialHouseNext
  <1> QED
    BY <1>1, SerialHouseInit, PTL DEF Spec

\* With one request at a time, a status is only written over the version the client named.
THEOREM SerialTransitions ==
  ASSUME OneAtATime
  PROVE  Spec => NoLostTransition
  <1>1. SerialHouseInv =>
          [\A w \in Workers : \A o \in placed :
             StatusCommit(w) /\ ord[w].orderId = o => order[o].version = ord[w].version]_vars
    BY DEF SerialHouseInv, HandsFresh, StatusCommit
  <1> QED
    BY <1>1, SerialHouse, PTL DEF NoLostTransition

\* With one request at a time, the payments of a paid invoice add up to its total, an order
\* has one invoice, and no payment is refunded beyond its amount.
THEOREM SerialHouseMoney ==
  ASSUME OneAtATime
  PROVE  Spec => [](PaidExactly /\ OneInvoicePerOrder /\ RefundWithinPayment)
  <1>1. SerialHouseInv => PaidExactly /\ OneInvoicePerOrder /\ RefundWithinPayment
    BY PaidExactlyByInv DEF SerialHouseInv, HouseInv, SerialMoneyInv
  <1> QED
    BY <1>1, SerialHouse, PTL

\* With one request at a time, the front of house implements the exact ledger.
THEOREM SerialHouseLedger ==
  ASSUME OneAtATime
  PROVE  Spec => ImplementsExactLedger
  <1>1. Init => Ledger!Init
    BY HouseInit
  <1>2. SerialHouseInv /\ SerialHouseInv' /\ [Next]_vars => [Ledger!ExactStep]_(Ledger!ledger)
    <2> SUFFICES ASSUME SerialHouseInv, SerialHouseInv', [Next]_vars
                 PROVE  Ledger!ExactStep \/ UNCHANGED Ledger!ledger
      OBVIOUS
    <2>1. Ledger!BackedStep \/ UNCHANGED Ledger!ledger
      BY HouseTenders DEF SerialHouseInv
    <2>2. MoneyInv /\ MoneyInv' /\ CreditIsExact /\ CreditIsExact'
      BY DEF SerialHouseInv, HouseInv, SerialMoneyInv
    <2> QED
      BY <2>1, <2>2, ExactTender
  <1> QED
    BY <1>1, <1>2, SerialHouse, PTL DEF Spec, ImplementsExactLedger, Ledger!ExactSpec

-----------------------------------------------------------------------------
\* Who leaves a table taken by nobody.

\* One of the three causes of a ghost.
Stale(w) ==
  \/ \E t \in Tables, s \in TableTargets : SetStatus(w, t, s)
  \/ TransferCommit(w) /\ move[w].orderId \notin ActiveOn(move[w].from)
  \/ /\ \E i \in Invoices : BillCommit(w, i)
     /\ order[bill[w].orderId].tableId # bill[w].tableId

NoNewGhost == \A t \in Tables : Ghost(t)' => Ghost(t)

\* A step that takes no table but for an open order that is on it, and closes or moves an
\* order only away from a table it frees.
LEMMA GuestsSeated ==
  ASSUME placed \subseteq placed',
         \A t \in Tables : table'[t] \in {"OCCUPIED", "BILL_REQUESTED"} =>
           \/ ActiveOn(t)' # {}
           \/ /\ table[t] \in {"OCCUPIED", "BILL_REQUESTED"}
              /\ \A o \in placed : o \in ActiveOn(t) => o \in ActiveOn(t)'
  PROVE  NoNewGhost
  <1> SUFFICES ASSUME NEW t \in Tables, Ghost(t)' PROVE Ghost(t)
    BY DEF NoNewGhost
  <1>1. /\ table[t] \in {"OCCUPIED", "BILL_REQUESTED"}
        /\ \A o \in placed : o \in ActiveOn(t) => o \in ActiveOn(t)'
    BY DEF Ghost
  <1>2. ActiveOn(t)' = {} /\ ActiveOn(t) \subseteq placed
    BY DEF Ghost, ActiveOn
  <1> QED
    BY <1>1, <1>2 DEF Ghost

LEMMA SameGuests ==
  ASSUME UNCHANGED <<placed, order, table>>
  PROVE  NoNewGhost
  BY DEF NoNewGhost, Ghost, ActiveOn

LEMMA OrdersSeat ==
  ASSUME HouseInv, NEW w \in Workers, OrdersNext(w)
  PROVE  NoNewGhost
  <1>0. /\ placed \subseteq Orders /\ order \in [Orders -> OrderRow]
        /\ table \in [Tables -> TableStatus]
    BY DEF HouseInv, MoneyInv, MoneyTypeOK, StoreTypeOK
  <1>1. ASSUME NEW o \in Orders, CreateCommit(w, o) PROVE NoNewGhost
    <2> DEFINE at == ord[w].tableId
    <2>1. /\ placed' = placed \cup {o} /\ o \notin placed
          /\ order'[o].status = "CONFIRMED" /\ order'[o].tableId = at
          /\ \A p \in placed : order'[p] = order[p]
      BY <1>0, <1>1 DEF CreateCommit, NewOrder
    <2>2. \A t \in Tables : t # at => table'[t] = table[t]
      BY <1>0, <1>1 DEF CreateCommit, SetTable
    <2>3. \A t \in Tables : t = at => o \in ActiveOn(t)'
      BY <2>1 DEF ActiveOn, Closed
    <2>4. \A t \in Tables : \A p \in placed : p \in ActiveOn(t) => p \in ActiveOn(t)'
      BY <2>1 DEF ActiveOn
    <2> QED
      BY <2>1, <2>2, <2>3, <2>4, GuestsSeated
  <1>2. ASSUME StatusCommit(w) PROVE NoNewGhost
    <2> DEFINE o  == ord[w].orderId
               to == ord[w].to
               at == order[o].tableId
    <2>1. /\ o \in placed /\ UNCHANGED placed
          /\ order'[o].status = to /\ order'[o].tableId = at
          /\ \A p \in placed \ {o} : order'[p] = order[p]
      BY <1>0, <1>2 DEF StatusCommit, WithStatus, HouseInv, OrdJobsSound
    <2>2. \A t \in Tables : t # at => table'[t] = table[t]
      BY <1>0, <1>2 DEF StatusCommit, SetTable
    <2>3. \A t \in Tables : t # at =>
            \A p \in placed : p \in ActiveOn(t) => p \in ActiveOn(t)'
      BY <2>1 DEF ActiveOn
    <2>4. CASE to \in Closed
      <3>1. at \in Tables => table'[at] = "AVAILABLE"
        BY <1>0, <1>2, <2>4, NoneAssumption DEF StatusCommit, SetTable, TableAfter, Closed
      <3> QED
        BY <2>1, <2>2, <2>3, <3>1, GuestsSeated
    <2>5. CASE to \notin Closed
      <3>1. \A t \in Tables : t = at => o \in ActiveOn(t)'
        BY <2>1, <2>5 DEF ActiveOn
      <3> QED
        BY <2>1, <2>2, <2>3, <3>1, GuestsSeated
    <2> QED
      BY <2>4, <2>5
  <1>3. ASSUME CancelCommit(w) PROVE NoNewGhost
    <2>1. /\ UNCHANGED <<placed, table>>
          /\ \A p \in placed : order'[p].status = order[p].status
                               /\ order'[p].tableId = order[p].tableId
      BY <1>0, <1>3 DEF CancelCommit, Recalculated
    <2>2. \A t \in Tables : \A p \in placed : p \in ActiveOn(t) => p \in ActiveOn(t)'
      BY <2>1 DEF ActiveOn
    <2> QED
      BY <2>1, <2>2, GuestsSeated
  <1>4. CASE UNCHANGED <<placed, order, table>>
    BY <1>4, SameGuests
  <1> QED
    BY <1>1, <1>2, <1>3, <1>4
    DEF OrdersNext, CreateLookup, CreateReplay, StatusRead, CancelRead, CancelSum, TableNotify,
        OrderAbort, storeVars

LEMMA TablesSeat ==
  ASSUME HouseInv, NEW w \in Workers, TableServiceNext(w), ~ Stale(w)
  PROVE  NoNewGhost
  <1>0. /\ placed \subseteq Orders /\ order \in [Orders -> OrderRow]
        /\ table \in [Tables -> TableStatus]
    BY DEF HouseInv, MoneyInv, MoneyTypeOK, StoreTypeOK
  <1>1. ASSUME NEW t \in Tables, NEW s \in TableTargets, SetStatus(w, t, s) PROVE FALSE
    BY <1>1 DEF Stale
  <1>2. ASSUME TransferCommit(w) PROVE NoNewGhost
    <2> DEFINE o    == move[w].orderId
               from == move[w].from
               to   == move[w].to
    <2>1. /\ from \in Tables /\ to \in Tables /\ o \in placed
          /\ order[o].tableId = from /\ order[o].status \notin Closed
      BY <1>2 DEF TransferCommit, HouseInv, MoveJobsSound, Stale, ActiveOn
    <2>2. /\ UNCHANGED placed
          /\ order'[o].tableId = to /\ order'[o].status = order[o].status
          /\ \A p \in placed \ {o} : order'[p] = order[p]
      BY <1>0, <1>2, <2>1 DEF TransferCommit, OrderRow
    <2>3. /\ to # from => table'[from] = "AVAILABLE"
          /\ \A t \in Tables \ {from, to} : table'[t] = table[t]
      BY <1>0, <1>2, <2>1 DEF TransferCommit
    <2>4. \A t \in Tables : t = to => o \in ActiveOn(t)'
      BY <2>1, <2>2 DEF ActiveOn
    <2>5. \A t \in Tables \ {from, to} : \A p \in placed : p \in ActiveOn(t) => p \in ActiveOn(t)'
      BY <2>1, <2>2 DEF ActiveOn
    <2>6. "AVAILABLE" \notin {"OCCUPIED", "BILL_REQUESTED"}
      OBVIOUS
    <2>7. ASSUME NEW t \in Tables, table'[t] \in {"OCCUPIED", "BILL_REQUESTED"}
          PROVE  \/ ActiveOn(t)' # {}
                 \/ /\ table[t] \in {"OCCUPIED", "BILL_REQUESTED"}
                    /\ \A p \in placed : p \in ActiveOn(t) => p \in ActiveOn(t)'
      <3>1. CASE t = to
        BY <2>4, <3>1
      <3>2. CASE t # to
        BY <2>3, <2>5, <2>6, <2>7, <3>2
      <3> QED
        BY <3>1, <3>2
    <2> QED
      BY <2>2, <2>7, GuestsSeated
  <1>3. CASE UNCHANGED <<placed, order, table>>
    BY <1>3, SameGuests
  <1> QED
    BY <1>1, <1>2, <1>3
    DEF TableServiceNext, SetNotify, TransferRead, TransferFind, TransferNotify, TransferAbort,
        storeVars

LEMMA BillingSeats ==
  ASSUME HouseInv, NEW w \in Workers, BillingNext(w), ~ Stale(w)
  PROVE  NoNewGhost
  <1>0. /\ placed \subseteq Orders /\ order \in [Orders -> OrderRow]
        /\ table \in [Tables -> TableStatus]
    BY DEF HouseInv, MoneyInv, MoneyTypeOK, StoreTypeOK
  <1>1. ASSUME NEW i \in Invoices, BillCommit(w, i) PROVE NoNewGhost
    <2> DEFINE o  == bill[w].orderId
               at == bill[w].tableId
    <2>1. o \in placed /\ order[o].tableId = at
      BY <1>1 DEF BillCommit, HouseInv, MoneyInv, MoneyTypeOK, BillingTypeOK, Stale
    <2>2. /\ UNCHANGED placed
          /\ order'[o].tableId = at /\ order'[o].status = "BILLED"
          /\ \A p \in placed \ {o} : order'[p] = order[p]
      BY <1>0, <1>1, <2>1 DEF BillCommit, WithStatus
    <2>3. \A t \in Tables : t # at => table'[t] = table[t]
      BY <1>0, <1>1 DEF BillCommit, SetTable
    <2>4. \A t \in Tables : t = at => o \in ActiveOn(t)'
      BY <2>1, <2>2 DEF ActiveOn, Closed
    <2>5. \A t \in Tables : t # at => \A p \in placed : p \in ActiveOn(t) => p \in ActiveOn(t)'
      BY <2>1, <2>2 DEF ActiveOn
    <2> QED
      BY <2>2, <2>3, <2>4, <2>5, GuestsSeated
  <1>2. CASE UNCHANGED <<placed, order, table>>
    BY <1>2, SameGuests
  <1> QED
    BY <1>1, <1>2
    DEF BillingNext, BillRead, BillReplay, BillMiss, BillNotify, BillAbort, storeVars

LEMMA PaymentsSeat ==
  ASSUME HouseInv, NEW w \in Workers, PaymentsNext(w)
  PROVE  NoNewGhost
  <1>0. /\ placed \subseteq Orders /\ order \in [Orders -> OrderRow]
        /\ table \in [Tables -> TableStatus] /\ UNCHANGED placed
    BY PaymentsFrame DEF HouseInv, MoneyInv, MoneyTypeOK, StoreTypeOK
  <1>1. ASSUME NEW o, NEW at, CloseOrder(o, at) PROVE NoNewGhost
    <2>1. \A p \in placed : /\ order'[p].tableId = order[p].tableId
                            /\ order'[p].status = order[p].status \/ order'[p].status = "PAID"
      BY <1>0, <1>1 DEF CloseOrder, WithStatus
    <2>2. \A t \in Tables : table'[t] = table[t] \/ table'[t] = "AVAILABLE"
      BY <1>0, <1>1 DEF CloseOrder, SetTable
    <2>3. \A t \in Tables : \A p \in placed : p \in ActiveOn(t) => p \in ActiveOn(t)'
      BY <1>0, <2>1 DEF ActiveOn, Closed
    <2>4. "AVAILABLE" \notin {"OCCUPIED", "BILL_REQUESTED"}
      OBVIOUS
    <2> QED
      BY <1>0, <2>2, <2>3, <2>4, GuestsSeated
  <1>2. CASE UNCHANGED <<order, table>>
    BY <1>0, <1>2, SameGuests
  <1>3. ASSUME NEW p \in PaymentIds, PayCommit(w, p) PROVE NoNewGhost
    BY <1>1, <1>2, <1>3 DEF PayCommit
  <1>4. ASSUME NEW tenders \in Tenders, SplitCommit(w, tenders) PROVE NoNewGhost
    BY <1>1, <1>4 DEF SplitCommit
  <1> QED
    BY <1>2, <1>3, <1>4
    DEF PaymentsNext, PayRead, PayReplay, PayMiss, PayNotify, SplitRead, RefundRead, RefundCommit,
        PayAbort, storeVars

LEMMA HouseSeats ==
  HouseInv /\ [Next]_vars => NoNewGhost \/ \E w \in Workers : Stale(w)
  <1> SUFFICES ASSUME HouseInv, [Next]_vars, \A w \in Workers : ~ Stale(w) PROVE NoNewGhost
    OBVIOUS
  <1>1. ASSUME KitchenStep \/ Restart \/ UNCHANGED vars PROVE NoNewGhost
    BY <1>1, SameGuests, KitchenKeeps DEF KitchenStep, Restart, vars, storeVars, HouseInv
  <1> QED
    BY <1>1, OrdersSeat, TablesSeat, BillingSeats, PaymentsSeat
    DEF Next, OrdersStep, TablesStep, BillingStep, PaymentsStep

\* With any number of requests at a time, a table becomes taken by nobody only by a status set
\* by hand, or by a transfer or an invoice that commits for an order that is gone from the
\* table it was read on.
THEOREM GhostsAreLeftByStaleHands == Spec => GhostsAreStale
  <1>1. HouseInv /\ [Next]_vars =>
          [\A t \in Tables :
             Ghost(t)' /\ ~ Ghost(t) =>
               \E w \in Workers :
                 \/ \E s \in TableTargets : SetStatus(w, t, s)
                 \/ TransferCommit(w) /\ move[w].orderId \notin ActiveOn(move[w].from)
                 \/ /\ \E i \in Invoices : BillCommit(w, i)
                    /\ order[bill[w].orderId].tableId # bill[w].tableId]_vars
    <2> SUFFICES ASSUME HouseInv, [Next]_vars, NEW t \in Tables, Ghost(t)', ~ Ghost(t)
                 PROVE  \E w \in Workers :
                          \/ \E s \in TableTargets : SetStatus(w, t, s)
                          \/ TransferCommit(w) /\ move[w].orderId \notin ActiveOn(move[w].from)
                          \/ /\ \E i \in Invoices : BillCommit(w, i)
                             /\ order[bill[w].orderId].tableId # bill[w].tableId
      OBVIOUS
    <2>1. PICK w \in Workers : Stale(w)
      BY HouseSeats DEF NoNewGhost
    <2>2. ASSUME NEW u \in Tables, NEW s \in TableTargets, SetStatus(w, u, s) PROVE u = t
      <3>1. UNCHANGED <<placed, order>> /\ table' = [table EXCEPT ![u] = s]
        BY <2>2 DEF SetStatus
      <3>2. table \in [Tables -> TableStatus]
        BY DEF HouseInv, MoneyInv, MoneyTypeOK, StoreTypeOK
      <3>3. u # t => (Ghost(t)' <=> Ghost(t))
        BY <3>1, <3>2 DEF Ghost, ActiveOn
      <3> QED
        BY <3>3
    <2> QED
      BY <2>1, <2>2 DEF Stale
  <1> QED
    BY <1>1, HouseInvariance, PTL DEF Spec, GhostsAreStale

\* With one request at a time, only the staff leave a table taken by nobody, by setting its
\* status by hand.
THEOREM SerialGhosts ==
  ASSUME OneAtATime
  PROVE  Spec => [][\A t \in Tables : Ghost(t)' /\ ~ Ghost(t) =>
                      \E w \in Workers, s \in TableTargets : SetStatus(w, t, s)]_vars
  <1>1. SerialHouseInv =>
          \A w \in Workers :
            /\ ~ (TransferCommit(w) /\ move[w].orderId \notin ActiveOn(move[w].from))
            /\ ~ (/\ \E i \in Invoices : BillCommit(w, i)
                  /\ order[bill[w].orderId].tableId # bill[w].tableId)
    BY DEF SerialHouseInv, HandsFresh, TransferCommit, BillCommit
  <1>2. SerialHouseInv /\
          [\A t \in Tables :
             Ghost(t)' /\ ~ Ghost(t) =>
               \E w \in Workers :
                 \/ \E s \in TableTargets : SetStatus(w, t, s)
                 \/ TransferCommit(w) /\ move[w].orderId \notin ActiveOn(move[w].from)
                 \/ /\ \E i \in Invoices : BillCommit(w, i)
                    /\ order[bill[w].orderId].tableId # bill[w].tableId]_vars
          => [\A t \in Tables : Ghost(t)' /\ ~ Ghost(t) =>
                \E w \in Workers, s \in TableTargets : SetStatus(w, t, s)]_vars
    BY <1>1
  <1> QED
    BY <1>2, SerialHouse, GhostsAreLeftByStaleHands, PTL DEF GhostsAreStale
=============================================================================
