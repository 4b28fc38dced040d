------------------------------- MODULE Orders -------------------------------
(***************************************************************************)
(* OrdersService: create, cancelItem and updateStatus.                     *)
(*                                                                         *)
(* create looks up its syncId and writes the order, its tickets and its    *)
(* table in one transaction.  cancelItem and updateStatus check an order   *)
(* they have read before their transaction.  cancelItem's transaction also *)
(* reads: at READ COMMITTED it sums up the lines the other transactions    *)
(* have committed by then, and writes the sum later.                       *)
(***************************************************************************)
EXTENDS Kitchen

CONSTANTS SyncIds,      \* sync ids the clients choose
          OrderTypes,   \* order types the clients choose
          CancelTotal,  \* what cancelItem charges for a set of lines, whatever the order type
          StatusTargets \* statuses the clients ask for

ASSUME SyncIdAssumption == None \notin SyncIds
ASSUME OrderTypeAssumption == OrderTypes \subseteq OrderType
ASSUME CancelTotalAssumption == CancelTotal \in [SUBSET Lines -> Nat]
ASSUME StatusTargetAssumption == StatusTargets \subseteq OrderStatus

VARIABLES lines,   \* per order, its OrderItem rows
          syncId,  \* per order, its syncId column
          ord      \* per request in flight, the handler's local variables

orderRows == <<lines, syncId, kot>>

OrdPhase == {"idle", "insert", "status", "cancel", "sum", "notify"}

\* version: of the order as read; kept: the lines to insert, or those that are not cancelled
\* as read; tableId: the table to occupy; tableId, news: the TABLE_UPDATED event to send.
OrdJob == [phase: OrdPhase, orderId: Orders \cup {None}, version: Nat, to: OrderStatus,
           line: Lines \cup {None}, kept: SUBSET Lines, orderType: OrderType,
           syncId: SyncIds \cup {None}, tableId: Tables \cup {None}, news: TableStatus]

OrdIdle == [phase |-> "idle", orderId |-> None, version |-> 0, to |-> "DRAFT", line |-> None,
            kept |-> {}, orderType |-> "DINE_IN", syncId |-> None, tableId |-> None,
            news |-> "AVAILABLE"]

OrdersTypeOK ==
  /\ lines \in [Orders -> SUBSET Lines]
  /\ syncId \in [Orders -> SyncIds \cup {None}]
  /\ ord \in [Workers -> OrdJob]

OrdersInit ==
  /\ lines = [o \in Orders |-> {}]
  /\ syncId = [o \in Orders |-> None]
  /\ ord = [w \in Workers |-> OrdIdle]

\* The event a handler has left to send after its commit, if it has one.
ThenTell(w, t, s) ==
  ord' = [ord EXCEPT ![w] = IF t = None THEN OrdIdle
                            ELSE [OrdIdle EXCEPT !.phase = "notify", !.tableId = t, !.news = s]]

-----------------------------------------------------------------------------
\* create

SyncedAs(s) == {o \in placed : syncId[o] = s}

NewOrder(type, t, L) ==
  [orderType |-> type, status |-> "CONFIRMED", version |-> 1, tableId |-> t,
   grandTotal |-> GrandTotal[type][L]]

\* tx: no order has the sync id, or the request has none.
CreateLookup(w, type, t, L, s) ==
  /\ ord[w] = OrdIdle
  /\ L # {}
  /\ s # None => SyncedAs(s) = {}
  /\ ord' = [ord EXCEPT ![w] = [OrdIdle EXCEPT !.phase = "insert", !.orderType = type,
                                               !.kept = L, !.syncId = s, !.tableId = t]]
  /\ UNCHANGED <<storeVars, orderRows>>

\* Mutant: the column has no unique index.
InsertableAlways(s) == TRUE

\* The unique index on syncId.
Insertable(s) == s # None => SyncedAs(s) = {}

\* The table becomes OCCUPIED whatever its status was.
CreateCommit(w, o) ==
  LET job == ord[w] IN
  /\ job.phase = "insert"
  /\ o \in Orders \ placed
  /\ Insertable(job.syncId)
  /\ placed' = placed \cup {o}
  /\ order' = [order EXCEPT ![o] = NewOrder(job.orderType, job.tableId, job.kept)]
  /\ lines' = [lines EXCEPT ![o] = job.kept]
  /\ active' = [active EXCEPT ![o] = job.kept]
  /\ syncId' = [syncId EXCEPT ![o] = job.syncId]
  /\ kot' = [kot EXCEPT ![o] = Tickets(job.kept)]
  /\ SetTable(job.tableId, "OCCUPIED")
  /\ ThenTell(w, job.tableId, "OCCUPIED")
  /\ UNCHANGED <<issued, invoice, shown>>

\* A retry: nothing is written, but the clients are told of an occupied table again.
CreateReplay(w, t, s) ==
  /\ ord[w] = OrdIdle
  /\ SyncedAs(s) # {}
  /\ ThenTell(w, t, "OCCUPIED")
  /\ UNCHANGED <<storeVars, orderRows>>

-----------------------------------------------------------------------------
\* updateStatus

\* The client's expectedVersion is the version read here, or the request is refused.
StatusRead(w, o, to) ==
  /\ ord[w] = OrdIdle
  /\ o \in placed
  /\ ord' = [ord EXCEPT ![w] = [OrdIdle EXCEPT !.phase = "status", !.orderId = o, !.to = to,
                                               !.version = order[o].version]]
  /\ UNCHANGED <<storeVars, orderRows>>

\* Mutants: a cancelled order keeps its table; the table takes the order's status.
TableKeptByCancelled(to, now) ==
  CASE to = "BILL_REQUESTED" -> "BILL_REQUESTED"
    [] to = "COMPLETED"      -> "AVAILABLE"
    [] OTHER                 -> now

TableLikeOrder(to, now) == to

TableAfter(to, now) ==
  CASE to = "BILL_REQUESTED" -> "BILL_REQUESTED"
    [] to \in Closed         -> "AVAILABLE"
    [] OTHER                 -> now

\* What TABLE_UPDATED says, which is not always what the table is.
Announced(to) == IF to = "BILL_REQUESTED" THEN "BILL_REQUESTED" ELSE "AVAILABLE"

\* The update does not look at the version again; the table is the order's current one.
StatusCommit(w) ==
  LET o  == ord[w].orderId
      to == ord[w].to
      t  == order[o].tableId
  IN
  /\ ord[w].phase = "status"
  /\ order' = [order EXCEPT ![o] = WithStatus(@, to)]
  /\ IF t = None THEN UNCHANGED table ELSE SetTable(t, TableAfter(to, table[t]))
  /\ ThenTell(w, t, Announced(to))
  /\ UNCHANGED <<placed, active, issued, invoice, shown, orderRows>>

-----------------------------------------------------------------------------
\* cancelItem

Uncancellable == {"PAID", "COMPLETED"}

CancelRead(w, o, l) ==
  /\ ord[w] = OrdIdle
  /\ o \in placed
  /\ l \in lines[o]
  /\ order[o].status \notin Uncancellable
  /\ ord' = [ord EXCEPT ![w] = [OrdIdle EXCEPT !.phase = "cancel", !.orderId = o, !.line = l]]
  /\ UNCHANGED <<storeVars, orderRows>>

\* Another transaction that has updated the same item row and is not committed.
ItemLocked(w) ==
  \E v \in Workers \ {w} : /\ ord[v].phase = "sum"
                           /\ ord[v].orderId = ord[w].orderId
                           /\ ord[v].line = ord[w].line

\* Mutant: the sum leaves out what other transactions have marked and not committed.
RemainingUncommitted(w) ==
  active[ord[w].orderId] \ ({ord[w].line} \cup
    {ord[v].line : v \in {u \in Workers : ord[u].phase = "sum" /\ ord[u].orderId = ord[w].orderId}})

\* The items of the order that are not cancelled, as its transaction sees them.
Remaining(w) == active[ord[w].orderId] \ {ord[w].line}

\* tx: the item is marked, unseen by others yet, and the items are read.
CancelSum(w) ==
  /\ ord[w].phase = "cancel"
  /\ ~ ItemLocked(w)
  /\ ord' = [ord EXCEPT ![w].phase = "sum", ![w].kept = Remaining(w)]
  /\ UNCHANGED <<storeVars, orderRows>>

\* Mutant: the version is not incremented.
RecalculatedSilently(row, kept) == [row EXCEPT !.grandTotal = CancelTotal[kept]]

\* tx.order.update: Math.round(newSubtotal * 1.1), also for an order without service charge.
Recalculated(row, kept) ==
  [orderType |-> row.orderType, status |-> row.status, version |-> row.version + 1,
   tableId |-> row.tableId, grandTotal |-> CancelTotal[kept]]

CancelCommit(w) ==
  LET o == ord[w].orderId IN
  /\ ord[w].phase = "sum"
  /\ active' = [active EXCEPT ![o] = @ \ {ord[w].line}]
  /\ order' = [order EXCEPT ![o] = Recalculated(@, ord[w].kept)]
  /\ ord' = [ord EXCEPT ![w] = OrdIdle]
  /\ UNCHANGED <<placed, table, issued, invoice, shown, orderRows>>

-----------------------------------------------------------------------------
TableNotify(w) ==
  /\ ord[w].phase = "notify"
  /\ Hear(ord[w].tableId, ord[w].news)
  /\ ord' = [ord EXCEPT ![w] = OrdIdle]
  /\ UNCHANGED <<placed, order, active, table, issued, invoice, orderRows>>

OrderAbort(w) ==
  /\ ord[w].phase \in {"insert", "status", "cancel", "sum"}
  /\ ord' = [ord EXCEPT ![w] = OrdIdle]
  /\ UNCHANGED <<storeVars, orderRows>>

OrdersNext(w) ==
  \/ \E type \in OrderTypes, t \in Tables \cup {None}, L \in SUBSET Lines,
        s \in SyncIds \cup {None} : CreateLookup(w, type, t, L, s)
  \/ \E o \in Orders : CreateCommit(w, o)
  \/ \E t \in Tables \cup {None}, s \in SyncIds : CreateReplay(w, t, s)
  \/ \E o \in Orders, to \in StatusTargets : StatusRead(w, o, to)
  \/ StatusCommit(w)
  \/ \E o \in Orders, l \in Lines : CancelRead(w, o, l)
  \/ CancelSum(w)
  \/ CancelCommit(w)
  \/ TableNotify(w)
  \/ OrderAbort(w)
=============================================================================
