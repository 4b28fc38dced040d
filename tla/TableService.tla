---------------------------- MODULE TableService ----------------------------
(***************************************************************************)
(* TablesService: a status set by hand, and the transfer of an order to    *)
(* another table.  The transfer reads both tables, then looks for an order *)
(* on the source, then writes three rows in one transaction.               *)
(***************************************************************************)
EXTENDS Store

CONSTANT TableTargets   \* statuses the staff set by hand

ASSUME TableTargetAssumption == TableTargets \subseteq TableStatus

VARIABLE move   \* per request in flight, the handler's local variables

MovePhase == {"idle", "find", "tx", "notify", "set"}

MoveJob == [phase: MovePhase, from: Tables \cup {None}, to: Tables \cup {None},
            orderId: Orders \cup {None}, status: TableStatus]

MoveIdle == [phase |-> "idle", from |-> None, to |-> None, orderId |-> None,
             status |-> "AVAILABLE"]

TableServiceTypeOK == move \in [Workers -> MoveJob]

TableServiceInit == move = [w \in Workers |-> MoveIdle]

-----------------------------------------------------------------------------
Vacant(t) == table[t] = "AVAILABLE"

\* Seated orders as TablesService sees them: a paid order still counts.
ActiveOn(t) == {o \in placed : order[o].tableId = t /\ order[o].status \notin Closed}

\* updateStatus: one update, whatever the table's status or its orders.
SetStatus(w, t, s) ==
  /\ move[w] = MoveIdle
  /\ table' = [table EXCEPT ![t] = s]
  /\ move' = [move EXCEPT ![w] = [MoveIdle EXCEPT !.phase = "set", !.to = t, !.status = s]]
  /\ UNCHANGED <<placed, order, active, issued, invoice, shown>>

SetNotify(w) ==
  /\ move[w].phase = "set"
  /\ Hear(move[w].to, move[w].status)
  /\ move' = [move EXCEPT ![w] = MoveIdle]
  /\ UNCHANGED <<placed, order, active, table, issued, invoice>>

TransferRead(w, from, to) ==
  /\ move[w] = MoveIdle
  /\ Vacant(to)
  /\ move' = [move EXCEPT ![w] = [MoveIdle EXCEPT !.phase = "find", !.from = from, !.to = to]]
  /\ UNCHANGED storeVars

\* findFirst: any of them.
TransferFind(w, o) ==
  /\ move[w].phase = "find"
  /\ o \in ActiveOn(move[w].from)
  /\ move' = [move EXCEPT ![w].phase = "tx", ![w].orderId = o]
  /\ UNCHANGED storeVars

\* The order's version stays as it is.
TransferCommit(w) ==
  LET job == move[w] IN
  /\ job.phase = "tx"
  /\ order' = [order EXCEPT ![job.orderId].tableId = job.to]
  /\ table' = [table EXCEPT ![job.from] = "AVAILABLE", ![job.to] = "OCCUPIED"]
  /\ move' = [move EXCEPT ![w].phase = "notify"]
  /\ UNCHANGED <<placed, active, issued, invoice, shown>>

TransferNotify(w) ==
  LET job == move[w] IN
  /\ job.phase = "notify"
  /\ shown' = [shown EXCEPT ![job.from] = "AVAILABLE", ![job.to] = "OCCUPIED"]
  /\ move' = [move EXCEPT ![w] = MoveIdle]
  /\ UNCHANGED <<placed, order, active, table, issued, invoice>>

\* No active order on the source, or a read or the transaction fails.
TransferAbort(w) ==
  /\ move[w].phase \in {"find", "tx"}
  /\ move' = [move EXCEPT ![w] = MoveIdle]
  /\ UNCHANGED storeVars

TableServiceNext(w) ==
  \/ \E t \in Tables, s \in TableTargets : SetStatus(w, t, s)
  \/ SetNotify(w)
  \/ \E from, to \in Tables : TransferRead(w, from, to)
  \/ \E o \in Orders : TransferFind(w, o)
  \/ TransferCommit(w)
  \/ TransferNotify(w)
  \/ TransferAbort(w)
=============================================================================
