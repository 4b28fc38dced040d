------------------------------ MODULE Kitchen ------------------------------
(***************************************************************************)
(* The tickets (KOT rows) of the kitchen stations.  KitchenService changes *)
(* their status; OrdersService.create writes them.                         *)
(***************************************************************************)
EXTENDS Store

CONSTANTS Stations,  \* ids of kitchen stations
          StationOf, \* the station a line's menu item is assigned to, or None
          KotTargets \* statuses the kitchen display asks for

ASSUME StationAssumption == None \notin Stations /\ StationOf \in [Lines -> Stations \cup {None}]

VARIABLE kot   \* per order and station, the status of its ticket; None: no ticket

KOTStatus == {"NEW", "ACCEPTED", "PREPARING", "READY", "COMPLETED", "CANCELLED"}

ASSUME KotTargetAssumption == KotTargets \subseteq KOTStatus

KitchenTypeOK == kot \in [Orders -> [Stations -> KOTStatus \cup {None}]]

KitchenInit == kot = [o \in Orders |-> [st \in Stations |-> None]]

\* One ticket per station that has a line of the order; a line without a station is on none.
Tickets(L) ==
  [st \in Stations |-> IF \E l \in L : StationOf[l] = st THEN "NEW" ELSE None]

\* updateKOTStatus: any status follows any other.
UpdateKOTStatus(o, st, s) ==
  /\ kot[o][st] # None
  /\ kot' = [kot EXCEPT ![o][st] = s]
  /\ UNCHANGED storeVars

KitchenNext == \E o \in Orders, st \in Stations, s \in KotTargets : UpdateKOTStatus(o, st, s)
=============================================================================
