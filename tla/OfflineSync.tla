----------------------------- MODULE OfflineSync -----------------------------
(***************************************************************************)
(* The sync queue of the terminal against the API of this repository.  The *)
(* route POST /sync/push is guarded, and its body is parsed by a schema;   *)
(* the terminal's posts pass neither.                                      *)
(***************************************************************************)
EXTENDS SyncClient

\* What the engine's fetch sends: its headers and the fields of its body.
Post == [headers |-> {"Content-Type"}, fields |-> {"clientActions"}]

\* JwtAuthGuard and syncPushBatchSchema.
Authenticated(request) == "Authorization" \in request.headers
WellFormed(request) == {"deviceId", "items"} \subseteq request.fields

Admitted(request) == Authenticated(request) /\ WellFormed(request)

\* processPushBatch runs on admitted requests only; the others are answered 401 or 4xx.
ApiAnswered ==
  \E a \in Actions : \/ Admitted(Post) /\ (Confirmed(a) \/ Unheard(a))
                     \/ Refused(a)

ApiNext ==
  \/ \E a \in Actions : EnqueueAction(a)
  \/ StartSync
  \/ ApiAnswered
  \/ FinishSync
  \/ Reload

\* The network is up, and the cashier keeps pressing the button.
ApiSpec ==
  /\ Init
  /\ [][ApiNext]_vars
  /\ WF_vars(ApiAnswered)
  /\ WF_vars(FinishSync)
  /\ ButtonFairness
=============================================================================
