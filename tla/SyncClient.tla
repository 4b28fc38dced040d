----------------------------- MODULE SyncClient -----------------------------
(***************************************************************************)
(* The sync queue of the POS terminal (sync/syncEngine.ts): actions of the *)
(* cashier wait in memory, a copy of the queue is kept in localStorage,    *)
(* and a pass started by hand posts the waiting actions one by one.        *)
(*                                                                         *)
(* The engine runs on the event loop of the page: between two answers of   *)
(* the server the cashier goes on working, and the page can be reloaded at *)
(* any time.  The server is whatever answers the posts; which answers the  *)
(* API of this repository gives is said in OfflineSync.                    *)
(***************************************************************************)
EXTENDS Naturals, Sequences, SequencesExt

CONSTANTS Actions,     \* ids of actions
          MaxReloads   \* bound: how often the page is reloaded

ASSUME ReloadAssumption == MaxReloads \in Nat

VARIABLES queue,    \* this.queue: the actions and whether each was answered with 2xx
          stored,   \* the queue in localStorage
          syncing,  \* this.isSyncing
          pending,  \* syncWithServer's loop: the ids still to post; the first one is in flight
          badge,    \* the number of waiting actions the page shows
          log,      \* history: the actions in the order the cashier made them
          taken,    \* history: the actions the server has processed
          reloads   \* number of reloads so far

vars == <<queue, stored, syncing, pending, badge, log, taken, reloads>>

Item == [id: Actions, synced: BOOLEAN]

Ids(q) == [i \in DOMAIN q |-> q[i].id]

\* getPendingCount, and the filters of syncWithServer: kept[n] is what is waiting of the
\* first n items.
Unsynced(q) ==
  LET kept[n \in 0 .. Len(q)] ==
        IF n = 0 THEN <<>>
        ELSE IF q[n].synced THEN kept[n - 1] ELSE Append(kept[n - 1], q[n])
  IN  kept[Len(q)]

Waiting(q) == ToSet(Ids(Unsynced(q)))

TypeOK ==
  /\ queue \in Seq(Item) /\ stored \in Seq(Item) /\ pending \in Seq(Actions)
  /\ syncing \in BOOLEAN
  /\ badge \in 0 .. Len(log)
  /\ log \in Seq(Actions)
  /\ taken \subseteq Actions
  /\ reloads \in 0 .. MaxReloads

Init ==
  /\ queue = <<>> /\ stored = <<>> /\ pending = <<>> /\ log = <<>>
  /\ syncing = FALSE
  /\ badge = 0
  /\ taken = {}
  /\ reloads = 0

\* saveQueue: an exception of localStorage.setItem is swallowed, and then the listeners
\* are not told either.
SavedAs(q)  == stored' = q /\ badge' = Len(Unsynced(q))
SaveFails   == UNCHANGED <<stored, badge>>

\* Mutant: the newest action goes first.
EnqueuedFirst(q, a) == <<[id |-> a, synced |-> FALSE]>> \o q

\* enqueueAction
Enqueued(q, a) == Append(q, [id |-> a, synced |-> FALSE])

EnqueueAction(a) ==
  /\ a \notin ToSet(log)
  /\ queue' = Enqueued(queue, a)
  /\ SavedAs(queue') \/ SaveFails
  /\ log' = Append(log, a)
  /\ UNCHANGED <<syncing, pending, taken, reloads>>

\* syncWithServer, up to the first fetch.
StartSync ==
  /\ ~ syncing
  /\ Unsynced(queue) # <<>>
  /\ pending' = Ids(Unsynced(queue))
  /\ syncing' = TRUE
  /\ badge' = Len(Unsynced(queue))
  /\ UNCHANGED <<queue, stored, log, taken, reloads>>

\* Mutant: every action is marked.
AllMarked(q, a) == [i \in DOMAIN q |-> [q[i] EXCEPT !.synced = TRUE]]

\* The flag is set in memory only.
Marked(q, a) == [i \in DOMAIN q |-> IF q[i].id = a THEN [q[i] EXCEPT !.synced = TRUE] ELSE q[i]]

\* The server processed the action, and its answer is 2xx.
Confirmed(a) ==
  /\ syncing /\ pending # <<>> /\ a = Head(pending)
  /\ queue' = Marked(queue, a)
  /\ taken' = taken \cup {a}
  /\ pending' = Tail(pending)
  /\ UNCHANGED <<stored, syncing, badge, log, reloads>>

\* The server processed the action, but its answer is lost.
Unheard(a) ==
  /\ syncing /\ pending # <<>> /\ a = Head(pending)
  /\ taken' = taken \cup {a}
  /\ pending' = Tail(pending)
  /\ UNCHANGED <<queue, stored, syncing, badge, log, reloads>>

\* The server refuses the action, or is not reached.  Only retryCount changes, which
\* nothing reads.
Refused(a) ==
  /\ syncing /\ pending # <<>> /\ a = Head(pending)
  /\ pending' = Tail(pending)
  /\ UNCHANGED <<queue, stored, syncing, badge, log, taken, reloads>>

\* Mutant: the queue is emptied after a pass.
KeptNone(q) == <<>>

\* The rest of syncWithServer.  The listeners are told in any case.
Kept(q) == Unsynced(q)

\* Mutant: isSyncing is not reset.
StillSyncing == syncing

SyncingAfter == FALSE

FinishSync ==
  /\ syncing /\ pending = <<>>
  /\ queue' = Kept(queue)
  /\ stored' = queue' \/ stored' = stored
  /\ syncing' = SyncingAfter
  /\ badge' = Len(Unsynced(queue'))
  /\ UNCHANGED <<pending, log, taken, reloads>>

\* Mutant: the stored queue is added to itself.
LoadedTwice(q) == q \o q

\* The page is reloaded or the terminal restarts: loadQueue, and App subscribes.
Loaded(q) == q

Reload ==
  /\ reloads < MaxReloads
  /\ reloads' = reloads + 1
  /\ queue' = Loaded(stored)
  /\ badge' = Len(Unsynced(queue'))
  /\ syncing' = FALSE
  /\ pending' = <<>>
  /\ UNCHANGED <<stored, log, taken>>

Answered == \E a \in Actions : Confirmed(a) \/ Unheard(a) \/ Refused(a)

Next ==
  \/ \E a \in Actions : EnqueueAction(a)
  \/ StartSync
  \/ Answered
  \/ FinishSync
  \/ Reload

\* A post is answered or fails in the end, and the loop goes on.
PassFairness == WF_vars(Answered) /\ WF_vars(FinishSync)

\* The cashier presses the button again as long as there is something to sync.
ButtonFairness == WF_vars(StartSync)

\* An action that is posted again and again is confirmed in the end.
ServerFairness == \A a \in Actions : SF_vars(Confirmed(a))

Spec == Init /\ [][Next]_vars /\ PassFairness /\ ButtonFairness /\ ServerFairness

-----------------------------------------------------------------------------
\* An action that reached localStorage is not forgotten before the server has processed
\* it, whatever the cashier enqueues during a pass, whatever saves fail and whenever the
\* page is reloaded (syncEngine.ts:40-48, 127-129).
StoredUntilTaken == [][Waiting(stored) \ Waiting(stored') \subseteq taken']_vars

\* The page never shows "Synced" over an action in localStorage that the server has not
\* processed, also after a save that failed (App.tsx:309-326).
BadgeIsHonest == badge = 0 => Waiting(stored) \subseteq taken

\* The cashier made a before b.
Before(a, b) == \E m, n \in DOMAIN log : m < n /\ log[m] = a /\ log[n] = b

\* The actions are queued, stored and posted in the order the cashier made them, each
\* once: the payment of an order never overtakes it in the queue (syncEngine.ts:69-88, 100).
InOrder ==
  \A q \in {Ids(queue), Ids(stored), pending} :
    /\ ToSet(q) \subseteq ToSet(log)
    /\ \A i, j \in DOMAIN q : i < j => Before(q[i], q[j])

\* A pass ends, also when the cashier enqueues actions during it: the button works again.
PassEnds == syncing ~> ~ syncing

\* An action that reached localStorage reaches the server (docs/troubleshooting.md,
\* section 2).
Drains == \A a \in Actions : a \in Waiting(stored) ~> a \in taken
=============================================================================
