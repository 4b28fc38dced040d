--------------------------- MODULE StandaloneProofs ---------------------------
(***************************************************************************)
(* Safety of the parts that share no state, for every value of their       *)
(* constants.  Each part has an invariant of its own; what it has to be    *)
(* preserved by is its own steps, since the other parts leave it alone.    *)
(***************************************************************************)
EXTENDS Standalone, TerminalProofs, TLAPS

-----------------------------------------------------------------------------
\* A step of the whole is, for every part, a step of that part or none.

LEMMA PartSteps ==
  ASSUME [Next]_vars
  PROVE  /\ (\E c \in Clerks : InventoryNext(c)) \/ UNCHANGED inventoryVars
         /\ (\E t \in Terminals : CashierNext(t)) \/ UNCHANGED cashierVars
         /\ AccessNext \/ UNCHANGED accessVars
         /\ (\E p \in Pushes : SyncNext(p)) \/ UNCHANGED syncVars
         /\ (\E s \in Seeders : SeedNext(s)) \/ UNCHANGED seedVars
         /\ BackupNext \/ UNCHANGED backupVars
         /\ TerminalNext \/ UNCHANGED terminalVars
         /\ DrawerNext \/ UNCHANGED drawerVars
         /\ TableWindowNext \/ UNCHANGED tableVars
         /\ AdminTablesNext \/ UNCHANGED planVars
  <1>1. CASE Next
    BY <1>1 DEF Next, Step, Still
  <1>2. CASE UNCHANGED vars
    BY <1>2 DEF vars
  <1> QED
    BY <1>1, <1>2

-----------------------------------------------------------------------------
\* Inventory

\* A request about an ingredient that nobody else has in hand knows the stock it changes, and
\* its movement row is the latest.
Alone(c) ==
  LET req   == count[c]
      after == stock[req.ingredient] + req.quantity
  IN  /\ InFlight(req.ingredient) = {c}
      /\ req.balance = IF after >= 0 THEN after ELSE 0
      /\ req.phase = "update" => req.at > audited[req.ingredient].at

InventoryInv ==
  /\ InventoryTypeOK
  /\ \A c \in Clerks : count[c].phase # "idle" <=> count[c].ingredient \in Ingredients
  /\ \A c \in Clerks : count[c].at <= movements
  /\ \A i \in Ingredients : audited[i].at <= movements
  /\ UncrossedIsExact
  /\ \A c \in Clerks : count[c].ingredient \in Ingredients \ crossed => Alone(c)

LEMMA InventoryInitial == InventoryInit => InventoryInv
  BY StockAssumption DEF InventoryInit, InventoryInv, InventoryTypeOK, UncrossedIsExact, AddsUp,
     CountIdle, CountJob

LEMMA IdleClerk == CountIdle \in CountJob /\ CountIdle.phase = "idle" /\ CountIdle.at = 0
                   /\ CountIdle.ingredient = Nothing /\ Nothing \notin Ingredients
  BY StockAssumption DEF CountIdle, CountJob

\* A request that has read an ingredient: it is the only one, or the ingredient is crossed.
LEMMA CountedStep ==
  ASSUME InventoryInv, NEW c \in Clerks, count[c] = CountIdle, NEW i \in Ingredients,
         NEW q \in Int, NEW b \in Nat, b = IF stock[i] + q >= 0 THEN stock[i] + q ELSE 0,
         Counted(c, i, q, b)
  PROVE  InventoryInv'
  <1> USE DEF InventoryInv, InventoryTypeOK, rowVars
  <1> DEFINE req == [phase |-> "insert", ingredient |-> i, quantity |-> q, balance |-> b,
                     at |-> 0]
  <1>1. req \in CountJob
    BY DEF CountJob
  <1>2. /\ count' = [count EXCEPT ![c] = req]
        /\ crossed' = IF InFlight(i) = {} THEN crossed ELSE crossed \cup {i}
        /\ UNCHANGED <<stock, ledger, audited, short, movements>>
    BY DEF Counted
  <1>3. req.phase = "insert" /\ req.ingredient = i /\ req.quantity = q /\ req.balance = b
        /\ req.at = 0
    OBVIOUS
  <1> HIDE DEF req
  <1>4. InventoryTypeOK'
    BY <1>1, <1>2
  <1>5. UncrossedIsExact'
    BY <1>2 DEF UncrossedIsExact, AddsUp
  <1>6. InFlight(i)' = InFlight(i) \cup {c}
    BY <1>2, <1>3 DEF InFlight
  <1>7. \A j \in Ingredients : j # i => InFlight(j)' = InFlight(j)
    BY <1>2, <1>3, IdleClerk DEF InFlight
  <1>8. ASSUME NEW d \in Clerks, count'[d].ingredient \in Ingredients \ crossed'
        PROVE  Alone(d)'
    <2>1. CASE d = c
      <3>1. InFlight(i) = {}
        BY <1>2, <1>3, <1>8, <2>1
      <3> QED
        BY <1>2, <1>3, <1>6, <2>1, <3>1 DEF Alone
    <2>2. CASE d # c
      <3> DEFINE j == count[d].ingredient
      <3>1. count'[d] = count[d] /\ j \in Ingredients \ crossed
        BY <1>2, <1>8, <2>2
      <3>2. j # i
        BY <1>2, <1>8, <2>2, <3>1 DEF InFlight
      <3>3. Alone(d) /\ InFlight(j)' = InFlight(j)
        BY <1>7, <3>1, <3>2
      <3> QED
        BY <1>2, <3>1, <3>3 DEF Alone
    <2> QED
      BY <2>1, <2>2
  <1> QED
    BY <1>2, <1>3, <1>4, <1>5, <1>8

\* A request that is over leaves the others about its ingredient as they were.
LEMMA FewerInFlight ==
  ASSUME InventoryInv, NEW c \in Clerks, count' = [count EXCEPT ![c] = CountIdle]
  PROVE  /\ \A i \in Ingredients : InFlight(i)' = InFlight(i) \ {c}
         /\ \A d \in Clerks : count'[d].ingredient \in Ingredients =>
              d # c /\ count'[d] = count[d]
  BY IdleClerk DEF InventoryInv, InventoryTypeOK, InFlight

LEMMA InsertStep ==
  ASSUME InventoryInv, NEW c \in Clerks, MovementInsert(c)
  PROVE  InventoryInv'
  <1> USE StockAssumption DEF InventoryInv, InventoryTypeOK, rowVars
  <1> DEFINE req == [count[c] EXCEPT !.phase = "update", !.at = movements + 1]
  <1>1. /\ count' = [count EXCEPT ![c] = req] /\ movements' = movements + 1
        /\ UNCHANGED <<stock, ledger, audited, short, crossed>>
        /\ count[c].phase = "insert"
    BY DEF MovementInsert
  <1>2. /\ req \in CountJob /\ req.ingredient = count[c].ingredient /\ req.phase = "update"
        /\ req.quantity = count[c].quantity /\ req.balance = count[c].balance
        /\ req.at = movements + 1
    <2>1. count[c] \in CountJob /\ movements + 1 \in Nat
      OBVIOUS
    <2> QED
      BY <2>1 DEF CountJob
  <1> HIDE DEF req
  <1>3. InventoryTypeOK' /\ UncrossedIsExact'
    BY <1>1, <1>2 DEF UncrossedIsExact, AddsUp
  <1>4. \A i : InFlight(i)' = InFlight(i)
    BY <1>1, <1>2 DEF InFlight
  <1>5. ASSUME NEW d \in Clerks, count'[d].ingredient \in Ingredients \ crossed'
        PROVE  Alone(d)'
    <2>1. Alone(d) /\ count'[d].ingredient = count[d].ingredient
      BY <1>1, <1>2, <1>5
    <2>2. audited[count[d].ingredient].at < movements + 1
      BY <1>1, <1>2, <1>5
    <2> QED
      BY <1>1, <1>2, <1>4, <2>1, <2>2 DEF Alone
  <1>6. \A d \in Clerks : count'[d].at <= movements'
    BY <1>1, <1>2 DEF CountJob
  <1>7. \A i \in Ingredients : audited'[i].at <= movements'
    BY <1>1
  <1> QED
    BY <1>1, <1>2, <1>3, <1>5, <1>6, <1>7

LEMMA CommitStep ==
  ASSUME InventoryInv, NEW c \in Clerks, BalanceCommit(c)
  PROVE  InventoryInv'
  <1> USE StockAssumption DEF InventoryInv, InventoryTypeOK
  <1> DEFINE req == count[c]
             i   == req.ingredient
  <1>1. /\ i \in Ingredients /\ req \in CountJob /\ req.phase = "update"
        /\ ledger' = [ledger EXCEPT ![i] = @ + req.quantity]
        /\ audited' = IF req.at > audited[i].at
                      THEN [audited EXCEPT ![i] = [at |-> req.at, balance |-> req.balance]]
                      ELSE audited
        /\ stock' = [stock EXCEPT ![i] = req.balance]
        /\ short' = (IF stock[i] + req.quantity < 0 THEN short \cup {i} ELSE short)
        /\ count' = [count EXCEPT ![c] = CountIdle]
        /\ movements' = movements /\ crossed' = crossed
    BY DEF BalanceCommit, RowCommitted
  <1>2. req.quantity \in Int /\ req.balance \in Nat /\ req.at \in Nat /\ stock[i] \in Nat
        /\ ledger[i] \in Int /\ audited[i].at \in Nat
    BY <1>1 DEF CountJob
  <1>3. ASSUME NEW j \in Ingredients, j # i
        PROVE  /\ stock'[j] = stock[j] /\ ledger'[j] = ledger[j] /\ audited'[j] = audited[j]
               /\ (j \in short' <=> j \in short)
    BY <1>1, <1>3
  <1>4. InventoryTypeOK'
    BY <1>1, <1>2, IdleClerk
  <1>5. i \notin crossed => /\ stock'[i] = audited'[i].balance
                           /\ IF i \in short' THEN ledger'[i] <= stock'[i]
                                              ELSE ledger'[i] = stock'[i]
    <2> SUFFICES ASSUME i \notin crossed
                 PROVE  /\ stock'[i] = audited'[i].balance
                        /\ IF i \in short' THEN ledger'[i] <= stock'[i]
                                           ELSE ledger'[i] = stock'[i]
      OBVIOUS
    <2>1. Alone(c)
      BY <1>1
    <2>2. req.at > audited[i].at
      BY <1>1, <2>1 DEF Alone
    <2>3. req.balance = IF stock[i] + req.quantity >= 0 THEN stock[i] + req.quantity ELSE 0
      BY <2>1 DEF Alone
    <2>4. IF i \in short THEN ledger[i] <= stock[i] ELSE ledger[i] = stock[i]
      BY <1>1 DEF UncrossedIsExact, AddsUp
    <2>5. stock'[i] = req.balance /\ ledger'[i] = ledger[i] + req.quantity
      BY <1>1, <1>2
    <2>6. audited'[i].balance = req.balance
      BY <1>1, <2>2
    <2>7. i \in short' <=> i \in short \/ stock[i] + req.quantity < 0
      BY <1>1
    <2> HIDE DEF req, i
    <2> QED
      BY <1>2, <2>3, <2>4, <2>5, <2>6, <2>7
  <1>6. UncrossedIsExact'
    BY <1>1, <1>3, <1>5 DEF UncrossedIsExact, AddsUp
  <1>7. ASSUME NEW d \in Clerks, count'[d].ingredient \in Ingredients \ crossed'
        PROVE  Alone(d)'
    <2> DEFINE j == count[d].ingredient
    <2>1. d # c /\ count'[d] = count[d] /\ InFlight(j)' = InFlight(j) \ {c}
      BY <1>1, <1>7, FewerInFlight
    <2>2. Alone(d) /\ j \in Ingredients
      BY <1>1, <1>7, <2>1
    <2>3. j # i
      BY <2>1, <2>2 DEF Alone, InFlight
    <2> QED
      BY <1>1, <1>3, <2>1, <2>2, <2>3 DEF Alone
  <1>8. \A j \in Ingredients : audited'[j].at <= movements'
    BY <1>1, <1>2
  <1>9. \A d \in Clerks : /\ count'[d].phase # "idle" <=> count'[d].ingredient \in Ingredients
                          /\ count'[d].at <= movements'
    BY <1>1, IdleClerk
  <1> QED
    BY <1>4, <1>6, <1>7, <1>8, <1>9

LEMMA AbortStep ==
  ASSUME InventoryInv, NEW c \in Clerks, CountAbort(c)
  PROVE  InventoryInv'
  <1> USE DEF InventoryInv, InventoryTypeOK, rowVars
  <1>1. /\ count' = [count EXCEPT ![c] = CountIdle]
        /\ UNCHANGED <<stock, ledger, audited, short, movements, crossed>>
    BY DEF CountAbort
  <1>2. ASSUME NEW d \in Clerks, count'[d].ingredient \in Ingredients \ crossed'
        PROVE  Alone(d)'
    <2> DEFINE j == count[d].ingredient
    <2>1. d # c /\ count'[d] = count[d] /\ InFlight(j)' = InFlight(j) \ {c}
      BY <1>1, <1>2, FewerInFlight
    <2>2. Alone(d)
      BY <1>1, <1>2, <2>1
    <2> QED
      BY <1>1, <2>1, <2>2 DEF Alone
  <1>3. InventoryTypeOK' /\ UncrossedIsExact'
    BY <1>1, IdleClerk DEF UncrossedIsExact, AddsUp
  <1>4. \A d \in Clerks : /\ count'[d].phase # "idle" <=> count'[d].ingredient \in Ingredients
                          /\ count'[d].at <= movements'
    BY <1>1, IdleClerk
  <1> QED
    BY <1>1, <1>2, <1>3, <1>4

LEMMA InventoryStep ==
  ASSUME InventoryInv, NEW c \in Clerks, InventoryNext(c)
  PROVE  InventoryInv'
  <1> USE StockAssumption
  <1>1. ASSUME NEW i \in Ingredients, NEW q \in Deltas, MovementRead(c, i, q)
        PROVE  InventoryInv'
    <2>1. q \in Int /\ stock[i] \in Nat /\ stock[i] + q >= 0
      BY <1>1 DEF MovementRead, InventoryInv, InventoryTypeOK
    <2> QED
      BY <1>1, <2>1, CountedStep DEF MovementRead
  <1>2. ASSUME NEW i \in Ingredients, NEW q \in Wastes, WastageRead(c, i, q)
        PROVE  InventoryInv'
    <2>1. q \in Nat /\ stock[i] \in Nat
      BY DEF InventoryInv, InventoryTypeOK
    <2>2. -q \in Int /\ AfterWaste(i, q) \in Nat
          /\ AfterWaste(i, q) = IF stock[i] + -q >= 0 THEN stock[i] + -q ELSE 0
      BY <2>1 DEF AfterWaste
    <2>3. count[c] = CountIdle /\ Counted(c, i, -q, AfterWaste(i, q))
      BY <1>2 DEF WastageRead
    <2> QED
      BY <2>2, <2>3, CountedStep
  <1> QED
    BY <1>1, <1>2, InsertStep, CommitStep, AbortStep DEF InventoryNext

LEMMA InventoryStays ==
  ASSUME InventoryInv, UNCHANGED inventoryVars
  PROVE  InventoryInv'
  BY DEF InventoryInv, InventoryTypeOK, UncrossedIsExact, AddsUp, Alone, InFlight, inventoryVars,
     rowVars

\* For any number of requests at a time, and wherever a transaction fails: an ingredient that
\* no two of them had in hand at a time has the stock its movements say
\* (inventory.service.ts:29-64 and 73-114).
THEOREM UncrossedStock == Spec => []UncrossedIsExact
  <1>1. Init => InventoryInv
    BY InventoryInitial DEF Init
  <1>2. InventoryInv /\ [Next]_vars => InventoryInv'
    BY PartSteps, InventoryStep, InventoryStays
  <1>3. InventoryInv => UncrossedIsExact
    BY DEF InventoryInv
  <1> QED
    BY <1>1, <1>2, <1>3, PTL DEF Spec

-----------------------------------------------------------------------------
\* Pushed batches

\* A batch of any length.
AnyPush == [phase: {"idle", "find", "upsert"}, items: Seq(SyncIds), applied: SUBSET SyncIds]

\* What a request is about to answer is recorded already.
SyncInv ==
  /\ push \in [Pushes -> AnyPush]
  /\ \A p \in Pushes : push[p].phase = "upsert" => push[p].items # <<>>
  /\ \A p \in Pushes : push[p].applied \subseteq recorded
  /\ AnsweredIsRecorded

LEMMA IdlePush ==
  /\ PushIdle \in AnyPush
  /\ PushIdle.phase = "idle" /\ PushIdle.items = <<>> /\ PushIdle.applied = {}
  <1>1. <<>> \in Seq(SyncIds)
    OBVIOUS
  <1> QED
    BY <1>1 DEF PushIdle, AnyPush

LEMMA AnsweredPush ==
  ASSUME NEW handler \in AnyPush, handler.items # <<>>, NEW s
  PROVE  /\ Answer(handler, s) \in AnyPush
         /\ Answer(handler, s).phase = "find"
         /\ Answer(handler, s).applied \subseteq handler.applied \cup {Head(handler.items)}
         /\ s # "APPLIED" => Answer(handler, s).applied = handler.applied
  <1>1. handler.items \in Seq(SyncIds) /\ handler.applied \subseteq SyncIds
    BY DEF AnyPush
  <1>2. Tail(handler.items) \in Seq(SyncIds) /\ Head(handler.items) \in SyncIds
    BY <1>1
  <1> QED
    BY <1>1, <1>2 DEF Answer, AnyPush

LEMMA BoundedBatch == BoundedSeq(SyncIds, MaxBatch) \subseteq Seq(SyncIds)
  BY BatchAssumption DEF BoundedSeq, SeqOf

\* A handler that goes on as the invariant says, and no row that is lost.
LEMMA PushSteps ==
  ASSUME SyncInv, NEW p \in Pushes, NEW handler \in AnyPush,
         push' = [push EXCEPT ![p] = handler], recorded \subseteq recorded',
         handler.phase = "upsert" => handler.items # <<>>,
         handler.applied \subseteq recorded',
         told' \subseteq told \cup push[p].applied
  PROVE  SyncInv'
  BY DEF SyncInv, AnsweredIsRecorded

LEMMA SyncStep ==
  ASSUME SyncInv, NEW p \in Pushes, SyncNext(p)
  PROVE  SyncInv'
  <1>0. push[p] \in AnyPush /\ push[p].applied \subseteq recorded
    BY DEF SyncInv
  <1>1. ASSUME NEW items \in BoundedSeq(SyncIds, MaxBatch), PushQueue(p, items)
        PROVE  SyncInv'
    <2> DEFINE handler == [PushIdle EXCEPT !.phase = "find", !.items = items]
    <2>1. items \in Seq(SyncIds)
      BY BoundedBatch
    <2>2. handler \in AnyPush /\ handler.phase = "find" /\ handler.applied = {}
      BY <2>1, IdlePush DEF AnyPush
    <2>3. push' = [push EXCEPT ![p] = handler] /\ recorded' = recorded /\ told' = told
      BY <1>1 DEF PushQueue
    <2> HIDE DEF handler
    <2> QED
      BY <2>2, <2>3, PushSteps
  <1>2. ASSUME NEW s, push[p].items # <<>>, s = "APPLIED" => Current(p) \in recorded',
               recorded \subseteq recorded', told' = told,
               push' = [push EXCEPT ![p] = Answer(push[p], s)]
        PROVE  SyncInv'
    BY <1>0, <1>2, AnsweredPush, PushSteps DEF Current
  <1>3. CASE FindUnique(p)
    <2>1. CASE AlreadyProcessed(Current(p))
      BY <1>2, <1>3, <2>1 DEF FindUnique, AlreadyProcessed
    <2>2. CASE ~ AlreadyProcessed(Current(p))
      <3> DEFINE handler == [push[p] EXCEPT !.phase = "upsert"]
      <3>1. handler \in AnyPush /\ handler.items = push[p].items /\ handler.applied = push[p].applied
        BY <1>0 DEF AnyPush
      <3>2. push' = [push EXCEPT ![p] = handler] /\ recorded' = recorded /\ told' = told
        BY <1>3, <2>2 DEF FindUnique
      <3>3. push[p].items # <<>>
        BY <1>3 DEF FindUnique
      <3> HIDE DEF handler
      <3> QED
        BY <1>0, <3>1, <3>2, <3>3, PushSteps
    <2> QED
      BY <2>1, <2>2
  <1>4. CASE RecordItem(p)
    <2>1. Current(p) \in recorded' /\ recorded \subseteq recorded' /\ told' = told
      BY <1>4 DEF RecordItem
    <2>2. push[p].items # <<>>
      BY <1>4 DEF RecordItem, SyncInv
    <2>3. push' = [push EXCEPT ![p] = Answer(push[p], "APPLIED")]
      BY <1>4 DEF RecordItem
    <2> QED
      BY <1>2, <2>1, <2>2, <2>3
  <1>5. CASE ItemFails(p)
    <2>1. push[p].items # <<>> /\ recorded \subseteq recorded' /\ told' = told
      BY <1>5 DEF ItemFails
    <2>2. push' = [push EXCEPT ![p] = Answer(push[p], "FAILED")]
      BY <1>5 DEF ItemFails, CaughtAs
    <2>3. "FAILED" = "APPLIED" => Current(p) \in recorded'
      OBVIOUS
    <2> QED
      BY <1>2, <2>1, <2>2, <2>3
  <1>6. CASE Respond(p) \/ Dropped(p)
    <2>1. push' = [push EXCEPT ![p] = PushIdle] /\ recorded' = recorded
      BY <1>6 DEF Respond, Dropped
    <2>2. told' \subseteq told \cup push[p].applied
      BY <1>6 DEF Respond, Dropped
    <2> QED
      BY <2>1, <2>2, IdlePush, PushSteps
  <1> QED
    BY <1>1, <1>3, <1>4, <1>5, <1>6 DEF SyncNext

\* For any number of requests with the same items: what was answered APPLIED is recorded
\* (sync.service.ts:26-52).
THEOREM AppliedIsRecorded == Spec => []AnsweredIsRecorded
  <1>1. Init => SyncInv
    BY IdlePush DEF Init, SyncInit, SyncInv, AnsweredIsRecorded
  <1>2. SyncInv /\ [Next]_vars => SyncInv'
    <2> SUFFICES ASSUME SyncInv, [Next]_vars PROVE SyncInv'
      OBVIOUS
    <2>1. CASE UNCHANGED syncVars
      BY <2>1 DEF SyncInv, AnsweredIsRecorded, syncVars
    <2> QED
      BY <2>1, PartSteps, SyncStep
  <1>3. SyncInv => AnsweredIsRecorded
    BY DEF SyncInv
  <1> QED
    BY <1>1, <1>2, <1>3, PTL DEF Spec

-----------------------------------------------------------------------------
\* Rights

\* A token that was signed of a row.
Signed(t) ==
  /\ t.user \in Users /\ t.role \in Roles /\ t.issued <= time
  /\ time < t.issued + AccessLife => inForce[t.user][t.role] >= t.issued

\* While a token may still be used, what it says is remembered to have been in force when it
\* was issued, or later.
AccessInv ==
  /\ AccessTypeOK
  /\ \A u \in Users : userRow[u].isActive => inForce[u][userRow[u].role] = time
  /\ \A d \in Devices : login[d] # NoTokens => Signed(login[d])
  /\ \A d \in Devices : held[d] # NoTokens => Signed(held[d])
  /\ passed # NoRequest => passed.user \in Users
  /\ RightsAreRecent

LEMMA AccessInitial == AccessInit => AccessInv
  BY AccessAssumption
  DEF AccessInit, AccessInv, AccessTypeOK, RightsAreRecent, NoTokens, Tokens, NoRequest, Never

\* What is recent enough to matter is not forgotten.
LEMMA RememberedRights ==
  ASSUME AccessTypeOK, NEW saved \in [Users -> [isActive: BOOLEAN, role: Roles]],
         NEW now \in time .. MaxTime
  PROVE  /\ Remembered(saved, now) \in [Users -> [Roles -> {Never} \cup 0 .. MaxTime]]
         /\ \A u \in Users : saved[u].isActive => Remembered(saved, now)[u][saved[u].role] = now
         /\ \A u \in Users, r \in Roles :
              inForce[u][r] + AccessLife > now => Remembered(saved, now)[u][r] \in {inForce[u][r], now}
  <1> USE AccessAssumption DEF AccessTypeOK, Never
  <1>1. ASSUME NEW u \in Users, NEW r \in Roles
        PROVE  /\ Remembered(saved, now)[u][r] \in {Never} \cup 0 .. MaxTime
               /\ inForce[u][r] + AccessLife > now => Remembered(saved, now)[u][r] \in {inForce[u][r], now}
    BY DEF Remembered
  <1>2. Remembered(saved, now) \in [Users -> [Roles -> {Never} \cup 0 .. MaxTime]]
    BY <1>1 DEF Remembered
  <1>3. ASSUME NEW u \in Users, saved[u].isActive
        PROVE  Remembered(saved, now)[u][saved[u].role] = now
    BY <1>3 DEF Remembered
  <1> QED
    BY <1>1, <1>2, <1>3

LEMMA StillSigned ==
  ASSUME AccessTypeOK, NEW t \in Tokens, Signed(t),
         NEW saved \in [Users -> [isActive: BOOLEAN, role: Roles]],
         time' \in time .. MaxTime, inForce' = Remembered(saved, time')
  PROVE  Signed(t)'
  <1>1. t.issued \in 0 .. MaxTime /\ t.user \in Users /\ t.role \in Roles
    BY DEF Tokens, Signed
  <1>2. time \in 0 .. MaxTime /\ time' \in 0 .. MaxTime /\ time <= time'
    BY AccessAssumption DEF AccessTypeOK
  <1>3. inForce[t.user][t.role] \in Int /\ inForce'[t.user][t.role] \in Int
    <2>1. /\ inForce \in [Users -> [Roles -> {Never} \cup 0 .. MaxTime]]
          /\ inForce' \in [Users -> [Roles -> {Never} \cup 0 .. MaxTime]]
      BY RememberedRights DEF AccessTypeOK
    <2>2. {Never} \cup 0 .. MaxTime \subseteq Int
      BY AccessAssumption DEF Never
    <2> QED
      BY <1>1, <2>1, <2>2
  <1>4. inForce[t.user][t.role] + AccessLife > time' =>
          inForce'[t.user][t.role] \in {inForce[t.user][t.role], time'}
    BY <1>1, RememberedRights
  <1> QED
    BY <1>1, <1>2, <1>3, <1>4, AccessAssumption DEF Signed

LEMMA ChangeUserStep ==
  ASSUME AccessInv, NEW u \in Users, NEW active \in BOOLEAN, NEW role \in Roles,
         ChangeUser(u, active, role)
  PROVE  AccessInv'
  <1>1. userRow' \in [Users -> [isActive: BOOLEAN, role: Roles]]
    BY DEF ChangeUser, AccessInv, AccessTypeOK
  <1>2. time' = time /\ time' \in time .. MaxTime /\ inForce' = Remembered(userRow', time')
    BY AccessAssumption DEF ChangeUser, AccessInv, AccessTypeOK
  <1>3. UNCHANGED <<login, held, passed>>
    BY DEF ChangeUser
  <1>4. AccessTypeOK'
    BY <1>1, <1>2, <1>3, RememberedRights DEF AccessInv, AccessTypeOK
  <1>5. \A v \in Users : userRow'[v].isActive => inForce'[v][userRow'[v].role] = time'
    BY <1>1, <1>2, RememberedRights DEF AccessInv
  <1>6. \A t \in Tokens : Signed(t) => Signed(t)'
    BY <1>1, <1>2, StillSigned DEF AccessInv
  <1>7. /\ \A d \in Devices : login'[d] # NoTokens => Signed(login[d])'
        /\ \A d \in Devices : held'[d] # NoTokens => Signed(held[d])'
    BY <1>3, <1>6 DEF AccessInv, AccessTypeOK, Signed
  <1>8. RightsAreRecent'
    <2> SUFFICES ASSUME passed # NoRequest
                 PROVE  \E r \in IF passed.gate = {} THEN Roles ELSE passed.gate :
                          inForce'[passed.user][r] + AccessLife > time
      BY <1>2, <1>3 DEF RightsAreRecent
    <2>1. PICK r \in IF passed.gate = {} THEN Roles ELSE passed.gate :
            inForce[passed.user][r] + AccessLife > time
      BY DEF AccessInv, RightsAreRecent
    <2>2. r \in Roles /\ passed.user \in Users
      BY <2>1, AccessAssumption DEF AccessInv, AccessTypeOK
    <2>3. inForce'[passed.user][r] \in {inForce[passed.user][r], time}
      BY <1>1, <1>2, <2>1, <2>2, RememberedRights DEF AccessInv
    <2>4. inForce[passed.user][r] \in Int /\ inForce'[passed.user][r] \in Int /\ time \in Int
      BY <1>4, <2>2, AccessAssumption DEF AccessInv, AccessTypeOK, Never
    <2> QED
      BY <2>1, <2>3, <2>4, AccessAssumption
  <1> QED
    BY <1>3, <1>4, <1>5, <1>7, <1>8 DEF AccessInv

LEMMA TickStep ==
  ASSUME AccessInv, Tick
  PROVE  AccessInv'
  <1>1. userRow' = userRow /\ userRow \in [Users -> [isActive: BOOLEAN, role: Roles]]
    BY DEF Tick, AccessInv, AccessTypeOK
  <1>2. time' = time + 1 /\ time' \in time .. MaxTime /\ time' \in 0 .. MaxTime
    BY AccessAssumption DEF Tick, AccessInv, AccessTypeOK
  <1>3. UNCHANGED <<login, held>> /\ passed' = NoRequest
    BY DEF Tick
  <1>4. inForce' = Remembered(userRow, time')
    BY DEF Tick
  <1>5. AccessTypeOK'
    BY <1>1, <1>2, <1>3, <1>4, RememberedRights DEF AccessInv, AccessTypeOK, NoRequest
  <1>6. \A v \in Users : userRow'[v].isActive => inForce'[v][userRow'[v].role] = time'
    BY <1>1, <1>2, <1>4, RememberedRights DEF AccessInv
  <1>7. \A t \in Tokens : Signed(t) => Signed(t)'
    BY <1>1, <1>2, <1>4, StillSigned DEF AccessInv
  <1>8. /\ \A d \in Devices : login'[d] # NoTokens => Signed(login[d])'
        /\ \A d \in Devices : held'[d] # NoTokens => Signed(held[d])'
    BY <1>3, <1>7 DEF AccessInv, AccessTypeOK, Signed
  <1> QED
    BY <1>3, <1>5, <1>6, <1>8 DEF AccessInv, RightsAreRecent

\* The steps of the code change no row, and sign what they have read.
LEMMA TokenStep ==
  ASSUME AccessInv, NEW d \in Devices, UNCHANGED <<userRow, time, inForce, passed>>,
         login' \in [Devices -> Tokens], held' \in [Devices -> Tokens],
         \A e \in Devices : login'[e] # NoTokens => login'[e] = login[e] \/ Signed(login'[e]),
         \A e \in Devices : held'[e] # NoTokens =>
           held'[e] = held[e] \/ held'[e] = login[e]
  PROVE  AccessInv'
  BY DEF AccessInv, AccessTypeOK, Signed, RightsAreRecent

LEMMA ReadRowStep ==
  ASSUME AccessInv, NEW d \in Devices, NEW u \in Users, userRow[u].isActive, ReadRow(d, u)
  PROVE  AccessInv'
  <1> USE AccessAssumption DEF AccessInv, AccessTypeOK
  <1>1. Payload(u) \in Tokens
    BY DEF Payload, Tokens
  <1>2. Signed(Payload(u))
    BY DEF Signed, Payload
  <1>3. login' = [login EXCEPT ![d] = Payload(u)] /\ UNCHANGED <<userRow, time, inForce, passed, held>>
    BY DEF ReadRow
  <1>4. login' \in [Devices -> Tokens]
    BY <1>1, <1>3
  <1>5. \A e \in Devices : login'[e] = login[e] \/ Signed(login'[e])
    BY <1>2, <1>3
  <1> QED
    BY <1>3, <1>4, <1>5, TokenStep

LEMMA AccessStep ==
  ASSUME AccessInv, AccessNext
  PROVE  AccessInv'
  <1>1. ASSUME NEW d \in Devices, NEW u \in Users, Login(d, u) \/ PinLogin(d, u)
        PROVE  AccessInv'
    BY <1>1, ReadRowStep DEF Login, PinLogin
  <1>2. ASSUME NEW d \in Devices, Refresh(d)
        PROVE  AccessInv'
    <2>1. held[d].user \in Users /\ userRow[held[d].user].isActive /\ ReadRow(d, held[d].user)
      BY <1>2 DEF Refresh, Valid, StillActive, AccessInv, Signed
    <2> QED
      BY <2>1, ReadRowStep
  <1>3. ASSUME NEW d \in Devices, GenerateTokens(d) \/ LoginFails(d)
        PROVE  AccessInv'
    <2>1. NoTokens \in Tokens
      BY AccessAssumption DEF NoTokens, Tokens
    <2>2. /\ login' \in [Devices -> Tokens]
          /\ \A e \in Devices : login'[e] # NoTokens => login'[e] = login[e]
      BY <1>3, <2>1 DEF GenerateTokens, LoginFails, AccessInv, AccessTypeOK
    <2>3. /\ held' \in [Devices -> Tokens]
          /\ \A e \in Devices : held'[e] = held[e] \/ held'[e] = login[e]
      BY <1>3 DEF GenerateTokens, LoginFails, AccessInv, AccessTypeOK
    <2>4. UNCHANGED <<userRow, time, inForce, passed>>
      BY <1>3 DEF GenerateTokens, LoginFails
    <2> QED
      BY <2>2, <2>3, <2>4, TokenStep
  <1>4. ASSUME NEW d \in Devices, NEW gate \in RoleGates, GuardedRequest(d, gate)
        PROVE  AccessInv'
    <2> DEFINE t == held[d]
    <2>1. Signed(t) /\ t \in Tokens /\ time < t.issued + AccessLife
      BY <1>4 DEF GuardedRequest, CanActivate, Valid, AccessInv, AccessTypeOK
    <2>2. inForce[t.user][t.role] \in Int /\ time \in Int /\ t.issued \in Int
      BY <2>1, AccessAssumption DEF Signed, AccessInv, AccessTypeOK, Never, Tokens
    <2>3. inForce[t.user][t.role] + AccessLife > time
      BY <2>1, <2>2, AccessAssumption DEF Signed
    <2>4. t.role \in IF gate = {} THEN Roles ELSE gate
      BY <1>4, <2>1 DEF GuardedRequest, HasRole, Signed
    <2>5. passed' = [user |-> t.user, gate |-> gate] /\ t.user \in Users
      BY <1>4, <2>1 DEF GuardedRequest, Signed
    <2>6. UNCHANGED <<userRow, time, login, held, inForce>>
      BY <1>4 DEF GuardedRequest
    <2>7. RightsAreRecent'
      BY <2>3, <2>4, <2>5, <2>6 DEF RightsAreRecent
    <2>8. AccessTypeOK'
      BY <2>5, <2>6 DEF AccessInv, AccessTypeOK
    <2> QED
      BY <2>5, <2>6, <2>7, <2>8 DEF AccessInv, Signed
  <1> QED
    BY <1>1, <1>2, <1>3, <1>4, ChangeUserStep, TickStep DEF AccessNext

LEMMA AccessStays ==
  ASSUME AccessInv, UNCHANGED accessVars
  PROVE  AccessInv'
  BY DEF AccessInv, AccessTypeOK, Signed, RightsAreRecent, accessVars

\* For any number of users, devices, routes and ticks: nobody passes the guards with rights
\* that ended longer ago than an access token lives (auth.service.ts:128-164).
THEOREM RecentRights == Spec => []RightsAreRecent
  <1>1. Init => AccessInv
    BY AccessInitial DEF Init
  <1>2. AccessInv /\ [Next]_vars => AccessInv'
    <2> SUFFICES ASSUME AccessInv, [Next]_vars PROVE AccessInv'
      OBVIOUS
    <2>1. CASE UNCHANGED accessVars
      BY <2>1, AccessStays
    <2> QED
      BY <2>1, PartSteps, AccessStep
  <1>3. AccessInv => RightsAreRecent
    BY DEF AccessInv
  <1> QED
    BY <1>1, <1>2, <1>3, PTL DEF Spec

-----------------------------------------------------------------------------
\* Drawers

\* A request that opens a drawer for a cashier is the only one, and there is no open drawer.
SoleOpener(t) == Opening(till[t].staffId) = {t} /\ ActiveSessions(till[t].staffId) = {}

\* As long as no two requests were opening a drawer of a cashier at the same time, the session
\* about to be opened will be the only one.
CashierInv ==
  /\ CashierTypeOK
  /\ OneOpenDrawer
  /\ \A t \in Terminals : till[t].phase = "open" <=> till[t].staffId \in Staff
  /\ \A t \in Terminals : till[t].staffId \in Staff \ overlapped => SoleOpener(t)
  /\ \A t \in Terminals : till[t].phase = "close" => till[t].sessionId \in opened

LEMMA IdleTill == TillIdle \in TillJob /\ TillIdle.phase = "idle" /\ TillIdle.staffId = NoOne
                  /\ NoOne \notin Staff
  BY SessionAssumption DEF TillIdle, TillJob

\* What a request that is over, or reads nothing of a cashier's drawer, does to the others.
LEMMA TillSettled ==
  ASSUME CashierInv, NEW t \in Terminals, NEW req \in TillJob, req.staffId = NoOne,
         till' = [till EXCEPT ![t] = req], overlapped' = overlapped,
         \A p \in Staff : ActiveSessions(p)' \subseteq ActiveSessions(p)
  PROVE  /\ till' \in [Terminals -> TillJob]
         /\ OneOpenDrawer'
         /\ \A u \in Terminals : till'[u].staffId \in Staff =>
              u # t /\ till'[u] = till[u]
         /\ \A u \in Terminals : till'[u].staffId \in Staff \ overlapped' => SoleOpener(u)'
  <1> USE IdleTill DEF CashierInv, CashierTypeOK
  <1>1. till' \in [Terminals -> TillJob] /\ OneOpenDrawer'
    BY DEF OneOpenDrawer
  <1>2. ASSUME NEW u \in Terminals, till'[u].staffId \in Staff
        PROVE  u # t /\ till'[u] = till[u]
    BY <1>2
  <1>3. ASSUME NEW u \in Terminals, till'[u].staffId \in Staff \ overlapped'
        PROVE  SoleOpener(u)'
    <2>1. u # t /\ till'[u] = till[u]
      BY <1>2, <1>3
    <2>2. PICK q \in Staff : q = till[u].staffId /\ q \notin overlapped
      BY <1>3, <2>1
    <2>3. Opening(q) = {u} /\ ActiveSessions(q) = {}
      BY <2>2 DEF SoleOpener
    <2>4. Opening(q)' = {u}
      <3>1. \A v \in Terminals : till'[v].staffId = q <=> till[v].staffId = q /\ v # t
        BY <2>1, <2>2, <2>3 DEF Opening
      <3> QED
        BY <2>1, <2>3, <3>1 DEF Opening
    <2>5. ActiveSessions(q)' = {}
      BY <2>3
    <2> QED
      BY <2>1, <2>2, <2>4, <2>5 DEF SoleOpener
  <1> QED
    BY <1>1, <1>2, <1>3

LEMMA OpenReadStep ==
  ASSUME CashierInv, NEW t \in Terminals, NEW p \in Staff, NEW f \in Floats, OpenRead(t, p, f)
  PROVE  CashierInv'
  <1> USE IdleTill, CashAssumption DEF CashierInv, CashierTypeOK
  <1> DEFINE req == [phase |-> "open", staffId |-> p, sessionId |-> NoOne, amount |-> f,
                     expected |-> 0]
  <1>1. req \in TillJob /\ req.phase = "open" /\ req.staffId = p
    BY DEF TillJob
  <1>2. /\ till[t] = TillIdle /\ till' = [till EXCEPT ![t] = req]
        /\ overlapped' = IF Opening(p) = {} THEN overlapped ELSE overlapped \cup {p}
        /\ UNCHANGED <<opened, session>> /\ ActiveSessions(p) = {}
    BY DEF OpenRead, MayOpen
  <1> HIDE DEF req
  <1>3. \A q \in Staff : ActiveSessions(q)' = ActiveSessions(q)
    BY <1>2 DEF ActiveSessions
  <1>4. OneOpenDrawer'
    BY <1>2, <1>3 DEF OneOpenDrawer
  <1>5. CashierTypeOK'
    BY <1>1, <1>2
  <1>6. Opening(p)' = Opening(p) \cup {t}
    BY <1>1, <1>2 DEF Opening
  <1>7. \A q \in Staff : q # p => Opening(q)' = Opening(q)
    BY <1>1, <1>2 DEF Opening
  <1>8. ASSUME NEW u \in Terminals, till'[u].staffId \in Staff \ overlapped'
        PROVE  SoleOpener(u)'
    <2>1. CASE u = t
      <3>1. till'[u].staffId = p /\ Opening(p) = {}
        BY <1>1, <1>2, <1>8, <2>1
      <3>2. Opening(p)' = {u} /\ ActiveSessions(p)' = {}
        BY <1>2, <1>3, <1>6, <2>1, <3>1
      <3> QED
        BY <3>1, <3>2 DEF SoleOpener
    <2>2. CASE u # t
      <3>1. till'[u] = till[u]
        BY <1>2, <2>2
      <3>2. PICK q \in Staff : q = till[u].staffId /\ q \notin overlapped
        BY <1>2, <1>8, <3>1
      <3>3. q # p
        <4>1. ASSUME q = p PROVE FALSE
          <5>1. u \in Opening(p)
            BY <3>2, <4>1 DEF Opening
          <5> QED
            BY <1>2, <1>8, <3>1, <3>2, <4>1, <5>1
        <4> QED
          BY <4>1
      <3>4. Opening(q) = {u} /\ ActiveSessions(q) = {}
        BY <3>2 DEF SoleOpener
      <3>5. Opening(q)' = {u} /\ ActiveSessions(q)' = {}
        BY <1>3, <1>7, <3>3, <3>4
      <3> QED
        BY <3>1, <3>2, <3>5 DEF SoleOpener
    <2> QED
      BY <2>1, <2>2
  <1> QED
    BY <1>1, <1>2, <1>4, <1>5, <1>8

LEMMA OpenCommitStep ==
  ASSUME CashierInv, NEW t \in Terminals, NEW s \in Sessions, OpenCommit(t, s)
  PROVE  CashierInv'
  <1> USE IdleTill DEF CashierInv, CashierTypeOK
  <1>1. PICK p \in Staff : p = till[t].staffId
    BY DEF OpenCommit
  <1> DEFINE row == NewSession(p, till[t].amount)
  <1>2. row \in SessionRow /\ row.staffId = p
    BY DEF NewSession, SessionRow, TillJob
  <1>3. /\ session' = [session EXCEPT ![s] = row] /\ opened' = opened \cup {s}
        /\ s \notin opened /\ till' = [till EXCEPT ![t] = TillIdle] /\ overlapped' = overlapped
    BY <1>1 DEF OpenCommit
  <1> HIDE DEF row
  <1>4. CashierTypeOK'
    BY <1>2, <1>3
  <1>5. \A r \in opened' : r # s => r \in opened /\ session'[r] = session[r]
    BY <1>3
  <1>6. ASSUME NEW q \in Staff, q # p, NEW r \in ActiveSessions(q)'
        PROVE  r \in ActiveSessions(q)
    <2>1. r \in opened' /\ session'[r].staffId = q /\ ~ session'[r].closed
      BY <1>6 DEF ActiveSessions
    <2>2. r # s
      BY <1>2, <1>3, <1>6, <2>1
    <2> QED
      BY <1>5, <2>1, <2>2 DEF ActiveSessions
  <1>7. ASSUME NEW r \in ActiveSessions(p)', r # s
        PROVE  r \in ActiveSessions(p)
    <2>1. r \in opened' /\ session'[r].staffId = p /\ ~ session'[r].closed
      BY <1>7 DEF ActiveSessions
    <2> QED
      BY <1>5, <1>7, <2>1 DEF ActiveSessions
  <1>8. p \notin overlapped => Opening(p) = {t} /\ ActiveSessions(p) = {}
    BY <1>1 DEF SoleOpener
  <1>9. ASSUME NEW q \in Staff \ overlapped, NEW r \in ActiveSessions(q)',
               NEW u \in ActiveSessions(q)'
        PROVE  r = u
    <2>1. CASE q = p
      <3>1. ActiveSessions(p) = {}
        BY <1>8, <2>1
      <3>2. r = s
        BY <1>7, <1>9, <2>1, <3>1
      <3>3. u = s
        BY <1>7, <1>9, <2>1, <3>1
      <3> QED
        BY <3>2, <3>3
    <2>2. CASE q # p
      <3>1. r \in ActiveSessions(q) /\ u \in ActiveSessions(q)
        BY <1>6, <1>9, <2>2
      <3> QED
        BY <3>1 DEF OneOpenDrawer
    <2> QED
      BY <2>1, <2>2
  <1>10. ASSUME NEW u \in Terminals, till'[u].staffId \in Staff \ overlapped'
         PROVE  SoleOpener(u)'
    <2>1. u # t /\ till'[u] = till[u]
      BY <1>3, <1>10
    <2>2. PICK q \in Staff : q = till[u].staffId /\ q \notin overlapped
      BY <1>3, <1>10, <2>1
    <2>3. Opening(q) = {u} /\ ActiveSessions(q) = {}
      BY <2>2 DEF SoleOpener
    <2>4. q # p
      BY <1>1, <2>1, <2>3 DEF Opening
    <2>5. Opening(q)' = {u}
      <3>1. \A v \in Terminals : till'[v].staffId = q <=> till[v].staffId = q
        BY <1>1, <1>3, <2>4
      <3> QED
        BY <2>3, <3>1 DEF Opening
    <2>6. ActiveSessions(q)' = {}
      BY <1>6, <2>3, <2>4
    <2> QED
      BY <2>1, <2>2, <2>5, <2>6 DEF SoleOpener
  <1>11. OneOpenDrawer'
    BY <1>3, <1>9 DEF OneOpenDrawer
  <1>12. \A u \in Terminals : till'[u].phase = "open" <=> till'[u].staffId \in Staff
    BY <1>3
  <1>13. \A u \in Terminals : till'[u].phase = "close" => till'[u].sessionId \in opened'
    BY <1>3
  <1> HIDE DEF CashierTypeOK
  <1> QED
    BY <1>4, <1>10, <1>11, <1>12, <1>13

LEMMA CashierStep ==
  ASSUME CashierInv, NEW t \in Terminals, CashierNext(t)
  PROVE  CashierInv'
  <1> USE IdleTill, CashAssumption DEF CashierInv, CashierTypeOK
  <1>1. ASSUME NEW s \in Sessions, NEW n \in Counts, CloseRead(t, s, n)
        PROVE  CashierInv'
    <2> DEFINE expected == ExpectedClosingCash(session[s].openingCash, session[s].cash)
               req == [phase |-> "close", staffId |-> NoOne, sessionId |-> s, amount |-> n,
                       expected |-> expected]
    <2>1. expected \in Int
      BY DEF ExpectedClosingCash, SessionRow, NoCash
    <2> HIDE DEF expected
    <2>2. req \in TillJob /\ req.phase = "close" /\ req.sessionId = s /\ req.staffId = NoOne
      BY <2>1 DEF TillJob
    <2>3. /\ till' = [till EXCEPT ![t] = req] /\ UNCHANGED <<opened, session, overlapped>>
          /\ s \in opened
      BY <1>1 DEF CloseRead, expected
    <2> HIDE DEF req
    <2>4. \A q \in Staff : ActiveSessions(q)' = ActiveSessions(q)
      BY <2>3 DEF ActiveSessions
    <2> QED
      <3>1. \A u \in Terminals : /\ till'[u].phase = "open" <=> till'[u].staffId \in Staff
                                 /\ till'[u].phase = "close" => till'[u].sessionId \in opened'
        BY <2>2, <2>3
      <3> QED
        BY <2>2, <2>3, <2>4, <3>1, TillSettled
  <1>2. CASE CloseCommit(t)
    <2> DEFINE s == till[t].sessionId
               row == ClosedWith(session[s], till[t].amount, till[t].expected)
    <2>1. s \in opened /\ s \in Sessions /\ row \in SessionRow /\ row.closed
      BY <1>2 DEF CloseCommit, ClosedWith, SessionRow, TillJob
    <2>2. /\ session' = [session EXCEPT ![s] = row] /\ opened' = opened
          /\ overlapped' = overlapped /\ till' = [till EXCEPT ![t] = TillIdle]
      BY <1>2 DEF CloseCommit
    <2> HIDE DEF row
    <2>3. \A q \in Staff : ActiveSessions(q)' \subseteq ActiveSessions(q)
      BY <2>1, <2>2 DEF ActiveSessions
    <2> QED
      <3>1. \A u \in Terminals : /\ till'[u].phase = "open" <=> till'[u].staffId \in Staff
                                 /\ till'[u].phase = "close" => till'[u].sessionId \in opened'
        BY <2>2
      <3> QED
        BY <2>1, <2>2, <2>3, <3>1, TillSettled
  <1>3. CASE TillAbort(t)
    <2>1. till' = [till EXCEPT ![t] = TillIdle] /\ UNCHANGED <<opened, session, overlapped>>
      BY <1>3 DEF TillAbort
    <2>2. \A q \in Staff : ActiveSessions(q)' = ActiveSessions(q)
      BY <2>1 DEF ActiveSessions
    <2> QED
      <3>1. \A u \in Terminals : /\ till'[u].phase = "open" <=> till'[u].staffId \in Staff
                                 /\ till'[u].phase = "close" => till'[u].sessionId \in opened'
        BY <2>1
      <3> QED
        BY <2>1, <2>2, <3>1, TillSettled
  <1> QED
    BY <1>1, <1>2, <1>3, OpenReadStep, OpenCommitStep DEF CashierNext

LEMMA CashierInitial == CashierInit => CashierInv
  BY IdleTill
  DEF CashierInit, CashierInv, CashierTypeOK, OneOpenDrawer, ActiveSessions, BlankSession,
      SessionRow

LEMMA CashierStays ==
  ASSUME CashierInv, UNCHANGED cashierVars
  PROVE  CashierInv'
  BY DEF CashierInv, CashierTypeOK, OneOpenDrawer, ActiveSessions, Opening, SoleOpener, cashierVars

\* For any number of requests at a time: a cashier of whom no two requests were opening a
\* drawer at the same time has one open drawer at most (cashier.service.ts:26-31).
THEOREM OneDrawer == Spec => []OneOpenDrawer
  <1>1. Init => CashierInv
    BY CashierInitial DEF Init
  <1>2. CashierInv /\ [Next]_vars => CashierInv'
    BY PartSteps, CashierStep, CashierStays
  <1>3. CashierInv => OneOpenDrawer
    BY DEF CashierInv
  <1> QED
    BY <1>1, <1>2, <1>3, PTL DEF Spec

-----------------------------------------------------------------------------
\* The cash drawer window

DrawerInv ==
  /\ payIns \in Nat /\ payOuts \in Nat /\ txAmount \in Nat /\ countedCash \in Nat
  /\ txType \in Kinds
  /\ payIns - payOuts = shift
  /\ ShiftReportAddsUp

LEMMA DrawerStep ==
  ASSUME DrawerInv, DrawerNext
  PROVE  DrawerInv'
  <1> USE DrawerAssumption DEF DrawerInv
  <1>1. CASE OpenDrawer \/ CloseDrawer
    BY <1>1 DEF OpenDrawer, CloseDrawer, FreshWindow, Kinds, ShiftReportAddsUp
  <1>2. ASSUME NEW t \in Tabs, SetActiveTab(t)
        PROVE  DrawerInv'
    BY <1>2 DEF SetActiveTab, ShiftReportAddsUp
  <1>3. ASSUME NEW kind \in Kinds, SetTxType(kind)
        PROVE  DrawerInv'
    BY <1>3 DEF SetTxType, ShiftReportAddsUp
  <1>4. ASSUME NEW amount \in MovementAmounts, SetTxAmount(amount)
        PROVE  DrawerInv'
    BY <1>4 DEF SetTxAmount, ShiftReportAddsUp
  <1>5. CASE HandleAddTx
    <2>1. payIns' \in Nat /\ payOuts' \in Nat /\ payIns' - payOuts' = shift'
      BY <1>5 DEF HandleAddTx, Kinds
    <2> QED
      BY <1>5, <2>1 DEF HandleAddTx, ShiftReportAddsUp
  <1>6. ASSUME NEW amount \in CountedAmounts, SetCountedCash(amount)
        PROVE  DrawerInv'
    BY <1>6 DEF SetCountedCash, ShiftReportAddsUp
  <1>7. CASE HandleCloseShift
    <2>1. Discrepancy = countedCash - (OpeningFloat + CashSales + shift)
      BY DEF Discrepancy, ExpectedCash, ExpectedClosingCash, SessionMovements, Movements
    <2>2. ShiftReportAddsUp'
      BY <1>7, <2>1 DEF HandleCloseShift, ShiftReportAddsUp
    <2> QED
      BY <1>7, <2>2 DEF HandleCloseShift, FreshWindow, Kinds
  <1> QED
    BY <1>1, <1>2, <1>3, <1>4, <1>5, <1>6, <1>7 DEF DrawerNext

\* For any float, sales and amounts, a shift is closed with all movements that were recorded
\* (CashDrawerModal.tsx:57-94).
THEOREM ShiftsAddUp == Spec => []ShiftReportAddsUp
  <1>1. Init => DrawerInv
    BY DrawerAssumption DEF Init, DrawerInit, DrawerInv, ShiftReportAddsUp, Kinds
  <1>2. DrawerInv /\ [Next]_vars => DrawerInv'
    <2> SUFFICES ASSUME DrawerInv, [Next]_vars PROVE DrawerInv'
      OBVIOUS
    <2>1. CASE UNCHANGED drawerVars
      BY <2>1 DEF DrawerInv, ShiftReportAddsUp, drawerVars
    <2> QED
      BY <2>1, PartSteps, DrawerStep
  <1>3. DrawerInv => ShiftReportAddsUp
    BY DEF DrawerInv
  <1> QED
    BY <1>1, <1>2, <1>3, PTL DEF Spec

-----------------------------------------------------------------------------
\* The table window

TableWindowInv == target = picked /\ ConfirmedAsPicked

\* On a plan of any size a target is confirmed for the mode it was picked in
\* (TableModal.tsx:66-87).
THEOREM TargetsArePicked == Spec => []ConfirmedAsPicked
  <1>1. Init => TableWindowInv
    BY DEF Init, TableWindowInit, TableWindowInv, ConfirmedAsPicked, NothingConfirmed
  <1>2. TableWindowInv /\ [Next]_vars => TableWindowInv'
    <2> SUFFICES ASSUME TableWindowInv, [Next]_vars PROVE TableWindowInv'
      OBVIOUS
    <2> USE DEF TableWindowInv, ConfirmedAsPicked
    <2>1. CASE UNCHANGED tableVars
      BY <2>1 DEF tableVars
    <2>2. CASE OpenTables \/ CloseTables \/ HandleExecuteAction
      BY <2>2 DEF OpenTables, CloseTables, HandleExecuteAction, FreshTableWindow
    <2>3. ASSUME NEW m \in Modes, SetActionType(m)
          PROVE  TableWindowInv'
      BY <2>3 DEF SetActionType, TargetIn
    <2>4. ASSUME NEW f \in Floors, SetSelectedFloor(f)
          PROVE  TableWindowInv'
      BY <2>4 DEF SetSelectedFloor
    <2>5. ASSUME NEW t \in AllTables, SwitchTable(t) \/ PickTarget(t)
          PROVE  TableWindowInv'
      BY <2>5 DEF SwitchTable, PickTarget, FreshTableWindow
    <2> QED
      BY <2>1, <2>2, <2>3, <2>4, <2>5, PartSteps DEF TableWindowNext
  <1>3. TableWindowInv => ConfirmedAsPicked
    BY DEF TableWindowInv
  <1> QED
    BY <1>1, <1>2, <1>3, PTL DEF Spec

-----------------------------------------------------------------------------
\* The floor plan of the admin site

AdminTablesInv == AdminTablesTypeOK /\ BillOfGuests

LEMMA UpdatedTable ==
  ASSUME NEW data \in TableData, NEW status \in PlanStatus
  PROVE  /\ Updated(data, status) \in TableData
         /\ Updated(data, status).status = status
         /\ Updated(data, status).bill = (data.bill /\ status # "AVAILABLE")
  BY DEF Updated, BillAfter, TableData, PlanStatus

LEMMA UpdateStep ==
  ASSUME AdminTablesInv, NEW t \in PlanTables, NEW status \in PlanStatus,
         UpdateTableStatus(t, status), party' \in [PlanTables -> 0 .. MaxParties],
         \A u \in PlanTables : party'[u] = party[u] \/ ~ plan[u].bill
  PROVE  AdminTablesInv'
  <1> USE DEF AdminTablesInv, AdminTablesTypeOK
  <1> DEFINE after == Updated(plan[t], status)
  <1>1. /\ after \in TableData /\ after.status = status
        /\ after.bill = (plan[t].bill /\ status # "AVAILABLE")
    BY UpdatedTable
  <1>2. plan' = [plan EXCEPT ![t] = after] /\ planFloor' = planFloor
    BY DEF UpdateTableStatus
  <1> HIDE DEF after
  <1>3. /\ planSelected' \in [table: PlanTables \cup {NoSelection}, status: PlanStatus]
        /\ planSelected'.table = planSelected.table
        /\ planSelected'.status = IF planSelected.table = t THEN status ELSE planSelected.status
    BY DEF UpdateTableStatus
  <1>4. AdminTablesTypeOK'
    BY <1>1, <1>2, <1>3
  <1>5. \A u \in PlanTables : plan'[u].bill => plan'[u].status # "AVAILABLE" /\ party'[u] = 0
    <2> SUFFICES ASSUME NEW u \in PlanTables, plan'[u].bill
                 PROVE  plan'[u].status # "AVAILABLE" /\ party'[u] = 0
      OBVIOUS
    <2>1. plan[u].bill
      BY <1>1, <1>2
    <2>2. party'[u] = 0 /\ plan[u].status # "AVAILABLE"
      BY <2>1 DEF BillOfGuests
    <2> QED
      BY <1>1, <1>2, <2>2
  <1>6. planSelected'.table # NoSelection =>
          planSelected'.status = plan'[planSelected'.table].status
    BY <1>1, <1>2, <1>3 DEF BillOfGuests
  <1> QED
    BY <1>4, <1>5, <1>6 DEF BillOfGuests

LEMMA AdminTablesStep ==
  ASSUME AdminTablesInv, AdminTablesNext
  PROVE  AdminTablesInv'
  <1>1. ASSUME NEW t \in PlanTables, SeatGuests(t)
        PROVE  AdminTablesInv'
    <2>1. ~ plan[t].bill
      BY <1>1 DEF SeatGuests, AdminTablesInv, BillOfGuests
    <2>2. party' = [party EXCEPT ![t] = @ + 1] /\ party[t] < MaxParties
      BY <1>1 DEF SeatGuests
    <2>3. party' \in [PlanTables -> 0 .. MaxParties]
      BY <2>2, PlanTablesAssumption DEF AdminTablesInv, AdminTablesTypeOK
    <2>4. \A u \in PlanTables : party'[u] = party[u] \/ ~ plan[u].bill
      BY <2>1, <2>2 DEF AdminTablesInv, AdminTablesTypeOK
    <2> QED
      BY <1>1, <2>3, <2>4, UpdateStep DEF SeatGuests, PlanStatus
  <1>2. ASSUME NEW t \in PlanTables, Reserve(t) \/ CleanTable(t) \/ FreeTable(t)
        PROVE  AdminTablesInv'
    <2>1. UNCHANGED party /\ \E status \in PlanStatus : UpdateTableStatus(t, status)
      BY <1>2 DEF Reserve, CleanTable, FreeTable, PlanStatus
    <2> QED
      BY <2>1, UpdateStep DEF AdminTablesInv, AdminTablesTypeOK
  <1>3. ASSUME NEW t \in PlanTables, SelectTable(t)
        PROVE  AdminTablesInv'
    <2>1. plan[t].status \in PlanStatus
      BY DEF AdminTablesInv, AdminTablesTypeOK, TableData
    <2> QED
      BY <1>3, <2>1 DEF SelectTable, AdminTablesInv, AdminTablesTypeOK, BillOfGuests
  <1>4. ASSUME NEW f \in PlanFloors, SelectFloor(f)
        PROVE  AdminTablesInv'
    BY <1>4 DEF SelectFloor, AdminTablesInv, AdminTablesTypeOK, BillOfGuests
  <1> QED
    BY <1>1, <1>2, <1>3, <1>4 DEF AdminTablesNext

LEMMA AdminTablesInitial == AdminTablesInit => AdminTablesInv
  <1> SUFFICES ASSUME AdminTablesInit PROVE AdminTablesInv
    OBVIOUS
  <1>1. \A t \in PlanTables :
          plan[t] \in TableData /\ (plan[t].bill => plan[t].status # "AVAILABLE")
    <2> SUFFICES ASSUME NEW t \in PlanTables
                 PROVE  plan[t] \in TableData /\ (plan[t].bill => plan[t].status # "AVAILABLE")
      OBVIOUS
    <2> DEFINE taken == Taken(InitialStatus[t])
    <2>1. plan[t] = [status |-> InitialStatus[t], order |-> taken, since |-> taken,
                     bill |-> taken]
      BY DEF AdminTablesInit
    <2>2. InitialStatus[t] \in PlanStatus /\ taken \in BOOLEAN
      BY PlanTablesAssumption DEF Taken
    <2>3. taken => InitialStatus[t] # "AVAILABLE"
      BY DEF Taken
    <2> QED
      BY <2>1, <2>2, <2>3 DEF TableData
  <1>2. plan \in [PlanTables -> TableData]
    BY <1>1 DEF AdminTablesInit
  <1>3. planFloor \in PlanFloors
    BY PlanTablesAssumption DEF AdminTablesInit, PlanFloors
  <1>4. /\ planSelected \in [table: PlanTables \cup {NoSelection}, status: PlanStatus]
        /\ planSelected.table = NoSelection
    BY DEF AdminTablesInit, NobodySelected, PlanStatus
  <1>5. party \in [PlanTables -> 0 .. MaxParties] /\ \A t \in PlanTables : party[t] = 0
    BY PlanTablesAssumption DEF AdminTablesInit
  <1> QED
    BY <1>1, <1>2, <1>3, <1>4, <1>5 DEF AdminTablesInv, AdminTablesTypeOK, BillOfGuests

\* On a plan of any size, and for any number of parties: a bill is never on a table that is
\* offered as free, and never on one where a later party sits; a table being cleaned may keep
\* the bill of the party that left (tables/page.tsx:192-217).
THEOREM BillsAreOfGuests == Spec => []BillOfGuests
  <1>1. Init => AdminTablesInv
    BY AdminTablesInitial DEF Init
  <1>2. AdminTablesInv /\ [Next]_vars => AdminTablesInv'
    <2> SUFFICES ASSUME AdminTablesInv, [Next]_vars PROVE AdminTablesInv'
      OBVIOUS
    <2>1. CASE UNCHANGED planVars
      BY <2>1 DEF AdminTablesInv, AdminTablesTypeOK, BillOfGuests, planVars
    <2> QED
      BY <2>1, PartSteps, AdminTablesStep
  <1>3. AdminTablesInv => BillOfGuests
    BY DEF AdminTablesInv
  <1> QED
    BY <1>1, <1>2, <1>3, PTL DEF Spec

-----------------------------------------------------------------------------
\* Backups

\* A file is as old as its backup at most.
FilesDated(f) == \A d \in Days : f[d] # NoFile => d <= f[d].since /\ f[d].since <= today

Exists(d) == plain[d] # NoFile \/ cipher[d] # NoFile

\* What the scripts count on.
JobInv ==
  /\ job.day <= today /\ latest <= today
  /\ job.step = "idle" => job.day = 0
  /\ job.step # "idle" => job.day \in Days /\ job.day # latest /\ today <= job.day + Retention
  /\ job.step # "idle" => Exists(job.day)
  /\ job.step = "remove" => cipher[job.day] # NoFile

\* An archive that is being restored is not pruned while it is the latest or of today.
RestoreInv ==
  /\ restore.step = "idle" => restore = NoRestore
  /\ restore.step # "idle" => restore.day \in Days /\ restore.day <= today
  /\ restore.step # "idle" /\ restore.input = "cipher" /\ restore.day \in {latest, job.day, today}
       => cipher[restore.day] # NoFile

BackupInv ==
  /\ BackupTypeOK
  /\ FilesDated(plain) /\ FilesDated(cipher)
  /\ JobInv /\ RestoreInv
  /\ ArchiveKept

\* A step that moves neither script on to other files, and removes none.
LEMMA FilesStay ==
  ASSUME BackupInv, BackupTypeOK', today' = today, latest' = latest,
         job'.day = job.day, (job'.step = "idle") = (job.step = "idle"),
         job'.step = "remove" => cipher'[job.day] # NoFile,
         restore' = restore,
         FilesDated(plain)', FilesDated(cipher)',
         \A d \in Days : plain[d] # NoFile => plain'[d] # NoFile,
         \A d \in Days : cipher[d] # NoFile => cipher'[d] # NoFile
  PROVE  BackupInv'
  <1>1. \A d \in Days : Exists(d) => Exists(d)'
    BY DEF Exists
  <1>2. JobInv'
    BY <1>1 DEF BackupInv, JobInv
  <1>3. RestoreInv'
    BY DEF BackupInv, RestoreInv
  <1>4. ArchiveKept'
    BY DEF BackupInv, ArchiveKept, BackupTypeOK
  <1> QED
    BY <1>2, <1>3, <1>4 DEF BackupInv

LEMMA WrittenFile ==
  ASSUME BackupInv, NEW c \in Content
  PROVE  Written(c) \in File /\ Written(c) # NoFile /\ Written(c).since = today
  BY BackupAssumption DEF BackupInv, BackupTypeOK, Written, File, NoFile, Days

LEMMA DatedFiles ==
  ASSUME BackupInv, NEW f \in [Days -> File], FilesDated(f), NEW d \in Days, d <= today,
         NEW c \in Content
  PROVE  \A e \in Days : [f EXCEPT ![d] = Written(c)][e] # NoFile =>
           /\ e <= [f EXCEPT ![d] = Written(c)][e].since
           /\ [f EXCEPT ![d] = Written(c)][e].since <= today
  <1>1. today \in Int
    BY BackupAssumption DEF BackupInv, BackupTypeOK, Days
  <1>2. Written(c).since = today
    BY WrittenFile
  <1>3. ASSUME NEW e \in Days, e # d
        PROVE  [f EXCEPT ![d] = Written(c)][e] = f[e]
    BY <1>3
  <1>4. [f EXCEPT ![d] = Written(c)][d] = Written(c)
    OBVIOUS
  <1> QED
    BY <1>1, <1>2, <1>3, <1>4 DEF FilesDated

\* The steps of backup-db.sh that write or hash one of the two files of the backup.
LEMMA WritingSteps ==
  ASSUME BackupInv, DumpCompletes \/ HashPlain \/ Encrypt \/ Rehash \/ Upload
  PROVE  BackupInv'
  <1> DEFINE d == job.day
  <1>1. d \in Days /\ plain \in [Days -> File] /\ cipher \in [Days -> File]
    <2>1. job.step # "idle"
      BY DEF DumpCompletes, HashPlain, Dumped, Encrypt, Rehash, Upload
    <2> QED
      BY <2>1 DEF BackupInv, BackupTypeOK, JobInv
  <1>2. d <= today /\ today \in Days
    BY DEF BackupInv, BackupTypeOK, JobInv
  <1>3. UNCHANGED <<today, sealed, restore, latest, replayed>>
    BY DEF DumpCompletes, HashPlain, Encrypt, Rehash, Upload, history
  <1>4. /\ job' \in [step: Steps, day: {0} \cup Days] /\ job'.day = d
        /\ job.step # "idle" /\ job'.step # "idle"
    <2>1. job.step # "idle" /\ job \in [step: Steps, day: {0} \cup Days]
      BY DEF DumpCompletes, HashPlain, Dumped, Encrypt, Rehash, Upload, BackupInv, BackupTypeOK
    <2>2. \/ job' = job
          \/ \E s \in Steps \ {"idle"} : job' = [job EXCEPT !.step = s]
      BY DEF DumpCompletes, HashPlain, Encrypt, Rehash, Upload, Goto, Steps
    <2> QED
      BY <2>1, <2>2
  <1>5. \/ UNCHANGED <<plain, cipher>>
        \/ /\ \E c \in Content : plain' = [plain EXCEPT ![d] = Written(c)]
           /\ UNCHANGED cipher
        \/ /\ \E c \in Content : cipher' = [cipher EXCEPT ![d] = Written(c)]
           /\ UNCHANGED plain
    BY <1>1 DEF DumpCompletes, HashPlain, Encrypt, Rehash, Upload, Content, File, files
  <1>6. checksum' \in [Days -> Hash]
    BY <1>1, <1>2 DEF DumpCompletes, HashPlain, Encrypt, Rehash, Upload, HashOf, Hash, File, files,
       BackupInv, BackupTypeOK
  <1>7. /\ plain' \in [Days -> File] /\ cipher' \in [Days -> File]
        /\ \A e \in Days : plain[e] # NoFile => plain'[e] # NoFile
        /\ \A e \in Days : cipher[e] # NoFile => cipher'[e] # NoFile
    BY <1>1, <1>5, WrittenFile
  <1>8. FilesDated(plain)' /\ FilesDated(cipher)'
    BY <1>1, <1>2, <1>3, <1>5, DatedFiles DEF FilesDated, BackupInv
  <1>9. job'.step = "remove" => cipher'[d] # NoFile
    <2>1. CASE Encrypt
      <3>1. ASSUME job'.step = "remove"
            PROVE  cipher' = [cipher EXCEPT ![d] = Written(plain[d].content)]
        BY <2>1, <3>1 DEF Encrypt
      <3> QED
        BY <1>1, <3>1, WrittenFile DEF File
    <2>2. CASE DumpCompletes \/ HashPlain \/ Rehash \/ Upload
      BY <2>2 DEF DumpCompletes, HashPlain, Rehash, Upload, Goto, BackupInv, BackupTypeOK
    <2> QED
      BY <2>1, <2>2
  <1>10. BackupTypeOK'
    BY <1>3, <1>4, <1>6, <1>7 DEF BackupInv, BackupTypeOK
  <1> QED
    BY <1>3, <1>4, <1>7, <1>8, <1>9, <1>10, FilesStay

LEMMA StartBackupStep ==
  ASSUME BackupInv, StartBackup
  PROVE  BackupInv'
  <1>1. today \in Days /\ plain \in [Days -> File] /\ cipher \in [Days -> File]
    BY DEF BackupInv, BackupTypeOK
  <1>2. plain' = [plain EXCEPT ![today] = Written("part")]
    BY DEF StartBackup
  <1>3. UNCHANGED <<today, sealed, cipher, checksum, restore, latest, replayed>>
    BY DEF StartBackup, history
  <1>4. job' = [step |-> "dump", day |-> today]
    BY DEF StartBackup
  <1>5. plain[today] = NoFile /\ cipher[today] = NoFile
    BY DEF StartBackup
  <1>6. Written("part") \in File /\ Written("part") # NoFile /\ Written("part").since = today
    BY WrittenFile DEF Content
  <1>7. BackupTypeOK'
    BY <1>1, <1>2, <1>3, <1>4, <1>6 DEF BackupInv, BackupTypeOK, Steps
  <1>8. FilesDated(plain)' /\ FilesDated(cipher)'
    BY <1>1, <1>2, <1>3, <1>6 DEF FilesDated, BackupInv, Days
  <1>9. today # latest
    BY <1>1, <1>5 DEF BackupInv, ArchiveKept, Days
  <1>10. JobInv'
    BY <1>1, <1>2, <1>3, <1>4, <1>6, <1>9, BackupAssumption DEF BackupInv, JobInv, Exists, Days
  <1>11. RestoreInv'
    BY <1>3, <1>4 DEF BackupInv, RestoreInv
  <1>12. ArchiveKept'
    BY <1>1, <1>2, <1>3, <1>6 DEF BackupInv, BackupTypeOK, ArchiveKept
  <1> QED
    BY <1>7, <1>8, <1>10, <1>11, <1>12 DEF BackupInv

LEMMA RemovePlainStep ==
  ASSUME BackupInv, RemovePlain
  PROVE  BackupInv'
  <1>1. job.day \in Days /\ plain \in [Days -> File] /\ job.day # latest
    BY DEF RemovePlain, BackupInv, BackupTypeOK, JobInv
  <1>2. plain' = [plain EXCEPT ![job.day] = NoFile]
    BY DEF RemovePlain
  <1>3. UNCHANGED <<today, sealed, cipher, checksum, restore, latest, replayed>>
    BY DEF RemovePlain, history
  <1>4. job'.step = "rehash" /\ job'.day = job.day /\ job' \in [step: Steps, day: {0} \cup Days]
    BY DEF RemovePlain, Goto, BackupInv, BackupTypeOK, Steps
  <1>5. cipher[job.day] # NoFile
    BY DEF RemovePlain, BackupInv, JobInv
  <1>6. NoFile \in File
    BY DEF NoFile, File, Content
  <1>7. BackupTypeOK'
    BY <1>1, <1>2, <1>3, <1>4, <1>6 DEF BackupInv, BackupTypeOK
  <1>8. FilesDated(plain)' /\ FilesDated(cipher)'
    BY <1>1, <1>2, <1>3 DEF FilesDated, BackupInv
  <1>9. JobInv'
    BY <1>1, <1>3, <1>4, <1>5 DEF RemovePlain, BackupInv, JobInv, Exists
  <1>10. RestoreInv'
    BY <1>3, <1>4 DEF BackupInv, RestoreInv
  <1>11. ArchiveKept'
    BY <1>1, <1>2, <1>3 DEF BackupInv, BackupTypeOK, ArchiveKept
  <1> QED
    BY <1>7, <1>8, <1>9, <1>10, <1>11 DEF BackupInv

\* No file of the backup that prunes is old enough to be removed by it.
LEMMA PruneStep ==
  ASSUME BackupInv, Prune
  PROVE  BackupInv'
  <1> DEFINE d == job.day
             Pruned(f, none) == [e \in Days |-> IF Outdated(f[e].since) THEN none ELSE f[e]]
  <1>1. /\ d \in Days /\ d <= today /\ today <= d + Retention /\ Exists(d)
        /\ today \in Days /\ plain \in [Days -> File] /\ cipher \in [Days -> File]
    BY DEF Prune, BackupInv, BackupTypeOK, JobInv
  <1>2. /\ plain' = Pruned(plain, NoFile) /\ cipher' = Pruned(cipher, NoFile)
        /\ checksum' = Pruned(checksum, NoHash)
    BY DEF Prune
  <1>3. latest' = d /\ job' = Asleep
    BY DEF Prune
  <1>4. UNCHANGED <<today, sealed, restore, replayed>>
    BY DEF Prune
  <1>5. NoFile \in File /\ NoHash \in Hash
    BY DEF NoFile, File, NoHash, Hash, Content
  <1>6. /\ \A e \in Days : plain'[e] \in {NoFile, plain[e]} /\ cipher'[e] \in {NoFile, cipher[e]}
        /\ plain' \in [Days -> File] /\ cipher' \in [Days -> File] /\ checksum' \in [Days -> Hash]
    BY <1>1, <1>2, <1>5 DEF BackupInv, BackupTypeOK
  <1>7. ASSUME NEW e \in Days, e = d \/ e = today
        PROVE  /\ plain[e] # NoFile => plain'[e] = plain[e]
               /\ cipher[e] # NoFile => cipher'[e] = cipher[e]
    <2>1. today <= e + Retention
      BY <1>1, <1>7, BackupAssumption DEF Days
    <2>2. plain[e].since \in Int /\ cipher[e].since \in Int
      BY <1>1, BackupAssumption DEF File, Days
    <2>3. plain[e] # NoFile => ~ Outdated(plain[e].since)
      BY <1>1, <2>1, <2>2, BackupAssumption DEF Outdated, BackupInv, FilesDated, Days
    <2>4. cipher[e] # NoFile => ~ Outdated(cipher[e].since)
      BY <1>1, <2>1, <2>2, BackupAssumption DEF Outdated, BackupInv, FilesDated, Days
    <2> QED
      BY <1>2, <2>3, <2>4
  <1>8. BackupTypeOK'
    BY <1>1, <1>3, <1>4, <1>6 DEF BackupInv, BackupTypeOK, Asleep, Steps
  <1>9. FilesDated(plain)' /\ FilesDated(cipher)'
    BY <1>4, <1>6 DEF FilesDated, BackupInv
  <1>10. JobInv'
    BY <1>1, <1>3, <1>4 DEF JobInv, Asleep, Days
  <1>11. RestoreInv'
    <2> SUFFICES ASSUME restore.step # "idle", restore.input = "cipher",
                        restore.day \in {d, 0, today}
                 PROVE  cipher'[restore.day] # NoFile
      BY <1>3, <1>4 DEF BackupInv, RestoreInv, Asleep
    <2>1. restore.day \in Days /\ restore.day \in {d, today} /\ cipher[restore.day] # NoFile
      BY DEF BackupInv, RestoreInv, Days
    <2> QED
      BY <1>7, <2>1
  <1>12. ArchiveKept'
    BY <1>1, <1>3, <1>7 DEF ArchiveKept, Exists
  <1> QED
    BY <1>8, <1>9, <1>10, <1>11, <1>12 DEF BackupInv

LEMMA BackupFailsStep ==
  ASSUME BackupInv, BackupFails
  PROVE  BackupInv'
  <1>1. UNCHANGED <<today, sealed, plain, cipher, checksum, restore, latest, replayed>>
    BY DEF BackupFails, files, history
  <1>2. job' = Asleep
    BY DEF BackupFails
  <1>3. BackupTypeOK'
    BY <1>1, <1>2 DEF BackupInv, BackupTypeOK, Asleep, Steps
  <1>4. JobInv'
    BY <1>1, <1>2 DEF BackupInv, BackupTypeOK, JobInv, Asleep, Days
  <1>5. RestoreInv'
    BY <1>1, <1>2 DEF BackupInv, RestoreInv, Asleep, Days
  <1> QED
    BY <1>1, <1>3, <1>4, <1>5 DEF BackupInv, FilesDated, ArchiveKept

\* What happens outside the scripts removes no file.
LEMMA OutsideSteps ==
  ASSUME BackupInv, NextDay \/ \E d \in Days : Decay(d)
  PROVE  BackupInv'
  <1>1. CASE NextDay
    <2>1. today' = today + 1 /\ today' \in Days /\ today \in Days
      BY <1>1, BackupAssumption DEF NextDay, BackupInv, BackupTypeOK, Days
    <2>2. UNCHANGED <<sealed, plain, cipher, checksum, job, restore, latest, replayed>>
      BY <1>1 DEF NextDay, files, history
    <2>3. BackupTypeOK'
      BY <2>1, <2>2 DEF BackupInv, BackupTypeOK
    <2>4. FilesDated(plain)' /\ FilesDated(cipher)'
      <3>1. ASSUME NEW f \in [Days -> File], FilesDated(f)
            PROVE  \A d \in Days : f[d] # NoFile => d <= f[d].since /\ f[d].since <= today'
        <4>1. \A d \in Days : f[d].since \in Int
          BY BackupAssumption DEF File, Days
        <4>2. today \in Int /\ today' = today + 1
          BY <2>1, BackupAssumption DEF Days
        <4> QED
          BY <3>1, <4>1, <4>2 DEF FilesDated
      <3>2. plain \in [Days -> File] /\ cipher \in [Days -> File]
        BY DEF BackupInv, BackupTypeOK
      <3>3. /\ \A d \in Days : plain[d] # NoFile => d <= plain[d].since /\ plain[d].since <= today'
            /\ \A d \in Days : cipher[d] # NoFile =>
                 d <= cipher[d].since /\ cipher[d].since <= today'
        BY <3>1, <3>2 DEF BackupInv
      <3> QED
        BY <2>2, <3>3 DEF FilesDated
    <2>5. JobInv'
      BY <1>1, <2>1, <2>2, BackupAssumption
      DEF NextDay, BackupInv, BackupTypeOK, JobInv, Exists, Asleep, Days
    <2>6. RestoreInv'
      BY <2>1, <2>2, BackupAssumption DEF BackupInv, RestoreInv, Days
    <2> QED
      BY <2>2, <2>3, <2>4, <2>5, <2>6 DEF BackupInv, ArchiveKept
  <1>2. ASSUME NEW d \in Days, Decay(d)
        PROVE  BackupInv'
    <2>1. UNCHANGED <<today, sealed, checksum, job, restore, latest, replayed>>
      BY <1>2 DEF Decay, history
    <2>2. plain \in [Days -> File] /\ cipher \in [Days -> File]
      BY DEF BackupInv, BackupTypeOK
    <2>3. ASSUME NEW f \in [Days -> File], NEW g, f[d].content = "whole",
                 g = [f EXCEPT ![d] = [f[d] EXCEPT !.content = "damaged"]]
          PROVE  /\ g \in [Days -> File]
                 /\ \A e \in Days : g[e].since = f[e].since
                 /\ \A e \in Days : g[e] # NoFile <=> f[e] # NoFile
      BY <2>3 DEF File, NoFile, Content
    <2>4. /\ plain' \in [Days -> File] /\ cipher' \in [Days -> File]
          /\ \A e \in Days : plain'[e].since = plain[e].since /\ cipher'[e].since = cipher[e].since
          /\ \A e \in Days : plain'[e] # NoFile <=> plain[e] # NoFile
          /\ \A e \in Days : cipher'[e] # NoFile <=> cipher[e] # NoFile
      BY <1>2, <2>2, <2>3 DEF Decay
    <2>5. BackupTypeOK'
      BY <2>1, <2>4 DEF BackupInv, BackupTypeOK
    <2>6. FilesDated(plain)' /\ FilesDated(cipher)'
      <3>1. \A e \in Days : plain'[e] # NoFile => e <= plain'[e].since /\ plain'[e].since <= today
        BY <2>4 DEF BackupInv, FilesDated
      <3>2. \A e \in Days : cipher'[e] # NoFile => e <= cipher'[e].since /\ cipher'[e].since <= today
        BY <2>4 DEF BackupInv, FilesDated
      <3>3. FilesDated(plain)'
        BY <2>1, <3>1 DEF FilesDated
      <3>4. FilesDated(cipher)'
        BY <2>1, <3>2 DEF FilesDated
      <3> QED
        BY <3>3, <3>4
    <2>7. job'.step = "remove" => cipher'[job.day] # NoFile
      BY <2>1, <2>4 DEF BackupInv, JobInv
    <2> QED
      BY <2>1, <2>4, <2>5, <2>6, <2>7, FilesStay
  <1> QED
    BY <1>1, <1>2

\* A step of restore-db.sh that removes no file.
LEMMA RestoreMoves ==
  ASSUME BackupInv, UNCHANGED <<today, sealed, cipher, checksum, job, latest>>,
         restore' \in [step: {"idle", "confirm", "decrypt", "replay"}, day: {0} \cup Days,
                       input: {"plain", "cipher"}, verified: BOOLEAN],
         replayed' \in [input: {"plain", "cipher"}, verified: BOOLEAN, content: Content],
         RestoreInv', plain' \in [Days -> File], FilesDated(plain)',
         \A d \in Days : Exists(d) => Exists(d)'
  PROVE  BackupInv'
  <1>1. BackupTypeOK'
    BY DEF BackupInv, BackupTypeOK
  <1>2. JobInv'
    BY DEF BackupInv, JobInv
  <1>3. ArchiveKept'
    BY DEF BackupInv, BackupTypeOK, ArchiveKept, Exists
  <1>4. FilesDated(cipher)'
    BY DEF BackupInv, FilesDated
  <1> QED
    BY <1>1, <1>2, <1>3, <1>4 DEF BackupInv

LEMMA RestoreSteps ==
  ASSUME BackupInv,
         \/ \E d \in Days, input \in {"plain", "cipher"} : StartRestore(d, input)
         \/ Confirm \/ Decrypt \/ Replay \/ RestoreFails
  PROVE  BackupInv'
  <1> DEFINE RestoreType == [step: {"idle", "confirm", "decrypt", "replay"}, day: {0} \cup Days,
                             input: {"plain", "cipher"}, verified: BOOLEAN]
             ReplayedType == [input: {"plain", "cipher"}, verified: BOOLEAN, content: Content]
  <1>0. /\ plain \in [Days -> File] /\ cipher \in [Days -> File] /\ today \in Days
        /\ restore \in RestoreType /\ replayed \in ReplayedType
    BY DEF BackupInv, BackupTypeOK
  <1>1. ASSUME NEW d \in Days, NEW input \in {"plain", "cipher"}, StartRestore(d, input)
        PROVE  BackupInv'
    <2>1. UNCHANGED <<today, sealed, plain, cipher, checksum, job, latest>>
      BY <1>1 DEF StartRestore, files
    <2>2. restore' = [step |-> "confirm", day |-> d, input |-> input,
                      verified |-> HasChecksum(d, input)]
      BY <1>1 DEF StartRestore
    <2>3. restore' \in RestoreType
      BY <2>2 DEF HasChecksum
    <2>4. replayed' \in ReplayedType
      BY <1>1 DEF StartRestore, NothingReplayed, Content
    <2>5. input = "cipher" => cipher[d] # NoFile
      BY <1>1 DEF StartRestore, Input
    <2>6. d <= today
      <3>1. PICK f \in {plain, cipher} : f[d] # NoFile
        BY <1>1 DEF StartRestore, Input
      <3>2. d <= f[d].since /\ f[d].since <= today
        BY <3>1 DEF BackupInv, FilesDated
      <3>3. f[d].since \in Int /\ d \in Int /\ today \in Int
        BY <1>0, <3>1, BackupAssumption DEF File, Days
      <3> QED
        BY <3>2, <3>3
    <2>7. RestoreInv'
      BY <2>1, <2>2, <2>5, <2>6 DEF RestoreInv
    <2>8. FilesDated(plain)' /\ \A e \in Days : Exists(e) => Exists(e)'
      BY <2>1 DEF BackupInv, FilesDated, Exists
    <2> QED
      BY <1>0, <2>1, <2>3, <2>4, <2>7, <2>8, RestoreMoves
  <1>2. ASSUME UNCHANGED <<today, sealed, plain, cipher, checksum, job, latest, replayed>>,
               restore' \in RestoreType,
               \/ restore' = NoRestore
               \/ /\ restore'.day = restore.day /\ restore'.input = restore.input
                  /\ restore'.step # "idle" /\ restore.step # "idle"
        PROVE  BackupInv'
    <2>1. RestoreInv'
      BY <1>2 DEF BackupInv, RestoreInv, NoRestore
    <2>2. FilesDated(plain)' /\ \A e \in Days : Exists(e) => Exists(e)'
      BY <1>2 DEF BackupInv, FilesDated, Exists
    <2> QED
      BY <1>0, <1>2, <2>1, <2>2, RestoreMoves
  <1>3. CASE Confirm
    <2>1. UNCHANGED <<today, sealed, plain, cipher, checksum, job, latest, replayed>>
      BY <1>3 DEF Confirm, files, history
    <2>2. restore' \in RestoreType /\ restore'.day = restore.day /\ restore'.input = restore.input
      BY <1>0, <1>3 DEF Confirm
    <2>3. restore'.step # "idle" /\ restore.step # "idle"
      BY <1>0, <1>3 DEF Confirm
    <2> QED
      BY <1>2, <2>1, <2>2, <2>3
  <1>4. CASE RestoreFails
    <2>1. UNCHANGED <<today, sealed, plain, cipher, checksum, job, latest, replayed>>
      BY <1>4 DEF RestoreFails, files, history
    <2>2. restore' = NoRestore /\ NoRestore \in RestoreType
      BY <1>4 DEF RestoreFails, NoRestore
    <2> QED
      BY <1>2, <2>1, <2>2
  <1>5. CASE Decrypt
    <2> DEFINE d == restore.day
    <2>1. UNCHANGED <<today, sealed, cipher, checksum, job, latest, replayed>>
      BY <1>5 DEF Decrypt, history
    <2>2. d \in Days /\ d <= today /\ restore.step # "idle"
      BY <1>5 DEF Decrypt, BackupInv, RestoreInv
    <2>3. PICK c \in Content : plain' = [plain EXCEPT ![d] = Written(c)]
      BY <1>5 DEF Decrypt, Content
    <2>4. /\ plain' \in [Days -> File] /\ FilesDated(plain)'
          /\ \A e \in Days : Exists(e) => Exists(e)'
      <3>1. plain' \in [Days -> File] /\ \A e \in Days : Exists(e) => Exists(e)'
        BY <1>0, <2>1, <2>2, <2>3, WrittenFile DEF Exists
      <3>2. FilesDated(plain)'
        BY <1>0, <2>1, <2>2, <2>3, DatedFiles DEF BackupInv, FilesDated
      <3> QED
        BY <3>1, <3>2
    <2>5. /\ restore' \in RestoreType /\ restore'.day = d /\ restore'.input = restore.input
          /\ restore'.step # "idle"
      BY <1>0, <1>5 DEF Decrypt
    <2>6. RestoreInv'
      BY <2>1, <2>2, <2>5 DEF BackupInv, RestoreInv
    <2> QED
      BY <1>0, <2>1, <2>4, <2>5, <2>6, RestoreMoves
  <1>6. CASE Replay
    <2> DEFINE d == restore.day
    <2>1. UNCHANGED <<today, sealed, cipher, checksum, job, latest>>
      BY <1>6 DEF Replay
    <2>2. d \in Days /\ d <= today /\ restore.step # "idle"
      BY <1>6 DEF Replay, BackupInv, RestoreInv
    <2>3. restore' = NoRestore /\ NoRestore \in RestoreType /\ RestoreInv'
      BY <1>6 DEF Replay, NoRestore, RestoreInv
    <2>4. replayed' \in ReplayedType
      BY <1>0, <1>6, <2>2 DEF Replay, File
    <2>5. NoFile \in File
      BY DEF NoFile, File, Content
    <2>6. \/ plain' = plain
          \/ restore.input = "cipher" /\ plain' = [plain EXCEPT ![d] = NoFile]
      BY <1>6 DEF Replay
    <2>7. plain' \in [Days -> File] /\ FilesDated(plain)'
      BY <1>0, <2>1, <2>2, <2>5, <2>6 DEF BackupInv, FilesDated
    <2>8. restore.input = "cipher" /\ d \in {latest, job.day} => cipher'[d] # NoFile
      BY <2>1, <2>2 DEF BackupInv, RestoreInv
    <2>9. BackupTypeOK'
      BY <2>1, <2>3, <2>4, <2>7 DEF BackupInv, BackupTypeOK
    <2>10. JobInv'
      BY <1>0, <2>1, <2>6, <2>8 DEF BackupInv, JobInv, Exists
    <2>11. ArchiveKept'
      BY <1>0, <2>1, <2>6, <2>8 DEF BackupInv, BackupTypeOK, ArchiveKept
    <2> QED
      BY <2>1, <2>3, <2>7, <2>9, <2>10, <2>11 DEF BackupInv, FilesDated
  <1> QED
    BY <1>1, <1>3, <1>4, <1>5, <1>6

LEMMA BackupStep ==
  ASSUME BackupInv, BackupNext
  PROVE  BackupInv'
  BY OutsideSteps, WritingSteps, StartBackupStep, RemovePlainStep, PruneStep, BackupFailsStep,
     RestoreSteps DEF BackupNext

LEMMA BackupInitial == BackupInit => BackupInv
  <1> SUFFICES ASSUME BackupInit PROVE BackupInv
    OBVIOUS
  <1>1. 1 \in Days
    BY BackupAssumption DEF Days
  <1>2. NoFile \in File /\ NoHash \in Hash
    BY DEF NoFile, File, NoHash, Hash, Content
  <1>3. BackupTypeOK
    BY <1>1, <1>2
    DEF BackupInit, BackupTypeOK, Asleep, NoRestore, NothingReplayed, Steps, Content
  <1>4. FilesDated(plain) /\ FilesDated(cipher)
    BY DEF BackupInit, FilesDated
  <1>5. JobInv /\ RestoreInv /\ ArchiveKept
    BY DEF BackupInit, JobInv, RestoreInv, ArchiveKept, Asleep, NoRestore
  <1> QED
    BY <1>3, <1>4, <1>5 DEF BackupInv

LEMMA BackupStays ==
  ASSUME BackupInv, UNCHANGED backupVars
  PROVE  BackupInv'
  BY DEF BackupInv, BackupTypeOK, FilesDated, JobInv, RestoreInv, ArchiveKept, Exists, backupVars

\* For any retention and number of days, the latest archive outlives every later run that
\* fails, and every restoration (backup-db.sh:70-71).
THEOREM LatestArchive == Spec => []ArchiveKept
  <1>1. Init => BackupInv
    BY BackupInitial DEF Init
  <1>2. BackupInv /\ [Next]_vars => BackupInv'
    <2> SUFFICES ASSUME BackupInv, [Next]_vars PROVE BackupInv'
      OBVIOUS
    <2>1. CASE UNCHANGED backupVars
      BY <2>1, BackupStays
    <2> QED
      BY <2>1, PartSteps, BackupStep
  <1>3. BackupInv => ArchiveKept
    BY DEF BackupInv
  <1> QED
    BY <1>1, <1>2, <1>3, PTL DEF Spec

\* Without encryption there is one file per backup, its checksum was made of a whole dump, and
\* it is not replaced by another while it is restored.
PlainInv ==
  ~ sealed =>
    /\ \A d \in Days : cipher[d] = NoFile /\ checksum[d].about # "cipher"
    /\ \A d \in Days : checksum[d].about = "plain" => checksum[d].of = "whole"
    /\ \A d \in Days : plain[d].content = "none" => plain[d] = NoFile
    /\ job.step \notin {"encrypt", "remove", "rehash"}
    /\ job.step = "hash" => plain[job.day].content = "whole"
    /\ restore.step # "idle" => restore.input = "plain" /\ restore.step # "decrypt"
    /\ restore.step # "idle" /\ restore.day = today => plain[today] # NoFile
    /\ restore.step # "idle" /\ restore.verified =>
         plain[restore.day].content \in {"none", "whole"}
    /\ replayed.verified => replayed.content = "whole"

LEMMA PlainWritingSteps ==
  ASSUME BackupInv, PlainInv, ~ sealed, NEW d \in Days, d = job.day,
         DumpCompletes \/ HashPlain \/ Upload
  PROVE  PlainInv'
  <1>1. UNCHANGED <<today, sealed, cipher, restore, replayed>>
    BY DEF DumpCompletes, HashPlain, Upload, files, history
  <1>2. plain \in [Days -> File] /\ checksum \in [Days -> Hash] /\ today \in Days
    BY DEF BackupInv, BackupTypeOK
  <1>3. CASE DumpCompletes
    <2>1. /\ plain' = [plain EXCEPT ![d] = Written("whole")] /\ checksum' = checksum
          /\ job'.step = "hash" /\ job'.day = d
      BY <1>3 DEF DumpCompletes, Goto, BackupInv, BackupTypeOK
    <2>2. Written("whole").content = "whole" /\ Written("whole") # NoFile
      BY DEF Written, NoFile
    <2> QED
      BY <1>1, <1>2, <2>1, <2>2 DEF PlainInv
  <1>4. CASE HashPlain
    <2>1. checksum' = [checksum EXCEPT ![d] = HashOf("plain", plain[d])]
      BY <1>4 DEF HashPlain
    <2>2. plain[d].content = "whole"
      BY <1>4 DEF HashPlain, Dumped, PlainInv
    <2>3. plain' = plain /\ job'.step = "upload" /\ job'.day = d
      BY <1>4 DEF HashPlain, Goto, BackupInv, BackupTypeOK
    <2>4. HashOf("plain", plain[d]).about = "plain" /\ HashOf("plain", plain[d]).of = "whole"
      BY <2>2 DEF HashOf
    <2> QED
      BY <1>1, <1>2, <2>1, <2>3, <2>4 DEF PlainInv
  <1>5. CASE Upload
    <2>1. UNCHANGED <<plain, checksum>> /\ job'.step = "prune"
      BY <1>5 DEF Upload, Goto, files, BackupInv, BackupTypeOK
    <2> QED
      BY <1>1, <2>1 DEF PlainInv
  <1> QED
    BY <1>3, <1>4, <1>5

LEMMA PlainPruneStep ==
  ASSUME BackupInv, PlainInv, ~ sealed, Prune
  PROVE  PlainInv'
  <1>1. /\ today \in Days /\ plain \in [Days -> File] /\ cipher \in [Days -> File]
        /\ checksum \in [Days -> Hash]
    BY DEF BackupInv, BackupTypeOK
  <1>2. UNCHANGED <<today, sealed, restore, replayed>> /\ job' = Asleep
    BY DEF Prune
  <1>3. /\ plain' = [e \in Days |-> IF Outdated(plain[e].since) THEN NoFile ELSE plain[e]]
        /\ cipher' = [e \in Days |-> IF Outdated(cipher[e].since) THEN NoFile ELSE cipher[e]]
        /\ checksum' = [e \in Days |-> IF Outdated(checksum[e].since) THEN NoHash ELSE checksum[e]]
    BY DEF Prune
  <1>4. \A e \in Days : /\ plain'[e] \in {NoFile, plain[e]}
                        /\ cipher'[e] \in {NoFile, cipher[e]}
                        /\ checksum'[e] \in {NoHash, checksum[e]}
    BY <1>3
  <1>5. plain[today] # NoFile => plain'[today] = plain[today]
    <2>1. plain[today].since \in Int /\ today \in Int
      BY <1>1, BackupAssumption DEF File, Days
    <2>2. plain[today] # NoFile => ~ Outdated(plain[today].since)
      BY <1>1, <2>1, BackupAssumption DEF Outdated, BackupInv, FilesDated
    <2> QED
      BY <1>1, <1>3, <2>2
  <1>6. NoFile.content = "none" /\ NoHash.about = "none"
    BY DEF NoFile, NoHash
  <1>7. restore.step # "idle" => restore.day \in Days
    BY DEF BackupInv, RestoreInv
  <1> QED
    BY <1>1, <1>2, <1>4, <1>5, <1>6, <1>7 DEF PlainInv, Asleep

LEMMA PlainOtherSteps ==
  ASSUME BackupInv, PlainInv, ~ sealed,
         NextDay \/ (\E d \in Days : Decay(d)) \/ StartBackup \/ BackupFails
  PROVE  PlainInv'
  <1>1. plain \in [Days -> File] /\ cipher \in [Days -> File] /\ today \in Days
    BY DEF BackupInv, BackupTypeOK
  <1>2. restore.step # "idle" => restore.day \in Days /\ restore.day <= today
    BY DEF BackupInv, RestoreInv
  <1>3. CASE NextDay
    <2>1. UNCHANGED <<sealed, plain, cipher, checksum, job, restore, replayed>> /\ today' = today + 1
      BY <1>3 DEF NextDay, files, history
    <2>2. restore.step # "idle" => restore.day # today'
      BY <1>1, <1>2, <2>1, BackupAssumption DEF Days
    <2> QED
      BY <2>1, <2>2 DEF PlainInv
  <1>4. ASSUME NEW d \in Days, Decay(d)
        PROVE  PlainInv'
    <2>1. UNCHANGED <<today, sealed, checksum, job, restore, replayed>>
      BY <1>4 DEF Decay, history
    <2>2. restore = NoRestore /\ job.day # d
      BY <1>4 DEF Decay
    <2>3. cipher[d].content # "whole"
      BY DEF PlainInv, NoFile
    <2>4. cipher' = cipher /\ plain' = [plain EXCEPT ![d] = [plain[d] EXCEPT !.content = "damaged"]]
      BY <1>4, <2>3 DEF Decay
    <2>5. /\ plain'[d].content = "damaged"
          /\ \A e \in Days \ {d} : plain'[e] = plain[e]
      BY <1>1, <2>4 DEF File
    <2>6. job.step = "hash" => job.day \in Days
      BY DEF BackupInv, JobInv
    <2> QED
      BY <2>1, <2>2, <2>4, <2>5, <2>6 DEF PlainInv, NoRestore
  <1>5. CASE StartBackup
    <2>1. /\ UNCHANGED <<today, sealed, cipher, checksum, restore, replayed>>
          /\ plain' = [plain EXCEPT ![today] = Written("part")] /\ plain[today] = NoFile
          /\ job' = [step |-> "dump", day |-> today]
      BY <1>5 DEF StartBackup, history
    <2>2. restore.step # "idle" => restore.day # today
      BY <2>1 DEF PlainInv
    <2>3. Written("part").content = "part"
      BY DEF Written
    <2> QED
      BY <1>1, <1>2, <2>1, <2>2, <2>3 DEF PlainInv
  <1>6. CASE BackupFails
    <2>1. UNCHANGED <<today, sealed, plain, cipher, checksum, restore, replayed>> /\ job' = Asleep
      BY <1>6 DEF BackupFails, files, history
    <2> QED
      BY <2>1 DEF PlainInv, Asleep
  <1> QED
    BY <1>3, <1>4, <1>5, <1>6

LEMMA PlainRestoreSteps ==
  ASSUME BackupInv, PlainInv, ~ sealed,
         \/ \E d \in Days, input \in {"plain", "cipher"} : StartRestore(d, input)
         \/ Confirm \/ Replay \/ RestoreFails
  PROVE  PlainInv'
  <1>1. ASSUME NEW d \in Days, NEW input \in {"plain", "cipher"}, StartRestore(d, input)
        PROVE  PlainInv'
    <2>1. UNCHANGED <<today, sealed, plain, cipher, checksum, job>>
      BY <1>1 DEF StartRestore, files
    <2>2. restore' = [step |-> "confirm", day |-> d, input |-> input,
                      verified |-> HasChecksum(d, input)]
      BY <1>1 DEF StartRestore
    <2>3. replayed'.verified = FALSE
      BY <1>1 DEF StartRestore, NothingReplayed
    <2>4. input = "plain" /\ plain[d] # NoFile
      BY <1>1 DEF StartRestore, Input, PlainInv
    <2>5. ASSUME HasChecksum(d, input)
          PROVE  plain[d].content = "whole"
      <3>1. checksum[d].about = "plain" /\ checksum[d].of = "whole"
        BY <2>5 DEF HasChecksum, PlainInv, BackupInv, BackupTypeOK, Hash
      <3>2. Input(d, checksum[d].about).content = checksum[d].of
        BY <1>1, <2>5 DEF StartRestore, ChecksumHolds
      <3> QED
        BY <3>1, <3>2 DEF Input
    <2> QED
      BY <2>1, <2>2, <2>3, <2>4, <2>5 DEF PlainInv
  <1>2. CASE Confirm
    <2>1. UNCHANGED <<today, sealed, plain, cipher, checksum, job, replayed>>
      BY <1>2 DEF Confirm, files, history
    <2>2. restore.step = "confirm" /\ restore.input = "plain"
      BY <1>2 DEF Confirm, PlainInv
    <2>3. restore' = [restore EXCEPT !.step = "replay"]
      BY <1>2, <2>2 DEF Confirm
    <2>4. /\ restore'.step = "replay" /\ restore'.day = restore.day
          /\ restore'.input = restore.input /\ restore'.verified = restore.verified
      BY <2>3 DEF BackupInv, BackupTypeOK
    <2> QED
      BY <2>1, <2>2, <2>4 DEF PlainInv
  <1>3. CASE Replay
    <2> DEFINE d == restore.day
    <2>1. UNCHANGED <<today, sealed, cipher, checksum, job>> /\ restore' = NoRestore
      BY <1>3 DEF Replay
    <2>2. restore.step = "replay" /\ restore.input = "plain" /\ d \in Days
      BY <1>3 DEF Replay, PlainInv, BackupInv, RestoreInv
    <2>3. plain' = plain /\ plain[d] # NoFile
      BY <1>3, <2>2 DEF Replay
    <2>4. replayed'.verified = restore.verified /\ replayed'.content = plain[d].content
      BY <1>3 DEF Replay
    <2>5. restore.verified => plain[d].content = "whole"
      BY <2>2, <2>3 DEF PlainInv
    <2> QED
      BY <2>1, <2>3, <2>4, <2>5 DEF PlainInv, NoRestore
  <1>4. CASE RestoreFails
    <2>1. UNCHANGED <<today, sealed, plain, cipher, checksum, job, replayed>> /\ restore' = NoRestore
      BY <1>4 DEF RestoreFails, files, history
    <2> QED
      BY <2>1 DEF PlainInv, NoRestore
  <1> QED
    BY <1>1, <1>2, <1>3, <1>4

LEMMA PlainStep ==
  ASSUME BackupInv, PlainInv, BackupNext
  PROVE  PlainInv'
  <1>1. sealed' = sealed
    BY DEF BackupNext, NextDay, Decay, StartBackup, DumpCompletes, HashPlain, Encrypt, RemovePlain,
       Rehash, Upload, Prune, BackupFails, StartRestore, Confirm, Decrypt, Replay, RestoreFails
  <1>2. CASE sealed
    BY <1>1, <1>2 DEF PlainInv
  <1>3. CASE ~ sealed
    <2>1. ~ Encrypt /\ ~ RemovePlain /\ ~ Rehash /\ ~ Decrypt
      BY <1>3 DEF Encrypt, RemovePlain, Rehash, Decrypt, PlainInv
    <2>2. DumpCompletes \/ HashPlain \/ Upload => job.day \in Days
      BY DEF DumpCompletes, HashPlain, Dumped, Upload, BackupInv, JobInv
    <2> QED
      BY <1>3, <2>1, <2>2, PlainWritingSteps, PlainPruneStep, PlainOtherSteps, PlainRestoreSteps
      DEF BackupNext
  <1> QED
    BY <1>2, <1>3

\* Without encryption a restoration that was verified has replayed the whole dump
\* (restore-db.sh:31-38).
THEOREM VerifiedRestoration == Spec => []VerifiedIsWhole
  <1>1. Init => BackupInv /\ PlainInv
    <2> SUFFICES ASSUME BackupInit PROVE PlainInv
      BY BackupInitial DEF Init
    <2> QED
      BY DEF BackupInit, PlainInv, NoFile, NoHash, Asleep, NoRestore, NothingReplayed
  <1>2. BackupInv /\ PlainInv /\ [Next]_vars => (BackupInv /\ PlainInv)'
    <2> SUFFICES ASSUME BackupInv, PlainInv, [Next]_vars PROVE (BackupInv /\ PlainInv)'
      OBVIOUS
    <2>1. CASE UNCHANGED backupVars
      BY <2>1, BackupStays DEF PlainInv, backupVars
    <2> QED
      BY <2>1, PartSteps, BackupStep, PlainStep
  <1>3. PlainInv => VerifiedIsWhole
    BY DEF PlainInv, VerifiedIsWhole
  <1> QED
    BY <1>1, <1>2, <1>3, PTL DEF Spec

-----------------------------------------------------------------------------
\* Seed

\* The statement that writes the tables, behind which only one run ever gets.
Gate == 11

LEMMA ScriptFacts ==
  /\ DOMAIN Script = 1 .. 22 /\ Len(Script) = 22
  /\ Script[Gate].how = "unique"
  /\ \A k \in 1 .. 22 : k > Gate => Script[k].how # "upsert"
  /\ Guarded = Gate .. 22
  <1> USE DEF Script, SeedRoles, SeedRestaurant, SeedPrinters, SeedStations, SeedStaff, SeedFloors,
      SeedCategories, SeedMenu, SeedIngredients, SeedSuppliers, SeedCustomers, SeedOrders,
      SeedExpenses, Upsert, Create, CreateUnique
  <1>1. DOMAIN Script = 1 .. 22 /\ Len(Script) = 22
    OBVIOUS
  <1>2. Script[Gate] = CreateUnique("Table")
    BY DEF Gate
  <1>3. \A k \in 1 .. 22 : k < Gate => Script[k].model # "Table"
    BY DEF Gate
  <1>4. \A k \in 1 .. 22 : k > Gate => Script[k].how # "upsert"
    BY DEF Gate
  <1> HIDE DEF Script, SeedRoles, SeedRestaurant, SeedPrinters, SeedStations, SeedStaff, SeedFloors,
      SeedCategories, SeedMenu, SeedIngredients, SeedSuppliers, SeedCustomers, SeedOrders,
      SeedExpenses, Upsert, Create, CreateUnique
  <1>5. Script[Gate].how = "unique" /\ Script[Gate].model = "Table"
    BY <1>2 DEF CreateUnique
  <1>6. Guarded = Gate .. 22
    BY <1>1, <1>3, <1>5 DEF Guarded, Gate
  <1> QED
    BY <1>1, <1>4, <1>5, <1>6

\* A run behind the gate is the only one, and nothing behind the statement it is at is
\* written; a run has written every statement before the one it is at.
SeedInv ==
  /\ SeedTypeOK
  /\ seeded <= 1
  /\ seeded = 1 => \A k \in 1 .. 22 : rows[k] >= 1
  /\ seeded = 1 => \A s \in Seeders : at[s] <= Gate
  /\ rows[Gate] = 0 => seeded = 0 /\ (\A s \in Seeders : at[s] <= Gate)
                       /\ \A k \in Gate .. 22 : rows[k] = 0
  /\ \A s, r \in Seeders : at[s] > Gate /\ at[r] > Gate => s = r
  /\ \A s \in Seeders : \A k \in 1 .. 22 :
       /\ k < at[s] => rows[k] >= 1
       /\ at[s] > Gate /\ k >= at[s] => rows[k] = 0
  /\ \A k \in Gate .. 22 : rows[k] <= 1

LEMMA SeedInitial == SeedInit => SeedInv
  BY ScriptFacts, SeedAssumption DEF SeedInit, SeedInv, SeedTypeOK, Gate

LEMMA SeedStep ==
  ASSUME SeedInv, NEW s \in Seeders, SeedNext(s)
  PROVE  SeedInv'
  <1> USE SeedAssumption, ScriptFacts DEF SeedInv, SeedTypeOK, Gate
  <1>1. CASE StartSeed(s)
    BY <1>1 DEF StartSeed
  <1>2. CASE SeedFails(s)
    BY <1>2 DEF SeedFails
  <1>3. CASE SeedCompletes(s)
    BY <1>3 DEF SeedCompletes
  <1>4. CASE Statement(s)
    <2> DEFINE k == at[s]
    <2>1. /\ k \in 1 .. 22 /\ rows[k] \in Nat
          /\ rows' = [rows EXCEPT ![k] = RowsAfter(k)]
          /\ at' = [at EXCEPT ![s] = k + 1]
          /\ UNCHANGED seeded
      BY <1>4 DEF Statement
    <2>2. /\ RowsAfter(k) \in 0 .. MaxCopies /\ RowsAfter(k) >= 1
          /\ k >= Gate => rows[k] = 0 /\ RowsAfter(k) = 1
      <3>1. CASE Script[k].how = "upsert"
        BY <1>4, <2>1, <3>1 DEF Statement, RowsAfter
      <3>2. CASE Script[k].how # "upsert"
        BY <1>4, <2>1, <3>2 DEF Statement, RowsAfter, Accepted
      <3> QED
        BY <3>1, <3>2
    <2> QED
      BY <2>1, <2>2
  <1> QED
    BY <1>1, <1>2, <1>3, <1>4 DEF SeedNext

LEMMA SeedStays ==
  ASSUME SeedInv, UNCHANGED seedVars
  PROVE  SeedInv'
  BY DEF SeedInv, SeedTypeOK, seedVars

\* However often and however many at a time the seed script runs, and wherever a run dies: the
\* tables and what is created after them are written once at most, at most one run comes to its
\* end, and every statement has its rows then (seed.ts:344).
THEOREM SeededOneTime == Spec => []SeededOnce
  <1>1. Init => SeedInv
    BY SeedInitial DEF Init
  <1>2. SeedInv /\ [Next]_vars => SeedInv'
    <2> SUFFICES ASSUME SeedInv, [Next]_vars PROVE SeedInv'
      OBVIOUS
    <2>1. CASE UNCHANGED seedVars
      BY <2>1, SeedStays
    <2> QED
      BY <2>1, PartSteps, SeedStep
  <1>3. SeedInv => SeededOnce
    BY ScriptFacts DEF SeedInv, SeedTypeOK, SeededOnce, Gate
  <1> QED
    BY <1>1, <1>2, <1>3, PTL DEF Spec

-----------------------------------------------------------------------------
\* The POS page

LEMMA TerminalStays ==
  ASSUME TerminalInv, UNCHANGED terminalVars
  PROVE  TerminalInv'
  BY DEF TerminalInv, TerminalTypeOK, OutboxSound, PaidLast, Payments, terminalVars

\* The page keeps its invariant, whatever is clicked behind whatever dialog.
THEOREM TerminalInvariance == Spec => []TerminalInv
  <1>1. Init => TerminalInv
    BY TerminalInitial DEF Init
  <1>2. TerminalInv /\ [Next]_vars => TerminalInv'
    <2> SUFFICES ASSUME TerminalInv, [Next]_vars PROVE TerminalInv'
      OBVIOUS
    <2>1. CASE UNCHANGED terminalVars
      BY <2>1, TerminalStays
    <2> QED
      BY <2>1, PartSteps, TerminalStep
  <1> QED
    BY <1>1, <1>2, PTL DEF Spec

\* For any menu, any bounds and any sequence of clicks: as long as the page is not reloaded,
\* nothing is handed over under the number of a paid order (App.tsx:204-218).
THEOREM PaymentsAreLast == Spec => []PaidLast
  <1>1. TerminalInv => PaidLast
    BY DEF TerminalInv
  <1> QED
    BY <1>1, TerminalInvariance, PTL

\* For any cart and prices: the equal shares of the bill add up to it, differ by one minor
\* unit at most, the larger ones first (split-bill.ts:30-47).
THEOREM BillSplitsFairly == Spec => []SplitsFairly
  <1>1. TerminalInv => SplitsFairly
    BY DialogSplits DEF TerminalInv
  <1> QED
    BY <1>1, TerminalInvariance, PTL

\* For any cart and prices: a bill is never below its items, a portion more costs its price at
\* least, and the roundings of tax and charge add no more than one unit (billing.ts:83-172).
THEOREM BillIsOfCart == Spec => []BillFollowsCart
  <1>1. TerminalInv => BillFollowsCart
    BY CartBillFollows DEF TerminalInv
  <1> QED
    BY <1>1, TerminalInvariance, PTL

-----------------------------------------------------------------------------
\* Types

\* A batch gets shorter.
SyncTyped ==
  /\ SyncTypeOK
  /\ \A p \in Pushes : push[p].phase = "upsert" => push[p].items # <<>>

LEMMA BatchIsBounded ==
  ASSUME NEW items
  PROVE  items \in BoundedSeq(SyncIds, MaxBatch) <=>
           items \in Seq(SyncIds) /\ Len(items) <= MaxBatch
  BY BatchAssumption DEF BoundedSeq, SeqOf

LEMMA EmptyBatch == <<>> \in BoundedSeq(SyncIds, MaxBatch)
  <1>1. <<>> \in Seq(SyncIds) /\ Len(<<>>) = 0
    OBVIOUS
  <1>2. 0 <= MaxBatch
    BY BatchAssumption
  <1> QED
    BY <1>1, <1>2, BatchIsBounded

LEMMA AnswerTyped ==
  ASSUME NEW handler \in PushJob, handler.items # <<>>, NEW s
  PROVE  /\ Answer(handler, s) \in PushJob /\ Answer(handler, s).phase = "find"
         /\ Head(handler.items) \in SyncIds
  <1>1. handler.items \in Seq(SyncIds) /\ Len(handler.items) <= MaxBatch
    BY BatchIsBounded DEF PushJob
  <1>2. /\ Tail(handler.items) \in Seq(SyncIds) /\ Len(Tail(handler.items)) <= MaxBatch
        /\ Head(handler.items) \in SyncIds
    BY <1>1, BatchAssumption
  <1>3. Tail(handler.items) \in BoundedSeq(SyncIds, MaxBatch)
    BY <1>2, BatchIsBounded
  <1> QED
    BY <1>2, <1>3 DEF Answer, PushJob

LEMMA SyncIsTyped ==
  ASSUME SyncTyped, NEW p \in Pushes, SyncNext(p)
  PROVE  SyncTyped'
  <1> USE BatchAssumption DEF SyncTyped, SyncTypeOK
  <1>0. PushIdle \in PushJob /\ PushIdle.phase = "idle"
    BY EmptyBatch DEF PushIdle, PushJob
  <1>1. ASSUME NEW items \in BoundedSeq(SyncIds, MaxBatch), PushQueue(p, items)
        PROVE  SyncTyped'
    <2> DEFINE handler == [PushIdle EXCEPT !.phase = "find", !.items = items]
    <2>1. handler \in PushJob /\ handler.phase = "find"
      BY <1>0 DEF PushJob
    <2>2. push' = [push EXCEPT ![p] = handler] /\ UNCHANGED <<recorded, retries, told>>
      BY <1>1 DEF PushQueue
    <2> HIDE DEF handler
    <2> QED
      BY <2>1, <2>2
  <1>2. CASE FindUnique(p)
    <2>1. /\ push[p].items # <<>> /\ UNCHANGED <<recorded, retries, told>>
          /\ push' = [push EXCEPT ![p] = IF AlreadyProcessed(Current(p)) THEN Answer(@, "APPLIED")
                                         ELSE [@ EXCEPT !.phase = "upsert"]]
      BY <1>2 DEF FindUnique
    <2>2. CASE AlreadyProcessed(Current(p))
      BY <2>1, <2>2, AnswerTyped
    <2>3. CASE ~ AlreadyProcessed(Current(p))
      <3> DEFINE handler == [push[p] EXCEPT !.phase = "upsert"]
      <3>1. handler \in PushJob /\ handler.items = push[p].items
        BY DEF PushJob
      <3>2. push' = [push EXCEPT ![p] = handler]
        BY <2>1, <2>3
      <3> HIDE DEF handler
      <3> QED
        BY <2>1, <3>1, <3>2
    <2> QED
      BY <2>2, <2>3
  <1>3. CASE RecordItem(p)
    <2>1. /\ push[p].items # <<>> /\ push' = [push EXCEPT ![p] = Answer(push[p], "APPLIED")]
          /\ recorded' = recorded \cup {Current(p)} /\ UNCHANGED told
      BY <1>3 DEF RecordItem
    <2>2. Current(p) \in SyncIds
      BY <2>1, AnswerTyped DEF Current
    <2>3. retries' \in [SyncIds -> 0 .. MaxRetries]
      BY <1>3, <2>2 DEF RecordItem
    <2> QED
      BY <2>1, <2>2, <2>3, AnswerTyped
  <1>4. CASE ItemFails(p)
    BY <1>4, AnswerTyped DEF ItemFails
  <1>5. CASE Respond(p) \/ Dropped(p)
    <2>1. push' = [push EXCEPT ![p] = PushIdle] /\ UNCHANGED <<recorded, retries>>
      BY <1>5 DEF Respond, Dropped
    <2>2. told' \subseteq SyncIds
      BY <1>5 DEF Respond, Dropped, PushJob
    <2> QED
      BY <1>0, <2>1, <2>2
  <1> QED
    BY <1>1, <1>2, <1>3, <1>4, <1>5 DEF SyncNext

LEMMA DrawerTyped ==
  ASSUME DrawerTypeOK, DrawerNext
  PROVE  DrawerTypeOK'
  <1> USE DrawerAssumption DEF DrawerTypeOK
  <1>1. CASE OpenDrawer \/ CloseDrawer
    BY <1>1 DEF OpenDrawer, CloseDrawer, FreshWindow, Kinds, Tabs
  <1>2. ASSUME NEW t \in Tabs, SetActiveTab(t) PROVE DrawerTypeOK'
    BY <1>2 DEF SetActiveTab
  <1>3. ASSUME NEW kind \in Kinds, SetTxType(kind) PROVE DrawerTypeOK'
    BY <1>3 DEF SetTxType
  <1>4. ASSUME NEW amount \in MovementAmounts, SetTxAmount(amount) PROVE DrawerTypeOK'
    BY <1>4 DEF SetTxAmount
  <1>5. CASE HandleAddTx
    <2>1. txAmount \in Nat /\ payIns \in Nat /\ payOuts \in Nat
      OBVIOUS
    <2>2. payIns' \in 0 .. MaxMoved /\ payOuts' \in 0 .. MaxMoved /\ shift' \in Int
      BY <1>5, <2>1 DEF HandleAddTx
    <2> QED
      BY <1>5, <2>2 DEF HandleAddTx, Tabs
  <1>6. ASSUME NEW amount \in CountedAmounts, SetCountedCash(amount) PROVE DrawerTypeOK'
    BY <1>6 DEF SetCountedCash
  <1>7. CASE HandleCloseShift
    <2>1. ExpectedCash \in Int /\ Discrepancy \in Int
      BY DEF Discrepancy, ExpectedCash, ExpectedClosingCash, SessionMovements, Movements
    <2>2. report' \in Report
      BY <1>7, <2>1 DEF HandleCloseShift, Report
    <2> QED
      BY <1>7, <2>2 DEF HandleCloseShift, FreshWindow, Kinds, Tabs
  <1> QED
    BY <1>1, <1>2, <1>3, <1>4, <1>5, <1>6, <1>7 DEF DrawerNext

LEMMA TableWindowTyped ==
  ASSUME TableWindowTypeOK, TableWindowNext
  PROVE  TableWindowTypeOK'
  <1> USE PlanAssumption DEF TableWindowTypeOK, Modes
  <1>1. CASE OpenTables \/ CloseTables
    BY <1>1 DEF OpenTables, CloseTables, FreshTableWindow
  <1>2. CASE HandleExecuteAction
    BY <1>2 DEF HandleExecuteAction, FreshTableWindow
  <1>3. ASSUME NEW m \in Modes, SetActionType(m) PROVE TableWindowTypeOK'
    BY <1>3 DEF SetActionType, TargetIn
  <1>4. ASSUME NEW f \in Floors, SetSelectedFloor(f) PROVE TableWindowTypeOK'
    BY <1>4 DEF SetSelectedFloor
  <1>5. ASSUME NEW t \in AllTables, SwitchTable(t) \/ PickTarget(t) PROVE TableWindowTypeOK'
    BY <1>5 DEF SwitchTable, PickTarget, FreshTableWindow
  <1> QED
    BY <1>1, <1>2, <1>3, <1>4, <1>5 DEF TableWindowNext

\* Every part has the types of its variables.
AllTyped ==
  /\ part \in Parts
  /\ InventoryInv /\ CashierInv /\ AccessInv /\ SyncTyped
  /\ SeedInv /\ BackupInv
  /\ TerminalInv /\ DrawerTypeOK /\ TableWindowTypeOK
  /\ AdminTablesInv

LEMMA InitiallyTyped == Init => AllTyped
  <1> SUFFICES ASSUME Init PROVE AllTyped
    OBVIOUS
  <1> USE DEF Init
  <1>1. InventoryInv /\ AccessInv /\ SeedInv /\ BackupInv /\ TerminalInv
    BY InventoryInitial, AccessInitial, SeedInitial, BackupInitial, TerminalInitial
  <1>2. CashierInv
    BY CashierInitial
  <1>3. SyncTyped
    BY EmptyBatch, BatchAssumption DEF SyncInit, SyncTyped, SyncTypeOK, PushIdle, PushJob
  <1>4. DrawerTypeOK
    BY DrawerAssumption DEF DrawerInit, DrawerTypeOK, Kinds, Report, NoReport
  <1>5. TableWindowTypeOK
    BY PlanAssumption DEF TableWindowInit, TableWindowTypeOK, AllTables, Modes, NothingConfirmed
  <1>6. AdminTablesInv
    BY AdminTablesInitial
  <1> QED
    BY <1>1, <1>2, <1>3, <1>4, <1>5, <1>6 DEF AllTyped

\* Whatever part moves, its variables keep their types, the bounded ones their bounds.
THEOREM StandaloneTypes == Spec => []TypeOK
  <1>1. AllTyped /\ [Next]_vars => AllTyped'
    <2> SUFFICES ASSUME AllTyped, [Next]_vars PROVE AllTyped'
      OBVIOUS
    <2> USE PartSteps DEF AllTyped
    <2>1. part' \in Parts
      BY DEF Next, vars
    <2>2. InventoryInv'
      BY InventoryStep, InventoryStays
    <2>3. CashierInv'
      BY CashierStep, CashierStays
    <2>4. AccessInv'
      BY AccessStep, AccessStays
    <2>5. SyncTyped'
      BY SyncIsTyped DEF SyncTyped, SyncTypeOK, syncVars
    <2>6. SeedInv'
      BY SeedStep DEF SeedInv, SeedTypeOK, seedVars
    <2>7. BackupInv'
      BY BackupStep, BackupStays
    <2>8. TerminalInv'
      BY TerminalStep, TerminalStays
    <2>9. DrawerTypeOK' /\ TableWindowTypeOK'
      BY DrawerTyped, TableWindowTyped
      DEF DrawerTypeOK, drawerVars, TableWindowTypeOK, tableVars
    <2>10. AdminTablesInv'
      BY AdminTablesStep DEF AdminTablesInv, AdminTablesTypeOK, BillOfGuests, planVars
    <2> QED
      BY <2>1, <2>2, <2>3, <2>4, <2>5, <2>6, <2>7, <2>8, <2>9, <2>10
  <1>2. AllTyped => TypeOK
    BY PartsAssumption DEF AllTyped, TypeOK, InventoryInv, CashierInv, AccessInv, SyncTyped, SeedInv,
       BackupInv, TerminalInv, AdminTablesInv
  <1> QED
    BY <1>1, <1>2, InitiallyTyped, PTL DEF Spec
===============================================================================
