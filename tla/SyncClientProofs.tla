--------------------------- MODULE SyncClientProofs ---------------------------
(***************************************************************************)
(* Safety of the terminal's sync queue, for any number of actions and      *)
(* reloads and whatever the server answers.  What the filters of the queue *)
(* return is proved by induction over the natural numbers, with a set of   *)
(* good numbers in the place of a predicate.                               *)
(***************************************************************************)
EXTENDS SyncClient, WellFoundedInduction, TLAPS

LEMMA UpTo ==
  ASSUME NEW Good, 0 \in Good, \A n \in Nat : n \in Good => n + 1 \in Good
  PROVE  Nat \subseteq Good
  <1> DEFINE Bad == {n \in Nat : n \notin Good}
  <1> SUFFICES ASSUME Bad # {} PROVE FALSE
    OBVIOUS
  <1>1. PICK n \in Bad : \A m \in Bad : ~ (m < n)
    <2> HIDE DEF Bad
    <2>1. Bad \subseteq Nat
      BY DEF Bad
    <2>2. PICK n \in Bad : \A m \in Bad : <<m, n>> \notin OpToRel(<, Nat)
      BY <2>1, NatLessThanWellFounded, WFMin
    <2>3. \A m \in Bad : m < n => <<m, n>> \in OpToRel(<, Nat)
      BY <2>1 DEF OpToRel
    <2> QED
      BY <2>2, <2>3
  <1>2. n # 0 /\ n - 1 \in Nat /\ n - 1 < n
    BY <1>1
  <1>3. n - 1 \in Good
    BY <1>1, <1>2
  <1>4. (n - 1) + 1 = n
    BY <1>1
  <1> QED
    BY <1>1, <1>2, <1>3, <1>4

-----------------------------------------------------------------------------
\* What is waiting

\* kept is what the filter has kept of the first items of q.
Filters(q, kept, l) ==
  kept = [n \in 0 .. l |-> IF n = 0 THEN <<>>
                           ELSE IF q[n].synced THEN kept[n - 1] ELSE Append(kept[n - 1], q[n])]

LEMMA UnsyncedIsFilter ==
  ASSUME NEW q
  PROVE  Unsynced(q) = (CHOOSE kept : Filters(q, kept, Len(q)))[Len(q)]
  BY DEF Unsynced, Filters

LEMMA FilterExists ==
  ASSUME NEW q, NEW l \in Nat
  PROVE  \E kept : Filters(q, kept, l)
  <1> DEFINE Good == {n \in Nat : \E kept : Filters(q, kept, n)}
  <1>1. 0 \in Good
    <2>1. Filters(q, [n \in 0 .. 0 |-> <<>>], 0)
      BY DEF Filters
    <2> QED
      BY <2>1
  <1>2. ASSUME NEW n \in Nat, n \in Good PROVE n + 1 \in Good
    <2>1. PICK kept : Filters(q, kept, n)
      BY <1>2
    <2> DEFINE last == IF q[n + 1].synced THEN kept[n] ELSE Append(kept[n], q[n + 1])
               longer == [m \in 0 .. n + 1 |-> IF m = n + 1 THEN last ELSE kept[m]]
    <2>2. ASSUME NEW m \in 0 .. n + 1
          PROVE  longer[m] = IF m = 0 THEN <<>>
                             ELSE IF q[m].synced THEN longer[m - 1]
                             ELSE Append(longer[m - 1], q[m])
      <3>1. CASE m = n + 1
        <4>1. m # 0 /\ m - 1 = n /\ n \in 0 .. n + 1 /\ n # n + 1
          BY <3>1
        <4>2. longer[m - 1] = kept[n] /\ longer[m] = last
          BY <3>1, <4>1
        <4> HIDE DEF longer
        <4> QED
          BY <3>1, <4>1, <4>2
      <3>2. CASE m # n + 1
        <4>1. m \in 0 .. n /\ longer[m] = kept[m]
          BY <3>2
        <4>2. m # 0 => m - 1 \in 0 .. n + 1 /\ m - 1 # n + 1 /\ longer[m - 1] = kept[m - 1]
          BY <4>1
        <4>3. kept[m] = IF m = 0 THEN <<>>
                        ELSE IF q[m].synced THEN kept[m - 1] ELSE Append(kept[m - 1], q[m])
          BY <2>1, <4>1 DEF Filters
        <4> HIDE DEF longer
        <4> QED
          BY <4>1, <4>2, <4>3
      <3> QED
        BY <3>1, <3>2
    <2>3. Filters(q, longer, n + 1)
      BY <2>2 DEF Filters
    <2> QED
      BY <2>3
  <1>3. Nat \subseteq Good
    <2> HIDE DEF Good
    <2> QED
      BY <1>1, <1>2, UpTo
  <1> QED
    BY <1>3

\* u holds the items of the first n of q that are waiting, in their order.
Waits(q, n, u) ==
  /\ u \in Seq(Item) /\ Len(u) <= n
  /\ \A i \in 1 .. Len(u) : \E k \in 1 .. n : u[i] = q[k] /\ ~ q[k].synced
  /\ \A k \in 1 .. n : ~ q[k].synced => \E i \in 1 .. Len(u) : u[i] = q[k]
  /\ \A i, j \in 1 .. Len(u) : i < j =>
       \E k, l \in 1 .. n : k < l /\ u[i] = q[k] /\ u[j] = q[l]

LEMMA OneMoreWaits ==
  ASSUME NEW q \in Seq(Item), NEW n \in Nat, n + 1 <= Len(q), NEW u, Waits(q, n, u)
  PROVE  Waits(q, n + 1, IF q[n + 1].synced THEN u ELSE Append(u, q[n + 1]))
  <1> USE DEF Waits
  <1>1. q[n + 1] \in Item /\ Len(u) \in Nat
    OBVIOUS
  <1>2. CASE q[n + 1].synced
    BY <1>1, <1>2
  <1>3. CASE ~ q[n + 1].synced
    <2> DEFINE v == Append(u, q[n + 1])
    <2>1. /\ v \in Seq(Item) /\ Len(v) = Len(u) + 1 /\ v[Len(u) + 1] = q[n + 1]
          /\ \A i \in 1 .. Len(u) : v[i] = u[i]
      BY <1>1
    <2> HIDE DEF v
    <2>2. ASSUME NEW i \in 1 .. Len(v) PROVE \E k \in 1 .. n + 1 : v[i] = q[k] /\ ~ q[k].synced
      <3>1. CASE i = Len(u) + 1
        BY <1>3, <2>1, <3>1
      <3>2. CASE i # Len(u) + 1
        <4>1. i \in 1 .. Len(u)
          BY <1>1, <2>1, <3>2
        <4>2. PICK k \in 1 .. n : u[i] = q[k] /\ ~ q[k].synced
          BY <4>1
        <4> QED
          BY <2>1, <4>1, <4>2
      <3> QED
        BY <3>1, <3>2
    <2>3. ASSUME NEW k \in 1 .. n + 1, ~ q[k].synced PROVE \E i \in 1 .. Len(v) : v[i] = q[k]
      <3>1. CASE k = n + 1
        <4>1. Len(u) + 1 \in 1 .. Len(v)
          BY <1>1, <2>1
        <4> QED
          BY <2>1, <3>1, <4>1
      <3>2. CASE k # n + 1
        <4>1. k \in 1 .. n
          BY <3>2
        <4>2. PICK i \in 1 .. Len(u) : u[i] = q[k]
          BY <2>3, <4>1
        <4> QED
          BY <1>1, <2>1, <4>2
      <3> QED
        BY <3>1, <3>2
    <2>4. ASSUME NEW i \in 1 .. Len(v), NEW j \in 1 .. Len(v), i < j
          PROVE  \E k, l \in 1 .. n + 1 : k < l /\ v[i] = q[k] /\ v[j] = q[l]
      <3>1. CASE j = Len(u) + 1
        <4>1. i \in 1 .. Len(u) /\ v[i] = u[i] /\ v[j] = q[n + 1]
          BY <1>1, <2>1, <2>4, <3>1
        <4>2. PICK k \in 1 .. n : u[i] = q[k]
          BY <4>1
        <4> QED
          BY <4>1, <4>2
      <3>2. CASE j # Len(u) + 1
        <4>1. i \in 1 .. Len(u) /\ j \in 1 .. Len(u)
          <5> HIDE DEF Waits
          <5> QED
            BY <1>1, <2>1, <2>4, <3>2
        <4>2. PICK k \in 1 .. n, l \in 1 .. n : k < l /\ u[i] = q[k] /\ u[j] = q[l]
          BY <2>4, <4>1
        <4>3. k \in 1 .. n + 1 /\ l \in 1 .. n + 1
          OBVIOUS
        <4>4. v[i] = q[k] /\ v[j] = q[l]
          BY <2>1, <4>1, <4>2
        <4> QED
          BY <4>2, <4>3, <4>4
      <3> QED
        BY <3>1, <3>2
    <2>5. Waits(q, n + 1, v)
      BY <1>1, <2>1, <2>2, <2>3, <2>4
    <2> QED
      BY <1>3, <2>5 DEF v
  <1> QED
    BY <1>2, <1>3

\* The filter keeps the waiting items of a queue, and their order.
LEMMA UnsyncedWaits ==
  ASSUME NEW q \in Seq(Item)
  PROVE  Waits(q, Len(q), Unsynced(q))
  <1> DEFINE kept == CHOOSE kept : Filters(q, kept, Len(q))
             Good == {n \in Nat : n <= Len(q) => Waits(q, n, kept[n])}
  <1>1. Filters(q, kept, Len(q)) /\ Unsynced(q) = kept[Len(q)]
    <2>1. Len(q) \in Nat
      OBVIOUS
    <2>2. \E f : Filters(q, f, Len(q))
      BY <2>1, FilterExists
    <2>3. Filters(q, kept, Len(q))
      BY <2>2
    <2> QED
      BY <2>3, UnsyncedIsFilter
  <1> HIDE DEF kept
  <1>2. 0 \in Good
    <2>1. kept[0] = <<>>
      BY <1>1 DEF Filters
    <2>2. <<>> \in Seq(Item) /\ Len(<<>>) = 0
      OBVIOUS
    <2>3. Waits(q, 0, <<>>)
      BY <2>2 DEF Waits
    <2> QED
      BY <2>1, <2>3
  <1>3. ASSUME NEW n \in Nat, n \in Good PROVE n + 1 \in Good
    <2> SUFFICES ASSUME n + 1 <= Len(q) PROVE Waits(q, n + 1, kept[n + 1])
      OBVIOUS
    <2>1. Waits(q, n, kept[n])
      BY <1>3
    <2>2. n + 1 \in 0 .. Len(q) /\ n + 1 # 0 /\ (n + 1) - 1 = n
      OBVIOUS
    <2>3. kept[n + 1] = IF q[n + 1].synced THEN kept[n] ELSE Append(kept[n], q[n + 1])
      BY <1>1, <2>2 DEF Filters
    <2> QED
      BY <2>1, <2>3, OneMoreWaits
  <1>4. Nat \subseteq Good
    <2> HIDE DEF Good
    <2> QED
      BY <1>2, <1>3, UpTo
  <1> QED
    BY <1>1, <1>4

LEMMA IdsOf ==
  ASSUME NEW q \in Seq(Item)
  PROVE  /\ Ids(q) \in Seq(Actions) /\ Len(Ids(q)) = Len(q)
         /\ \A i \in 1 .. Len(q) : Ids(q)[i] = q[i].id
         /\ ToSet(Ids(q)) = {q[i].id : i \in 1 .. Len(q)}
  <1>1. ASSUME NEW i \in 1 .. Len(q) PROVE q[i].id \in Actions
    <2>1. q[i] \in Item
      OBVIOUS
    <2> QED
      BY <2>1 DEF Item
  <1>2. Ids(q) = [i \in 1 .. Len(q) |-> q[i].id]
    BY DEF Ids
  <1> QED
    BY <1>1, <1>2 DEF ToSet

LEMMA WaitingOf ==
  ASSUME NEW q \in Seq(Item)
  PROVE  /\ Unsynced(q) \in Seq(Item) /\ Len(Unsynced(q)) \in 0 .. Len(q)
         /\ \A a : a \in Waiting(q) <=> \E k \in 1 .. Len(q) : q[k].id = a /\ ~ q[k].synced
         /\ Len(Unsynced(q)) = 0 => Waiting(q) = {}
  <1> DEFINE u == Unsynced(q)
  <1>1. Waits(q, Len(q), u)
    BY UnsyncedWaits
  <1>2. u \in Seq(Item) /\ Len(u) \in 0 .. Len(q)
    BY <1>1 DEF Waits
  <1> HIDE DEF u
  <1>3. ToSet(Ids(u)) = {u[i].id : i \in 1 .. Len(u)}
    BY <1>2, IdsOf
  <1>4. \A a : a \in ToSet(Ids(u)) <=> \E i \in 1 .. Len(u) : u[i].id = a
    BY <1>3
  <1>5. ASSUME NEW i \in 1 .. Len(u)
        PROVE  \E k \in 1 .. Len(q) : ~ q[k].synced /\ u[i] = q[k]
    BY <1>1 DEF Waits
  <1>6. ASSUME NEW k \in 1 .. Len(q), ~ q[k].synced
        PROVE  \E i \in 1 .. Len(u) : u[i] = q[k]
    BY <1>1, <1>6 DEF Waits
  <1>7. Waiting(q) = ToSet(Ids(u))
    BY DEF Waiting, u
  <1>8. \A a : a \in Waiting(q) <=> \E k \in 1 .. Len(q) : q[k].id = a /\ ~ q[k].synced
    <2>1. ASSUME NEW a, a \in Waiting(q)
          PROVE  \E k \in 1 .. Len(q) : q[k].id = a /\ ~ q[k].synced
      <3>1. PICK i \in 1 .. Len(u) : u[i].id = a
        BY <1>4, <1>7, <2>1
      <3>2. PICK k \in 1 .. Len(q) : ~ q[k].synced /\ u[i] = q[k]
        BY <1>5
      <3> QED
        BY <3>1, <3>2
    <2>2. ASSUME NEW a, NEW k \in 1 .. Len(q), q[k].id = a, ~ q[k].synced
          PROVE  a \in Waiting(q)
      <3>1. PICK i \in 1 .. Len(u) : u[i] = q[k]
        BY <1>6, <2>2
      <3> QED
        BY <1>4, <1>7, <2>2, <3>1
    <2> QED
      BY <2>1, <2>2
  <1>9. Len(u) = 0 => Waiting(q) = {}
    <2> SUFFICES ASSUME Len(u) = 0, NEW a \in Waiting(q) PROVE FALSE
      OBVIOUS
    <2> QED
      BY <1>4, <1>7
  <1> QED
    BY <1>2, <1>8, <1>9 DEF u

LEMMA StillWaiting ==
  ASSUME NEW q \in Seq(Item)
  PROVE  Waiting(Unsynced(q)) = Waiting(q)
  <1> DEFINE u == Unsynced(q)
  <1>1. Waits(q, Len(q), u)
    BY UnsyncedWaits
  <1>2. u \in Seq(Item)
    BY <1>1 DEF Waits
  <1> HIDE DEF u
  <1>3. \A i \in 1 .. Len(u) : ~ u[i].synced
    BY <1>1 DEF Waits
  <1>4. \A a : a \in Waiting(u) <=> \E i \in 1 .. Len(u) : u[i].id = a /\ ~ u[i].synced
    BY <1>2, WaitingOf
  <1>5. Waiting(q) = {u[i].id : i \in 1 .. Len(u)}
    BY <1>2, IdsOf DEF Waiting, u
  <1> QED
    BY <1>3, <1>4, <1>5 DEF u

LEMMA OneMoreWaiting ==
  ASSUME NEW q \in Seq(Item), NEW a \in Actions
  PROVE  /\ Enqueued(q, a) \in Seq(Item) /\ Len(Enqueued(q, a)) = Len(q) + 1
         /\ Enqueued(q, a)[Len(q) + 1].id = a
         /\ \A i \in 1 .. Len(q) : Enqueued(q, a)[i] = q[i]
         /\ Waiting(Enqueued(q, a)) = Waiting(q) \cup {a}
  <1> DEFINE item == [id |-> a, synced |-> FALSE]
             more == Append(q, item)
  <1>1. item \in Item /\ item.id = a /\ ~ item.synced
    BY DEF Item
  <1> HIDE DEF item
  <1>2. /\ more \in Seq(Item) /\ Len(more) = Len(q) + 1 /\ more[Len(q) + 1] = item
        /\ Len(q) \in Nat /\ \A i \in 1 .. Len(q) : more[i] = q[i]
    BY <1>1
  <1> HIDE DEF more
  <1>3. Enqueued(q, a) = more
    BY DEF Enqueued, more, item
  <1>4. 1 .. Len(more) = (1 .. Len(q)) \cup {Len(q) + 1}
    BY <1>2
  <1>5. \A b : /\ b \in Waiting(q) <=> \E k \in 1 .. Len(q) : q[k].id = b /\ ~ q[k].synced
               /\ b \in Waiting(more) <=> \E k \in 1 .. Len(more) : more[k].id = b /\ ~ more[k].synced
    BY <1>2, WaitingOf
  <1>6. Waiting(more) = Waiting(q) \cup {a}
    <2>1. ASSUME NEW b \in Waiting(more) PROVE b \in Waiting(q) \cup {a}
      <3>1. PICK k \in 1 .. Len(more) : more[k].id = b /\ ~ more[k].synced
        BY <1>5
      <3> QED
        BY <1>1, <1>2, <1>4, <1>5, <3>1
    <2>2. ASSUME NEW b \in Waiting(q) PROVE b \in Waiting(more)
      <3>1. PICK k \in 1 .. Len(q) : q[k].id = b /\ ~ q[k].synced
        BY <1>5
      <3>2. k \in 1 .. Len(more) /\ more[k] = q[k]
        BY <1>2, <1>4
      <3> QED
        BY <1>5, <3>1, <3>2
    <2>3. a \in Waiting(more)
      <3>1. Len(q) + 1 \in 1 .. Len(more)
        BY <1>2, <1>4
      <3> QED
        BY <1>1, <1>2, <1>5, <3>1
    <2> QED
      BY <2>1, <2>2, <2>3
  <1> QED
    BY <1>1, <1>2, <1>3, <1>6

LEMMA FewerWaiting ==
  ASSUME NEW q \in Seq(Item), NEW a
  PROVE  /\ Marked(q, a) \in Seq(Item) /\ Len(Marked(q, a)) = Len(q)
         /\ Ids(Marked(q, a)) = Ids(q)
         /\ Waiting(Marked(q, a)) = Waiting(q) \ {a}
  <1> DEFINE m == Marked(q, a)
  <1>1. m = [i \in 1 .. Len(q) |->
               IF q[i].id = a THEN [q[i] EXCEPT !.synced = TRUE] ELSE q[i]]
    BY DEF Marked
  <1> HIDE DEF m
  <1>2. ASSUME NEW i \in 1 .. Len(q)
        PROVE  m[i] \in Item /\ m[i].id = q[i].id /\ (m[i].synced <=> q[i].synced \/ q[i].id = a)
    <2>1. q[i] \in Item /\ m[i] = IF q[i].id = a THEN [q[i] EXCEPT !.synced = TRUE] ELSE q[i]
      BY <1>1
    <2> QED
      BY <2>1 DEF Item
  <1>3. m \in Seq(Item) /\ Len(m) = Len(q) /\ DOMAIN m = 1 .. Len(q) /\ DOMAIN q = 1 .. Len(q)
    BY <1>1, <1>2
  <1>4. Ids(m) = Ids(q)
    <2>1. Ids(m) = [i \in 1 .. Len(q) |-> m[i].id] /\ Ids(q) = [i \in 1 .. Len(q) |-> q[i].id]
      BY <1>3 DEF Ids
    <2> QED
      BY <1>2, <2>1
  <1>5. \A b : /\ b \in Waiting(q) <=> \E k \in 1 .. Len(q) : q[k].id = b /\ ~ q[k].synced
               /\ b \in Waiting(m) <=> \E k \in 1 .. Len(q) : m[k].id = b /\ ~ m[k].synced
    BY <1>3, WaitingOf
  <1>6. Waiting(m) = Waiting(q) \ {a}
    <2>1. ASSUME NEW b \in Waiting(m) PROVE b \in Waiting(q) \ {a}
      <3>1. PICK k \in 1 .. Len(q) : m[k].id = b /\ ~ m[k].synced
        BY <1>5
      <3>2. q[k].id = b /\ ~ q[k].synced /\ b # a
        BY <1>2, <3>1
      <3> QED
        BY <1>5, <3>2
    <2>2. ASSUME NEW b \in Waiting(q), b # a PROVE b \in Waiting(m)
      <3>1. PICK k \in 1 .. Len(q) : q[k].id = b /\ ~ q[k].synced
        BY <1>5
      <3>2. m[k].id = b /\ ~ m[k].synced
        BY <1>2, <2>2, <3>1
      <3> QED
        BY <1>5, <3>2
    <2> QED
      BY <2>1, <2>2
  <1> QED
    BY <1>3, <1>4, <1>6 DEF m

-----------------------------------------------------------------------------
\* The order of the log

\* The actions of q are in l, in that order.
Follows(q, l) ==
  /\ ToSet(q) \subseteq ToSet(l)
  /\ \A i, j \in DOMAIN q : i < j =>
       \E m, n \in DOMAIN l : m < n /\ l[m] = q[i] /\ l[n] = q[j]

LEMMA OrderFollows ==
  InOrder <=> Follows(Ids(queue), log) /\ Follows(Ids(stored), log) /\ Follows(pending, log)
  BY DEF InOrder, Before, Follows

LEMMA FollowsUnsynced ==
  ASSUME NEW q \in Seq(Item), NEW l, Follows(Ids(q), l)
  PROVE  Follows(Ids(Unsynced(q)), l)
  <1> DEFINE u == Unsynced(q)
  <1>1. Waits(q, Len(q), u)
    BY UnsyncedWaits
  <1>2. u \in Seq(Item)
    BY <1>1 DEF Waits
  <1> HIDE DEF u
  <1>3. /\ Ids(q) \in Seq(Actions) /\ Len(Ids(q)) = Len(q) /\ DOMAIN Ids(q) = 1 .. Len(q)
        /\ \A i \in 1 .. Len(q) : Ids(q)[i] = q[i].id
        /\ Ids(u) \in Seq(Actions) /\ Len(Ids(u)) = Len(u) /\ DOMAIN Ids(u) = 1 .. Len(u)
        /\ \A i \in 1 .. Len(u) : Ids(u)[i] = u[i].id
    BY <1>2, IdsOf
  <1>4. ToSet(Ids(u)) \subseteq ToSet(Ids(q))
    <2>1. ASSUME NEW i \in 1 .. Len(u) PROVE \E k \in 1 .. Len(q) : u[i] = q[k]
      BY <1>1 DEF Waits
    <2> QED
      BY <1>2, <2>1, IdsOf
  <1>5. ASSUME NEW i \in 1 .. Len(u), NEW j \in 1 .. Len(u), i < j
        PROVE  \E m, n \in DOMAIN l : m < n /\ l[m] = Ids(u)[i] /\ l[n] = Ids(u)[j]
    <2>1. PICK k \in 1 .. Len(q), h \in 1 .. Len(q) : k < h /\ u[i] = q[k] /\ u[j] = q[h]
      BY <1>1, <1>5 DEF Waits
    <2>2. Ids(u)[i] = Ids(q)[k] /\ Ids(u)[j] = Ids(q)[h]
      BY <1>3, <2>1
    <2>3. k \in DOMAIN Ids(q) /\ h \in DOMAIN Ids(q)
      BY <1>3
    <2>4. \E m, n \in DOMAIN l : m < n /\ l[m] = Ids(q)[k] /\ l[n] = Ids(q)[h]
      BY <2>1, <2>3 DEF Follows
    <2> QED
      BY <2>2, <2>4
  <1> QED
    BY <1>3, <1>4, <1>5 DEF Follows, u

LEMMA FollowsLonger ==
  ASSUME NEW l \in Seq(Actions), NEW a \in Actions, NEW q, Follows(q, l)
  PROVE  Follows(q, Append(l, a))
  <1> DEFINE longer == Append(l, a)
  <1>1. /\ DOMAIN l = 1 .. Len(l) /\ DOMAIN longer = 1 .. Len(l) + 1 /\ Len(l) \in Nat
        /\ \A m \in 1 .. Len(l) : longer[m] = l[m]
    OBVIOUS
  <1> HIDE DEF longer
  <1>2. DOMAIN l \subseteq DOMAIN longer /\ \A m \in DOMAIN l : longer[m] = l[m]
    BY <1>1
  <1>3. ToSet(l) \subseteq ToSet(longer)
    BY <1>2 DEF ToSet
  <1>4. Follows(q, longer)
    <2>1. ASSUME NEW i \in DOMAIN q, NEW j \in DOMAIN q, i < j
          PROVE  \E m, n \in DOMAIN longer : m < n /\ longer[m] = q[i] /\ longer[n] = q[j]
      <3>1. PICK m \in DOMAIN l, n \in DOMAIN l : m < n /\ l[m] = q[i] /\ l[n] = q[j]
        BY <2>1 DEF Follows
      <3> QED
        BY <1>2, <3>1
    <2>2. ToSet(q) \subseteq ToSet(longer)
      BY <1>3 DEF Follows
    <2> QED
      BY <2>1, <2>2 DEF Follows
  <1> QED
    BY <1>4 DEF longer

LEMMA FollowsEnqueued ==
  ASSUME NEW l \in Seq(Actions), NEW a \in Actions, NEW q \in Seq(Item), Follows(Ids(q), l)
  PROVE  Follows(Ids(Enqueued(q, a)), Append(l, a))
  <1> DEFINE longer == Append(l, a)
             more == Enqueued(q, a)
             end == Len(q) + 1
  <1>1. /\ DOMAIN l = 1 .. Len(l) /\ DOMAIN longer = 1 .. Len(l) + 1 /\ Len(l) \in Nat
        /\ \A m \in 1 .. Len(l) : longer[m] = l[m]
        /\ longer[Len(l) + 1] = a
    OBVIOUS
  <1>2. /\ more \in Seq(Item) /\ Len(more) = end /\ more[end].id = a
        /\ \A i \in 1 .. Len(q) : more[i] = q[i]
    BY OneMoreWaiting
  <1>3. Follows(Ids(q), longer)
    BY FollowsLonger
  <1> HIDE DEF longer, more
  <1>4. /\ DOMAIN Ids(q) = 1 .. Len(q) /\ DOMAIN Ids(more) = 1 .. end /\ Len(q) \in Nat
        /\ \A i \in 1 .. Len(q) : Ids(more)[i] = Ids(q)[i]
        /\ Ids(more)[end] = a
    <2>1. /\ Ids(q) \in Seq(Actions) /\ Len(Ids(q)) = Len(q)
          /\ \A i \in 1 .. Len(q) : Ids(q)[i] = q[i].id
      BY IdsOf
    <2>2. /\ Ids(more) \in Seq(Actions) /\ Len(Ids(more)) = end
          /\ \A i \in 1 .. end : Ids(more)[i] = more[i].id
      BY <1>2, IdsOf
    <2>3. 1 .. end = (1 .. Len(q)) \cup {end} /\ Len(q) \in Nat
      OBVIOUS
    <2> QED
      BY <1>2, <2>1, <2>2, <2>3
  <1>5. \A i \in 1 .. Len(q) : Ids(q)[i] \in ToSet(l)
    BY <1>4 DEF Follows, ToSet
  <1>6. ToSet(Ids(more)) \subseteq ToSet(longer)
    <2>1. ASSUME NEW i \in 1 .. end PROVE Ids(more)[i] \in ToSet(longer)
      <3>1. CASE i = end
        BY <1>1, <1>4, <3>1 DEF ToSet
      <3>2. CASE i # end
        <4>1. i \in 1 .. Len(q)
          BY <1>4, <3>2
        <4> QED
          BY <1>3, <1>4, <4>1 DEF Follows, ToSet
      <3> QED
        BY <3>1, <3>2
    <2> QED
      BY <1>4, <2>1 DEF ToSet
  <1>7. ASSUME NEW i \in 1 .. end, NEW j \in 1 .. end, i < j
        PROVE  \E m, n \in DOMAIN longer : m < n /\ longer[m] = Ids(more)[i]
                                                /\ longer[n] = Ids(more)[j]
    <2>1. i \in 1 .. Len(q)
      BY <1>4, <1>7
    <2>2. CASE j = end
      <3>1. PICK m \in 1 .. Len(l) : l[m] = Ids(q)[i]
        BY <1>1, <1>5, <2>1 DEF ToSet
      <3>2. m \in DOMAIN longer /\ Len(l) + 1 \in DOMAIN longer /\ m < Len(l) + 1
        BY <1>1
      <3>3. longer[m] = Ids(more)[i] /\ longer[Len(l) + 1] = Ids(more)[j]
        BY <1>1, <1>4, <2>1, <2>2, <3>1
      <3> QED
        BY <3>2, <3>3
    <2>3. CASE j # end
      <3>1. j \in 1 .. Len(q)
        BY <1>4, <2>3
      <3> QED
        BY <1>3, <1>4, <1>7, <2>1, <3>1 DEF Follows
    <2> QED
      BY <2>2, <2>3
  <1>8. Follows(Ids(more), longer)
    BY <1>4, <1>6, <1>7 DEF Follows
  <1> QED
    BY <1>8 DEF longer, more

LEMMA FollowsTail ==
  ASSUME NEW q \in Seq(Actions), q # <<>>, NEW l, Follows(q, l)
  PROVE  Follows(Tail(q), l)
  <1> DEFINE t == Tail(q)
  <1>1. /\ DOMAIN q = 1 .. Len(q) /\ Len(q) \in Nat /\ DOMAIN t = 1 .. Len(q) - 1
        /\ \A i \in 1 .. Len(q) - 1 : t[i] = q[i + 1]
    OBVIOUS
  <1> HIDE DEF t
  <1>2. \A i \in DOMAIN t : i \in Int /\ i + 1 \in DOMAIN q /\ t[i] = q[i + 1]
    BY <1>1
  <1>3. ToSet(t) \subseteq ToSet(q)
    BY <1>2 DEF ToSet
  <1>4. ASSUME NEW i \in DOMAIN t, NEW j \in DOMAIN t, i < j
        PROVE  \E m, n \in DOMAIN l : m < n /\ l[m] = t[i] /\ l[n] = t[j]
    <2>1. i + 1 \in DOMAIN q /\ j + 1 \in DOMAIN q /\ i + 1 < j + 1
      BY <1>2, <1>4
    <2>2. \E m, n \in DOMAIN l : m < n /\ l[m] = q[i + 1] /\ l[n] = q[j + 1]
      BY <2>1 DEF Follows
    <2> QED
      BY <1>2, <2>2
  <1> QED
    BY <1>3, <1>4 DEF Follows, t

-----------------------------------------------------------------------------
\* The queue

\* What is in localStorage and not yet processed is waiting in memory too: a pass never drops
\* it and a reload brings it back.
QueueInv ==
  /\ queue \in Seq(Item) /\ stored \in Seq(Item) /\ pending \in Seq(Actions)
  /\ log \in Seq(Actions) /\ syncing \in BOOLEAN /\ taken \subseteq Actions
  /\ reloads \in 0 .. MaxReloads
  /\ Len(queue) <= Len(log) /\ Len(stored) <= Len(log) /\ badge \in 0 .. Len(log)
  /\ Waiting(stored) \subseteq taken \cup Waiting(queue)
  /\ BadgeIsHonest
  /\ InOrder

LEMMA EmptyQueue ==
  /\ <<>> \in Seq(Item) /\ <<>> \in Seq(Actions) /\ Len(<<>>) = 0 /\ Ids(<<>>) = <<>>
  /\ Waiting(<<>>) = {}
  <1>1. <<>> \in Seq(Item) /\ <<>> \in Seq(Actions) /\ Len(<<>>) = 0
    OBVIOUS
  <1>2. Ids(<<>>) \in Seq(Actions) /\ Len(Ids(<<>>)) = 0
    BY <1>1, IdsOf
  <1>3. Ids(<<>>) = <<>>
    BY <1>2
  <1>4. Waiting(<<>>) = {}
    <2>1. Len(Unsynced(<<>>)) \in 0 .. 0
      BY <1>1, WaitingOf
    <2>2. Len(Unsynced(<<>>)) = 0
      BY <2>1
    <2> QED
      BY <1>1, <2>2, WaitingOf
  <1> QED
    BY <1>1, <1>3, <1>4

LEMMA QueueInitial == Init => QueueInv
  <1> SUFFICES ASSUME Init PROVE QueueInv
    OBVIOUS
  <1>1. Follows(<<>>, <<>>)
    BY DEF Follows, ToSet
  <1>2. InOrder
    BY <1>1, EmptyQueue, OrderFollows DEF Init
  <1>3. Waiting(stored) = {}
    BY EmptyQueue DEF Init
  <1> QED
    <2>1. /\ queue \in Seq(Item) /\ stored \in Seq(Item) /\ pending \in Seq(Actions)
          /\ log \in Seq(Actions) /\ Len(queue) = 0 /\ Len(stored) = 0 /\ Len(log) = 0
      BY EmptyQueue DEF Init
    <2>2. taken \subseteq Actions /\ badge = 0 /\ reloads \in 0 .. MaxReloads
      BY ReloadAssumption DEF Init
    <2>3. syncing \in BOOLEAN
      BY Zenon DEF Init
    <2>4. BadgeIsHonest
      BY <1>3 DEF BadgeIsHonest
    <2> QED
      BY <1>2, <1>3, <2>1, <2>2, <2>3, <2>4 DEF QueueInv

LEMMA OrderFollowsNow ==
  ASSUME Follows(Ids(queue'), log'), Follows(Ids(stored'), log'), Follows(pending', log')
  PROVE  InOrder'
  BY DEF InOrder, Before, Follows

\* The badge says what is waiting in memory, and that covers what is stored.
LEMMA HonestWhenCounted ==
  ASSUME queue' \in Seq(Item), badge' = Len(Unsynced(queue')),
         Waiting(stored') \subseteq taken' \cup Waiting(queue')
  PROVE  BadgeIsHonest'
  <1>1. badge' = 0 => Waiting(queue') = {}
    BY WaitingOf
  <1> QED
    BY <1>1 DEF BadgeIsHonest

LEMMA EnqueueStep ==
  ASSUME QueueInv, NEW a \in Actions, EnqueueAction(a)
  PROVE  QueueInv' /\ Waiting(stored) \ Waiting(stored') \subseteq taken'
  <1> USE DEF QueueInv
  <1> DEFINE more == Enqueued(queue, a)
  <1>1. /\ more \in Seq(Item) /\ Len(more) = Len(queue) + 1
        /\ Waiting(more) = Waiting(queue) \cup {a}
    BY OneMoreWaiting
  <1>2. /\ queue' = more /\ UNCHANGED <<syncing, pending, taken, reloads>>
        /\ SavedAs(more) \/ SaveFails
    BY DEF EnqueueAction
  <1>3. log' = Append(log, a) /\ log' \in Seq(Actions) /\ Len(log') = Len(log) + 1
    BY DEF EnqueueAction
  <1>4. Follows(Ids(more), log') /\ Follows(Ids(stored), log') /\ Follows(pending, log')
    BY <1>3, OrderFollows, FollowsEnqueued, FollowsLonger
  <1> HIDE DEF more
  <1>5. Len(queue) \in Nat /\ Len(stored) \in Nat /\ Len(log) \in Nat
    OBVIOUS
  <1>6. CASE SavedAs(more)
    <2>1. stored' = more /\ badge' = Len(Unsynced(more))
      BY <1>6 DEF SavedAs
    <2>2. badge' \in 0 .. Len(log')
      BY <1>1, <1>3, <1>5, <2>1, WaitingOf
    <2>3. InOrder'
      BY <1>2, <1>4, <2>1, OrderFollowsNow
    <2>4. BadgeIsHonest'
      BY <1>1, <1>2, <2>1, HonestWhenCounted
    <2>5. Waiting(stored) \ Waiting(stored') \subseteq taken'
      BY <1>1, <1>2, <2>1
    <2> QED
      BY <1>1, <1>2, <1>3, <1>5, <2>1, <2>2, <2>3, <2>4, <2>5
  <1>7. CASE SaveFails
    <2>1. stored' = stored /\ badge' = badge
      BY <1>7 DEF SaveFails
    <2>2. InOrder'
      BY <1>2, <1>4, <2>1, OrderFollowsNow
    <2>3. BadgeIsHonest'
      BY <1>2, <2>1 DEF BadgeIsHonest
    <2> QED
      BY <1>1, <1>2, <1>3, <1>5, <2>1, <2>2, <2>3
  <1> QED
    BY <1>2, <1>6, <1>7

LEMMA StartStep ==
  ASSUME QueueInv, StartSync
  PROVE  QueueInv' /\ Waiting(stored) \ Waiting(stored') \subseteq taken'
  <1> USE DEF QueueInv
  <1>1. /\ UNCHANGED <<queue, stored, log, taken, reloads>> /\ syncing' = TRUE
        /\ pending' = Ids(Unsynced(queue)) /\ badge' = Len(Unsynced(queue))
    BY DEF StartSync
  <1>2. Unsynced(queue) \in Seq(Item) /\ Len(Unsynced(queue)) \in 0 .. Len(queue)
    BY WaitingOf
  <1>3. pending' \in Seq(Actions) /\ Follows(pending', log)
    BY <1>1, <1>2, IdsOf, FollowsUnsynced, OrderFollows
  <1>4. InOrder'
    BY <1>1, <1>3, OrderFollows, OrderFollowsNow
  <1>5. BadgeIsHonest'
    BY <1>1, HonestWhenCounted
  <1>6. badge' \in 0 .. Len(log')
    <2>1. Len(queue) \in Nat /\ Len(log) \in Nat
      OBVIOUS
    <2> QED
      BY <1>1, <1>2, <2>1
  <1> QED
    BY <1>1, <1>3, <1>4, <1>5, <1>6

LEMMA AnswerStep ==
  ASSUME QueueInv, Answered
  PROVE  QueueInv' /\ Waiting(stored) \ Waiting(stored') \subseteq taken'
  <1> USE DEF QueueInv
  <1>1. PICK a \in Actions : Confirmed(a) \/ Unheard(a) \/ Refused(a)
    BY DEF Answered
  <1>2. /\ UNCHANGED <<stored, syncing, badge, log, reloads>> /\ pending' = Tail(pending)
        /\ pending # <<>> /\ taken \subseteq taken' /\ taken' \subseteq taken \cup {a}
    BY <1>1 DEF Confirmed, Unheard, Refused
  <1>3. pending' \in Seq(Actions) /\ Follows(pending', log)
    BY <1>2, FollowsTail, OrderFollows
  <1>4. /\ queue' \in Seq(Item) /\ Len(queue') = Len(queue) /\ Ids(queue') = Ids(queue)
        /\ Waiting(queue) \subseteq taken' \cup Waiting(queue')
    <2>1. CASE Confirmed(a)
      BY <2>1, FewerWaiting DEF Confirmed
    <2>2. CASE Unheard(a) \/ Refused(a)
      BY <2>2 DEF Unheard, Refused
    <2> QED
      BY <1>1, <2>1, <2>2
  <1>5. InOrder'
    BY <1>2, <1>3, <1>4, OrderFollows, OrderFollowsNow
  <1>6. BadgeIsHonest'
    BY <1>2 DEF BadgeIsHonest
  <1> QED
    BY <1>2, <1>3, <1>4, <1>5, <1>6

LEMMA FinishStep ==
  ASSUME QueueInv, FinishSync
  PROVE  QueueInv' /\ Waiting(stored) \ Waiting(stored') \subseteq taken'
  <1> USE DEF QueueInv
  <1> DEFINE left == Unsynced(queue)
  <1>1. /\ queue' = left /\ stored' \in {left, stored} /\ badge' = Len(Unsynced(left))
        /\ syncing' = FALSE /\ UNCHANGED <<pending, log, taken, reloads>>
    BY DEF FinishSync, Kept, SyncingAfter
  <1>2. left \in Seq(Item) /\ Len(left) \in 0 .. Len(queue) /\ Waiting(left) = Waiting(queue)
    BY WaitingOf, StillWaiting
  <1>3. Follows(Ids(left), log)
    BY FollowsUnsynced, OrderFollows
  <1> HIDE DEF left
  <1>4. Len(Unsynced(left)) \in 0 .. Len(left)
    BY <1>2, WaitingOf
  <1>5. Len(queue) \in Nat /\ Len(stored) \in Nat /\ Len(log) \in Nat
    OBVIOUS
  <1>6. /\ stored' \in Seq(Item) /\ Len(queue') <= Len(log') /\ Len(stored') <= Len(log')
        /\ badge' \in 0 .. Len(log')
    BY <1>1, <1>2, <1>4, <1>5
  <1>7. InOrder'
    BY <1>1, <1>3, OrderFollows, OrderFollowsNow
  <1>8. /\ Waiting(stored') \subseteq taken' \cup Waiting(queue')
        /\ Waiting(stored) \ Waiting(stored') \subseteq taken'
    BY <1>1, <1>2
  <1>9. BadgeIsHonest'
    BY <1>1, <1>2, <1>8, HonestWhenCounted
  <1> QED
    BY <1>1, <1>2, <1>6, <1>7, <1>8, <1>9

LEMMA ReloadStep ==
  ASSUME QueueInv, Reload
  PROVE  QueueInv' /\ Waiting(stored) \ Waiting(stored') \subseteq taken'
  <1> USE DEF QueueInv
  <1>1. /\ queue' = stored /\ badge' = Len(Unsynced(stored)) /\ syncing' = FALSE
        /\ pending' = <<>> /\ UNCHANGED <<stored, log, taken>> /\ reloads' \in 0 .. MaxReloads
    BY ReloadAssumption DEF Reload, Loaded
  <1>2. Len(Unsynced(stored)) \in 0 .. Len(stored)
    BY WaitingOf
  <1>3. pending' \in Seq(Actions) /\ Follows(pending', log)
    BY <1>1, EmptyQueue DEF Follows, ToSet
  <1>4. InOrder'
    BY <1>1, <1>3, OrderFollows, OrderFollowsNow
  <1>5. BadgeIsHonest'
    BY <1>1, HonestWhenCounted
  <1>6. badge' \in 0 .. Len(log')
    <2>1. Len(stored) \in Nat /\ Len(log) \in Nat
      OBVIOUS
    <2> QED
      BY <1>1, <1>2, <2>1
  <1> QED
    BY <1>1, <1>3, <1>4, <1>5, <1>6

LEMMA QueueStep ==
  ASSUME QueueInv, Next
  PROVE  QueueInv' /\ Waiting(stored) \ Waiting(stored') \subseteq taken'
  BY EnqueueStep, StartStep, AnswerStep, FinishStep, ReloadStep DEF Next

\* The queue keeps its invariant, whatever is answered, lost or reloaded.
THEOREM QueueInvariance == Spec => []QueueInv
  <1>1. QueueInv /\ [Next]_vars => QueueInv'
    <2> SUFFICES ASSUME QueueInv, [Next]_vars PROVE QueueInv'
      OBVIOUS
    <2>1. CASE UNCHANGED vars
      BY <2>1 DEF vars, QueueInv, BadgeIsHonest, InOrder, Before
    <2> QED
      BY <2>1, QueueStep
  <1> QED
    BY <1>1, QueueInitial, PTL DEF Spec

\* The variables have their types: the badge never counts more than was ever enqueued
\* (syncEngine.ts:60-67).
THEOREM QueueTypes == Spec => []TypeOK
  <1>1. QueueInv => TypeOK
    BY DEF QueueInv, TypeOK
  <1> QED
    BY <1>1, QueueInvariance, PTL

\* For any number of actions and reloads: a badge of 0 is never shown over a stored action
\* that the server has not processed (App.tsx:309-326).
THEOREM HonestBadge == Spec => []BadgeIsHonest
  <1>1. QueueInv => BadgeIsHonest
    BY DEF QueueInv
  <1> QED
    BY <1>1, QueueInvariance, PTL

\* For any number of actions and reloads: they are queued, stored and posted in the order the
\* cashier made them (syncEngine.ts:69-88, 100).
THEOREM NothingOvertakes == Spec => []InOrder
  <1>1. QueueInv => InOrder
    BY DEF QueueInv
  <1> QED
    BY <1>1, QueueInvariance, PTL

\* For any number of actions and reloads: no step forgets an action that is stored before the
\* server has processed it (syncEngine.ts:40-48, 127-129).
THEOREM NothingForgotten == Spec => StoredUntilTaken
  <1>1. QueueInv /\ [Next]_vars => [Waiting(stored) \ Waiting(stored') \subseteq taken']_vars
    BY QueueStep
  <1> QED
    BY <1>1, QueueInvariance, PTL DEF Spec, StoredUntilTaken
===============================================================================
