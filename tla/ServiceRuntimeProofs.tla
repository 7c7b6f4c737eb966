------------------------ MODULE ServiceRuntimeProofs ------------------------
(***************************************************************************)
(* The serial work queue and the limit on runs, for any number of issues,  *)
(* any limit and any bounds.                                               *)
(***************************************************************************)
EXTENDS ServiceRuntime, FiniteSetTheorems, TLAPS

-----------------------------------------------------------------------------
(***************************************************************************)
(* At picks the elements at some positions, each once and no other.        *)
(***************************************************************************)

\* Nth numbers the positions: 1..Cardinality(I) to I, one to one.
LEMMA NthIsBijection ==
  ASSUME NEW N \in Nat, NEW I \in SUBSET (1..N)
  PROVE  /\ IsFiniteSet(I) /\ Cardinality(I) \in Nat
         /\ \A n \in 1..Cardinality(I) : Nth(I, n) \in I
         /\ \A m, n \in 1..Cardinality(I) : Nth(I, m) = Nth(I, n) => m = n
         /\ \A i \in I : \E n \in 1..Cardinality(I) : Nth(I, n) = i
<1> DEFINE below(i) == {j \in I : j <= i}
           rank == [i \in I |-> Cardinality(below(i))]
<1>1. IsFiniteSet(I) /\ Cardinality(I) \in Nat
  <2>1. IsFiniteSet(1..N)
    BY FS_Interval
  <2>2. IsFiniteSet(I)
    BY <2>1, FS_Subset
  <2>3. QED
    BY <2>2, FS_CardinalityType
<1>2. \A i \in I : IsFiniteSet(below(i)) /\ Cardinality(below(i)) \in 1..Cardinality(I)
  <2> SUFFICES ASSUME NEW i \in I
               PROVE  IsFiniteSet(below(i)) /\ Cardinality(below(i)) \in 1..Cardinality(I)
    OBVIOUS
  <2>1. below(i) \in SUBSET I /\ below(i) # {}
    OBVIOUS
  <2>2. IsFiniteSet(below(i)) /\ Cardinality(below(i)) <= Cardinality(I)
    BY <1>1, <2>1, FS_Subset
  <2>3. Cardinality(below(i)) \in Nat /\ Cardinality(below(i)) # 0
    BY <2>1, <2>2, FS_CardinalityType, FS_EmptySet
  <2>4. QED
    BY <2>2, <2>3, <1>1
<1>3. \A i, j \in I : i < j => Cardinality(below(i)) # Cardinality(below(j))
  <2> SUFFICES ASSUME NEW i \in I, NEW j \in I, i < j,
                      Cardinality(below(i)) = Cardinality(below(j))
               PROVE  FALSE
    OBVIOUS
  <2>1. below(i) \in SUBSET below(j) /\ j \in below(j) /\ j \notin below(i)
    <3>1. i \in Int /\ j \in Int /\ \A k \in I : k \in Int
      OBVIOUS
    <3>2. \A k \in below(i) : k \in below(j)
      BY <3>1
    <3>3. j \in below(j) /\ j \notin below(i)
      BY <3>1
    <3>4. QED
      BY <3>2, <3>3
  <2>2. below(i) = below(j)
    BY <2>1, <1>2, FS_Subset
  <2>3. QED
    BY <2>1, <2>2
<1>4. rank \in Injection(I, 1..Cardinality(I))
  <2>1. rank \in [I -> 1..Cardinality(I)]
    BY <1>2
  <2>2. ASSUME NEW i \in I, NEW j \in I, rank[i] = rank[j]
        PROVE  i = j
    <3>1. ~(i < j) /\ ~(j < i)
      BY <1>3, <2>2
    <3>2. i \in Nat /\ j \in Nat
      OBVIOUS
    <3>3. QED
      BY <3>1, <3>2
  <2> HIDE DEF rank
  <2>3. QED
    BY <2>1, <2>2 DEF Injection, IsInjective
<1>5. rank \in Surjection(I, 1..Cardinality(I))
  <2>1. IsFiniteSet(1..Cardinality(I)) /\ Cardinality(1..Cardinality(I)) = Cardinality(I)
    BY <1>1, FS_Interval
  <2> HIDE DEF rank
  <2>2. QED
    BY <2>1, <1>4, FS_Injection
<1>6. \A n \in 1..Cardinality(I) : Nth(I, n) \in I /\ Cardinality(below(Nth(I, n))) = n
  <2> SUFFICES ASSUME NEW n \in 1..Cardinality(I)
               PROVE  Nth(I, n) \in I /\ Cardinality(below(Nth(I, n))) = n
    OBVIOUS
  <2>1. PICK i \in I : rank[i] = n
    BY <1>5 DEF Surjection
  <2>2. Cardinality(below(i)) = n
    BY <2>1
  <2>3. QED
    BY <2>2 DEF Nth
<1>7. \A i, j \in I : Cardinality(below(i)) = Cardinality(below(j)) => i = j
  <2> SUFFICES ASSUME NEW i \in I, NEW j \in I, Cardinality(below(i)) = Cardinality(below(j))
               PROVE  i = j
    OBVIOUS
  <2>1. i \in Nat /\ j \in Nat
    OBVIOUS
  <2>2. QED
    BY <2>1, <1>3
<1>8. \A i \in I : Nth(I, Cardinality(below(i))) = i
  BY <1>2, <1>6, <1>7
<1> HIDE DEF below, rank
<1>9. QED
  BY <1>1, <1>2, <1>6, <1>8

\* The elements at I keep their type, come from different positions, and each
\* of them is there.
LEMMA AtPicks ==
  ASSUME NEW S, NEW s \in Seq(S), NEW I \in SUBSET DOMAIN s
  PROVE  /\ At(s, I) \in Seq(S) /\ Len(At(s, I)) = Cardinality(I)
         /\ IsFiniteSet(I) /\ Cardinality(I) \in Nat
         /\ \A n \in DOMAIN At(s, I) : \E i \in I : At(s, I)[n] = s[i]
         /\ \A i \in I : \E n \in DOMAIN At(s, I) : At(s, I)[n] = s[i]
         /\ \A m, n \in DOMAIN At(s, I) :
              m # n => \E i, j \in I : i # j /\ At(s, I)[m] = s[i] /\ At(s, I)[n] = s[j]
<1>1. Len(s) \in Nat /\ DOMAIN s = 1..Len(s)
  OBVIOUS
<1>2. /\ IsFiniteSet(I) /\ Cardinality(I) \in Nat
      /\ \A n \in 1..Cardinality(I) : Nth(I, n) \in I
      /\ \A m, n \in 1..Cardinality(I) : Nth(I, m) = Nth(I, n) => m = n
      /\ \A i \in I : \E n \in 1..Cardinality(I) : Nth(I, n) = i
  BY <1>1, NthIsBijection
<1>3. At(s, I) = [n \in 1..Cardinality(I) |-> s[Nth(I, n)]]
  BY DEF At
<1>4. At(s, I) \in [1..Cardinality(I) -> S]
  BY <1>2, <1>3
<1>5. At(s, I) \in Seq(S) /\ Len(At(s, I)) = Cardinality(I) /\ DOMAIN At(s, I) = 1..Cardinality(I)
  BY <1>2, <1>4
<1>6. \A m, n \in DOMAIN At(s, I) :
        m # n => \E i, j \in I : i # j /\ At(s, I)[m] = s[i] /\ At(s, I)[n] = s[j]
  <2> SUFFICES ASSUME NEW m \in 1..Cardinality(I), NEW n \in 1..Cardinality(I), m # n
               PROVE  \E i, j \in I : i # j /\ At(s, I)[m] = s[i] /\ At(s, I)[n] = s[j]
    BY <1>5
  <2>1. Nth(I, m) \in I /\ Nth(I, n) \in I /\ Nth(I, m) # Nth(I, n)
    BY <1>2
  <2>2. At(s, I)[m] = s[Nth(I, m)] /\ At(s, I)[n] = s[Nth(I, n)]
    BY <1>3
  <2>3. QED
    BY <2>1, <2>2
<1>7. \A i \in I : \E n \in DOMAIN At(s, I) : At(s, I)[n] = s[i]
  BY <1>2, <1>3, <1>5
<1>8. \A n \in DOMAIN At(s, I) : \E i \in I : At(s, I)[n] = s[i]
  BY <1>2, <1>3, <1>5
<1>9. QED
  BY <1>2, <1>5, <1>6, <1>7, <1>8

-----------------------------------------------------------------------------
(***************************************************************************)
(* What the methods of the queue preserve.  QueueInv: an item and a delay  *)
(* have keys of their own, and keys holds these and no other; Waits: the   *)
(* keys of the delays that nothing may shorten.                            *)
(***************************************************************************)
OwnKeys(items) == \A i, j \in DOMAIN items : items[i].key = items[j].key => i = j

OwnDelays(delayed) ==
  \A i, j \in DOMAIN delayed : delayed[i].entry.key = delayed[j].entry.key => i = j

QueueInv(q) ==
  /\ q \in Queues
  /\ OwnKeys(q.items)
  /\ OwnDelays(q.delayed)
  /\ KeysOf(q.items) \cap DelayedKeys(q) = {}
  /\ q.keys = KeysOf(q.items) \cup DelayedKeys(q)
  /\ q.items # <<>> => q.pending

Waits(q) ==
  {q.delayed[i].entry.key : i \in {j \in DOMAIN q.delayed : /\ ~q.delayed[j].promotable
                                                           /\ ~q.delayed[j].due}}

\* A method that leaves a queue well formed, shortens no wait and hands out nothing.
Keeps(q, r) == QueueInv(r) /\ Waits(q) \subseteq Waits(r) /\ r.working = q.working

LEMMA KeyIsAt ==
  ASSUME NEW items, NEW k
  PROVE  k \in KeysOf(items) <=> \E i \in DOMAIN items : items[i].key = k
BY DEF KeysOf, ToSet

LEMMA DelayIsAt ==
  ASSUME NEW q, NEW k
  PROVE  /\ k \in DelayedKeys(q) <=> \E i \in DOMAIN q.delayed : q.delayed[i].entry.key = k
         /\ k \in Waits(q) <=> \E i \in DOMAIN q.delayed :
              ~q.delayed[i].promotable /\ ~q.delayed[i].due /\ q.delayed[i].entry.key = k
BY DEF DelayedKeys, Waits, ToSet

\* Two runs of items with keys of their own, and none in common, are put together.
LEMMA JoinKeys ==
  ASSUME NEW x \in Seq(QueueEntries), NEW y \in Seq(QueueEntries),
         OwnKeys(x), OwnKeys(y), KeysOf(x) \cap KeysOf(y) = {}
  PROVE  OwnKeys(x \o y) /\ KeysOf(x \o y) = KeysOf(x) \cup KeysOf(y)
<1> DEFINE s == x \o y
<1>1. /\ Len(x) \in Nat /\ DOMAIN x = 1..Len(x) /\ Len(y) \in Nat /\ DOMAIN y = 1..Len(y)
      /\ DOMAIN s = 1..(Len(x) + Len(y))
      /\ \A i \in DOMAIN s : s[i] = IF i <= Len(x) THEN x[i] ELSE y[i - Len(x)]
  OBVIOUS
<1>2. /\ \A i \in DOMAIN x : i \in DOMAIN s /\ s[i] = x[i]
      /\ \A i \in DOMAIN y : i + Len(x) \in DOMAIN s /\ s[i + Len(x)] = y[i]
      /\ \A i \in DOMAIN s :
           \/ i \in DOMAIN x /\ s[i] = x[i]
           \/ i - Len(x) \in DOMAIN y /\ s[i] = y[i - Len(x)]
  <2>1. \A i \in DOMAIN x : i \in DOMAIN s /\ s[i] = x[i]
    BY <1>1
  <2>2. ASSUME NEW i \in DOMAIN y
        PROVE  i + Len(x) \in DOMAIN s /\ s[i + Len(x)] = y[i]
    <3>1. i \in Nat /\ i >= 1 /\ i <= Len(y)
      BY <1>1
    <3>2. i + Len(x) \in DOMAIN s /\ ~(i + Len(x) <= Len(x)) /\ (i + Len(x)) - Len(x) = i
      BY <3>1, <1>1
    <3>3. QED
      BY <3>2, <1>1
  <2>3. ASSUME NEW i \in DOMAIN s
        PROVE  \/ i \in DOMAIN x /\ s[i] = x[i]
               \/ i - Len(x) \in DOMAIN y /\ s[i] = y[i - Len(x)]
    BY <1>1
  <2>4. QED
    BY <2>1, <2>2, <2>3
<1> HIDE DEF s
<1>3. ASSUME NEW k \in KeysOf(s)
      PROVE  k \in KeysOf(x) \cup KeysOf(y)
  <2>1. PICK i \in DOMAIN s : s[i].key = k
    BY KeyIsAt
  <2>2. (\E j \in DOMAIN x : x[j].key = k) \/ (\E j \in DOMAIN y : y[j].key = k)
    BY <2>1, <1>2
  <2>3. QED
    BY <2>2, KeyIsAt
<1>4. ASSUME NEW k \in KeysOf(x) \cup KeysOf(y)
      PROVE  k \in KeysOf(s)
  <2>1. (\E j \in DOMAIN x : x[j].key = k) \/ (\E j \in DOMAIN y : y[j].key = k)
    BY KeyIsAt
  <2>2. \E i \in DOMAIN s : s[i].key = k
    BY <2>1, <1>2
  <2>3. QED
    BY <2>2, KeyIsAt
<1>5. \A i \in DOMAIN x, j \in DOMAIN y : x[i].key # y[j].key
  <2> SUFFICES ASSUME NEW i \in DOMAIN x, NEW j \in DOMAIN y, x[i].key = y[j].key
               PROVE  FALSE
    OBVIOUS
  <2>1. x[i].key \in KeysOf(x) /\ y[j].key \in KeysOf(y)
    BY KeyIsAt
  <2>2. QED
    BY <2>1
<1>6. OwnKeys(s)
  <2> SUFFICES ASSUME NEW i \in DOMAIN s, NEW j \in DOMAIN s, s[i].key = s[j].key
               PROVE  i = j
    BY DEF OwnKeys
  <2>1. CASE i \in DOMAIN x /\ s[i] = x[i]
    <3>1. j \in DOMAIN x /\ s[j] = x[j]
      BY <2>1, <1>2, <1>5
    <3>2. QED
      BY <2>1, <3>1 DEF OwnKeys
  <2>2. CASE i - Len(x) \in DOMAIN y /\ s[i] = y[i - Len(x)]
    <3>1. j - Len(x) \in DOMAIN y /\ s[j] = y[j - Len(x)]
      BY <2>2, <1>2, <1>5
    <3>2. i - Len(x) = j - Len(x)
      BY <2>2, <3>1 DEF OwnKeys
    <3>3. QED
      BY <3>2, <1>1
  <2>3. QED
    BY <2>1, <2>2, <1>2
<1>7. QED
  BY <1>3, <1>4, <1>6 DEF s

\* Items with new keys are put before or behind the others.
LEMMA JoinKeeps ==
  ASSUME NEW q, QueueInv(q), NEW x \in Seq(QueueEntries), NEW y \in Seq(QueueEntries),
         OwnKeys(x), OwnKeys(y), KeysOf(x) \cap KeysOf(y) = {},
         x = q.items \/ y = q.items,
         (KeysOf(x) \cup KeysOf(y)) \cap DelayedKeys(q) = {},
         NEW r \in Queues, r.items = x \o y, r.keys = q.keys \cup KeysOf(x) \cup KeysOf(y),
         r.delayed = q.delayed, r.working = q.working, r.items # <<>> => r.pending
  PROVE  Keeps(q, r)
<1>1. OwnKeys(r.items) /\ KeysOf(r.items) = KeysOf(x) \cup KeysOf(y)
  BY JoinKeys
<1>2. DelayedKeys(r) = DelayedKeys(q) /\ Waits(r) = Waits(q)
  BY DEF DelayedKeys, Waits
<1>3. r.keys = KeysOf(r.items) \cup DelayedKeys(r)
  BY <1>1, <1>2 DEF QueueInv
<1>4. QED
  BY <1>1, <1>2, <1>3 DEF Keeps, QueueInv

\* An entry with a new key is put first, or last.
LEMMA EndKeeps ==
  ASSUME NEW q, QueueInv(q), NEW e \in QueueEntries, e.key \notin q.keys,
         NEW r \in Queues, r.items = <<e>> \o q.items \/ r.items = Append(q.items, e),
         r.keys = q.keys \cup {e.key},
         r.delayed = q.delayed, r.pending, r.working = q.working
  PROVE  Keeps(q, r)
<1>1. q.items \in Seq(QueueEntries) /\ <<e>> \in Seq(QueueEntries)
  BY DEF QueueInv, Queues
<1>2. KeysOf(<<e>>) = {e.key} /\ OwnKeys(<<e>>)
  <2>1. DOMAIN <<e>> = {1} /\ <<e>>[1] = e
    OBVIOUS
  <2>2. QED
    BY <2>1 DEF KeysOf, ToSet, OwnKeys
<1>3. OwnKeys(q.items) /\ q.keys = KeysOf(q.items) \cup DelayedKeys(q)
      /\ KeysOf(q.items) \cap DelayedKeys(q) = {}
  BY DEF QueueInv
<1>4. Append(q.items, e) = q.items \o <<e>>
  BY <1>1
<1>5. /\ KeysOf(<<e>>) \cap KeysOf(q.items) = {} /\ KeysOf(q.items) \cap KeysOf(<<e>>) = {}
      /\ (KeysOf(<<e>>) \cup KeysOf(q.items)) \cap DelayedKeys(q) = {}
      /\ (KeysOf(q.items) \cup KeysOf(<<e>>)) \cap DelayedKeys(q) = {}
      /\ r.keys = q.keys \cup KeysOf(<<e>>) \cup KeysOf(q.items)
      /\ r.keys = q.keys \cup KeysOf(q.items) \cup KeysOf(<<e>>)
  BY <1>2, <1>3
<1>6. CASE r.items = <<e>> \o q.items
  BY <1>1, <1>2, <1>3, <1>5, <1>6, JoinKeeps
<1>7. CASE r.items = q.items \o <<e>>
  BY <1>1, <1>2, <1>3, <1>5, <1>7, JoinKeeps
<1>8. QED
  BY <1>4, <1>6, <1>7

\* What At leaves of the items, and of the delays, still has keys of its own.
LEMMA ItemsAt ==
  ASSUME NEW q, QueueInv(q), NEW I \in SUBSET DOMAIN q.items
  PROVE  /\ At(q.items, I) \in Seq(QueueEntries)
         /\ OwnKeys(At(q.items, I))
         /\ KeysOf(At(q.items, I)) = {q.items[i].key : i \in I}
<1> DEFINE s == At(q.items, I)
<1>1. q.items \in Seq(QueueEntries)
  BY DEF QueueInv, Queues
<1>2. /\ s \in Seq(QueueEntries)
      /\ \A n \in DOMAIN s : \E i \in I : s[n] = q.items[i]
      /\ \A i \in I : \E n \in DOMAIN s : s[n] = q.items[i]
      /\ \A m, n \in DOMAIN s : m # n => \E i, j \in I : i # j /\ s[m] = q.items[i] /\ s[n] = q.items[j]
  BY <1>1, AtPicks
<1> HIDE DEF s
<1>3. OwnKeys(s)
  <2>1. ASSUME NEW m \in DOMAIN s, NEW n \in DOMAIN s, m # n
        PROVE  s[m].key # s[n].key
    <3>1. PICK i \in I, j \in I : i # j /\ s[m] = q.items[i] /\ s[n] = q.items[j]
      BY <2>1, <1>2
    <3>2. q.items[i].key # q.items[j].key
      BY <3>1 DEF QueueInv, OwnKeys
    <3>3. QED
      BY <3>1, <3>2
  <2>2. QED
    BY <2>1 DEF OwnKeys
<1>4. KeysOf(s) = {q.items[i].key : i \in I}
  <2>1. ASSUME NEW k \in KeysOf(s)
        PROVE  k \in {q.items[i].key : i \in I}
    <3>1. PICK n \in DOMAIN s : s[n].key = k
      BY <2>1, KeyIsAt
    <3>2. QED
      BY <3>1, <1>2
  <2>2. ASSUME NEW i \in I
        PROVE  q.items[i].key \in KeysOf(s)
    <3>1. PICK n \in DOMAIN s : s[n] = q.items[i]
      BY <1>2
    <3>2. QED
      BY <3>1, KeyIsAt
  <2>3. QED
    BY <2>1, <2>2
<1>5. QED
  BY <1>2, <1>3, <1>4 DEF s

LEMMA DelaysAt ==
  ASSUME NEW q, QueueInv(q), NEW I \in SUBSET DOMAIN q.delayed,
         NEW r \in Queues, r.delayed = At(q.delayed, I)
  PROVE  /\ OwnDelays(r.delayed)
         /\ DelayedKeys(r) = {q.delayed[i].entry.key : i \in I}
         /\ \A i \in I : ~q.delayed[i].promotable /\ ~q.delayed[i].due =>
              q.delayed[i].entry.key \in Waits(r)
<1> DEFINE s == At(q.delayed, I)
<1>1. q.delayed \in Seq(Delays)
  BY DEF QueueInv, Queues
<1>2. /\ s \in Seq(Delays)
      /\ \A n \in DOMAIN s : \E i \in I : s[n] = q.delayed[i]
      /\ \A i \in I : \E n \in DOMAIN s : s[n] = q.delayed[i]
      /\ \A m, n \in DOMAIN s : m # n => \E i, j \in I : i # j /\ s[m] = q.delayed[i] /\ s[n] = q.delayed[j]
  BY <1>1, AtPicks
<1>3. r.delayed = s
  OBVIOUS
<1> HIDE DEF s
<1>4. OwnDelays(s)
  <2>1. ASSUME NEW m \in DOMAIN s, NEW n \in DOMAIN s, m # n
        PROVE  s[m].entry.key # s[n].entry.key
    <3>1. PICK i \in I, j \in I : i # j /\ s[m] = q.delayed[i] /\ s[n] = q.delayed[j]
      BY <2>1, <1>2
    <3>2. q.delayed[i].entry.key # q.delayed[j].entry.key
      BY <3>1 DEF QueueInv, OwnDelays
    <3>3. QED
      BY <3>1, <3>2
  <2>2. QED
    BY <2>1 DEF OwnDelays
<1>5. DelayedKeys(r) = {q.delayed[i].entry.key : i \in I}
  <2>1. ASSUME NEW k \in DelayedKeys(r)
        PROVE  k \in {q.delayed[i].entry.key : i \in I}
    <3>1. PICK n \in DOMAIN s : s[n].entry.key = k
      BY <2>1, <1>3, DelayIsAt
    <3>2. QED
      BY <3>1, <1>2
  <2>2. ASSUME NEW i \in I
        PROVE  q.delayed[i].entry.key \in DelayedKeys(r)
    <3>1. PICK n \in DOMAIN s : s[n] = q.delayed[i]
      BY <1>2
    <3>2. QED
      BY <3>1, <1>3, DelayIsAt
  <2>3. QED
    BY <2>1, <2>2
<1>6. ASSUME NEW i \in I, ~q.delayed[i].promotable, ~q.delayed[i].due
      PROVE  q.delayed[i].entry.key \in Waits(r)
  <2>1. PICK n \in DOMAIN s : s[n] = q.delayed[i]
    BY <1>2
  <2>2. QED
    BY <2>1, <1>6, <1>3, DelayIsAt
<1>7. QED
  BY <1>4, <1>5, <1>6, <1>3

\* An item is taken out of the queue together with its key.
LEMMA ItemTaken ==
  ASSUME NEW q, QueueInv(q), NEW k \in KeysOf(q.items),
         NEW r, r = [q EXCEPT !.items = ItemsBut(q, k), !.keys = @ \ {k}]
  PROVE  Keeps(q, r) /\ k \notin r.keys /\ r.pending
<1> DEFINE I == {i \in DOMAIN q.items : q.items[i].key # k}
<1>1. /\ ItemsBut(q, k) \in Seq(QueueEntries) /\ OwnKeys(ItemsBut(q, k))
      /\ KeysOf(ItemsBut(q, k)) = {q.items[i].key : i \in I}
  BY ItemsAt DEF ItemsBut
<1>2. /\ r \in Queues /\ r.items = ItemsBut(q, k) /\ r.keys = q.keys \ {k}
      /\ r.delayed = q.delayed /\ r.pending = q.pending /\ r.working = q.working
  BY <1>1 DEF QueueInv, Queues
<1>3. KeysOf(r.items) = KeysOf(q.items) \ {k}
  <2>1. \A x : x \in {q.items[i].key : i \in I} <=> x \in KeysOf(q.items) /\ x # k
    BY DEF KeysOf, ToSet
  <2>2. QED
    BY <1>1, <1>2, <2>1
<1>4. k \notin DelayedKeys(q) /\ q.pending
  <2>1. \E i \in DOMAIN q.items : q.items[i].key = k
    BY KeyIsAt
  <2>2. QED
    BY <2>1 DEF QueueInv
<1>5. DelayedKeys(r) = DelayedKeys(q) /\ Waits(r) = Waits(q)
  BY <1>2 DEF DelayedKeys, Waits
<1>6. QED
  BY <1>1, <1>2, <1>3, <1>4, <1>5 DEF Keeps, QueueInv

\* Delays that nothing protects are forgotten together with their keys.
LEMMA DelaysTaken ==
  ASSUME NEW q, QueueInv(q), NEW I \in SUBSET DOMAIN q.delayed,
         NEW gone, gone = {q.delayed[i].entry.key : i \in DOMAIN q.delayed \ I},
         gone \cap Waits(q) = {},
         NEW r, r = [q EXCEPT !.delayed = At(q.delayed, I), !.keys = @ \ gone]
  PROVE  Keeps(q, r) /\ gone \cap r.keys = {}
<1>1. At(q.delayed, I) \in Seq(Delays)
  <2>1. q.delayed \in Seq(Delays)
    BY DEF QueueInv, Queues
  <2>2. QED
    BY <2>1, AtPicks
<1>2. /\ r \in Queues /\ r.delayed = At(q.delayed, I) /\ r.keys = q.keys \ gone
      /\ r.items = q.items /\ r.pending = q.pending /\ r.working = q.working
  BY <1>1 DEF QueueInv, Queues
<1>3. /\ OwnDelays(r.delayed)
      /\ DelayedKeys(r) = {q.delayed[i].entry.key : i \in I}
      /\ \A i \in I : ~q.delayed[i].promotable /\ ~q.delayed[i].due =>
           q.delayed[i].entry.key \in Waits(r)
  BY <1>2, DelaysAt
<1>4. DelayedKeys(r) = DelayedKeys(q) \ gone
  <2>1. \A x : x \in DelayedKeys(q) <=>
          x \in {q.delayed[i].entry.key : i \in I} \/ x \in gone
    BY DEF DelayedKeys, ToSet
  <2>2. \A i \in I, j \in DOMAIN q.delayed \ I :
          q.delayed[i].entry.key # q.delayed[j].entry.key
    BY DEF QueueInv, OwnDelays
  <2>3. \A x : x \in {q.delayed[i].entry.key : i \in I} => x \notin gone
    BY <2>2
  <2>4. QED
    BY <1>3, <2>1, <2>3
<1>5. gone \cap KeysOf(q.items) = {}
  <2>1. gone \subseteq DelayedKeys(q)
    BY DEF DelayedKeys, ToSet
  <2>2. QED
    BY <2>1 DEF QueueInv
<1>6. Waits(q) \subseteq Waits(r)
  <2> SUFFICES ASSUME NEW x \in Waits(q)
               PROVE  x \in Waits(r)
    OBVIOUS
  <2>1. PICK i \in DOMAIN q.delayed :
          ~q.delayed[i].promotable /\ ~q.delayed[i].due /\ q.delayed[i].entry.key = x
    BY DelayIsAt
  <2>2. i \in I
    BY <2>1
  <2>3. QED
    BY <2>1, <2>2, <1>3
<1>7. QED
  BY <1>2, <1>3, <1>4, <1>5, <1>6 DEF Keeps, QueueInv

LEMMA DelayTaken ==
  ASSUME NEW q, QueueInv(q), NEW k \in DelayedKeys(q), k \notin Waits(q),
         NEW r, r = [q EXCEPT !.delayed = DelayedBut(q, k), !.keys = @ \ {k}]
  PROVE  Keeps(q, r) /\ k \notin r.keys
<1> DEFINE I == {i \in DOMAIN q.delayed : q.delayed[i].entry.key # k}
<1>1. {k} = {q.delayed[i].entry.key : i \in DOMAIN q.delayed \ I}
  BY DEF DelayedKeys, ToSet
<1>2. r = [q EXCEPT !.delayed = At(q.delayed, I), !.keys = @ \ {k}]
  BY DEF DelayedBut
<1>3. {k} \cap Waits(q) = {} /\ I \in SUBSET DOMAIN q.delayed
  OBVIOUS
<1> HIDE DEF I
<1>4. QED
  BY <1>1, <1>2, <1>3, DelaysTaken

LEMMA KeepsTwice ==
  ASSUME NEW p, NEW q, NEW r, Keeps(p, q), Keeps(q, r)
  PROVE  Keeps(p, r)
BY DEF Keeps

\* The only item, and the only delay, of a key.
LEMMA ItemOfKey ==
  ASSUME NEW q, QueueInv(q), NEW k \in KeysOf(q.items)
  PROVE  ItemOf(q, k) \in QueueEntries /\ ItemOf(q, k).key = k
<1>1. \E e \in ToSet(q.items) : e.key = k
  BY DEF KeysOf
<1>2. ToSet(q.items) \subseteq QueueEntries
  BY DEF ToSet, QueueInv, Queues
<1>3. QED
  BY <1>1, <1>2 DEF ItemOf

LEMMA DelayOfKey ==
  ASSUME NEW q, QueueInv(q), NEW k \in DelayedKeys(q)
  PROVE  /\ DelayOf(q, k) \in Delays /\ DelayOf(q, k).entry.key = k
         /\ DelayOf(q, k).entry \in QueueEntries
         /\ DelayOf(q, k).promotable \/ DelayOf(q, k).due => k \notin Waits(q)
<1> DEFINE d == DelayOf(q, k)
<1>1. d \in ToSet(q.delayed) /\ d.entry.key = k
  BY DEF DelayedKeys, DelayOf
<1>2. PICK i \in DOMAIN q.delayed : q.delayed[i] = d
  BY <1>1 DEF ToSet
<1>3. d \in Delays /\ d.entry \in QueueEntries
  <2>1. q.delayed \in Seq(Delays)
    BY DEF QueueInv, Queues
  <2>2. d \in Delays
    BY <2>1, <1>2
  <2>3. QED
    BY <2>2 DEF Delays
<1>4. ASSUME k \in Waits(q), d.promotable \/ d.due
      PROVE  FALSE
  <2>1. PICK j \in DOMAIN q.delayed :
          ~q.delayed[j].promotable /\ ~q.delayed[j].due /\ q.delayed[j].entry.key = k
    BY <1>4, DelayIsAt
  <2>2. i = j
    BY <2>1, <1>1, <1>2 DEF QueueInv, OwnDelays
  <2>3. QED
    BY <2>1, <2>2, <1>2, <1>4
<1>5. QED
  BY <1>1, <1>3, <1>4

LEMMA UrgentEntry ==
  ASSUME NEW e \in QueueEntries
  PROVE  Urgent(e) \in QueueEntries /\ Urgent(e).key = e.key
BY DEF Urgent, QueueEntries

LEMMA MarkedDelay ==
  ASSUME NEW d \in Delays, NEW k
  PROVE  /\ Marked(d, k) \in Delays /\ Marked(d, k).entry.key = d.entry.key
         /\ Marked(d, k).promotable = d.promotable /\ Marked(d, k).due = d.due
<1>1. d.entry \in QueueEntries
  BY DEF Delays
<1>2. QED
  BY <1>1, UrgentEntry DEF Marked, Delays

\* The delays change, but neither their keys nor what holds them back.
LEMMA SameDelays ==
  ASSUME NEW q, QueueInv(q), NEW s \in Seq(Delays), DOMAIN s = DOMAIN q.delayed,
         \A i \in DOMAIN s :
           /\ s[i].entry.key = q.delayed[i].entry.key
           /\ s[i].promotable = q.delayed[i].promotable /\ s[i].due = q.delayed[i].due,
         NEW r, r = [q EXCEPT !.delayed = s]
  PROVE  Keeps(q, r)
<1>1. /\ r \in Queues /\ r.delayed = s /\ r.items = q.items /\ r.keys = q.keys
      /\ r.pending = q.pending /\ r.working = q.working
  BY DEF QueueInv, Queues
<1>2. DelayedKeys(r) = DelayedKeys(q)
  <2>1. ASSUME NEW x \in DelayedKeys(q)
        PROVE  x \in DelayedKeys(r)
    <3>1. PICK i \in DOMAIN q.delayed : q.delayed[i].entry.key = x
      BY <2>1, DelayIsAt
    <3>2. i \in DOMAIN s /\ s[i].entry.key = x
      BY <3>1
    <3>3. QED
      BY <3>2, <1>1, DelayIsAt
  <2>2. ASSUME NEW x \in DelayedKeys(r)
        PROVE  x \in DelayedKeys(q)
    <3>1. PICK i \in DOMAIN r.delayed : r.delayed[i].entry.key = x
      BY <2>2 DEF DelayedKeys, ToSet
    <3>2. i \in DOMAIN q.delayed /\ q.delayed[i].entry.key = x
      BY <3>1, <1>1
    <3>3. QED
      BY <3>2, DelayIsAt
  <2>3. QED
    BY <2>1, <2>2
<1>3. Waits(q) \subseteq Waits(r)
  <2> SUFFICES ASSUME NEW x \in Waits(q)
               PROVE  x \in Waits(r)
    OBVIOUS
  <2>1. PICK i \in DOMAIN q.delayed :
          ~q.delayed[i].promotable /\ ~q.delayed[i].due /\ q.delayed[i].entry.key = x
    BY DelayIsAt
  <2>2. i \in DOMAIN s /\ ~s[i].promotable /\ ~s[i].due /\ s[i].entry.key = x
    BY <2>1
  <2>3. QED
    BY <2>2, <1>1, DelayIsAt
<1>4. OwnDelays(s)
  BY DEF OwnDelays, QueueInv
<1>5. QED
  BY <1>1, <1>2, <1>3, <1>4 DEF Keeps, QueueInv

\* A delayed item becomes urgent where it is.
LEMMA MarkKeeps ==
  ASSUME NEW q, QueueInv(q), NEW k
  PROVE  Keeps(q, [q EXCEPT !.delayed = [i \in DOMAIN @ |-> Marked(@[i], k)]])
<1> DEFINE s == [i \in DOMAIN q.delayed |-> Marked(q.delayed[i], k)]
<1>1. q.delayed \in Seq(Delays) /\ Len(q.delayed) \in Nat /\ DOMAIN q.delayed = 1..Len(q.delayed)
  BY DEF QueueInv, Queues
<1>2. \A i \in DOMAIN q.delayed :
        /\ s[i] \in Delays /\ s[i].entry.key = q.delayed[i].entry.key
        /\ s[i].promotable = q.delayed[i].promotable /\ s[i].due = q.delayed[i].due
  BY <1>1, MarkedDelay
<1>3. s \in [1..Len(q.delayed) -> Delays]
  BY <1>1, <1>2
<1>4. DOMAIN s = DOMAIN q.delayed /\ s \in Seq(Delays)
  BY <1>1, <1>3
<1> HIDE DEF s
<1>5. Keeps(q, [q EXCEPT !.delayed = s])
  BY <1>2, <1>4, SameDelays
<1>6. QED
  BY <1>5 DEF s

LEMMA RaisedKeeps ==
  ASSUME NEW q, QueueInv(q), NEW k
  PROVE  Keeps(q, Raised(q, k))
<1> DEFINE r == Raised(q, k)
<1>1. CASE k \in KeysOf(q.items)
  <2> DEFINE p == [q EXCEPT !.items = ItemsBut(q, k), !.keys = @ \ {k}]
             e == Urgent(ItemOf(q, k))
  <2>1. Keeps(q, p) /\ k \notin p.keys /\ p.pending
    BY <1>1, ItemTaken
  <2>2. e \in QueueEntries /\ e.key = k
    BY <1>1, ItemOfKey, UrgentEntry
  <2>3. r = [q EXCEPT !.items = <<e>> \o ItemsBut(q, k)]
    BY <1>1 DEF Raised
  <2>4. p.items = ItemsBut(q, k) /\ p.items \in Seq(QueueEntries) /\ p.keys = q.keys \ {k}
        /\ p.delayed = q.delayed /\ p.pending = q.pending /\ p.working = q.working
        /\ k \in q.keys /\ q \in Queues
    BY <2>1, <1>1 DEF Keeps, QueueInv, Queues
  <2> HIDE DEF e
  <2>5. /\ r \in Queues /\ r.items = <<e>> \o p.items /\ r.keys = p.keys \cup {e.key}
        /\ r.delayed = p.delayed /\ r.pending /\ r.working = p.working
    <3>1. <<e>> \o p.items \in Seq(QueueEntries)
      BY <2>2, <2>4
    <3>2. r.keys = p.keys \cup {e.key}
      BY <2>2, <2>3, <2>4 DEF Queues
    <3>3. QED
      BY <3>1, <3>2, <2>1, <2>3, <2>4 DEF Queues
  <2> HIDE DEF p, r
  <2>6. Keeps(p, r)
    BY <2>1, <2>2, <2>5, EndKeeps DEF Keeps
  <2>7. QED
    BY <2>1, <2>6, KeepsTwice DEF r
<1>2. CASE k \notin KeysOf(q.items) /\ k \notin DelayedKeys(q)
  BY <1>2 DEF Raised, Keeps
<1>3. CASE k \notin KeysOf(q.items) /\ k \in DelayedKeys(q) /\ DelayOf(q, k).promotable
  <2> DEFINE p == [q EXCEPT !.delayed = DelayedBut(q, k), !.keys = @ \ {k}]
             e == Urgent(DelayOf(q, k).entry)
  <2>1. Keeps(q, p) /\ k \notin p.keys
    BY <1>3, DelayOfKey, DelayTaken
  <2>2. e \in QueueEntries /\ e.key = k
    BY <1>3, DelayOfKey, UrgentEntry
  <2>3. r = [q EXCEPT !.items = <<e>> \o @, !.delayed = DelayedBut(q, k), !.pending = TRUE]
    BY <1>3 DEF Raised
  <2>4. p.items = q.items /\ p.items \in Seq(QueueEntries) /\ p.keys = q.keys \ {k}
        /\ p.delayed = DelayedBut(q, k) /\ p.delayed \in Seq(Delays) /\ p.working = q.working
        /\ k \in q.keys /\ q \in Queues
    BY <2>1, <1>3 DEF Keeps, QueueInv, Queues
  <2> HIDE DEF e
  <2>5. /\ r \in Queues /\ r.items = <<e>> \o p.items /\ r.keys = p.keys \cup {e.key}
        /\ r.delayed = p.delayed /\ r.pending /\ r.working = p.working
    <3>1. <<e>> \o p.items \in Seq(QueueEntries)
      BY <2>2, <2>4
    <3>2. r.keys = p.keys \cup {e.key}
      BY <2>2, <2>3, <2>4 DEF Queues
    <3>3. QED
      BY <3>1, <3>2, <2>1, <2>3, <2>4 DEF Queues
  <2> HIDE DEF p, r
  <2>6. Keeps(p, r)
    BY <2>1, <2>2, <2>5, EndKeeps DEF Keeps
  <2>7. QED
    BY <2>1, <2>6, KeepsTwice DEF r
<1>4. CASE k \notin KeysOf(q.items) /\ k \in DelayedKeys(q) /\ ~DelayOf(q, k).promotable
  BY <1>4, MarkKeeps DEF Raised
<1>5. QED
  BY <1>1, <1>2, <1>3, <1>4

LEMMA EnqueuedKeeps ==
  ASSUME NEW q, QueueInv(q), NEW e \in QueueEntries
  PROVE  Keeps(q, Enqueued(q, e))
<1> DEFINE r == Enqueued(q, e)
<1>1. CASE e.key \notin q.keys
  <2> DEFINE s == IF e.priority THEN <<e>> \o q.items ELSE Append(q.items, e)
  <2>1. s \in Seq(QueueEntries) /\ (s = <<e>> \o q.items \/ s = Append(q.items, e)) /\ e.key \in Issues
    <3>1. q.items \in Seq(QueueEntries)
      BY DEF QueueInv, Queues
    <3>2. e.key \in Issues
      BY DEF QueueEntries
    <3>3. QED
      BY <3>1, <3>2
  <2>2. r = [q EXCEPT !.items = s, !.keys = @ \cup {e.key}, !.pending = TRUE]
    BY <1>1 DEF Enqueued
  <2> HIDE DEF s
  <2>3. /\ r \in Queues /\ r.items = s /\ r.keys = q.keys \cup {e.key}
        /\ r.delayed = q.delayed /\ r.pending /\ r.working = q.working
    BY <2>1, <2>2 DEF QueueInv, Queues
  <2> HIDE DEF r
  <2>4. QED
    BY <1>1, <2>1, <2>3, EndKeeps DEF r
<1>2. CASE e.key \in q.keys
  BY <1>2, RaisedKeeps DEF Enqueued, Keeps
<1>3. QED
  BY <1>1, <1>2

\* scheduleRetry: the delay comes last.
LEMMA DelayedKeeps ==
  ASSUME NEW q, QueueInv(q), NEW e \in QueueEntries, NEW promotable \in BOOLEAN
  PROVE  Keeps(q, Delayed(q, e, promotable))
<1> DEFINE r == Delayed(q, e, promotable)
           d == [entry |-> e, promotable |-> promotable, due |-> FALSE]
           n == Len(q.delayed) + 1
<1>1. CASE e.key \in q.keys
  BY <1>1 DEF Delayed, Keeps
<1>2. CASE e.key \notin q.keys
  <2>1. q.delayed \in Seq(Delays) /\ Len(q.delayed) \in Nat /\ DOMAIN q.delayed = 1..Len(q.delayed)
    BY DEF QueueInv, Queues
  <2>2. d \in Delays /\ d.entry.key = e.key /\ e.key \in Issues
    BY DEF Delays, QueueEntries
  <2>3. r = [q EXCEPT !.keys = @ \cup {e.key}, !.delayed = Append(@, d)]
    BY <1>2 DEF Delayed
  <2> HIDE DEF d, r
  <2>4. /\ r \in Queues /\ r.delayed = Append(q.delayed, d) /\ r.keys = q.keys \cup {e.key}
        /\ r.items = q.items /\ r.pending = q.pending /\ r.working = q.working
    <3>1. Append(q.delayed, d) \in Seq(Delays)
      BY <2>1, <2>2
    <3>2. QED
      BY <3>1, <2>2, <2>3 DEF QueueInv, Queues
  <2>5. /\ DOMAIN r.delayed = 1..n /\ n \in DOMAIN r.delayed /\ r.delayed[n] = d
        /\ \A i \in DOMAIN q.delayed : i \in DOMAIN r.delayed /\ r.delayed[i] = q.delayed[i]
        /\ \A i \in DOMAIN r.delayed : i = n \/ i \in DOMAIN q.delayed
    BY <2>1, <2>4
  <2> HIDE DEF n
  <2>6. DelayedKeys(r) = DelayedKeys(q) \cup {e.key}
    <3>1. ASSUME NEW x \in DelayedKeys(q) \cup {e.key}
          PROVE  x \in DelayedKeys(r)
      <4>1. (\E i \in DOMAIN q.delayed : q.delayed[i].entry.key = x) \/ d.entry.key = x
        BY <2>2, DelayIsAt
      <4>2. \E i \in DOMAIN r.delayed : r.delayed[i].entry.key = x
        BY <4>1, <2>5
      <4>3. QED
        BY <4>2, DelayIsAt
    <3>2. ASSUME NEW x \in DelayedKeys(r)
          PROVE  x \in DelayedKeys(q) \cup {e.key}
      <4>1. PICK i \in DOMAIN r.delayed : r.delayed[i].entry.key = x
        BY DelayIsAt
      <4>2. i \in DOMAIN q.delayed => x \in DelayedKeys(q)
        BY <4>1, <2>5, DelayIsAt
      <4>3. QED
        BY <4>1, <4>2, <2>2, <2>5
    <3>3. QED
      BY <3>1, <3>2
  <2>7. Waits(q) \subseteq Waits(r)
    <3> SUFFICES ASSUME NEW x \in Waits(q)
                 PROVE  x \in Waits(r)
      OBVIOUS
    <3>1. PICK i \in DOMAIN q.delayed :
            ~q.delayed[i].promotable /\ ~q.delayed[i].due /\ q.delayed[i].entry.key = x
      BY DelayIsAt
    <3>2. QED
      BY <3>1, <2>5, DelayIsAt
  <2>8. \A i \in DOMAIN q.delayed : q.delayed[i].entry.key # e.key
    <3>1. e.key \notin DelayedKeys(q)
      BY <1>2 DEF QueueInv
    <3>2. QED
      BY <3>1, DelayIsAt
  <2>9. OwnDelays(r.delayed)
    BY <2>2, <2>5, <2>8 DEF OwnDelays, QueueInv
  <2>10. QED
    BY <1>2, <2>4, <2>6, <2>7, <2>9 DEF Keeps, QueueInv, r
<1>3. QED
  BY <1>1, <1>2

\* The timer of a delay that is due.
LEMMA WokenKeeps ==
  ASSUME NEW q, QueueInv(q), NEW i \in DOMAIN q.delayed, q.delayed[i].due
  PROVE  Keeps(q, Woken(q, q.delayed[i]))
<1> DEFINE k == q.delayed[i].entry.key
<1>1. k \in DelayedKeys(q)
  BY DelayIsAt
<1>2. k \notin Waits(q)
  <2> SUFFICES ASSUME k \in Waits(q)
               PROVE  FALSE
    OBVIOUS
  <2>1. PICK j \in DOMAIN q.delayed :
          ~q.delayed[j].promotable /\ ~q.delayed[j].due /\ q.delayed[j].entry.key = k
    BY DelayIsAt
  <2>2. i = j
    BY <2>1 DEF QueueInv, OwnDelays
  <2>3. QED
    BY <2>1, <2>2
<1>3. Woken(q, q.delayed[i]) = [q EXCEPT !.delayed = DelayedBut(q, k), !.keys = @ \ {k}]
  BY DEF Woken
<1> HIDE DEF k
<1>4. QED
  BY <1>1, <1>2, <1>3, DelayTaken

\* promoteDelayedPriorities: what is hurried may be promoted, so that it is not
\* held back by a wait.
LEMMA PromotedKeeps ==
  ASSUME NEW q, QueueInv(q)
  PROVE  Keeps(q, Promoted(q))
<1> DEFINE I == {i \in DOMAIN q.delayed : Hurried(q.delayed[i])}
           J == DOMAIN q.delayed \ I
           gone == {q.delayed[i].entry.key : i \in I}
           h == At(q.delayed, I)
           es == [n \in DOMAIN h |-> h[n].entry]
           x == Reverse(es)
           p == [q EXCEPT !.delayed = At(q.delayed, J), !.keys = @ \ gone]
           r == Promoted(q)
<1>1. q \in Queues /\ q.delayed \in Seq(Delays) /\ q.items \in Seq(QueueEntries)
      /\ I \in SUBSET DOMAIN q.delayed /\ J \in SUBSET DOMAIN q.delayed
  BY DEF QueueInv, Queues
<1>2. gone \cap Waits(q) = {}
  <2> SUFFICES ASSUME NEW i \in I, q.delayed[i].entry.key \in Waits(q)
               PROVE  FALSE
    OBVIOUS
  <2>1. PICK j \in DOMAIN q.delayed :
          /\ ~q.delayed[j].promotable /\ ~q.delayed[j].due
          /\ q.delayed[j].entry.key = q.delayed[i].entry.key
    BY DelayIsAt
  <2>2. i = j
    BY <2>1 DEF QueueInv, OwnDelays
  <2>3. QED
    BY <2>1, <2>2 DEF Hurried
<1>3. Keeps(q, p) /\ gone \cap p.keys = {}
  <2>1. gone = {q.delayed[i].entry.key : i \in DOMAIN q.delayed \ J}
    <3>1. DOMAIN q.delayed \ J = I
      OBVIOUS
    <3>2. QED
      BY <3>1
  <2> HIDE DEF gone, J
  <2>2. QED
    BY <2>1, <1>1, <1>2, DelaysTaken
<1>4. /\ h \in Seq(Delays) /\ Len(h) \in Nat /\ DOMAIN h = 1..Len(h)
      /\ \A n \in DOMAIN h : \E i \in I : h[n] = q.delayed[i]
      /\ \A i \in I : \E n \in DOMAIN h : h[n] = q.delayed[i]
      /\ \A m, n \in DOMAIN h :
           m # n => \E i, j \in I : i # j /\ h[m] = q.delayed[i] /\ h[n] = q.delayed[j]
  <2>1. q.delayed \in Seq(Delays) /\ I \in SUBSET DOMAIN q.delayed
    BY <1>1
  <2> HIDE DEF I
  <2>2. /\ h \in Seq(Delays)
        /\ \A n \in DOMAIN h : \E i \in I : h[n] = q.delayed[i]
        /\ \A i \in I : \E n \in DOMAIN h : h[n] = q.delayed[i]
        /\ \A m, n \in DOMAIN h :
             m # n => \E i, j \in I : i # j /\ h[m] = q.delayed[i] /\ h[n] = q.delayed[j]
    BY <2>1, AtPicks
  <2> HIDE DEF h
  <2>3. Len(h) \in Nat /\ DOMAIN h = 1..Len(h)
    BY <2>2
  <2>4. QED
    BY <2>2, <2>3
<1> HIDE DEF h
<1>5. /\ es \in Seq(QueueEntries) /\ Len(es) = Len(h)
      /\ \A n \in DOMAIN h : es[n] = h[n].entry
  <2>1. \A n \in DOMAIN h : h[n].entry \in QueueEntries
    <3>1. \A d \in Delays : d.entry \in QueueEntries
      BY DEF Delays
    <3>2. QED
      BY <3>1, <1>4
  <2>2. es \in [1..Len(h) -> QueueEntries]
    BY <2>1, <1>4
  <2>3. QED
    BY <2>2, <1>4
<1> HIDE DEF es
<1>6. /\ x \in Seq(QueueEntries) /\ DOMAIN x = 1..Len(h) /\ Len(x) = Len(h)
      /\ \A n \in 1..Len(h) : Len(h) - n + 1 \in DOMAIN h /\ x[n] = h[Len(h) - n + 1].entry
  <2>1. x = [n \in 1..Len(h) |-> es[(Len(h) - n) + 1]]
    BY <1>5 DEF Reverse
  <2>2. \A n \in 1..Len(h) : Len(h) - n + 1 \in 1..Len(h)
    BY <1>4
  <2>3. \A n \in 1..Len(h) : es[Len(h) - n + 1] \in QueueEntries
    BY <2>2, <1>4, <1>5
  <2>4. x \in [1..Len(h) -> QueueEntries]
    BY <2>1, <2>3
  <2>5. \A n \in 1..Len(h) : x[n] = h[Len(h) - n + 1].entry
    BY <2>1, <2>2, <1>4, <1>5
  <2> HIDE DEF x
  <2>6. x \in Seq(QueueEntries) /\ DOMAIN x = 1..Len(h) /\ Len(x) = Len(h)
    BY <2>4, <1>4
  <2>7. QED
    BY <2>2, <2>5, <2>6, <1>4
<1> HIDE DEF x
<1>7. KeysOf(x) = gone
  <2>1. ASSUME NEW k \in KeysOf(x)
        PROVE  k \in gone
    <3>1. PICK n \in DOMAIN x : x[n].key = k
      BY KeyIsAt
    <3>2. Len(h) - n + 1 \in DOMAIN h /\ h[Len(h) - n + 1].entry.key = k
      BY <3>1, <1>6
    <3>3. \A l \in DOMAIN h : h[l].entry.key \in gone
      BY <1>4
    <3>4. QED
      BY <3>2, <3>3
  <2>2. ASSUME NEW i \in I
        PROVE  q.delayed[i].entry.key \in KeysOf(x)
    <3>1. PICK n \in DOMAIN h : h[n] = q.delayed[i]
      BY <1>4
    <3>2. Len(h) - n + 1 \in DOMAIN x /\ Len(h) - (Len(h) - n + 1) + 1 = n
      <4>1. n \in 1..Len(h) /\ Len(h) \in Nat /\ DOMAIN x = 1..Len(h)
        BY <3>1, <1>4, <1>6
      <4>2. QED
        BY <4>1
    <3>3. x[Len(h) - n + 1].key = q.delayed[i].entry.key
      BY <3>1, <3>2, <1>6
    <3>4. QED
      BY <3>2, <3>3, KeyIsAt
  <2>3. QED
    BY <2>1, <2>2
<1>8. OwnKeys(x)
  <2> SUFFICES ASSUME NEW m \in DOMAIN x, NEW n \in DOMAIN x, m # n
               PROVE  x[m].key # x[n].key
    BY DEF OwnKeys
  <2>1. Len(h) - m + 1 # Len(h) - n + 1 /\ m \in 1..Len(h) /\ n \in 1..Len(h)
    BY <1>4, <1>6
  <2>2. PICK i \in I, j \in I :
          i # j /\ h[Len(h) - m + 1] = q.delayed[i] /\ h[Len(h) - n + 1] = q.delayed[j]
    BY <2>1, <1>4, <1>6
  <2>3. q.delayed[i].entry.key # q.delayed[j].entry.key
    BY <2>2 DEF QueueInv, OwnDelays
  <2>4. QED
    BY <2>1, <2>2, <2>3, <1>6
<1>9. r = [q EXCEPT !.items = x \o @, !.delayed = At(@, J), !.pending = @ \/ h # <<>>]
  BY DEF Promoted, x, es, h
<1>10. gone \subseteq q.keys
  BY DEF QueueInv, DelayedKeys, ToSet
<1>11. /\ p.items = q.items /\ p.keys = q.keys \ gone /\ p.delayed = At(q.delayed, J)
       /\ p.working = q.working /\ p.pending = q.pending
  BY <1>1 DEF Queues
<1>12. At(q.delayed, J) \in Seq(Delays) /\ x \o q.items \in Seq(QueueEntries)
  BY <1>1, <1>6, AtPicks
<1> HIDE DEF J, gone, p, r
<1>13. /\ r \in Queues /\ r.items = x \o p.items /\ r.delayed = p.delayed
       /\ r.working = p.working /\ r.keys = q.keys /\ r.pending = (q.pending \/ h # <<>>)
  BY <1>1, <1>9, <1>11, <1>12 DEF Queues
<1>14. r.keys = p.keys \cup KeysOf(x) \cup KeysOf(p.items)
  BY <1>3, <1>7, <1>10, <1>11, <1>13 DEF Keeps, QueueInv
<1>15. r.items # <<>> => r.pending
  <2>1. CASE q.items = <<>> /\ h = <<>>
    BY <2>1, <1>1, <1>6, <1>11, <1>13
  <2>2. CASE q.items # <<>> \/ h # <<>>
    BY <2>2, <1>13 DEF QueueInv
  <2>3. QED
    BY <2>1, <2>2
<1>16. /\ KeysOf(x) \cap KeysOf(p.items) = {} /\ OwnKeys(p.items) /\ QueueInv(p)
       /\ (KeysOf(x) \cup KeysOf(p.items)) \cap DelayedKeys(p) = {}
  BY <1>3, <1>7 DEF Keeps, QueueInv
<1>17. Keeps(p, r)
  BY <1>1, <1>6, <1>8, <1>11, <1>13, <1>14, <1>15, <1>16, JoinKeeps
<1>18. QED
  BY <1>3, <1>17, KeepsTwice DEF r

\* The timer of a delay that is due: the item is queued, and the hurried with it.
LEMMA FiredKeeps ==
  ASSUME NEW q, QueueInv(q), NEW i \in DOMAIN q.delayed, q.delayed[i].due
  PROVE  Keeps(q, Fired(q, q.delayed[i]))
<1> DEFINE d == q.delayed[i]
           p == Woken(q, d)
           r == Enqueued(p, d.entry)
<1>1. d.entry \in QueueEntries
  <2>1. d \in Delays
    BY DEF QueueInv, Queues
  <2>2. QED
    BY <2>1 DEF Delays
<1>2. Keeps(q, p)
  BY WokenKeeps
<1>3. QueueInv(p)
  BY <1>2 DEF Keeps
<1> HIDE DEF p
<1>4. Keeps(p, r)
  BY <1>1, <1>3, EnqueuedKeeps
<1>5. QueueInv(r)
  BY <1>4 DEF Keeps
<1> HIDE DEF r
<1>6. Keeps(r, Promoted(r))
  BY <1>5, PromotedKeeps
<1>7. Keeps(q, Promoted(r))
  BY <1>2, <1>4, <1>6, KeepsTwice
<1>8. QED
  BY <1>7 DEF Fired, p, r

\* The drain loop takes the first item, and its key, or ends.
LEMMA DrainedInv ==
  ASSUME NEW q, QueueInv(q)
  PROVE  QueueInv(Drained(q)) /\ Waits(q) \subseteq Waits(Drained(q))
<1> DEFINE r == Drained(q)
           e == Head(q.items)
           t == Tail(q.items)
<1>1. q.items \in Seq(QueueEntries) /\ q \in Queues
  BY DEF QueueInv, Queues
<1>2. CASE q.items = <<>>
  <2>1. /\ r \in Queues /\ r.items = q.items /\ r.keys = q.keys /\ r.delayed = q.delayed
    BY <1>1, <1>2 DEF Drained, Queues
  <2>2. DelayedKeys(r) = DelayedKeys(q) /\ Waits(r) = Waits(q)
    BY <2>1 DEF DelayedKeys, Waits
  <2>3. QED
    BY <1>2, <2>1, <2>2 DEF QueueInv
<1>3. CASE q.items # <<>>
  <2>1. /\ e \in QueueEntries /\ t \in Seq(QueueEntries) /\ e = q.items[1]
        /\ Len(q.items) \in Nat /\ DOMAIN q.items = 1..Len(q.items) /\ 1 \in DOMAIN q.items
        /\ DOMAIN t = 1..(Len(q.items) - 1)
        /\ \A i \in DOMAIN t : t[i] = q.items[i + 1] /\ i + 1 \in DOMAIN q.items
    BY <1>1, <1>3
  <2>2. r = [q EXCEPT !.items = t, !.keys = @ \ {e.key}, !.working = e]
    BY <1>3 DEF Drained
  <2> HIDE DEF e, t, r
  <2>3. \A i \in DOMAIN q.items : i = 1 \/ (i - 1 \in DOMAIN t /\ t[i - 1] = q.items[i])
    BY <2>1
  <2>4. /\ r \in Queues /\ r.items = t /\ r.keys = q.keys \ {e.key}
        /\ r.delayed = q.delayed /\ r.pending = q.pending
    BY <1>1, <2>1, <2>2 DEF Queues
  <2>5. KeysOf(t) = KeysOf(q.items) \ {e.key}
    <3>1. ASSUME NEW k \in KeysOf(t)
          PROVE  k \in KeysOf(q.items) \ {e.key}
      <4>1. PICK i \in DOMAIN t : t[i].key = k
        BY KeyIsAt
      <4>2. i + 1 \in DOMAIN q.items /\ q.items[i + 1].key = k /\ i + 1 # 1
        BY <4>1, <2>1
      <4>3. q.items[i + 1].key # q.items[1].key
        BY <4>2, <2>1 DEF QueueInv, OwnKeys
      <4>4. QED
        BY <4>2, <4>3, <2>1, KeyIsAt
    <3>2. ASSUME NEW k \in KeysOf(q.items) \ {e.key}
          PROVE  k \in KeysOf(t)
      <4>1. PICK i \in DOMAIN q.items : q.items[i].key = k
        BY KeyIsAt
      <4>2. i - 1 \in DOMAIN t /\ t[i - 1].key = k
        BY <4>1, <2>1, <2>3
      <4>3. QED
        BY <4>2, KeyIsAt
    <3>3. QED
      BY <3>1, <3>2
  <2>6. OwnKeys(t)
    <3> SUFFICES ASSUME NEW i \in DOMAIN t, NEW j \in DOMAIN t, t[i].key = t[j].key
                 PROVE  i = j
      BY DEF OwnKeys
    <3>1. i + 1 = j + 1
      BY <2>1 DEF QueueInv, OwnKeys
    <3>2. QED
      BY <3>1, <2>1
  <2>7. e.key \in KeysOf(q.items) /\ q.pending
    BY <1>3, <2>1, KeyIsAt DEF QueueInv
  <2>8. DelayedKeys(r) = DelayedKeys(q) /\ Waits(r) = Waits(q)
    BY <2>4 DEF DelayedKeys, Waits
  <2>9. QED
    BY <2>4, <2>5, <2>6, <2>7, <2>8 DEF QueueInv, r
<1>4. QED
  BY <1>2, <1>3

\* What is ready, and not queued, is appended.
LEMMA QueueReadyKeeps ==
  ASSUME NEW q, QueueInv(q), NEW S, S \subseteq Issues, NEW order \in Orders(S)
  PROVE  Keeps(q, QueueReady(q, order))
<1> DEFINE I == {i \in DOMAIN order : order[i] \notin q.keys}
           fresh == At(order, I)
           es == [i \in DOMAIN fresh |-> Entry(fresh[i], 0, FALSE)]
           r == QueueReady(q, order)
<1>1. IsFiniteSet(S) /\ Cardinality(S) \in Nat
  BY RuntimeAssumption, FS_Subset, FS_CardinalityType
<1>2. order \in Seq(S) /\ DOMAIN order = 1..Cardinality(S)
  BY <1>1 DEF Orders
<1>3. \A i, j \in DOMAIN order : order[i] = order[j] => i = j
  <2>1. order \in Surjection(1..Cardinality(S), S)
    BY DEF Orders, Surjection
  <2>2. IsFiniteSet(1..Cardinality(S)) /\ Cardinality(1..Cardinality(S)) = Cardinality(S)
    BY <1>1, FS_Interval
  <2>3. order \in Injection(1..Cardinality(S), S)
    BY <2>1, <2>2, FS_SurjSameCardinalityImpliesInj
  <2>4. QED
    BY <2>3, <1>2 DEF Injection, IsInjective
<1>4. /\ fresh \in Seq(S)
      /\ \A n \in DOMAIN fresh : \E i \in I : fresh[n] = order[i]
      /\ \A m, n \in DOMAIN fresh :
           m # n => \E i, j \in I : i # j /\ fresh[m] = order[i] /\ fresh[n] = order[j]
  <2>1. I \in SUBSET DOMAIN order
    OBVIOUS
  <2> HIDE DEF I
  <2>2. QED
    BY <2>1, <1>2, AtPicks
<1> HIDE DEF fresh
<1>5. /\ Len(fresh) \in Nat /\ DOMAIN fresh = 1..Len(fresh)
      /\ \A n \in DOMAIN fresh : fresh[n] \in Issues /\ fresh[n] \notin q.keys
      /\ \A m, n \in DOMAIN fresh : fresh[m] = fresh[n] => m = n
  <2>1. \A m, n \in DOMAIN fresh : m # n => fresh[m] # fresh[n]
    BY <1>3, <1>4
  <2>2. \A n \in DOMAIN fresh : fresh[n] \in S /\ fresh[n] \notin q.keys
    BY <1>4
  <2>3. QED
    BY <2>1, <2>2, <1>4
<1>6. \A k \in Issues : Entry(k, 0, FALSE) \in QueueEntries /\ Entry(k, 0, FALSE).key = k
  BY RuntimeAssumption DEF Entry, QueueEntries
<1>7. /\ es \in Seq(QueueEntries) /\ DOMAIN es = DOMAIN fresh
      /\ \A n \in DOMAIN fresh : es[n].key = fresh[n]
  <2>1. \A n \in DOMAIN fresh : es[n] \in QueueEntries /\ es[n].key = fresh[n]
    BY <1>5, <1>6
  <2>2. es \in [1..Len(fresh) -> QueueEntries]
    BY <2>1, <1>5
  <2> HIDE DEF es
  <2>3. QED
    BY <2>1, <2>2, <1>5
<1>8. r = [q EXCEPT !.items = @ \o es, !.keys = @ \cup ToSet(fresh), !.pending = @ \/ fresh # <<>>]
  BY DEF QueueReady, fresh
<1> HIDE DEF es, r
<1>9. OwnKeys(es) /\ KeysOf(es) = ToSet(fresh)
  BY <1>5, <1>7 DEF OwnKeys, KeysOf, ToSet
<1>10. q \in Queues /\ q.items \in Seq(QueueEntries) /\ ToSet(fresh) \subseteq Issues
       /\ ToSet(fresh) \cap q.keys = {}
  BY <1>5 DEF QueueInv, Queues, ToSet
<1>11. q.items \o es \in Seq(QueueEntries)
  BY <1>7, <1>10
<1>12. /\ r \in Queues /\ r.items = q.items \o es /\ r.keys = q.keys \cup ToSet(fresh)
       /\ r.delayed = q.delayed /\ r.working = q.working /\ r.pending = (q.pending \/ fresh # <<>>)
  BY <1>8, <1>10, <1>11 DEF Queues
<1>13. r.items # <<>> => r.pending
  <2>1. CASE q.items = <<>> /\ fresh = <<>>
    BY <2>1, <1>7, <1>12
  <2>2. CASE q.items # <<>> \/ fresh # <<>>
    BY <2>2, <1>12 DEF QueueInv
  <2>3. QED
    BY <2>1, <2>2
<1>14. /\ OwnKeys(q.items) /\ KeysOf(q.items) \cap KeysOf(es) = {}
       /\ (KeysOf(q.items) \cup KeysOf(es)) \cap DelayedKeys(q) = {}
       /\ r.keys = q.keys \cup KeysOf(q.items) \cup KeysOf(es)
  BY <1>9, <1>10, <1>12 DEF QueueInv
<1>15. QED
  BY <1>7, <1>9, <1>10, <1>12, <1>13, <1>14, JoinKeeps DEF r

-----------------------------------------------------------------------------
(***************************************************************************)
(* The steps of the runtime.                                               *)
(***************************************************************************)

\* What was handed out below the limit finds it still below when it is launched:
\* nothing else starts a run meanwhile.
RoomIsKept == queue.working # NoEntry /\ ~full => Cardinality(running) < MaxRuns

RuntimeInv == TypeOK /\ QueueInv(queue) /\ RunLimit /\ RoomIsKept

LEMMA EmptyQueueInv == QueueInv(EmptyQueue) /\ EmptyQueue.working = NoEntry
<1>1. /\ EmptyQueue.items = <<>> /\ EmptyQueue.delayed = <<>> /\ EmptyQueue.keys = {}
      /\ EmptyQueue.working = NoEntry
  BY DEF EmptyQueue
<1>2. EmptyQueue \in Queues
  BY DEF EmptyQueue, Queues
<1>3. KeysOf(EmptyQueue.items) = {} /\ DelayedKeys(EmptyQueue) = {}
  BY <1>1 DEF KeysOf, DelayedKeys, ToSet
<1>4. OwnKeys(EmptyQueue.items) /\ OwnDelays(EmptyQueue.delayed)
  BY <1>1 DEF OwnKeys, OwnDelays
<1>5. QED
  BY <1>1, <1>2, <1>3, <1>4 DEF QueueInv

LEMMA RunsAreFinite ==
  ASSUME NEW S \in SUBSET Issues
  PROVE  IsFiniteSet(S) /\ Cardinality(S) \in Nat
BY RuntimeAssumption, FS_Subset, FS_CardinalityType

LEMMA RuntimeInit == Init => RuntimeInv
<1> SUFFICES ASSUME Init
             PROVE  RuntimeInv
  OBVIOUS
<1>1. PICK order \in Orders(ready) : queue = QueueReady(EmptyQueue, order)
  BY DEF Init
<1>2. ready \subseteq Issues /\ running \subseteq Issues /\ Cardinality(running) <= MaxRuns
  BY DEF Init
<1>3. Keeps(EmptyQueue, queue)
  BY <1>1, <1>2, EmptyQueueInv, QueueReadyKeeps
<1>4. QueueInv(queue) /\ queue.working = NoEntry /\ queue \in Queues
  BY <1>3, EmptyQueueInv DEF Keeps, QueueInv
<1>5. TypeOK
  <2>1. full \in BOOLEAN /\ codex \in BOOLEAN /\ pass \in BOOLEAN /\ requested \in BOOLEAN
    BY DEF Init
  <2>2. timer \in {"none", "soon", "interval"} /\ deeds \in 0..MaxDeeds
    BY RuntimeAssumption DEF Init
  <2>3. QED
    BY <2>1, <2>2, <1>2, <1>4 DEF TypeOK
<1>6. QED
  BY <1>2, <1>4, <1>5 DEF RuntimeInv, RunLimit, RoomIsKept

\* What a step leaves of the queue.
QueueStep == QueueInv(queue') /\ Waits(queue) \subseteq DelayedKeys(queue')

LEMMA WaitsAreDelayed ==
  ASSUME NEW q
  PROVE  Waits(q) \subseteq DelayedKeys(q)
BY DelayIsAt

LEMMA KeptStep ==
  ASSUME NEW r, Keeps(queue, r), queue' = r
  PROVE  QueueStep /\ queue'.working = queue.working
BY WaitsAreDelayed DEF Keeps, QueueStep

\* Whatever is made of the entry that was handed out, the next one comes from
\* the queue and is let through only below the limit.
LEMMA HandOutStep ==
  ASSUME NEW r, QueueInv(r), Waits(queue) \subseteq Waits(r),
         NEW runs \in SUBSET Issues, Cardinality(runs) <= MaxRuns, HandsOut(r, runs), running' = runs
  PROVE  QueueStep /\ full' \in BOOLEAN /\ RunLimit' /\ RoomIsKept'
<1>1. queue' = Drained(r) /\ full' = (queue'.working # NoEntry /\ Full(runs))
  BY DEF HandsOut
<1>2. QueueInv(queue') /\ Waits(queue) \subseteq Waits(queue')
  BY <1>1, DrainedInv
<1>3. QueueStep
  BY <1>2, WaitsAreDelayed DEF QueueStep
<1>4. Cardinality(runs) \in Nat /\ MaxRuns \in Nat
  BY RunsAreFinite, RuntimeAssumption
<1>5. Full(runs) \in BOOLEAN /\ (~Full(runs) => Cardinality(runs) < MaxRuns)
  BY <1>4 DEF Full
<1>6. full' \in BOOLEAN
  BY <1>1, <1>5
<1>7. RunLimit' /\ RoomIsKept'
  BY <1>1, <1>5 DEF RunLimit, RoomIsKept
<1>8. QED
  BY <1>3, <1>6, <1>7

LEMMA SameQueueStep ==
  ASSUME QueueInv(queue), queue' = queue
  PROVE  QueueStep
BY WaitsAreDelayed DEF QueueStep

LEMMA Handed ==
  ASSUME RuntimeInv, Busy
  PROVE  /\ queue.working \in QueueEntries /\ queue.working.key \in Issues
         /\ Again \in QueueEntries /\ Again.key = queue.working.key
<1>1. queue.working \in QueueEntries
  BY DEF RuntimeInv, QueueInv, Queues, Busy
<1>2. [queue.working EXCEPT !.attempt = IF @ < MaxAttempts THEN @ + 1 ELSE @] \in QueueEntries
  BY <1>1, RuntimeAssumption DEF QueueEntries
<1>3. QED
  BY <1>1, <1>2 DEF Again, QueueEntries

\* The steps of the drain loop.
LEMMA HandleStep ==
  ASSUME RuntimeInv, Handle
  PROVE  RuntimeInv' /\ QueueStep
<1> DEFINE Rest == ready' \in SUBSET Issues /\ codex' \in BOOLEAN /\ pass' \in BOOLEAN
                   /\ requested' \in BOOLEAN /\ timer' \in {"none", "soon", "interval"}
                   /\ deeds' \in 0..MaxDeeds
           Out(r, runs) == QueueInv(r) /\ Waits(queue) \subseteq Waits(r)
                               /\ runs \in SUBSET Issues /\ Cardinality(runs) <= MaxRuns
                               /\ HandsOut(r, runs) /\ running' = runs
<1>1. QueueInv(queue) /\ Waits(queue) \subseteq Waits(queue) /\ TypeOK /\ RunLimit
  BY DEF RuntimeInv
<1>2. running \in SUBSET Issues /\ Cardinality(running) <= MaxRuns
  BY <1>1 DEF TypeOK, RunLimit
<1>3. ASSUME Rest, NEW r, NEW runs, Out(r, runs)
      PROVE  RuntimeInv' /\ QueueStep
  <2>1. QueueStep /\ full' \in BOOLEAN /\ RunLimit' /\ RoomIsKept'
    BY <1>3, HandOutStep
  <2>2. QueueInv(queue') /\ queue' \in Queues
    BY <2>1 DEF QueueStep, QueueInv
  <2>3. TypeOK'
    BY <1>3, <2>1, <2>2 DEF TypeOK
  <2>4. QED
    BY <2>1, <2>2, <2>3 DEF RuntimeInv
<1>4. ASSUME UNCHANGED <<ready, loop, deeds>>
      PROVE  Rest
  BY <1>1, <1>4 DEF TypeOK, loop
<1>5. ASSUME UNCHANGED <<ready, loop>>, Disturb
      PROVE  Rest
  BY <1>1, <1>5, RuntimeAssumption DEF TypeOK, loop, Disturb
<1>6. CASE StartDrain
  <2>1. Rest /\ Out(queue, running)
    BY <1>1, <1>2, <1>4, <1>6 DEF StartDrain
  <2>2. QED
    BY <2>1, <1>3
<1>7. CASE TurnAway
  <2>1. Keeps(queue, Delayed(queue, Again, TRUE))
    BY <1>1, <1>7, Handed, DelayedKeeps DEF TurnAway
  <2>2. Rest /\ Out(Delayed(queue, Again, TRUE), running)
    BY <2>1, <1>1, <1>2, <1>4, <1>7 DEF TurnAway, Keeps
  <2>3. QED
    BY <2>2, <1>3
<1>8. CASE Launch
  <2> DEFINE runs == running \cup {queue.working.key}
  <2>1. queue.working.key \in Issues
    BY <1>8, Handed DEF Launch
  <2>2. Cardinality(running) < MaxRuns /\ IsFiniteSet(running)
    BY <1>2, <1>8, RunsAreFinite DEF Launch, Busy, RuntimeInv, RoomIsKept
  <2>3. Cardinality(runs) <= MaxRuns
    <3>1. Cardinality(running) \in Nat /\ MaxRuns \in Nat
      BY <1>2, RunsAreFinite, RuntimeAssumption
    <3>2. QED
      BY <3>1, <2>2, FS_AddElement
  <2>4. Rest /\ Out(queue, runs)
    <3>1. Rest
      BY <1>1, <1>8 DEF Launch, TypeOK
    <3>2. QED
      BY <3>1, <2>1, <2>3, <1>1, <1>2, <1>8 DEF Launch
  <2>5. QED
    BY <2>4, <1>3
<1>9. CASE Skip
  <2>1. Rest /\ Out(queue, running)
    BY <1>1, <1>2, <1>4, <1>9 DEF Skip
  <2>2. QED
    BY <2>1, <1>3
<1>10. CASE Locked
  <2> DEFINE r == IF Again.attempt <= LockRetries THEN Delayed(queue, Again, FALSE) ELSE queue
  <2>1. Keeps(queue, Delayed(queue, Again, FALSE))
    BY <1>1, <1>10, Handed, DelayedKeeps DEF Locked
  <2>2. QueueInv(r) /\ Waits(queue) \subseteq Waits(r)
    BY <2>1, <1>1 DEF Keeps
  <2>3. HandsOut(r, running)
    BY <1>10 DEF Locked
  <2> HIDE DEF r
  <2>4. Rest /\ Out(r, running)
    BY <2>2, <2>3, <1>2, <1>5, <1>10 DEF Locked
  <2>5. QED
    BY <2>4, <1>3
<1>11. CASE Drop
  <2>1. Rest /\ Out(queue, running)
    BY <1>1, <1>2, <1>5, <1>11 DEF Drop
  <2>2. QED
    BY <2>1, <1>3
<1>12. QED
  BY <1>6, <1>7, <1>8, <1>9, <1>10, <1>11 DEF Handle

\* Nothing is handed out, and no run starts.
LEMMA QuietStep ==
  ASSUME RuntimeInv, QueueStep, queue'.working = queue.working, full' = full,
         running' \subseteq running, ready' \in SUBSET Issues, codex' \in BOOLEAN, pass' \in BOOLEAN,
         requested' \in BOOLEAN, timer' \in {"none", "soon", "interval"}, deeds' \in 0..MaxDeeds
  PROVE  RuntimeInv'
<1>1. running \in SUBSET Issues /\ full \in BOOLEAN /\ Cardinality(running) <= MaxRuns
  BY DEF RuntimeInv, TypeOK, RunLimit
<1>2. running' \in SUBSET Issues /\ Cardinality(running') <= Cardinality(running)
  BY <1>1, RunsAreFinite, FS_Subset
<1>3. /\ Cardinality(running) \in Nat /\ Cardinality(running') \in Nat /\ MaxRuns \in Nat
  BY <1>1, <1>2, RunsAreFinite, RuntimeAssumption
<1>4. QueueInv(queue') /\ queue' \in Queues
  BY DEF QueueStep, QueueInv
<1>5. TypeOK'
  BY <1>1, <1>2, <1>4 DEF TypeOK
<1>6. RunLimit' /\ RoomIsKept'
  BY <1>1, <1>2, <1>3 DEF RuntimeInv, RunLimit, RoomIsKept
<1>7. QED
  BY <1>4, <1>5, <1>6 DEF RuntimeInv

\* The timers of the queue.
LEMMA ElapseStep ==
  ASSUME RuntimeInv, NEW i, Elapse(i)
  PROVE  RuntimeInv' /\ QueueStep
<1> DEFINE s == [queue.delayed EXCEPT ![i].due = TRUE]
<1>1. QueueInv(queue) /\ queue \in Queues /\ i \in DOMAIN queue.delayed
      /\ queue' = [queue EXCEPT !.delayed[i].due = TRUE]
  BY DEF Elapse, RuntimeInv, QueueInv
<1>2. queue.delayed \in Seq(Delays)
  BY <1>1 DEF Queues
<1>3. \A d \in Delays : LET u == [d EXCEPT !.due = TRUE] IN u \in Delays /\ u.entry = d.entry
  BY DEF Delays
<1>4. /\ s \in Seq(Delays) /\ DOMAIN s = DOMAIN queue.delayed
      /\ \A j \in DOMAIN s : s[j].entry = queue.delayed[j].entry
  <2>1. [queue.delayed[i] EXCEPT !.due = TRUE] \in Delays
        /\ [queue.delayed[i] EXCEPT !.due = TRUE].entry = queue.delayed[i].entry
    BY <1>1, <1>2, <1>3
  <2>2. s = [queue.delayed EXCEPT ![i] = [queue.delayed[i] EXCEPT !.due = TRUE]]
    BY <1>1, <1>2
  <2>3. QED
    BY <2>1, <2>2, <1>1, <1>2
<1>5. queue' = [queue EXCEPT !.delayed = s]
  BY <1>1
<1> HIDE DEF s
<1>6. /\ queue' \in Queues /\ queue'.delayed = s /\ queue'.items = queue.items
      /\ queue'.keys = queue.keys /\ queue'.pending = queue.pending /\ queue'.working = queue.working
  BY <1>1, <1>4, <1>5 DEF Queues
<1>7. DelayedKeys(queue') = DelayedKeys(queue)
  <2>1. ASSUME NEW x \in DelayedKeys(queue)
        PROVE  x \in DelayedKeys(queue')
    <3>1. PICK j \in DOMAIN queue.delayed : queue.delayed[j].entry.key = x
      BY DelayIsAt
    <3>2. j \in DOMAIN queue'.delayed /\ queue'.delayed[j].entry.key = x
      BY <3>1, <1>4, <1>6
    <3>3. QED
      BY <3>2, DelayIsAt
  <2>2. ASSUME NEW x \in DelayedKeys(queue')
        PROVE  x \in DelayedKeys(queue)
    <3>1. PICK j \in DOMAIN queue'.delayed : queue'.delayed[j].entry.key = x
      BY DelayIsAt
    <3>2. j \in DOMAIN queue.delayed /\ queue.delayed[j].entry.key = x
      BY <3>1, <1>4, <1>6
    <3>3. QED
      BY <3>2, DelayIsAt
  <2>3. QED
    BY <2>1, <2>2
<1>8. OwnDelays(queue'.delayed)
  BY <1>1, <1>4, <1>6 DEF OwnDelays, QueueInv
<1>9. QueueInv(queue')
  BY <1>1, <1>6, <1>7, <1>8 DEF QueueInv
<1>10. QueueStep
  BY <1>7, <1>9, WaitsAreDelayed DEF QueueStep
<1>11. RuntimeInv'
  BY <1>6, <1>10, QuietStep DEF Elapse, loop, RuntimeInv, TypeOK
<1>12. QED
  BY <1>10, <1>11

\* A change of the queue by one of its methods, with nothing handed out.
LEMMA MethodStep ==
  ASSUME RuntimeInv, Keeps(queue, queue'), full' = full,
         running' \subseteq running, ready' \in SUBSET Issues, codex' \in BOOLEAN, pass' \in BOOLEAN,
         requested' \in BOOLEAN, timer' \in {"none", "soon", "interval"}, deeds' \in 0..MaxDeeds
  PROVE  RuntimeInv' /\ QueueStep
BY KeptStep, QuietStep

LEMMA RetryTimerStep ==
  ASSUME RuntimeInv, NEW i, RetryTimer(i)
  PROVE  RuntimeInv' /\ QueueStep
<1>1. Keeps(queue, queue')
  BY FiredKeeps DEF RetryTimer, RuntimeInv
<1>2. QED
  BY <1>1, MethodStep DEF RetryTimer, loop, RuntimeInv, TypeOK

LEMMA WakeKeeps ==
  ASSUME RuntimeInv, NEW k \in Issues, NEW priority \in BOOLEAN
  PROVE  Keeps(queue, Wake(queue, k, priority))
<1>1. Entry(k, 0, priority) \in QueueEntries
  BY RuntimeAssumption DEF Entry, QueueEntries
<1>2. QED
  BY <1>1, EnqueuedKeeps DEF Wake, RuntimeInv

LEMMA NothingKeeps ==
  ASSUME RuntimeInv, queue' = queue
  PROVE  Keeps(queue, queue')
BY DEF Keeps, RuntimeInv

LEMMA DeedsType ==
  ASSUME RuntimeInv, Disturb
  PROVE  deeds' \in 0..MaxDeeds
BY RuntimeAssumption DEF RuntimeInv, TypeOK, Disturb

\* Work that comes and goes.
LEMMA WorkStep ==
  ASSUME RuntimeInv, NEW k \in Issues, NEW priority \in BOOLEAN, NEW seen \in BOOLEAN,
         BecomeReady(k, seen, priority) \/ WakeIdle(k, priority) \/ RunEnds(k)
  PROVE  RuntimeInv' /\ QueueStep
<1>1. CASE BecomeReady(k, seen, priority)
  <2>1. Keeps(queue, queue')
    BY <1>1, WakeKeeps, NothingKeeps DEF BecomeReady
  <2>2. QED
    BY <1>1, <2>1, DeedsType, MethodStep DEF BecomeReady, loop, RuntimeInv, TypeOK
<1>2. CASE WakeIdle(k, priority)
  <2>1. Keeps(queue, queue')
    BY <1>2, WakeKeeps DEF WakeIdle
  <2>2. QED
    BY <1>2, <2>1, DeedsType, MethodStep DEF WakeIdle, loop, RuntimeInv, TypeOK
<1>3. CASE RunEnds(k)
  BY <1>3, NothingKeeps, MethodStep DEF RunEnds, loop, RuntimeInv, TypeOK
<1>4. QED
  BY <1>1, <1>2, <1>3

\* The background pass.
LEMMA PassStep ==
  ASSUME RuntimeInv,
         \/ RequestReconcile \/ PassTimer \/ PassSucceeds \/ PassFails
         \/ CodexDies \/ CodexStarts \/ UNCHANGED vars
  PROVE  RuntimeInv' /\ QueueStep
<1>1. RequestedTimer \in {"none", "soon", "interval"}
  BY DEF RequestedTimer, RuntimeInv, TypeOK
<1>2. CASE RequestReconcile
  <2>1. timer' \in {"none", "soon", "interval"}
    BY <1>1, <1>2 DEF RequestReconcile, RuntimeInv, TypeOK
  <2>2. QED
    BY <1>2, <2>1, NothingKeeps, DeedsType, MethodStep DEF RequestReconcile, RuntimeInv, TypeOK
<1>3. CASE PassTimer
  <2>1. timer' \in {"none", "soon", "interval"} /\ pass' \in BOOLEAN /\ requested' \in BOOLEAN
    BY <1>3 DEF PassTimer, RuntimeInv, TypeOK
  <2>2. QED
    BY <1>3, <2>1, NothingKeeps, MethodStep DEF PassTimer, RuntimeInv, TypeOK
<1>4. CASE PassSucceeds
  <2>1. Keeps(queue, queue')
    BY <1>4, QueueReadyKeeps DEF PassSucceeds, RuntimeInv, TypeOK
  <2>2. timer' \in {"none", "soon", "interval"} /\ pass' \in BOOLEAN
    BY <1>1, <1>4 DEF PassSucceeds, EndPass
  <2>3. QED
    BY <1>4, <2>1, <2>2, MethodStep DEF PassSucceeds, RuntimeInv, TypeOK
<1>5. CASE PassFails
  <2>1. timer' \in {"none", "soon", "interval"} /\ pass' \in BOOLEAN
    BY <1>1, <1>5 DEF PassFails, EndPass
  <2>2. QED
    BY <1>5, <2>1, NothingKeeps, DeedsType, MethodStep DEF PassFails, RuntimeInv, TypeOK
<1>6. CASE CodexDies
  BY <1>6, NothingKeeps, DeedsType, MethodStep DEF CodexDies, RuntimeInv, TypeOK
<1>7. CASE CodexStarts
  BY <1>7, NothingKeeps, MethodStep DEF CodexStarts, RuntimeInv, TypeOK
<1>8. CASE UNCHANGED vars
  BY <1>8, NothingKeeps, MethodStep DEF vars, loop, RuntimeInv, TypeOK
<1>9. QED
  BY <1>2, <1>3, <1>4, <1>5, <1>6, <1>7, <1>8

LEMMA RuntimeStep == RuntimeInv /\ [Next]_vars => RuntimeInv' /\ QueueStep
<1> SUFFICES ASSUME RuntimeInv, [Next]_vars
             PROVE  RuntimeInv' /\ QueueStep
  OBVIOUS
<1>1. CASE Handle
  BY <1>1, HandleStep
<1>2. CASE \E i \in 1..Cardinality(Issues) : Elapse(i) \/ RetryTimer(i)
  BY <1>2, ElapseStep, RetryTimerStep
<1>3. CASE \E k \in Issues : RunEnds(k)
  BY <1>3, WorkStep
<1>4. CASE \E k \in Issues, priority \in BOOLEAN :
             WakeIdle(k, priority) \/ \E seen \in BOOLEAN : BecomeReady(k, seen, priority)
  BY <1>4, WorkStep
<1>5. CASE \/ RequestReconcile \/ PassTimer \/ PassSucceeds \/ PassFails
           \/ CodexDies \/ CodexStarts \/ UNCHANGED vars
  BY <1>5, PassStep
<1>6. QED
  BY <1>1, <1>2, <1>3, <1>4, <1>5 DEF Next

LEMMA RuntimeInvariance == Spec => []RuntimeInv
<1>1. RuntimeInv /\ [Next]_vars => RuntimeInv'
  BY RuntimeStep
<1>2. QED
  BY <1>1, RuntimeInit, PTL DEF Spec

-----------------------------------------------------------------------------
\* The keys of two sequences of entries are as many as the entries.
LEMMA KeysAreCounted == QueueInv(queue) => KeysMatchItems
<1> SUFFICES ASSUME QueueInv(queue)
             PROVE  KeysMatchItems
  OBVIOUS
<1> DEFINE I == KeysOf(queue.items)
           D == DelayedKeys(queue)
           m == Len(queue.items)
           n == Len(queue.delayed)
<1>1. /\ m \in Nat /\ DOMAIN queue.items = 1..m
      /\ n \in Nat /\ DOMAIN queue.delayed = 1..n
  BY DEF QueueInv, Queues
<1>2. IsFiniteSet(I) /\ Cardinality(I) = m
  <2> DEFINE f == [i \in 1..m |-> queue.items[i].key]
  <2>1. f \in Bijection(1..m, I)
    <3>1. f \in Surjection(1..m, I)
      BY <1>1 DEF Surjection, KeysOf, ToSet
    <3>2. f \in Injection(1..m, I)
      BY <3>1, <1>1 DEF Surjection, Injection, IsInjective, QueueInv, OwnKeys
    <3>3. QED
      BY <3>1, <3>2 DEF Bijection
  <2>2. IsFiniteSet(1..m) /\ Cardinality(1..m) = m
    BY <1>1, FS_Interval
  <2>3. QED
    BY <2>1, <2>2, FS_Bijection DEF ExistsBijection
<1>3. IsFiniteSet(D) /\ Cardinality(D) = n
  <2> DEFINE f == [i \in 1..n |-> queue.delayed[i].entry.key]
  <2>1. f \in Bijection(1..n, D)
    <3>1. f \in Surjection(1..n, D)
      BY <1>1 DEF Surjection, DelayedKeys, ToSet
    <3>2. f \in Injection(1..n, D)
      BY <3>1, <1>1 DEF Surjection, Injection, IsInjective, QueueInv, OwnDelays
    <3>3. QED
      BY <3>1, <3>2 DEF Bijection
  <2>2. IsFiniteSet(1..n) /\ Cardinality(1..n) = n
    BY <1>1, FS_Interval
  <2>3. QED
    BY <2>1, <2>2, FS_Bijection DEF ExistsBijection
<1>4. I \cap D = {} /\ queue.keys = I \cup D
  BY DEF QueueInv
<1>5. Cardinality(I \cup D) = m + n
  <2>1. Cardinality(I \cap D) = 0
    BY <1>4, FS_EmptySet
  <2>2. Cardinality(I \cup D) = Cardinality(I) + Cardinality(D) - Cardinality(I \cap D)
    BY <1>2, <1>3, FS_Union
  <2>3. QED
    BY <2>1, <2>2, <1>1, <1>2, <1>3
<1>6. QED
  BY <1>4, <1>5 DEF KeysMatchItems, QueueInv

\* The variables keep their types.
THEOREM TypeCorrect == Spec => []TypeOK
BY RuntimeInvariance, PTL DEF RuntimeInv

\* A key counts as queued if and only if its item is waiting or delayed, and no
\* item is there twice: enqueueEntry swallows no wake-up (service-queue.ts).
THEOREM QueueIsKeyed == Spec => []KeysMatchItems
<1>1. RuntimeInv => KeysMatchItems
  BY KeysAreCounted DEF RuntimeInv
<1>2. QED
  BY <1>1, RuntimeInvariance, PTL

\* processIssueWithCapacity never lets more runs work than the limit, although
\* it counts them before the launch claims one.
THEOREM RunsStayBelowLimit == Spec => []RunLimit
BY RuntimeInvariance, PTL DEF RuntimeInv

\* A wait for a locked database ends with its own timer and no other way.
THEOREM WaitIsServed == Spec => BackoffIsKept
<1> DEFINE Kept == \A d \in ToSet(queue.delayed) : ~d.promotable /\ ~d.due =>
                     d.entry.key \in DelayedKeys(queue')
<1>1. ASSUME RuntimeInv, [Next]_vars
      PROVE  Kept
  <2>1. Waits(queue) \subseteq DelayedKeys(queue')
    BY <1>1, RuntimeStep DEF QueueStep
  <2>2. QED
    BY <2>1 DEF Waits, ToSet
<1>2. RuntimeInv /\ [Next]_vars => [Kept]_vars
  BY <1>1
<1>3. QED
  BY <1>2, RuntimeInvariance, PTL DEF Spec, BackoffIsKept
=============================================================================
