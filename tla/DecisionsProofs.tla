--------------------------- MODULE DecisionsProofs ---------------------------
(***************************************************************************)
(* What the pure decisions of the steward promise, for every input.        *)
(*                                                                         *)
(* The queue: for any branches, priorities and statuses and a history of   *)
(* any length, its order loses nobody and respects stacks, its schedule    *)
(* releases rooted stacks and nothing else, and its invalidation finds the *)
(* dependents of an entry.  The invariant is QueueInv: the table has one   *)
(* active entry per branch, and the listing is what OrderIs says of        *)
(* orderActiveQueue.                                                       *)
(*                                                                         *)
(* The checks: green is earned, for any set of check names, apps and       *)
(* required checks and any number of check runs, in whatever order they    *)
(* are listed.                                                             *)
EXTENDS MCDecisions, QueueOrderProofs

-----------------------------------------------------------------------------
\* Ancestors, for parents given as a function: 0 is no parent.

Closed(par, U) == \A x \in U : par[x] = 0 \/ par[x] \in U

\* A is the least closed set with the parent of k in it.
Climbs(N, par, k, A) ==
  /\ A \in SUBSET (1..N) /\ Closed(par, A)
  /\ par[k] # 0 => par[k] \in A
  /\ \A U \in SUBSET (1..N) : Closed(par, U) /\ (par[k] # 0 => par[k] \in U) => A \subseteq U

\* N rounds are enough: each finds somebody new or nobody is left.
LEMMA ClimbIs ==
  ASSUME NEW N \in Nat, NEW par \in [1..N -> 0..N], NEW k \in 1..N,
         NEW up \in [0..N -> SUBSET (1..N)], up[0] = {par[k]} \ {0},
         \A n \in 1..N : up[n] = up[n-1] \cup ({par[j] : j \in up[n-1]} \ {0})
  PROVE  Climbs(N, par, k, up[N])
<1>1. \A U \in SUBSET (1..N) : IsFiniteSet(U) /\ Cardinality(U) \in Nat /\ Cardinality(U) <= N
  <2>1. IsFiniteSet(1..N) /\ Cardinality(1..N) = N
    BY FS_Interval
  <2>2. ASSUME NEW U \in SUBSET (1..N) PROVE IsFiniteSet(U) /\ Cardinality(U) \in Nat /\ Cardinality(U) <= N
    <3>1. IsFiniteSet(U) /\ Cardinality(U) <= Cardinality(1..N)
      BY <2>1, FS_Subset
    <3>2. Cardinality(U) \in Nat
      BY <3>1, FS_CardinalityType
    <3>3. QED
      BY <2>1, <3>1, <3>2
  <2>3. QED
    BY <2>2
<1>2. \A n \in 0..N : n \in Nat /\ up[n] \in SUBSET (1..N)
  OBVIOUS
<1>3. \A n \in 1..N : n-1 \in 0..N /\ n \in 0..N
  OBVIOUS
<1> DEFINE T == {n \in 0..N : n + 1 <= Cardinality(up[n]) \/ Closed(par, up[n])}
<1>4. 0 \in T
  <2>1. CASE par[k] = 0
    BY <2>1 DEF Closed
  <2>2. CASE par[k] # 0
    <3>1. par[k] \in up[0] /\ 0 \in 0..N
      BY <2>2
    <3>2. up[0] # {} /\ up[0] \in SUBSET (1..N)
      BY <1>2, <3>1
    <3>3. IsFiniteSet(up[0]) /\ Cardinality(up[0]) \in Nat
      BY <1>1, <3>2
    <3>4. Cardinality(up[0]) # 0
      BY <3>2, <3>3, FS_EmptySet
    <3>5. 0 + 1 <= Cardinality(up[0])
      BY <3>3, <3>4
    <3>6. QED
      BY <3>1, <3>5
  <2>3. QED
    BY <2>1, <2>2
<1>5. ASSUME NEW n \in 1..N, n-1 \in T PROVE n \in T
  <2> DEFINE U == up[n-1]
             V == up[n]
  <2>1. U \in SUBSET (1..N) /\ V \in SUBSET (1..N) /\ V = U \cup ({par[j] : j \in U} \ {0})
    BY <1>2, <1>3
  <2>2. n <= Cardinality(U) \/ Closed(par, U)
    BY <1>3, <1>5
  <2> HIDE DEF U, V
  <2>3. CASE Closed(par, U)
    <3>1. V = U
      BY <2>1, <2>3 DEF Closed
    <3>2. QED
      BY <1>3, <2>3, <3>1 DEF V
  <2>4. CASE ~Closed(par, U)
    <3>1. PICK x \in U : par[x] # 0 /\ par[x] \notin U
      BY <2>4 DEF Closed
    <3>2. U \in SUBSET V /\ U # V
      BY <2>1, <3>1
    <3>3. Cardinality(U) <= Cardinality(V) /\ Cardinality(U) # Cardinality(V)
      <4>1. IsFiniteSet(V)
        BY <1>1, <2>1
      <4>2. QED
        BY <3>2, <4>1, FS_Subset
    <3>4. Cardinality(U) \in Nat /\ Cardinality(V) \in Nat
      BY <1>1, <2>1
    <3>5. n + 1 <= Cardinality(V)
      BY <1>2, <1>3, <2>2, <2>4, <3>3, <3>4
    <3>6. QED
      BY <1>3, <3>5 DEF V
  <2>5. QED
    BY <2>3, <2>4
<1> HIDE DEF T
<1>6. 0..N \subseteq T
  BY <1>4, <1>5, Induction
<1>7. N \in 0..N
  OBVIOUS
<1>8. Closed(par, up[N])
  <2>1. N + 1 <= Cardinality(up[N]) \/ Closed(par, up[N])
    BY <1>6, <1>7 DEF T
  <2>2. Cardinality(up[N]) \in Nat /\ Cardinality(up[N]) <= N
    BY <1>1, <1>2, <1>7
  <2>3. QED
    BY <2>1, <2>2
<1> DEFINE R == {n \in 0..N : up[0] \subseteq up[n]}
<1>9. up[0] \subseteq up[N]
  <2>1. 0 \in R
    OBVIOUS
  <2>2. ASSUME NEW n \in 1..N, n-1 \in R PROVE n \in R
    BY <1>3, <2>2
  <2> HIDE DEF R
  <2>3. 0..N \subseteq R
    BY <2>1, <2>2, Induction
  <2>4. QED
    BY <1>7, <2>3 DEF R
<1>10. ASSUME NEW U \in SUBSET (1..N), Closed(par, U), par[k] # 0 => par[k] \in U
       PROVE  up[N] \subseteq U
  <2> DEFINE Q == {n \in 0..N : up[n] \subseteq U}
  <2>1. 0 \in Q
    BY <1>10
  <2>2. ASSUME NEW n \in 1..N, n-1 \in Q PROVE n \in Q
    BY <1>3, <1>10, <2>2 DEF Closed
  <2> HIDE DEF Q
  <2>3. 0..N \subseteq Q
    BY <2>1, <2>2, Induction
  <2>4. QED
    BY <1>7, <2>3 DEF Q
<1>11. QED
  BY <1>2, <1>7, <1>8, <1>9, <1>10 DEF Climbs

\* Ancestors, and where cycles are.
LEMMA Ancestry ==
  ASSUME NEW N \in Nat, NEW par \in [1..N -> 0..N], NEW anc \in [1..N -> SUBSET (1..N)],
         \A k \in 1..N : Climbs(N, par, k, anc[k])
  PROVE  /\ \A k \in 1..N : par[k] = 0 => anc[k] = {}
         /\ \A k \in 1..N : par[k] # 0 => anc[k] = {par[k]} \cup anc[par[k]]
         /\ \A k \in 1..N : \A j \in anc[k] : anc[j] \subseteq anc[k]
<1>1. ASSUME NEW k \in 1..N, par[k] = 0 PROVE anc[k] = {}
  <2>1. {} \in SUBSET (1..N) /\ Closed(par, {})
    BY DEF Closed
  <2>2. QED
    BY <1>1, <2>1 DEF Climbs
<1>2. ASSUME NEW k \in 1..N, NEW j \in anc[k] PROVE anc[j] \subseteq anc[k]
  <2>1. j \in 1..N /\ anc[k] \in SUBSET (1..N)
    OBVIOUS
  <2>2. Closed(par, anc[k])
    BY DEF Climbs
  <2>3. par[j] # 0 => par[j] \in anc[k]
    BY <2>2 DEF Closed
  <2>4. QED
    BY <2>1, <2>2, <2>3 DEF Climbs
<1>3. ASSUME NEW k \in 1..N, par[k] # 0 PROVE anc[k] = {par[k]} \cup anc[par[k]]
  <2> DEFINE p == par[k]
             U == {p} \cup anc[p]
  <2>1. p \in 1..N /\ p # 0 /\ p \in anc[k]
    BY <1>3 DEF Climbs
  <2>2. anc[p] \subseteq anc[k]
    BY <1>2, <2>1
  <2>3. Climbs(N, par, p, anc[p]) /\ Climbs(N, par, k, anc[k])
    BY <2>1
  <2>4. U \in SUBSET (1..N) /\ Closed(par, U)
    BY <2>1, <2>3 DEF Closed, Climbs
  <2>5. anc[k] \subseteq U
    BY <2>3, <2>4 DEF Climbs
  <2>6. QED
    BY <2>1, <2>2, <2>5
<1>4. QED
  BY <1>1, <1>2, <1>3

LEMMA Cycles ==
  ASSUME NEW N \in Nat, NEW par \in [1..N -> 0..N], NEW anc \in [1..N -> SUBSET (1..N)],
         \A k \in 1..N : Climbs(N, par, k, anc[k]), NEW M \in 0..N,
         \A k \in 1..M : par[k] < k, \A k \in (M+1)..N : par[k] \in (M+1)..N
  PROVE  /\ \A k \in 1..M : anc[k] \subseteq 1..k-1
         /\ \A k \in 1..M : \A j \in anc[k] \cup {k} : j \notin anc[j]
         /\ \A k \in (M+1)..N : \E j \in anc[k] \cup {k} : j \in anc[j]
<1>1. ASSUME NEW k \in 1..M PROVE anc[k] \subseteq 1..k-1
  <2> DEFINE U == 1..k-1
  <2>1. k \in 1..N /\ U \in SUBSET (1..N)
    OBVIOUS
  <2>2. \A x \in U : x \in 1..M /\ x \in 1..N /\ par[x] < x /\ par[x] \in 0..N
    OBVIOUS
  <2>3. Closed(par, U)
    BY <2>2 DEF Closed
  <2>4. par[k] # 0 => par[k] \in U
    BY <2>1
  <2>5. QED
    BY <2>1, <2>3, <2>4 DEF Climbs
<1>2. ASSUME NEW k \in 1..M, NEW j \in anc[k] \cup {k} PROVE j \notin anc[j]
  <2>1. j \in 1..M
    BY <1>1
  <2>2. anc[j] \subseteq 1..j-1
    BY <1>1, <2>1
  <2>3. QED
    BY <2>1, <2>2
<1>3. ASSUME NEW k \in (M+1)..N PROVE \E j \in anc[k] \cup {k} : j \in anc[j]
  <2> DEFINE size(j) == Cardinality(anc[j])
             I == anc[k] \cup {k}
             T == {size(j) : j \in I}
  <2>1. k \in 1..N /\ anc[k] \in SUBSET (1..N) /\ I \in SUBSET (1..N)
    OBVIOUS
  <2>2. \A j \in 1..N : IsFiniteSet(anc[j]) /\ size(j) \in Nat
    <3>1. IsFiniteSet(1..N)
      BY FS_Interval
    <3>2. \A j \in 1..N : IsFiniteSet(anc[j])
      BY <3>1, FS_Subset
    <3>3. QED
      BY <3>2, FS_CardinalityType
  <2>3. T \in SUBSET Nat /\ T # {}
    BY <2>1, <2>2
  <2> HIDE DEF T
  <2>4. PICK m \in T : \A n \in T : m <= n
    BY <2>3, Least
  <2> HIDE DEF I
  <2>5. PICK j \in I : m = size(j)
    BY <2>4 DEF T
  <2>6. I \subseteq (M+1)..N
    <3> DEFINE U == (M+1)..N
    <3>1. U \in SUBSET (1..N) /\ Closed(par, U) /\ par[k] \in U
      <4>1. \A x \in U : par[x] \in U
        OBVIOUS
      <4>2. QED
        BY <4>1, <1>3 DEF Closed
    <3>2. anc[k] \subseteq U
      BY <2>1, <3>1 DEF Climbs
    <3>3. QED
      BY <3>2 DEF I
  <2> DEFINE p == par[j]
  <2>7. j \in (M+1)..N /\ j \in 1..N /\ p \in (M+1)..N /\ p \in 1..N /\ p # 0
    <3>1. j \in (M+1)..N
      BY <2>5, <2>6
    <3>2. QED
      BY <3>1
  <2>8. p \in anc[j] /\ anc[p] \subseteq anc[j]
    BY <2>7, Ancestry DEF Climbs
  <2>9. p \in I
    <3>1. Closed(par, anc[k]) /\ (par[k] # 0 => par[k] \in anc[k])
      BY <2>1 DEF Climbs
    <3>2. QED
      BY <2>5, <2>7, <3>1 DEF Closed, I
  <2>10. size(j) <= size(p)
    BY <2>4, <2>5, <2>9 DEF T
  <2> HIDE DEF p
  <2>11. anc[p] = anc[j]
    <3>1. IsFiniteSet(anc[j]) /\ anc[p] \in SUBSET anc[j]
      BY <2>2, <2>7, <2>8
    <3>2. size(p) <= size(j) /\ (size(j) = size(p) => anc[j] = anc[p])
      BY <3>1, FS_Subset
    <3>3. size(j) \in Nat /\ size(p) \in Nat
      BY <2>2, <2>7
    <3>4. QED
      BY <2>10, <3>2, <3>3
  <2>12. QED
    BY <2>8, <2>9, <2>11 DEF I
<1>4. QED
  BY <1>1, <1>2, <1>3

-----------------------------------------------------------------------------
\* What the properties say of a listing, entry by entry.

Parents(l) == [k \in 1..Len(l) |-> Parent(l, k)]

LEMMA ParentsAre ==
  ASSUME NEW S, NEW l \in Seq(S), Branched(l)
  PROVE  /\ Len(l) \in Nat /\ DOMAIN l = 1..Len(l)
         /\ Parents(l) \in [1..Len(l) -> 0..Len(l)]
         /\ \A k \in 1..Len(l) : Parents(l)[k] = Owner(l, l[k].base)
<1>1. \A k \in 1..Len(l) : Parent(l, k) \in 0..Len(l)
  BY OwnerIs DEF Parent
<1>2. QED
  BY <1>1 DEF Parents, Parent

LEMMA AncestorsAre ==
  ASSUME NEW S, listed \in Seq(S), Branched(listed), NEW k \in 1..Len(listed)
  PROVE  Climbs(Len(listed), Parents(listed), k, Ancestors(k))
<1> DEFINE N == Len(listed)
           par == Parents(listed)
           A == SUBSET (1..N)
           a == {ParentOf(k)} \ {0}
           More(U) == U \cup ({ParentOf(j) : j \in U} \ {0})
           step == [U \in A |-> More(U)]
           up[n \in 0..Len(listed)] ==
             IF n = 0 THEN {ParentOf(k)} \ {0}
             ELSE up[n-1] \cup ({ParentOf(j) : j \in up[n-1]} \ {0})
           f == LoopOf(N, a, step)
<1>1. /\ N \in Nat /\ par \in [1..N -> 0..N] /\ k \in 1..N
      /\ \A j \in 1..N : par[j] = ParentOf(j) /\ ParentOf(j) \in 0..N
  <2>1. /\ N \in Nat /\ par \in [1..N -> 0..N]
        /\ \A j \in 1..N : par[j] = Owner(listed, listed[j].base)
    BY ParentsAre
  <2> HIDE DEF N, par
  <2>2. \A j \in 1..N : par[j] \in 0..N
    BY <2>1
  <2>3. k \in 1..N
    BY DEF N
  <2>4. QED
    BY <2>1, <2>2, <2>3 DEF ParentOf
<1>2. Ancestors(k) = up[N]
  BY DEF Ancestors
<1>3. a \in A
  BY <1>1
<1>4. \A U \in A : More(U) \in A
  <2>1. ASSUME NEW U \in SUBSET (1..N) PROVE More(U) \in SUBSET (1..N)
    <3>1. \A j \in U : ParentOf(j) \in 0..N
      BY <1>1, <2>1
    <3>2. \A x \in {ParentOf(j) : j \in U} \ {0} : x \in 1..N
      BY <1>1, <3>1
    <3>3. QED
      BY <2>1, <3>2
  <2>2. QED
    BY <2>1
<1>5. step \in [A -> A] /\ \A U \in A : step[U] = More(U)
  BY <1>4
<1>6. up = CHOOSE h : h = [n \in 0..N |-> IF n = 0 THEN a ELSE More(h[n-1])]
  OBVIOUS
<1> HIDE DEF N, par, A, a, step, up
<1>7. Runs(f, N, A, a, step)
  BY <1>1, <1>3, <1>5, Loop
<1> HIDE DEF f
<1>8. \A n \in 1..N : n \in 0..N /\ n # 0 /\ n-1 \in 0..N
  BY <1>1
<1>9. \A n \in 0..N : n # 0 => n \in 1..N
  BY <1>1
<1>10. f = [n \in 0..N |-> IF n = 0 THEN a ELSE More(f[n-1])]
  <2>1. \A n \in 1..N : f[n-1] \in A
    BY <1>7, <1>8 DEF Runs
  <2>2. f \in [0..N -> A] /\ f[0] = a /\ \A n \in 1..N : f[n] = More(f[n-1])
    BY <1>5, <1>7, <2>1 DEF Runs
  <2> HIDE DEF More
  <2>3. QED
    BY <1>9, <2>2
<1>11. up = [n \in 0..N |-> IF n = 0 THEN a ELSE More(up[n-1])]
  <2>1. \E h : h = [n \in 0..N |-> IF n = 0 THEN a ELSE More(h[n-1])]
    BY <1>10, Zenon
  <2>2. QED
    BY <1>6, <2>1, Zenon
<1> HIDE DEF More
<1>12. \A n \in 0..N : up[n] = IF n = 0 THEN a ELSE More(up[n-1])
  BY <1>11, Zenon
<1>13. up[0] = a /\ \A n \in 1..N : up[n] = More(up[n-1])
  <2>1. 0 \in 0..N
    BY <1>1
  <2>2. QED
    BY <1>8, <1>12, <2>1
<1> DEFINE T == {n \in 0..N : up[n] \in A}
<1>14. 0 \in T
  BY <1>1, <1>3, <1>13
<1>15. ASSUME NEW n \in 1..N, n-1 \in T PROVE n \in T
  BY <1>4, <1>8, <1>13, <1>15
<1> HIDE DEF T
<1>16. 0..N \subseteq T
  BY <1>1, <1>14, <1>15, Induction
<1>17. \A n \in 0..N : up[n] \in A
  BY <1>16 DEF T
<1>18. up \in [0..N -> SUBSET (1..N)]
  BY <1>11, <1>17, Zenon DEF A
<1>19. up[0] = {par[k]} \ {0}
  BY <1>1, <1>13 DEF a
<1>20. ASSUME NEW n \in 1..N PROVE up[n] = up[n-1] \cup ({par[j] : j \in up[n-1]} \ {0})
  <2> DEFINE U == up[n-1]
  <2>1. up[n] = More(U) /\ U \in SUBSET (1..N)
    BY <1>8, <1>13, <1>17 DEF A
  <2> HIDE DEF U
  <2>2. \A j \in U : par[j] = ParentOf(j)
    BY <1>1, <2>1
  <2>3. {par[j] : j \in U} = {ParentOf(j) : j \in U}
    BY <2>2
  <2>4. QED
    BY <2>1, <2>3 DEF More, U
<1>21. Climbs(N, par, k, up[N])
  BY <1>1, <1>18, <1>19, <1>20, ClimbIs
<1>22. QED
  BY <1>2, <1>21 DEF N, par

\* The malformed entries are the tail.
LEMMA MalformedAre ==
  ASSUME NEW S, listed \in Seq(S), Branched(listed),
         NEW M \in 0..Len(listed), Stacked(listed, M)
  PROVE  /\ \A k \in 1..M : ~Malformed(k) /\ Ancestors(k) \subseteq 1..k-1
         /\ \A k \in (M+1)..Len(listed) : Malformed(k)
         /\ \A k \in 1..Len(listed) : ParentOf(k) = 0 => Ancestors(k) = {}
         /\ \A k \in 1..Len(listed) : ParentOf(k) # 0 =>
              Ancestors(k) = {ParentOf(k)} \cup Ancestors(ParentOf(k))
<1> DEFINE N == Len(listed)
           par == Parents(listed)
           anc == [k \in 1..N |-> Ancestors(k)]
<1>1. /\ N \in Nat /\ M \in 0..N /\ par \in [1..N -> 0..N]
      /\ \A k \in 1..N : par[k] = ParentOf(k) /\ par[k] = Parent(listed, k)
  BY ParentsAre DEF ParentOf, Parent
<1>2. \A k \in 1..N : Climbs(N, par, k, Ancestors(k))
  BY AncestorsAre
<1>3. \A k \in 1..M : par[k] < k
  BY <1>1 DEF Stacked
<1>4. \A k \in (M+1)..N : par[k] \in (M+1)..N
  BY <1>1 DEF Stacked
<1> HIDE DEF N, par
<1>5. anc \in [1..N -> SUBSET (1..N)] /\ \A k \in 1..N : anc[k] = Ancestors(k)
  BY <1>2 DEF Climbs
<1> HIDE DEF anc
<1>6. \A k \in 1..N : Climbs(N, par, k, anc[k])
  BY <1>2, <1>5
<1>7. /\ \A k \in 1..M : anc[k] \subseteq 1..k-1
      /\ \A k \in 1..M : \A j \in anc[k] \cup {k} : j \notin anc[j]
      /\ \A k \in (M+1)..N : \E j \in anc[k] \cup {k} : j \in anc[j]
  BY <1>1, <1>3, <1>4, <1>5, <1>6, Cycles
<1>8. /\ \A k \in 1..N : par[k] = 0 => anc[k] = {}
      /\ \A k \in 1..N : par[k] # 0 => anc[k] = {par[k]} \cup anc[par[k]]
  BY <1>1, <1>5, <1>6, Ancestry
<1>9. \A k \in 1..N : \A j \in anc[k] \cup {k} : j \in 1..N
  BY <1>5
<1>10. \A k \in 1..N : Malformed(k) <=> \E j \in anc[k] \cup {k} : j \in anc[j]
  BY <1>5, <1>9 DEF Malformed
<1>11. \A k \in 1..N : (k \in 1..M \/ k \in (M+1)..N) /\ (par[k] # 0 => par[k] \in 1..N)
  BY <1>1
<1>12. (\A k \in 1..M : k \in 1..N) /\ (\A k \in (M+1)..N : k \in 1..N)
  BY <1>1
<1>13. \A k \in 1..M : ~Malformed(k) /\ Ancestors(k) \subseteq 1..k-1
  BY <1>5, <1>7, <1>10, <1>12
<1>14. \A k \in (M+1)..N : Malformed(k)
  BY <1>7, <1>10, <1>12
<1>15. \A k \in 1..N : ParentOf(k) = 0 => Ancestors(k) = {}
  BY <1>1, <1>5, <1>8
<1>16. \A k \in 1..N : ParentOf(k) # 0 =>
              Ancestors(k) = {ParentOf(k)} \cup Ancestors(ParentOf(k))
  BY <1>1, <1>5, <1>8, <1>11
<1>17. QED
  BY <1>13, <1>14, <1>15, <1>16 DEF N
\* The stack of a ready entry, from the entry down.
LEMMA StacksAre ==
  ASSUME NEW S, listed \in Seq(S), Keyed(listed), Branched(listed),
         NEW M \in 0..Len(listed), Stacked(listed, M), NEW all,
         \A k \in 1..Len(listed) : listed[k].base = Main => ParentOf(k) = 0,
         NEW k \in 1..Len(listed)
  PROVE  IsReady(listed, all, k) <=>
           /\ ~Malformed(k)
           /\ \A j \in Ancestors(k) \cup {k} :
                ParentOf(j) # 0 \/ listed[j].base = Main \/ Landed(all, listed[j].base)
<1> DEFINE N == Len(listed)
           ready(j) == IsReady(listed, all, j)
           rooted(j) == ParentOf(j) # 0 \/ listed[j].base = Main \/ Landed(all, listed[j].base)
           stack(j) == \A i \in Ancestors(j) \cup {j} : rooted(i)
<1>1. /\ N \in Nat /\ M \in 0..N
      /\ \A j \in 1..N : ParentOf(j) \in 0..N /\ ParentOf(j) = Parent(listed, j)
  <2>1. \A j \in 1..N : Owner(listed, listed[j].base) \in 0..Len(listed)
    BY OwnerIs
  <2>2. QED
    BY <2>1 DEF ParentOf, Parent
<1>2. \A j \in 1..N : ready(j) <=>
        \/ listed[j].base = Main
        \/ ParentOf(j) # 0 /\ ParentOf(j) < j /\ ready(ParentOf(j))
        \/ ParentOf(j) = 0 /\ Landed(all, listed[j].base)
  <2>1. \A j \in 1..Len(listed) : IsReady(listed, all, j) <=>
          \/ listed[j].base = Main
          \/ /\ Parent(listed, j) # 0 /\ Parent(listed, j) < j
             /\ IsReady(listed, all, Parent(listed, j))
          \/ Parent(listed, j) = 0 /\ Landed(all, listed[j].base)
    BY ReadyIs
  <2>2. QED
    BY <1>1, <2>1
<1>3. /\ \A j \in 1..M : ~Malformed(j) /\ Ancestors(j) \subseteq 1..j-1
      /\ \A j \in (M+1)..N : Malformed(j)
      /\ \A j \in 1..N : ParentOf(j) = 0 => Ancestors(j) = {}
      /\ \A j \in 1..N : ParentOf(j) # 0 =>
           Ancestors(j) = {ParentOf(j)} \cup Ancestors(ParentOf(j))
  BY MalformedAre
<1>4. (\A j \in 1..M : ParentOf(j) < j) /\ (\A j \in (M+1)..N : ParentOf(j) \in (M+1)..N)
  <2>1. (\A j \in 1..M : j \in 1..N) /\ (\A j \in (M+1)..N : j \in 1..N)
    BY <1>1
  <2>2. QED
    BY <1>1, <2>1 DEF Stacked
<1>5. \A j \in 1..N : listed[j].base = Main => ParentOf(j) = 0
  OBVIOUS
<1> HIDE DEF N, ready
<1> DEFINE T == {n \in 0..M : \A j \in 1..n : ready(j) <=> stack(j)}
<1>6. 0 \in T
  BY <1>1
<1>7. ASSUME NEW n \in 1..M, n-1 \in T PROVE n \in T
  <2> DEFINE p == ParentOf(n)
  <2>1. /\ n \in 1..N /\ n \in 0..M /\ p \in 0..N /\ p < n
        /\ \A j \in 1..n : j \in 1..n-1 \/ j = n
    BY <1>1, <1>4
  <2>2. \A j \in 1..n-1 : ready(j) <=> stack(j)
    BY <1>7
  <2>3. CASE p = 0
    <3>1. stack(n) <=> rooted(n)
      BY <1>3, <2>1, <2>3
    <3>2. ready(n) <=> rooted(n)
      BY <1>2, <2>1, <2>3
    <3>3. QED
      BY <2>1, <2>2, <3>1, <3>2
  <2>4. CASE p # 0
    <3>1. p \in 1..n-1 /\ Ancestors(n) = {p} \cup Ancestors(p) /\ listed[n].base # Main
      BY <1>3, <1>5, <2>1, <2>4
    <3>2. ready(n) <=> ready(p)
      BY <1>2, <2>1, <2>4, <3>1
    <3>3. rooted(n)
      BY <2>4
    <3> HIDE DEF p, rooted
    <3>4. stack(n) <=> stack(p)
      BY <3>1, <3>3
    <3>5. ready(p) <=> stack(p)
      BY <2>2, <3>1
    <3> HIDE DEF stack
    <3>6. QED
      BY <2>1, <2>2, <3>2, <3>4, <3>5
  <2>5. QED
    BY <2>3, <2>4
<1> HIDE DEF T
<1>8. 0..M \subseteq T
  <2>1. M \in Nat
    BY <1>1
  <2>2. QED
    BY <1>6, <1>7, <2>1, Induction
<1>9. \A j \in 1..M : ready(j) <=> stack(j)
  <2>1. M \in T
    BY <1>1, <1>8
  <2>2. QED
    BY <2>1 DEF T
\* Nobody in the tail is ready: the first of them would have its parent ready.
<1>10. \A j \in (M+1)..N : ~ready(j)
  <2> DEFINE R == {j \in (M+1)..N : ready(j)}
  <2> SUFFICES ASSUME R # {} PROVE FALSE
    OBVIOUS
  <2>1. R \in SUBSET Nat
    BY <1>1
  <2> HIDE DEF R
  <2>2. PICK m \in R : \A j \in R : m <= j
    BY <2>1, Least
  <2> DEFINE p == ParentOf(m)
  <2>3. /\ m \in (M+1)..N /\ m \in 1..N /\ p \in (M+1)..N /\ p # 0 /\ ready(m)
        /\ listed[m].base # Main
    <3>1. m \in (M+1)..N /\ ready(m)
      BY DEF R
    <3>2. m \in 1..N /\ p \in (M+1)..N
      BY <1>1, <1>4, <3>1
    <3>3. p # 0
      BY <1>1, <3>2
    <3>4. QED
      BY <1>5, <3>1, <3>2, <3>3
  <2>4. p < m /\ ready(p)
    BY <1>2, <2>3
  <2>5. p \in R
    BY <2>3, <2>4 DEF R
  <2>6. QED
    BY <1>1, <2>2, <2>3, <2>4, <2>5
<1>11. k \in 1..M \/ k \in (M+1)..N
  BY <1>1 DEF N
<1>12. ready(k) <=> (~Malformed(k) /\ stack(k))
  BY <1>3, <1>9, <1>10, <1>11
<1>13. QED
  BY <1>12 DEF ready
\* h is the course of the loop of Reaches.
Hops(l, removed, R, h) ==
  /\ R = h[Len(l)] /\ h[0] = {removed}
  /\ \A n \in 1..Len(l) :
       h[n] = h[n-1] \cup {e.id : e \in {f \in Range(l) : f.dep \in h[n-1]}}

LEMMA ReachesLoop ==
  ASSUME NEW S, listed \in Seq(S), NEW removed
  PROVE  \E h : Hops(listed, removed, Reaches(removed), h)
<1> DEFINE N == Len(listed)
           A == SUBSET (IdsOf(listed) \cup {removed})
           a == {removed}
           More(s) == s \cup {e.id : e \in {f \in Range(listed) : f.dep \in s}}
           step == [s \in A |-> More(s)]
           hop[n \in 0..Len(listed)] ==
             IF n = 0 THEN {removed}
             ELSE hop[n-1] \cup {e.id : e \in {f \in Range(listed) : f.dep \in hop[n-1]}}
           f == LoopOf(N, a, step)
<1>1. N \in Nat /\ a \in A /\ Range(listed) = {listed[i] : i \in 1..N}
  BY RangeIs
<1>2. \A s \in A : More(s) \in A
  <2>1. \A e \in Range(listed) : e.id \in IdsOf(listed)
    BY <1>1 DEF IdsOf
  <2>2. QED
    BY <2>1
<1>3. step \in [A -> A] /\ \A s \in A : step[s] = More(s)
  BY <1>2
<1>4. Reaches(removed) = hop[N]
  BY DEF Reaches
<1>5. hop = CHOOSE h : h = [n \in 0..N |-> IF n = 0 THEN a ELSE More(h[n-1])]
  OBVIOUS
<1> HIDE DEF N, A, a, step, hop
<1>6. Runs(f, N, A, a, step)
  BY <1>1, <1>3, Loop
<1> HIDE DEF f
<1>7. \A n \in 1..N : n \in 0..N /\ n # 0 /\ n-1 \in 0..N
  BY <1>1
<1>8. \A n \in 0..N : n # 0 => n \in 1..N
  BY <1>1
<1>9. f = [n \in 0..N |-> IF n = 0 THEN a ELSE More(f[n-1])]
  <2>1. \A n \in 1..N : f[n-1] \in A
    BY <1>6, <1>7 DEF Runs
  <2>2. f \in [0..N -> A] /\ f[0] = a /\ \A n \in 1..N : f[n] = More(f[n-1])
    BY <1>3, <1>6, <2>1 DEF Runs
  <2> HIDE DEF More
  <2>3. QED
    BY <1>8, <2>2
<1>10. hop = [n \in 0..N |-> IF n = 0 THEN a ELSE More(hop[n-1])]
  <2>1. \E h : h = [n \in 0..N |-> IF n = 0 THEN a ELSE More(h[n-1])]
    BY <1>9, Zenon
  <2>2. QED
    BY <1>5, <2>1, Zenon
<1> HIDE DEF More
<1>11. \A n \in 0..N : hop[n] = IF n = 0 THEN a ELSE More(hop[n-1])
  BY <1>10, Zenon
<1>12. hop[0] = {removed} /\ \A n \in 1..N : hop[n] = More(hop[n-1])
  <2>1. 0 \in 0..N
    BY <1>1
  <2>2. QED
    BY <1>7, <1>11, <2>1 DEF a
<1>13. QED
  BY <1>4, <1>12 DEF N, More, Hops

\* Nothing is hit that the removed entry does not reach, and everything it does
\* reach when each candidate extends one ahead of it.
LEMMA DownstreamIs ==
  ASSUME NEW S, listed \in Seq(S), Keyed(listed), NEW r,
         \A k \in 1..Len(listed) : Active(listed[k])
  PROVE  LET hit == SelectDownstream(listed, r)
         IN  /\ hit \subseteq Reaches(r)
             /\ ChainedInOrder => hit = Reaches(r) \ {r}
<1> DEFINE N == Len(listed)
           hit == SelectDownstream(listed, r)
<1>1. /\ N \in Nat /\ DOMAIN listed = 1..N
      /\ Range(listed) = {listed[i] : i \in 1..N}
  BY RangeIs
<1>2. PICK d : Dirties(listed, r, d)
  BY DirtyLoop
<1>3. PICK h : Hops(listed, r, Reaches(r), h)
  BY ReachesLoop
<1> DEFINE is(m) == listed[m].dep \in d[m-1]
<1>4. /\ \A m \in 1..N : Hit(listed, d[m-1], m) <=> is(m)
      /\ hit = {listed[n].id : n \in {m \in 1..N : is(m)}}
      /\ d[0] = {r}
      /\ \A n \in 1..N : d[n] = IF is(n) THEN d[n-1] \cup {listed[n].id} ELSE d[n-1]
  <2>1. \A m \in 1..N : Hit(listed, d[m-1], m) <=> is(m)
    BY DEF Hit
  <2>2. {m \in 1..N : Hit(listed, d[m-1], m)} = {m \in 1..N : is(m)}
    BY <2>1
  <2>3. hit = {listed[n].id : n \in {m \in 1..N : Hit(listed, d[m-1], m)}}
    BY <1>2 DEF Dirties
  <2>4. d[0] = {r} /\ \A n \in 1..N :
          d[n] = IF Hit(listed, d[n-1], n) THEN d[n-1] \cup {listed[n].id} ELSE d[n-1]
    BY <1>2 DEF Dirties
  <2> HIDE DEF is, hit
  <2>5. hit = {listed[n].id : n \in {m \in 1..N : is(m)}}
    BY <2>2, <2>3
  <2>6. QED
    BY <2>1, <2>4, <2>5
<1>5. /\ Reaches(r) = h[N] /\ h[0] = {r}
      /\ \A n \in 1..N : \A x : x \in h[n] <=>
           x \in h[n-1] \/ \E k \in 1..N : x = listed[k].id /\ listed[k].dep \in h[n-1]
  <2>1. Reaches(r) = h[N] /\ h[0] = {r}
    BY <1>3 DEF Hops
  <2>2. \A n \in 1..N :
          h[n] = h[n-1] \cup {e.id : e \in {f \in Range(listed) : f.dep \in h[n-1]}}
    BY <1>3 DEF Hops
  <2> HIDE DEF N
  <2>3. ASSUME NEW n \in 1..N, NEW x
        PROVE  x \in h[n] <=>
           x \in h[n-1] \/ \E k \in 1..N : x = listed[k].id /\ listed[k].dep \in h[n-1]
    <3>1. x \in h[n] <=>
            x \in h[n-1] \/ \E e \in Range(listed) : e.dep \in h[n-1] /\ x = e.id
      BY <2>2
    <3>2. QED
      BY <1>1, <3>1
  <2>4. QED
    BY <2>1, <2>3
<1>6. \A i, j \in 1..N : listed[i].id = listed[j].id => i = j
  BY <1>1 DEF Keyed
<1> HIDE DEF N, hit
\* What is dirty after n entries: r and the hits among them.
<1> DEFINE T == {n \in 0..N : /\ \A x \in d[n] : x = r \/ \E m \in 1..n : x = listed[m].id /\ is(m)
                              /\ r \in d[n] /\ \A m \in 1..n : is(m) => listed[m].id \in d[n]
                              /\ d[n] \subseteq h[n]
                              /\ \A m \in 0..n : h[m] \subseteq h[n]}
<1>7. 0 \in T
  BY <1>1, <1>4, <1>5
<1>8. ASSUME NEW n \in 1..N, n-1 \in T PROVE n \in T
  <2>1. /\ \A x \in d[n-1] : x = r \/ \E m \in 1..n-1 : x = listed[m].id /\ is(m)
        /\ r \in d[n-1] /\ \A m \in 1..n-1 : is(m) => listed[m].id \in d[n-1]
        /\ d[n-1] \subseteq h[n-1]
        /\ \A m \in 0..n-1 : h[m] \subseteq h[n-1]
    BY <1>8
  <2>2. n \in 0..N /\ n \in 1..n /\ n-1 \in 0..n-1
    BY <1>1
  <2>3. (\A m \in 1..n : m \in 1..n-1 \/ m = n) /\ (\A m \in 0..n : m \in 0..n-1 \/ m = n)
    BY <1>1
  <2>4. \A m \in 1..n-1 : m \in 1..n
    BY <1>1
  <2>5. d[n] = IF is(n) THEN d[n-1] \cup {listed[n].id} ELSE d[n-1]
    BY <1>4
  <2>6. \A x : x \in h[n] <=>
          x \in h[n-1] \/ \E k \in 1..N : x = listed[k].id /\ listed[k].dep \in h[n-1]
    BY <1>5
  <2>7. is(n) => listed[n].id \in h[n]
    BY <2>1, <2>6
  <2> HIDE DEF is
  <2>8. \A x \in d[n] : x = r \/ \E m \in 1..n : x = listed[m].id /\ is(m)
    BY <2>1, <2>2, <2>4, <2>5
  <2>9. r \in d[n] /\ \A m \in 1..n : is(m) => listed[m].id \in d[n]
    BY <2>1, <2>3, <2>5
  <2>10. h[n-1] \subseteq h[n]
    BY <2>6
  <2>11. d[n] \subseteq h[n]
    BY <2>1, <2>5, <2>7, <2>10
  <2>12. \A m \in 0..n : h[m] \subseteq h[n]
    BY <2>1, <2>3, <2>10
  <2>13. QED
    BY <2>2, <2>8, <2>9, <2>11, <2>12
<1> HIDE DEF T
<1>9. 0..N \subseteq T
  BY <1>1, <1>7, <1>8, Induction
<1>10. ASSUME NEW n \in 0..N
       PROVE  /\ \A x \in d[n] : x = r \/ \E m \in 1..n : x = listed[m].id /\ is(m)
              /\ r \in d[n] /\ \A m \in 1..n : is(m) => listed[m].id \in d[n]
              /\ d[n] \subseteq h[n]
              /\ \A m \in 0..n : h[m] \subseteq h[n]
  <2>1. n \in T
    BY <1>9
  <2>2. QED
    BY <2>1 DEF T
<1>11. N \in 0..N /\ \A m \in 1..N : m \in 0..N /\ m-1 \in 0..N
  BY <1>1
<1>12. hit \subseteq Reaches(r)
  <2> SUFFICES ASSUME NEW m \in 1..N, is(m) PROVE listed[m].id \in h[N]
    BY <1>4, <1>5
  <2>1. listed[m].id \in d[N]
    BY <1>10, <1>11
  <2>2. d[N] \subseteq h[N]
    BY <1>10, <1>11
  <2>3. QED
    BY <2>1, <2>2
<1>13. ASSUME ChainedInOrder PROVE hit = Reaches(r) \ {r}
  <2>1. \A i, j \in 1..N : listed[i].dep = listed[j].id => j < i
    BY <1>1, <1>13 DEF ChainedInOrder
\* The removed entry itself is not hit: nothing before it is, and it comes
\* before what extends it.
  <2>2. ASSUME NEW k \in 1..N, listed[k].id = r, is(k) PROVE FALSE
    <3> DEFINE H == {m \in 1..k : is(m)}
    <3>1. H \in SUBSET Nat /\ H # {}
      BY <1>1, <2>2
    <3> HIDE DEF H
    <3>2. PICK m \in H : \A j \in H : m <= j
      BY <3>1, Least
    <3>3. m \in 1..k /\ m \in 1..N /\ m-1 \in 0..N /\ is(m)
      BY <1>1, <1>11 DEF H
    <3>4. PICK x : x = listed[m].dep /\ x \in d[m-1]
      BY <3>3
    <3>5. CASE x = r
      <4>1. k < m
        BY <2>1, <2>2, <3>3, <3>4, <3>5
      <4>2. QED
        BY <1>1, <3>3, <4>1
    <3>6. CASE x # r
      <4>1. PICK j \in 1..m-1 : is(j)
        BY <1>10, <3>3, <3>4, <3>6
      <4>2. j \in 1..k /\ j < m
        BY <1>1, <3>3
      <4>3. j \in H
        BY <4>1, <4>2 DEF H
      <4>4. QED
        BY <1>1, <3>2, <3>3, <4>2, <4>3
    <3>7. QED
      BY <3>5, <3>6
  <2>3. r \notin hit
    BY <1>4, <2>2
  <2> DEFINE Q == {n \in 0..N : h[n] \subseteq hit \cup {r}}
  <2>4. 0 \in Q
    BY <1>1, <1>5
  <2>5. ASSUME NEW n \in 1..N, n-1 \in Q PROVE n \in Q
    <3>1. n \in 0..N /\ h[n-1] \subseteq hit \cup {r}
      BY <1>11, <2>5
    <3>2. ASSUME NEW k \in 1..N, listed[k].dep \in h[n-1] PROVE listed[k].id \in hit
      <4>1. k-1 \in 0..N
        BY <1>11
      <4>2. CASE listed[k].dep = r
        <5>1. is(k)
          BY <1>10, <4>1, <4>2
        <5>2. QED
          BY <1>4, <5>1
      <4>3. CASE listed[k].dep \in hit
        <5>1. PICK m \in 1..N : is(m) /\ listed[k].dep = listed[m].id
          BY <1>4, <4>3
        <5>2. m < k
          BY <2>1, <5>1
        <5>3. m \in 1..k-1
          BY <1>1, <5>2
        <5>4. is(k)
          BY <1>10, <4>1, <5>1, <5>3
        <5>5. QED
          BY <1>4, <5>4
      <4>4. QED
        BY <3>1, <3>2, <4>2, <4>3
    <3>3. h[n] \subseteq hit \cup {r}
      <4>1. \A x \in h[n] : x \in h[n-1] \/ \E k \in 1..N : x = listed[k].id /\ listed[k].dep \in h[n-1]
        BY <1>5
      <4>2. QED
        BY <3>1, <3>2, <4>1
    <3>4. QED
      BY <3>1, <3>3
  <2> HIDE DEF Q
  <2>6. 0..N \subseteq Q
    BY <1>1, <2>4, <2>5, Induction
  <2>7. h[N] \subseteq hit \cup {r}
    BY <1>11, <2>6 DEF Q
  <2>8. QED
    BY <1>5, <1>12, <2>3, <2>7
<1>14. QED
  BY <1>12, <1>13 DEF hit
-----------------------------------------------------------------------------
\* The table of entries, and the listing made of it.

Rows == [id : Nat, branch : Branches, base : Branches \cup {Main},
         prio : Priorities, status : Statuses, dep : (1..MaxLen) \cup {Null}]

\* Positions are ids, and one active entry per branch.
Table(es) ==
  /\ es \in Seq(Rows)
  /\ \A k \in DOMAIN es : es[k].id = k
  /\ \A j, k \in DOMAIN es :
       Active(es[j]) /\ Active(es[k]) /\ es[j].branch = es[k].branch => j = k

\* l lists the active entries of es: stacks from the root up, malformed last.
Listing(es, l) ==
  /\ l \in Seq(Rows) /\ Keyed(l) /\ Branched(l)
  /\ Len(l) = Cardinality({k \in DOMAIN es : Active(es[k])})
  /\ Range(l) = {e \in Range(es) : Active(e)}
  /\ \E M \in 0..Len(l) : Stacked(l, M)

QueueInv == Table(q) /\ Listing(q, listed)

LEMMA ListingIs ==
  ASSUME NEW es, Table(es)
  PROVE  Listing(es, OrderActiveQueue(ActiveOf(es)))
<1>1. \A k \in DOMAIN es : es[k] \in Rows
  BY DEF Table
<1>2. \A k \in DOMAIN es : es[k].prio \in Priorities
  BY <1>1 DEF Rows
<1>3. \A k \in DOMAIN es : es[k].prio \in Int
  BY <1>2, BranchesAssumption
<1>4. IsTable(Rows, es)
  BY <1>3 DEF Table, IsTable
<1>5. QED
  BY <1>4, ListedIs DEF IsListing, Listing

LEMMA QueueEmpty == Table(<<>>) /\ Listing(<<>>, <<>>)
<1>1. Table(<<>>)
  BY DEF Table
<1>2. Len(<<>>) = Cardinality({k \in DOMAIN <<>> : Active(<<>>[k])})
  <2>1. {k \in DOMAIN <<>> : Active(<<>>[k])} = {}
    OBVIOUS
  <2>2. QED
    BY <2>1, FS_EmptySet
<1>3. <<>> \in Seq(Rows) /\ Keyed(<<>>) /\ Branched(<<>>)
  BY DEF Keyed, Branched
<1>4. Range(<<>>) = {e \in Range(<<>>) : Active(e)}
  BY DEF Range
<1>5. 0 \in 0..Len(<<>>) /\ Stacked(<<>>, 0)
  BY DEF Stacked
<1>6. QED
  BY <1>1, <1>2, <1>3, <1>4, <1>5 DEF Listing

LEMMA QueueEnqueue ==
  ASSUME QueueInv, Enqueue
  PROVE  QueueInv'
<1>1. PICK e \in Entries(Len(q) + 1) : q' = Append(q, e)
  BY DEF Enqueue
<1>2. /\ q \in Seq(Rows) /\ Len(q) \in Nat /\ DOMAIN q = 1..Len(q)
      /\ \A k \in 1..Len(q) : q[k].id = k
      /\ \A j, k \in 1..Len(q) :
           Active(q[j]) /\ Active(q[k]) /\ q[j].branch = q[k].branch => j = k
  BY DEF QueueInv, Table
<1>3. /\ e \in Rows /\ e.id = Len(q) + 1
      /\ Active(e) => \A k \in 1..Len(q) : q[k].branch = e.branch => ~Active(q[k])
  <2>1. /\ e \in [id : {Len(q) + 1}, branch : Branches, base : Branches \cup {Main},
                  prio : Priorities, status : Statuses, dep : (1..MaxLen) \cup {Null}]
        /\ Active(e) => \A k \in DOMAIN q : q[k].branch = e.branch => ~Active(q[k])
    BY <1>1 DEF Entries
  <2>2. e.id = Len(q) + 1 /\ e \in Rows
    BY <1>2, <2>1 DEF Rows
  <2>3. QED
    BY <1>2, <2>1, <2>2
<1>4. /\ q' \in Seq(Rows) /\ Len(q') = Len(q) + 1 /\ q'[Len(q) + 1] = e
      /\ \A i \in 1..Len(q) : q'[i] = q[i]
      /\ \A i \in 1..Len(q') : i \in 1..Len(q) \/ i = Len(q) + 1
  BY <1>1, <1>2, <1>3, AppendIs
<1>5. DOMAIN q' = 1..Len(q')
  BY <1>4
<1>6. \A k \in DOMAIN q' : q'[k].id = k
  BY <1>2, <1>3, <1>4, <1>5
<1>7. \A j, k \in DOMAIN q' :
        Active(q'[j]) /\ Active(q'[k]) /\ q'[j].branch = q'[k].branch => j = k
  BY <1>2, <1>3, <1>4, <1>5
<1>8. Table(q')
  BY <1>4, <1>6, <1>7 DEF Table
<1>9. listed' = OrderActiveQueue(ActiveOf(q'))
  BY DEF Enqueue
<1>10. Listing(q', listed')
  BY <1>8, <1>9, ListingIs
<1>11. QED
  BY <1>8, <1>10 DEF QueueInv

LEMMA QueueInvariant == Spec => []QueueInv
<1>1. Init => QueueInv
  BY QueueEmpty DEF Init, QueueInv
<1>2. QueueInv /\ [Next]_<<about, queue, commit>> => QueueInv'
  <2> SUFFICES ASSUME QueueInv, [Next]_<<about, queue, commit>> PROVE QueueInv'
    OBVIOUS
  <2>1. CASE Enqueue
    BY <2>1, QueueEnqueue
  <2>2. ASSUME NEW name \in Names, NEW app \in Apps \cup {NoApp}, Post(name, app)
        PROVE  QueueInv'
    BY <2>2 DEF Post, queue, QueueInv
  <2>3. ASSUME NEW k \in DOMAIN checks, Complete(k) PROVE QueueInv'
    BY <2>3 DEF Complete, queue, QueueInv
  <2>4. CASE StartOver
    BY <2>4, QueueEmpty DEF StartOver, QueueInv
  <2>5. CASE UNCHANGED <<about, queue, commit>>
    BY <2>5 DEF queue, QueueInv
  <2>6. QED
    BY <2>1, <2>2, <2>3, <2>4, <2>5 DEF Next
<1>3. QED
  BY <1>1, <1>2, PTL DEF Spec

\* Ordering the queue loses and duplicates no entry, for any branches and
\* priorities and any number of entries: listActive lists what is active, each
\* once.  (orderActiveQueue)
THEOREM OrderIsAlwaysPermutation == Spec => []OrderIsPermutation
<1>1. QueueInv => OrderIsPermutation
  BY DEF QueueInv, Listing, OrderIsPermutation
<1>2. QED
  BY <1>1, QueueInvariant, PTL

\* Topology wins over priority, however deep the stack is: an entry comes after
\* its whole stack, and of two entries that no cycle holds back the one that
\* loses goes first only when the other's parent was not out yet.
\* (orderActiveQueue)
THEOREM StackAlwaysThenPriority == Spec => []StackThenPriority
<1>1. ASSUME QueueInv PROVE StackThenPriority
  <2> DEFINE N == Len(listed)
  <2>1. /\ listed \in Seq(Rows) /\ Branched(listed) /\ DOMAIN listed = 1..N /\ N \in Nat
        /\ \E M \in 0..N : Stacked(listed, M)
    <3>1. /\ listed \in Seq(Rows) /\ Branched(listed)
          /\ \E M \in 0..Len(listed) : Stacked(listed, M)
      BY <1>1, Zenon DEF QueueInv, Listing
    <3>2. DOMAIN listed = 1..N /\ N \in Nat
      BY <3>1
    <3>3. QED
      BY <3>1, <3>2
  <2>2. PICK M \in 0..N : Stacked(listed, M)
    BY <2>1
  <2>3. /\ \A k \in 1..M : ~Malformed(k) /\ Ancestors(k) \subseteq 1..k-1
        /\ \A k \in (M+1)..N : Malformed(k)
    BY <2>1, <2>2, MalformedAre
  <2> HIDE DEF N
  <2>4. \A k \in 1..N : k \in 1..M \/ k \in (M+1)..N
    BY <2>1, <2>2
  <2>5. ASSUME NEW k \in 1..N, ~Malformed(k), NEW j \in Ancestors(k) PROVE j < k
    <3>1. k \in 1..M
      BY <2>3, <2>4, <2>5
    <3>2. j \in 1..k-1
      BY <2>3, <2>5, <3>1
    <3>3. QED
      BY <2>5, <3>2
  <2>6. ASSUME NEW j \in 1..N, NEW k \in 1..N, j < k, ~Malformed(j), ~Malformed(k),
               Before(listed[k], listed[j])
        PROVE  ParentOf(k) >= j
    <3>1. j \in 1..M /\ k \in 1..M
      BY <2>3, <2>4, <2>6
    <3>2. Parent(listed, k) >= j
      BY <2>2, <2>6, <3>1 DEF Stacked
    <3>3. QED
      BY <3>2 DEF Parent, ParentOf
  <2>7. QED
    BY <2>1, <2>5, <2>6 DEF StackThenPriority
<1>2. QED
  BY <1>1, QueueInvariant, PTL

\* What may advance has its whole active stack ready under it, down to the base
\* branch or to a branch whose newest entry landed, and nothing else may: for
\* stacks of any depth and a history of any length.
\* (buildDependencyReadySchedule)
THEOREM ReadyStacksAreAlwaysRooted == Spec => []ReadyStacksAreRooted
<1>1. ASSUME QueueInv PROVE ReadyStacksAreRooted
  <2> DEFINE N == Len(listed)
             rooted(j) ==
               \/ ParentOf(j) # 0
               \/ listed[j].base = Main
               \/ \E m \in DOMAIN q :
                    /\ q[m].branch = listed[j].base
                    /\ q[m].status = "merged"
                    /\ \A n \in DOMAIN q : q[n].branch = q[m].branch => n <= m
  <2>1. /\ listed \in Seq(Rows) /\ Keyed(listed) /\ Branched(listed)
        /\ DOMAIN listed = 1..N /\ N \in Nat
        /\ \E M \in 0..N : Stacked(listed, M)
    <3>1. /\ listed \in Seq(Rows) /\ Keyed(listed) /\ Branched(listed)
          /\ \E M \in 0..Len(listed) : Stacked(listed, M)
      BY <1>1, Zenon DEF QueueInv, Listing
    <3>2. DOMAIN listed = 1..N /\ N \in Nat
      BY <3>1
    <3>3. QED
      BY <3>1, <3>2
  <2>2. PICK M \in 0..N : Stacked(listed, M)
    BY <2>1
  <2>3. \A k \in 1..N : listed[k].base = Main => ParentOf(k) = 0
    <3> SUFFICES ASSUME NEW k \in 1..N, listed[k].base = Main, ParentOf(k) # 0 PROVE FALSE
      OBVIOUS
    <3> DEFINE p == Owner(listed, Main)
    <3>1. p \in 0..N /\ p # 0 /\ \A j \in 1..N : listed[j].branch = Main <=> p = j
      BY <2>1, OwnerIs DEF ParentOf
    <3>2. p \in 1..N /\ listed[p].branch = Main
      BY <2>1, <3>1
    <3>3. listed[p] \in Rows
      BY <2>1, <3>2
    <3>4. QED
      BY <3>2, <3>3, BranchesAssumption DEF Rows
  <2>4. \A k \in 1..N : IsReady(listed, q, k) <=>
          /\ ~Malformed(k)
          /\ \A j \in Ancestors(k) \cup {k} :
               ParentOf(j) # 0 \/ listed[j].base = Main \/ Landed(q, listed[j].base)
    BY <2>1, <2>2, <2>3, StacksAre
  <2>5. \A k \in DOMAIN q : q[k].id = k
    BY <1>1 DEF QueueInv, Table
  <2>6. ASSUME NEW j
        PROVE  (ParentOf(j) # 0 \/ listed[j].base = Main \/ Landed(q, listed[j].base))
                 <=> rooted(j)
    <3> DEFINE b == listed[j].base
    <3>1. Landed(q, b) <=> \E m \in DOMAIN q :
                    /\ q[m].branch = b
                    /\ q[m].status = "merged"
                    /\ \A n \in DOMAIN q : q[n].branch = b => n <= m
      BY <2>5 DEF Landed
    <3> HIDE DEF b
    <3>2. Landed(q, b) <=> \E m \in DOMAIN q :
                    /\ q[m].branch = b
                    /\ q[m].status = "merged"
                    /\ \A n \in DOMAIN q : q[n].branch = q[m].branch => n <= m
      BY <3>1
    <3>3. QED
      BY <3>2 DEF b
  <2> HIDE DEF rooted
  <2>7. \A k \in 1..N : listed[k].id \in ReadyIds(listed, q) <=>
          /\ ~Malformed(k)
          /\ \A j \in Ancestors(k) \cup {k} : rooted(j)
    BY <2>4, <2>6 DEF IsReady
  <2>8. QED
    BY <2>1, <2>7 DEF ReadyStacksAreRooted, rooted
<1>2. QED
  BY <1>1, QueueInvariant, PTL

\* Removing an entry invalidates nothing but what was built on it, directly or
\* through other candidates, and all of that when each candidate extends one
\* ahead of it in the queue.  (selectDownstream)
THEOREM DownstreamIsAlwaysClosure == Spec => []DownstreamIsClosure
<1>1. ASSUME QueueInv PROVE DownstreamIsClosure
  <2>1. listed \in Seq(Rows) /\ Keyed(listed) /\ Range(listed) = {e \in Range(q) : Active(e)}
    BY <1>1 DEF QueueInv, Listing
  <2>2. \A k \in 1..Len(listed) : Active(listed[k])
    <3>1. Range(listed) = {listed[i] : i \in 1..Len(listed)}
      BY <2>1, RangeIs
    <3>2. \A e \in Range(listed) : Active(e)
      BY <2>1
    <3>3. QED
      BY <3>1, <3>2
  <2>3. ASSUME NEW r
        PROVE  LET hit == SelectDownstream(listed, r)
               IN  /\ hit \subseteq Reaches(r)
                   /\ ChainedInOrder => hit = Reaches(r) \ {r}
    BY <2>1, <2>2, DownstreamIs
  <2>4. QED
    BY <2>3 DEF DownstreamIsClosure
<1>2. QED
  BY <1>1, QueueInvariant, PTL

-----------------------------------------------------------------------------
\* The check policy.

Conclusions == {"pending", "failure", "success", "neutral", "skipped"}

CheckRuns == [name : Names, app : Apps \cup {NoApp}, run : Nat \cup {NoRun},
              conclusion : Conclusions]

\* No number is given to two check runs, and none is ahead of the listing:
\* without it the next check run might share a number, and LatestRerun would
\* let the older of the two count.
NumbersAreTheirs ==
  /\ \A k \in DOMAIN checks : checks[k].run # NoRun => checks[k].run \in 1..Len(checks)
  /\ \A j, k \in DOMAIN checks :
       j # k /\ checks[j].run # NoRun => checks[j].run # checks[k].run

ChecksInv == checks \in Seq(CheckRuns) /\ NumbersAreTheirs

\* A conclusion is one of the five.
LEMMA ConclusionType ==
  ASSUME NEW status, NEW raw
  PROVE  Conclusion(status, raw) \in Conclusions
BY DEF Conclusion, Conclusions

LEMMA ChecksInit == Init => ChecksInv
BY DEF Init, ChecksInv, NumbersAreTheirs

\* A check run is posted at either end of the listing.
LEMMA ChecksPost ==
  ASSUME ChecksInv, NEW name \in Names, NEW app \in Apps \cup {NoApp}, Post(name, app)
  PROVE  ChecksInv'
<1>1. PICK run \in {Len(checks) + 1, NoRun} :
        LET c == Check(name, app, run, "in_progress", "none")
        IN  checks' = Append(checks, c) \/ checks' = <<c>> \o checks
  BY DEF Post
<1> DEFINE c == Check(name, app, run, "in_progress", "none")
<1>2. checks \in Seq(CheckRuns) /\ Len(checks) \in Nat /\ DOMAIN checks = 1..Len(checks)
  BY DEF ChecksInv
<1>3. c \in CheckRuns /\ c.run = run
  <2>1. Conclusion("in_progress", "none") \in Conclusions
    BY ConclusionType
  <2>2. QED
    BY <2>1, <1>2 DEF Check, CheckRuns
<1> HIDE DEF c
<1>4. NoRun \notin Nat
  BY CheckPolicyAssumption
<1>5. /\ \A k \in DOMAIN checks : checks[k].run # NoRun => checks[k].run \in 1..Len(checks)
      /\ \A j, k \in DOMAIN checks :
           j # k /\ checks[j].run # NoRun => checks[j].run # checks[k].run
  BY DEF ChecksInv, NumbersAreTheirs
<1>6. ASSUME checks' = Append(checks, c)
      PROVE  ChecksInv'
  <2>1. /\ checks' \in Seq(CheckRuns) /\ Len(checks') = Len(checks) + 1
        /\ \A k \in 1..Len(checks) : checks'[k] = checks[k]
        /\ checks'[Len(checks) + 1] = c
    BY <1>2, <1>3, <1>6
  <2>2. \A k \in DOMAIN checks' : k = Len(checks) + 1 \/ k \in DOMAIN checks
    BY <2>1, <1>2
  <2>3. \A k \in DOMAIN checks' : checks'[k].run # NoRun => checks'[k].run \in 1..Len(checks')
    BY <2>1, <2>2, <1>1, <1>2, <1>3, <1>5
  <2>4. \A j, k \in DOMAIN checks' :
          j # k /\ checks'[j].run # NoRun => checks'[j].run # checks'[k].run
    BY <2>1, <2>2, <1>1, <1>2, <1>3, <1>4, <1>5
  <2>5. QED
    BY <2>1, <2>3, <2>4 DEF ChecksInv, NumbersAreTheirs
<1>7. ASSUME checks' = <<c>> \o checks
      PROVE  ChecksInv'
  <2>1. /\ checks' \in Seq(CheckRuns) /\ Len(checks') = Len(checks) + 1
        /\ \A k \in 1..Len(checks) : checks'[k + 1] = checks[k]
        /\ checks'[1] = c
    BY <1>2, <1>3, <1>7
  <2>2. \A k \in DOMAIN checks' : k = 1 \/ (k - 1 \in DOMAIN checks /\ checks'[k] = checks[k - 1])
    BY <2>1, <1>2
  <2>3. \A k \in DOMAIN checks' : checks'[k].run # NoRun => checks'[k].run \in 1..Len(checks')
    BY <2>1, <2>2, <1>1, <1>2, <1>3, <1>5
  <2>4. \A j, k \in DOMAIN checks' :
          j # k /\ checks'[j].run # NoRun => checks'[j].run # checks'[k].run
    <3> SUFFICES ASSUME NEW j \in DOMAIN checks', NEW k \in DOMAIN checks',
                        j # k, checks'[j].run # NoRun
                 PROVE  checks'[j].run # checks'[k].run
      OBVIOUS
    <3>1. \A i \in DOMAIN checks : checks[i].run # Len(checks) + 1
      BY <1>2, <1>4, <1>5
    <3>2. CASE j = 1
      BY <3>1, <3>2, <2>1, <2>2, <1>1, <1>3
    <3>3. CASE k = 1
      BY <3>1, <3>3, <2>1, <2>2, <1>1, <1>3
    <3>4. CASE j # 1 /\ k # 1
      <4>1. j - 1 \in DOMAIN checks /\ k - 1 \in DOMAIN checks /\ j - 1 # k - 1
        BY <3>4, <2>2, <2>1, <1>2
      <4>2. QED
        BY <4>1, <3>4, <2>2, <1>5
    <3>5. QED
      BY <3>2, <3>3, <3>4
  <2>5. QED
    BY <2>1, <2>3, <2>4 DEF ChecksInv, NumbersAreTheirs
<1>8. QED
  BY <1>1, <1>6, <1>7 DEF c

LEMMA ConcludedRun ==
  ASSUME NEW check \in CheckRuns, NEW conclusion \in Conclusions
  PROVE  LET c == [check EXCEPT !.conclusion = conclusion]
         IN  c \in CheckRuns /\ c.run = check.run
BY DEF CheckRuns

\* Completing a check run leaves its number alone.
LEMMA ChecksComplete ==
  ASSUME ChecksInv, NEW k \in DOMAIN checks, Complete(k)
  PROVE  ChecksInv'
<1>1. PICK raw \in Raw :
        checks' = [checks EXCEPT ![k].conclusion = Conclusion("completed", raw)]
  BY DEF Complete
<1>2. checks \in Seq(CheckRuns) /\ Len(checks) \in Nat /\ DOMAIN checks = 1..Len(checks)
  BY DEF ChecksInv
<1>3. Conclusion("completed", raw) \in Conclusions
  BY ConclusionType
<1>4. LET c == [checks[k] EXCEPT !.conclusion = Conclusion("completed", raw)]
      IN  c \in CheckRuns /\ c.run = checks[k].run
  <2>1. checks[k] \in CheckRuns
    BY <1>2
  <2>2. QED
    BY <2>1, <1>3, ConcludedRun
<1>5. /\ DOMAIN checks' = DOMAIN checks
      /\ \A j \in DOMAIN checks : checks'[j] \in CheckRuns /\ checks'[j].run = checks[j].run
  BY <1>1, <1>2, <1>4
<1>6. checks' \in Seq(CheckRuns) /\ Len(checks') = Len(checks)
  BY <1>1, <1>2, <1>4
<1>7. QED
  BY <1>2, <1>5, <1>6 DEF ChecksInv, NumbersAreTheirs

LEMMA ChecksNext == ChecksInv /\ [Next]_<<about, queue, commit>> => ChecksInv'
<1> SUFFICES ASSUME ChecksInv, [Next]_<<about, queue, commit>>
             PROVE  ChecksInv'
  OBVIOUS
<1>1. CASE Enqueue
  BY <1>1 DEF Enqueue, commit, ChecksInv, NumbersAreTheirs
<1>2. CASE \E name \in Names, app \in Apps \cup {NoApp} : Post(name, app)
  BY <1>2, ChecksPost
<1>3. CASE \E k \in DOMAIN checks : Complete(k)
  BY <1>3, ChecksComplete
<1>4. CASE StartOver
  BY <1>4 DEF StartOver, ChecksInv, NumbersAreTheirs
<1>5. CASE UNCHANGED <<about, queue, commit>>
  BY <1>5 DEF commit, ChecksInv, NumbersAreTheirs
<1>6. QED
  BY <1>1, <1>2, <1>3, <1>4, <1>5 DEF Next

\* Of numbered check runs the newest alone counts.
LEMMA NewestCounts ==
  ASSUME ChecksInv, Numbered, NEW K \in SUBSET DOMAIN checks
  PROVE  LatestRerun(checks, K) = {k \in K : \A j \in K : checks[j].run <= checks[k].run}
BY DEF ChecksInv, NumbersAreTheirs, Numbered, LatestRerun

LEMMA PassIsEarned == ChecksInv => GreenIsEarned
<1> SUFFICES ASSUME ChecksInv, Verdict(rules, checks) = "pass", Numbered, NEW rule \in rules
             PROVE  \E k \in NewestFor(rule) : checks[k].conclusion \in {"success", "neutral"}
  BY DEF GreenIsEarned
<1> DEFINE matching(r) == {k \in DOMAIN checks : MatchesRule(checks[k], r)}
           current(r)  == LatestRerun(checks, matching(r))
           counted     == UNION {current(r) : r \in rules}
<1>1. /\ \A r \in rules : current(r) # {}
      /\ \A k \in counted : checks[k].conclusion \notin {"failure", "skipped", "pending"}
  BY DEF Verdict
<1>2. current(rule) =
        {k \in matching(rule) : \A j \in matching(rule) : checks[j].run <= checks[k].run}
  BY NewestCounts
<1>3. PICK k \in current(rule) : TRUE
  BY <1>1
<1>4. k \in DOMAIN checks /\ checks[k].conclusion \in {"success", "neutral"}
  <2>1. k \in counted /\ k \in DOMAIN checks
    BY <1>2, <1>3
  <2>2. checks[k] \in CheckRuns
    BY <2>1 DEF ChecksInv
  <2>3. QED
    BY <1>1, <2>1, <2>2 DEF CheckRuns, Conclusions
<1>5. k \in NewestFor(rule)
  BY <1>2, <1>3 DEF NewestFor, MatchesRule
<1>6. QED
  BY <1>4, <1>5

\* evaluateCheckPolicy calls a commit green only if the newest run of every
\* required check, by the right producer, has succeeded: for any number of
\* check runs, posted and completed in any order.
THEOREM GreenIsEarnedAlways == Spec => []GreenIsEarned
BY ChecksInit, ChecksNext, PassIsEarned, PTL DEF Spec

=============================================================================
