--------------------------- MODULE QueueOrderProofs ---------------------------
(***************************************************************************)
(* What the queue policy of Merge Steward returns, for queues of any       *)
(* length: the lemmas on which the theorems about the pure decisions       *)
(* (module DecisionsProofs) and about the steward that calls them (module  *)
(* StewardProofs) rest.                                                    *)
(***************************************************************************)
EXTENDS QueueOrder, FiniteSetTheorems, WellFoundedInduction, TLAPS

-----------------------------------------------------------------------------
(***************************************************************************)
(* The loops of the queue policy.  The library's induction theorems have   *)
(* an operator as a parameter, which no prover here can instantiate; what  *)
(* they say of a set can be used, and is enough: a set of naturals has a   *)
(* least element, a set that holds 0 and, with every number, the next one  *)
(* holds all of them, and a loop can be run for any number of rounds.      *)
(***************************************************************************)
LEMMA Least ==
  ASSUME NEW T \in SUBSET Nat, T # {}
  PROVE  \E m \in T : \A k \in T : m <= k
<1> DEFINE less == {s \in Nat \X Nat : s[1] < s[2]}
<1>1. IsWellFoundedOn(less, Nat)
  BY NatLessThanWellFounded DEF OpToRel
<1> HIDE DEF less
<1>2. PICK m \in T : \A k \in T : ~(<<k, m>> \in less)
  BY <1>1, WFMin
<1>3. \A k \in T : ~(k < m)
  BY <1>2 DEF less
<1>4. \A k \in T : k \in Nat /\ m \in Nat
  OBVIOUS
<1>5. QED
  BY <1>3, <1>4

LEMMA Induction ==
  ASSUME NEW N \in Nat, NEW T, 0 \in T, \A n \in 1..N : n-1 \in T => n \in T
  PROVE  0..N \subseteq T
<1> SUFFICES ASSUME ~(0..N \subseteq T) PROVE FALSE
  OBVIOUS
<1> DEFINE R == (0..N) \ T
<1>1. R \in SUBSET Nat /\ R # {}
  OBVIOUS
<1> HIDE DEF R
<1>2. PICK m \in R : \A k \in R : m <= k
  BY <1>1, Least
<1>3. m \in 1..N
  BY DEF R
<1>4. m-1 \in 0..N /\ ~(m <= m-1)
  BY <1>3
<1>5. m-1 \in T
  BY <1>2, <1>4 DEF R
<1>6. m \in T
  BY <1>3, <1>5
<1>7. QED
  BY <1>6 DEF R

\* f is the course of a loop from a, whose round n is step[n].
Iterates(f, N, a, step) == f[0] = a /\ \A n \in 1..N : f[n] = step[n][f[n-1]]

LEMMA Iteration ==
  ASSUME NEW N \in Nat, NEW S, NEW a \in S, NEW step \in [1..N -> [S -> S]]
  PROVE  \E f \in [0..N -> S] : Iterates(f, N, a, step)
<1> DEFINE T == {k \in 0..N : \E f \in [0..k -> S] :
                                f[0] = a /\ \A n \in 1..k : f[n] = step[n][f[n-1]]}
<1>1. 0 \in T
  <2> DEFINE f == [n \in 0..0 |-> a]
  <2>1. f \in [0..0 -> S] /\ f[0] = a
    OBVIOUS
  <2> HIDE DEF f
  <2>2. QED
    BY <2>1
<1>2. ASSUME NEW k \in 1..N, k-1 \in T PROVE k \in T
  <2>1. PICK f \in [0..k-1 -> S] : f[0] = a /\ \A n \in 1..k-1 : f[n] = step[n][f[n-1]]
    BY <1>2
  <2> DEFINE g == [n \in 0..k |-> IF n = k THEN step[k][f[k-1]] ELSE f[n]]
  <2>2. step[k][f[k-1]] \in S
    <3>1. f[k-1] \in S /\ step[k] \in [S -> S]
      BY <2>1
    <3>2. QED
      BY <3>1
  <2>3. g \in [0..k -> S]
    <3>1. \A n \in 0..k : n # k => n \in 0..k-1
      OBVIOUS
    <3>2. QED
      BY <2>2, <3>1
  <2>4. g[0] = a
    BY <2>1
  <2>5. ASSUME NEW n \in 1..k PROVE g[n] = step[n][g[n-1]]
    <3>1. n-1 \in 0..k /\ n-1 # k /\ g[n-1] = f[n-1]
      OBVIOUS
    <3>2. n # k => n \in 1..k-1 /\ g[n] = f[n]
      OBVIOUS
    <3>3. n = k => g[n] = step[k][f[k-1]]
      OBVIOUS
    <3>4. QED
      BY <2>1, <3>1, <3>2, <3>3
  <2> HIDE DEF g
  <2>6. QED
    BY <2>3, <2>4, <2>5
<1> HIDE DEF T
<1>3. 0..N \subseteq T
  BY <1>1, <1>2, Induction
<1>4. N \in T
  BY <1>3
<1>5. QED
  BY <1>4 DEF T, Iterates

-----------------------------------------------------------------------------
\* The entries with the indices in K.

LEMMA AmongLoop ==
  ASSUME NEW S, NEW es \in Seq(S), NEW K
  PROVE  \E f \in [0..Len(es) -> Seq(S)] :
           /\ Among(es, K) = f[Len(es)] /\ f[0] = <<>>
           /\ \A n \in 1..Len(es) : f[n] = IF n \in K THEN Append(f[n-1], es[n]) ELSE f[n-1]
<1> DEFINE A == Seq(S)
           N == Len(es)
           a == <<>>
           step == [n \in 1..N |-> [s \in A |-> IF n \in K THEN Append(s, es[n]) ELSE s]]
           kept[n \in 0..Len(es)] ==
             IF n = 0 THEN <<>> ELSE IF n \in K THEN Append(kept[n-1], es[n]) ELSE kept[n-1]
<1>1. N \in Nat /\ a \in A
  OBVIOUS
<1>2. step \in [1..N -> [A -> A]]
  OBVIOUS
<1>3. \A n \in 1..N, s \in A : step[n][s] = IF n \in K THEN Append(s, es[n]) ELSE s
  OBVIOUS
<1> HIDE DEF step, A, kept, N, a
<1>4. PICK f \in [0..N -> A] : Iterates(f, N, a, step)
  BY <1>1, <1>2, Iteration
<1>5. \A n \in 1..N : n-1 \in 0..N /\ f[n-1] \in A
  BY <1>1
<1>6. f[0] = <<>> /\ \A n \in 1..N : f[n] = IF n \in K THEN Append(f[n-1], es[n]) ELSE f[n-1]
  BY <1>3, <1>4, <1>5 DEF Iterates, a
<1>7. \E g : g = [n \in 0..N |->
              IF n = 0 THEN <<>> ELSE IF n \in K THEN Append(g[n-1], es[n]) ELSE g[n-1]]
  <2>1. \A n \in 0..N : n # 0 => n \in 1..N
    BY <1>1
  <2>2. f = [n \in 0..N |->
              IF n = 0 THEN <<>> ELSE IF n \in K THEN Append(f[n-1], es[n]) ELSE f[n-1]]
    BY <1>6, <2>1
  <2>3. QED
    BY <2>2
<1>8. kept = [n \in 0..N |->
              IF n = 0 THEN <<>> ELSE IF n \in K THEN Append(kept[n-1], es[n]) ELSE kept[n-1]]
  BY <1>7 DEF kept, N
<1>9. Among(es, K) = kept[N]
  BY DEF Among, kept, N
<1> DEFINE T == {n \in 0..N : kept[n] = f[n]}
<1>10. 0 \in T
  BY <1>1, <1>6, <1>8
<1>11. ASSUME NEW n \in 1..N, n-1 \in T PROVE n \in T
  <2>1. n \in 0..N /\ n # 0
    BY <1>1
  <2>2. kept[n] = IF n = 0 THEN <<>>
                  ELSE IF n \in K THEN Append(kept[n-1], es[n]) ELSE kept[n-1]
    BY <1>8, <2>1, Zenon
  <2>3. QED
    BY <1>6, <1>11, <2>1, <2>2
<1> HIDE DEF T
<1>12. 0..N \subseteq T
  <2>1. N \in Nat
    BY <1>1
  <2>2. QED
    BY <2>1, <1>10, <1>11, Induction
<1>13. kept[N] = f[N]
  BY <1>1, <1>12 DEF T
<1>14. QED
  BY <1>4, <1>6, <1>9, <1>13 DEF N, A

\* What a has kept of the first n rows: those in K, each once.
Upto(K, n) == {k \in 1..n : k \in K}

IsKept(es, K, n, a) ==
  /\ \A i \in 1..Len(a) : a[i].id \in Upto(K, n) /\ a[i] = es[a[i].id]
  /\ \A i, j \in 1..Len(a) : a[i].id = a[j].id => i = j
  /\ \A k \in Upto(K, n) : \E i \in 1..Len(a) : a[i] = es[k]
  /\ IsFiniteSet(Upto(K, n)) /\ Len(a) = Cardinality(Upto(K, n))

LEMMA KeepsMore ==
  ASSUME NEW S, NEW es \in Seq(S), NEW K, \A k \in DOMAIN es : es[k].id = k,
         NEW n \in 1..Len(es), NEW a \in Seq(S), IsKept(es, K, n-1, a)
  PROVE  IsKept(es, K, n, IF n \in K THEN Append(a, es[n]) ELSE a)
<1>1. es[n] \in S /\ es[n].id = n /\ n \in Nat /\ Len(a) \in Nat
  OBVIOUS
<1>2. CASE n \notin K
  <2>1. Upto(K, n) = Upto(K, n-1)
    BY <1>1, <1>2 DEF Upto
  <2>2. IsKept(es, K, n, a)
    BY <2>1 DEF IsKept
  <2>3. QED
    BY <1>2, <2>2
<1>3. CASE n \in K
  <2> DEFINE b == Append(a, es[n])
             I == Upto(K, n-1)
  <2>1. Upto(K, n) = I \cup {n} /\ n \notin I
    BY <1>1, <1>3 DEF Upto
  <2>2. IsFiniteSet(I) /\ Len(a) = Cardinality(I)
    BY DEF IsKept
  <2>3. /\ \A i \in 1..Len(a) : a[i].id \in I /\ a[i] = es[a[i].id]
        /\ \A i, j \in 1..Len(a) : a[i].id = a[j].id => i = j
        /\ \A k \in I : \E i \in 1..Len(a) : a[i] = es[k]
    BY DEF IsKept
  <2> HIDE DEF I
  <2>4. IsFiniteSet(I \cup {n}) /\ Cardinality(I \cup {n}) = Len(a) + 1
    BY <2>1, <2>2, FS_AddElement
  <2>5. /\ Len(b) = Len(a) + 1 /\ b[Len(a) + 1] = es[n]
        /\ \A i \in 1..Len(a) : b[i] = a[i]
    BY <1>1
  <2>6. \A i \in 1..Len(b) : i \in 1..Len(a) \/ i = Len(a) + 1
    BY <1>1, <2>5
  <2> HIDE DEF b
  <2>7. \A i \in 1..Len(b) : b[i].id \in I \cup {n} /\ b[i] = es[b[i].id]
    BY <1>1, <2>3, <2>5, <2>6
  <2>8. \A i, j \in 1..Len(b) : b[i].id = b[j].id => i = j
    BY <1>1, <2>1, <2>3, <2>5, <2>6
  <2>9. \A k \in I \cup {n} : \E i \in 1..Len(b) : b[i] = es[k]
    <3>1. Len(a) + 1 \in 1..Len(b) /\ 1..Len(a) \subseteq 1..Len(b)
      BY <1>1, <2>5
    <3>2. QED
      BY <2>3, <2>5, <3>1
  <2>10. IsKept(es, K, n, b)
    BY <2>1, <2>4, <2>5, <2>7, <2>8, <2>9 DEF IsKept
  <2>11. QED
    BY <1>3, <2>10 DEF b
<1>4. QED
  BY <1>2, <1>3

\* In a table whose positions are the ids.
LEMMA AmongIs ==
  ASSUME NEW S, NEW es \in Seq(S), NEW K, \A k \in DOMAIN es : es[k].id = k
  PROVE  Among(es, K) \in Seq(S) /\ IsKept(es, K, Len(es), Among(es, K))
<1> DEFINE N == Len(es)
<1>1. N \in Nat
  OBVIOUS
<1>2. PICK f \in [0..N -> Seq(S)] :
        /\ Among(es, K) = f[N] /\ f[0] = <<>>
        /\ \A n \in 1..N : f[n] = IF n \in K THEN Append(f[n-1], es[n]) ELSE f[n-1]
  BY AmongLoop
<1> DEFINE T == {n \in 0..N : IsKept(es, K, n, f[n])}
<1>3. 0 \in T
  <2>1. Upto(K, 0) = {} /\ Len(<<>>) = 0 /\ 1..0 = {}
    BY DEF Upto
  <2>2. IsKept(es, K, 0, <<>>)
    BY <2>1, FS_EmptySet DEF IsKept
  <2>3. QED
    BY <1>1, <1>2, <2>2
<1>4. ASSUME NEW n \in 1..N, n-1 \in T PROVE n \in T
  <2>1. f[n-1] \in Seq(S) /\ IsKept(es, K, n-1, f[n-1])
    BY <1>1, <1>4
  <2>2. IsKept(es, K, n, IF n \in K THEN Append(f[n-1], es[n]) ELSE f[n-1])
    BY <2>1, KeepsMore
  <2>3. QED
    BY <1>2, <2>2
<1> HIDE DEF T
<1>5. 0..N \subseteq T
  <2> HIDE DEF N
  <2>1. QED
    BY <1>1, <1>3, <1>4, Induction
<1>6. QED
  BY <1>1, <1>2, <1>5 DEF T

-----------------------------------------------------------------------------
\* The order.  A loop that does the same in every round:

LoopOf(N, a, step) == CHOOSE h : h = [n \in 0..N |-> IF n = 0 THEN a ELSE step[h[n-1]]]

Runs(g, N, S, a, step) ==
  g \in [0..N -> S] /\ g[0] = a /\ \A n \in 1..N : g[n] = step[g[n-1]]

LEMMA Loop ==
  ASSUME NEW N \in Nat, NEW S, NEW a \in S, NEW step \in [S -> S]
  PROVE  Runs(LoopOf(N, a, step), N, S, a, step)
<1> DEFINE g == LoopOf(N, a, step)
<1> DEFINE steps == [n \in 1..N |-> step]
<1>1. steps \in [1..N -> [S -> S]] /\ \A n \in 1..N : steps[n] = step
  OBVIOUS
<1> HIDE DEF steps
<1>2. steps \in [1..N -> [S -> S]]
  BY <1>1
<1>3. PICK f \in [0..N -> S] : Iterates(f, N, a, steps)
  BY <1>2, Iteration
<1>4. \A n \in 0..N : n # 0 => n \in 1..N
  OBVIOUS
<1>5. f = [n \in 0..N |-> IF n = 0 THEN a ELSE step[f[n-1]]]
  BY <1>1, <1>3, <1>4 DEF Iterates
<1>6. g = [n \in 0..N |-> IF n = 0 THEN a ELSE step[g[n-1]]]
  BY <1>5 DEF LoopOf
<1> HIDE DEF g
<1>7. \A n \in 0..N : g[n] = IF n = 0 THEN a ELSE step[g[n-1]]
  BY <1>6, Zenon
<1>8. \A n \in 1..N : n \in 0..N /\ n # 0 /\ n-1 \in 0..N
  OBVIOUS
<1>9. g[0] = a /\ \A n \in 1..N : g[n] = step[g[n-1]]
  BY <1>7, <1>8
<1> DEFINE T == {n \in 0..N : g[n] \in S}
<1>10. 0 \in T
  BY <1>9
<1>11. ASSUME NEW n \in 1..N, n-1 \in T PROVE n \in T
  BY <1>8, <1>9, <1>11
<1> HIDE DEF T
<1>12. 0..N \subseteq T
  BY <1>10, <1>11, Induction
<1>13. \A n \in 0..N : g[n] \in S
  BY <1>12 DEF T
<1>14. g \in [0..N -> S]
  BY <1>6, <1>13, Zenon
<1>15. QED
  BY <1>9, <1>14 DEF Runs, g

\* Rows that Before tells apart.
Keyed(es) ==
  /\ \A k \in DOMAIN es : es[k].prio \in Int /\ es[k].id \in Int
  /\ \A j, k \in DOMAIN es : es[j].id = es[k].id => j = k

LEMMA BeforeIsOrder ==
  ASSUME NEW es, Keyed(es), NEW i \in DOMAIN es, NEW j \in DOMAIN es
  PROVE  /\ i # j => Before(es[i], es[j]) \/ Before(es[j], es[i])
         /\ ~(Before(es[i], es[j]) /\ Before(es[j], es[i]))
         /\ \A k \in DOMAIN es :
              Before(es[i], es[j]) /\ Before(es[j], es[k]) => Before(es[i], es[k])
BY DEF Keyed, Before

LEMMA FirstIs ==
  ASSUME NEW S, NEW es \in Seq(S), Keyed(es), NEW K \in SUBSET DOMAIN es, K # {}
  PROVE  /\ First(es, K) \in K
         /\ \A j \in K \ {First(es, K)} : Before(es[First(es, K)], es[j])
<1> DEFINE N == Len(es)
           best(J, k) == \A j \in J \ {k} : Before(es[k], es[j])
           T == {n \in 0..N : \A J \in SUBSET (1..n) : J # {} => \E k \in J : best(J, k)}
<1>1. N \in Nat /\ DOMAIN es = 1..N
  OBVIOUS
<1>2. 0 \in T
  <2>1. 0 \in 0..N /\ 1..0 = {}
    BY <1>1
  <2>2. \A J \in SUBSET (1..0) : J = {}
    BY <2>1
  <2>3. QED
    BY <2>1, <2>2
<1>3. ASSUME NEW n \in 1..N, n-1 \in T PROVE n \in T
  <2> SUFFICES ASSUME NEW J \in SUBSET (1..n), J # {} PROVE \E k \in J : best(J, k)
    OBVIOUS
  <2>1. J \ {n} \in SUBSET (1..n-1)
    OBVIOUS
  <2>2. CASE J \ {n} = {}
    BY <2>2
  <2>3. CASE n \notin J
    BY <1>3, <2>1, <2>3
  <2>4. CASE n \in J /\ J \ {n} # {}
    <3>1. PICK k \in J \ {n} : best(J \ {n}, k)
      BY <1>3, <2>1, <2>4
    <3>2. k \in DOMAIN es /\ n \in DOMAIN es /\ \A j \in J : j \in DOMAIN es
      BY <1>1, <3>1
    <3>3. CASE Before(es[k], es[n])
      BY <3>1, <3>3
    <3>4. CASE Before(es[n], es[k])
      <4>1. ASSUME NEW j \in J \ {n} PROVE Before(es[n], es[j])
        <5>1. j = k \/ Before(es[k], es[j])
          BY <3>1
        <5>2. QED
          BY <3>2, <3>4, <5>1, BeforeIsOrder
      <4>2. QED
        BY <2>4, <4>1
    <3>5. QED
      BY <3>1, <3>2, <3>3, <3>4, BeforeIsOrder
  <2>5. QED
    BY <2>2, <2>3, <2>4
<1> HIDE DEF T, N
<1>4. 0..N \subseteq T
  <2>1. N \in Nat
    BY <1>1
  <2>2. QED
    BY <1>2, <1>3, <2>1, Induction
<1>5. N \in T /\ K \in SUBSET (1..N)
  BY <1>1, <1>4
<1>6. \E k \in K : best(K, k)
  BY <1>5 DEF T
<1>7. QED
  BY <1>6 DEF First

\* Without repetition.
Once(s) == \A i, j \in 1..Len(s) : s[i] = s[j] => i = j

LEMMA Pigeonhole ==
  ASSUME NEW N \in Nat, NEW s \in Seq(1..N), Once(s)
  PROVE  Len(s) <= N /\ (Len(s) = N <=> Range(s) = 1..N)
<1>1. /\ Len(s) \in Nat /\ DOMAIN s = 1..Len(s) /\ s \in [1..Len(s) -> 1..N]
      /\ Range(s) = {s[i] : i \in 1..Len(s)}
  BY DEF Range
<1>2. s \in Injection(1..Len(s), 1..N)
  BY <1>1 DEF Injection, IsInjective, Once
<1>3. IsFiniteSet(1..N) /\ Cardinality(1..N) = N /\ Cardinality(1..Len(s)) = Len(s)
  <2>1. \A n \in Nat : IsFiniteSet(1..n) /\ Cardinality(1..n) = n
    BY FS_Interval
  <2>2. QED
    BY <1>1, <2>1
<1>4. /\ Cardinality(1..Len(s)) <= Cardinality(1..N)
      /\ Cardinality(1..Len(s)) = Cardinality(1..N) <=> s \in Surjection(1..Len(s), 1..N)
  BY <1>2, <1>3, FS_Injection
<1>5. s \in Surjection(1..Len(s), 1..N) <=> Range(s) = 1..N
  BY <1>1 DEF Surjection
<1>6. QED
  BY <1>3, <1>4, <1>5

\* The i-th index of s is the first one of those that the indices before it
\* have released.
Greedy(es, s, i) ==
  LET K == Released(es, {s[j] : j \in 1..i-1})
  IN  s[i] \in K /\ \A k \in K \ {s[i]} : Before(es[s[i]], es[k])

IsEmission(es, s) == Once(s) /\ \A i \in 1..Len(s) : Greedy(es, s, i)

LEMMA RangeIs ==
  ASSUME NEW S, NEW s \in Seq(S)
  PROVE  Len(s) \in Nat /\ Range(s) = {s[i] : i \in 1..Len(s)} /\ Range(s) \subseteq S
BY DEF Range

LEMMA AppendIs ==
  ASSUME NEW S, NEW s \in Seq(S), NEW x \in S
  PROVE  LET t == Append(s, x) IN
         /\ t \in Seq(S) /\ Len(t) = Len(s) + 1 /\ t[Len(s) + 1] = x
         /\ \A i \in 1..Len(s) : t[i] = s[i]
         /\ \A i \in 1..Len(t) : i \in 1..Len(s) \/ i = Len(s) + 1
OBVIOUS

LEMMA OnceMore ==
  ASSUME NEW S, NEW s \in Seq(S), Once(s), NEW x \in S \ Range(s)
  PROVE  Once(Append(s, x))
<1> DEFINE t == Append(s, x)
<1>1. /\ t \in Seq(S) /\ Len(t) = Len(s) + 1 /\ t[Len(s) + 1] = x
      /\ \A i \in 1..Len(s) : t[i] = s[i]
      /\ \A i \in 1..Len(t) : i \in 1..Len(s) \/ i = Len(s) + 1
  BY AppendIs
<1>2. Len(s) \in Nat /\ \A i \in 1..Len(s) : s[i] # x
  BY RangeIs
<1> HIDE DEF t
<1>3. Once(t)
  BY <1>1, <1>2 DEF Once
<1>4. QED
  BY <1>3 DEF t

LEMMA EmitsMore ==
  ASSUME NEW S, NEW es \in Seq(S), Keyed(es), NEW s \in Seq(DOMAIN es), IsEmission(es, s),
         Released(es, Range(s)) # {}
  PROVE  LET t == Append(s, First(es, Released(es, Range(s)))) IN
         t \in Seq(DOMAIN es) /\ IsEmission(es, t) /\ Len(t) = Len(s) + 1
<1> DEFINE K == Released(es, Range(s))
           x == First(es, K)
           t == Append(s, x)
<1>1. K \in SUBSET DOMAIN es /\ K \cap Range(s) = {}
  BY DEF Released
<1>2. x \in K /\ \A j \in K \ {x} : Before(es[x], es[j])
  <2> HIDE DEF K
  <2>1. K # {}
    BY DEF K
  <2>2. QED
    BY <1>1, <2>1, FirstIs
<1>3. x \in DOMAIN es \ Range(s)
  BY <1>1, <1>2
<1> HIDE DEF x
<1>4. /\ t \in Seq(DOMAIN es) /\ Len(t) = Len(s) + 1 /\ t[Len(s) + 1] = x
      /\ \A i \in 1..Len(s) : t[i] = s[i]
      /\ \A i \in 1..Len(t) : i \in 1..Len(s) \/ i = Len(s) + 1
  BY <1>3, AppendIs
<1>5. Once(t)
  BY <1>3, OnceMore DEF IsEmission
<1> HIDE DEF t
<1>6. Len(s) \in Nat /\ Range(s) = {s[i] : i \in 1..Len(s)}
  BY RangeIs
<1>7. ASSUME NEW i \in 1..Len(t) PROVE Greedy(es, t, i)
  <2>1. CASE i \in 1..Len(s)
    <3>1. {t[j] : j \in 1..i-1} = {s[j] : j \in 1..i-1} /\ t[i] = s[i]
      <4>1. t[i] = s[i] /\ \A j \in 1..i-1 : t[j] = s[j]
        BY <1>4, <1>6, <2>1
      <4>2. QED
        BY <4>1
    <3>2. Greedy(es, s, i)
      BY <2>1 DEF IsEmission
    <3>3. QED
      BY <3>1, <3>2 DEF Greedy
  <2>2. CASE i = Len(s) + 1
    <3>1. {t[j] : j \in 1..i-1} = Range(s) /\ t[i] = x
      <4>1. t[i] = x /\ 1..i-1 = 1..Len(s) /\ \A j \in 1..Len(s) : t[j] = s[j]
        BY <1>4, <1>6, <2>2
      <4>2. QED
        BY <1>6, <4>1
    <3>2. QED
      BY <1>2, <3>1 DEF Greedy
  <2>3. QED
    BY <1>4, <2>1, <2>2
<1>8. QED
  BY <1>4, <1>5, <1>7 DEF IsEmission, t, x

\* The loop emits while something is released, each time the first one.
LEMMA EmissionIs ==
  ASSUME NEW S, NEW es \in Seq(S), Keyed(es)
  PROVE  LET s == Emission(es) IN
         s \in Seq(DOMAIN es) /\ IsEmission(es, s) /\ Released(es, Range(s)) = {}
<1> DEFINE N == Len(es)
           A == Seq(DOMAIN es)
           a == <<>>
           emit == [t \in Seq(DOMAIN es) |-> Emit(es, t, Released(es, Range(t)))]
           emitted[n \in 0..Len(es)] == IF n = 0 THEN <<>> ELSE emit[emitted[n-1]]
           Idle(s) == Released(es, Range(s)) = {}
<1>1. N \in Nat /\ a \in A /\ DOMAIN es = 1..N
  OBVIOUS
<1>2. \A s \in A : emit[s] = IF Idle(s) THEN s ELSE Append(s, First(es, Released(es, Range(s))))
  BY DEF Emit
<1>3. emit \in [A -> A]
  <2>1. ASSUME NEW s \in A PROVE Emit(es, s, Released(es, Range(s))) \in A
    <3> DEFINE K == Released(es, Range(s))
    <3>1. K \in SUBSET DOMAIN es
      BY DEF Released
    <3> HIDE DEF K
    <3>2. CASE K = {}
      BY <3>2 DEF Emit, K
    <3>3. CASE K # {}
      <4>1. First(es, K) \in DOMAIN es
        BY <3>1, <3>3, FirstIs
      <4>2. Append(s, First(es, K)) \in A
        BY <4>1
      <4>3. QED
        BY <3>3, <4>2 DEF Emit, K
    <3>4. QED
      BY <3>2, <3>3
  <2>2. QED
    BY <2>1
<1>4. Emission(es) = emitted[N]
  BY DEF Emission
<1>5. emitted = LoopOf(N, a, emit)
  BY DEF LoopOf
<1> HIDE DEF N, A, a, emit, emitted
<1>6. /\ emitted \in [0..N -> A] /\ emitted[0] = a
      /\ \A n \in 1..N : emitted[n] = emit[emitted[n-1]]
  <2>1. Runs(LoopOf(N, a, emit), N, A, a, emit)
    BY <1>1, <1>3, Loop
  <2>2. QED
    BY <1>5, <2>1 DEF Runs
<1> DEFINE T == {n \in 0..N : /\ IsEmission(es, emitted[n])
                              /\ Len(emitted[n]) = n \/ Idle(emitted[n])}
<1>7. 0 \in T
  <2>1. IsEmission(es, <<>>) /\ Len(<<>>) = 0
    BY DEF IsEmission, Once
  <2>2. QED
    BY <1>1, <1>6, <2>1 DEF a
<1>8. ASSUME NEW n \in 1..N, n-1 \in T PROVE n \in T
  <2> DEFINE s == emitted[n-1]
  <2>1. /\ s \in A /\ IsEmission(es, s) /\ (Len(s) = n-1 \/ Idle(s))
        /\ emitted[n] = emit[s] /\ n \in 0..N /\ n \in Nat
    BY <1>1, <1>6, <1>8
  <2> HIDE DEF s
  <2>2. CASE Idle(s)
    <3>1. emitted[n] = s
      BY <1>2, <2>1, <2>2
    <3>2. QED
      BY <2>1, <2>2, <3>1
  <2>3. CASE ~Idle(s)
    <3> DEFINE t == Append(s, First(es, Released(es, Range(s))))
    <3>1. emitted[n] = t
      BY <1>2, <2>1, <2>3
    <3>2. s \in Seq(DOMAIN es) /\ Released(es, Range(s)) # {}
      BY <2>1, <2>3 DEF A
    <3>3. IsEmission(es, t) /\ Len(t) = Len(s) + 1
      BY <2>1, <3>2, EmitsMore
    <3>4. Len(t) = n
      BY <2>1, <2>3, <3>3
    <3>5. QED
      BY <2>1, <3>1, <3>3, <3>4
  <2>4. QED
    BY <2>2, <2>3
<1> HIDE DEF T
<1>9. 0..N \subseteq T
  BY <1>1, <1>7, <1>8, Induction
<1> DEFINE s == emitted[N]
<1>10. s \in A /\ IsEmission(es, s) /\ (Len(s) = N \/ Idle(s))
  BY <1>1, <1>6, <1>9 DEF T
<1> HIDE DEF s
<1>11. Idle(s)
  <2>1. CASE Len(s) = N
    <3>1. s \in Seq(1..N) /\ Once(s)
      BY <1>1, <1>10 DEF IsEmission, A
    <3>2. Range(s) = 1..N
      BY <1>1, <2>1, <3>1, Pigeonhole
    <3>3. QED
      BY <1>1, <3>2 DEF Released
  <2>2. QED
    BY <1>10, <2>1
<1>12. QED
  BY <1>4, <1>10, <1>11 DEF A, s

\* The tail takes in what is left, behind what was emitted.
LEMMA TailIs ==
  ASSUME NEW S, NEW es \in Seq(S), Keyed(es), NEW s \in Seq(DOMAIN es), Once(s)
  PROVE  LET t == MalformedTail(es, s) IN
         /\ t \in Seq(DOMAIN es) /\ Once(t) /\ Len(t) = Len(es) /\ Range(t) = DOMAIN es
         /\ Len(s) <= Len(t) /\ \A i \in 1..Len(s) : t[i] = s[i]
<1> DEFINE N == Len(es)
           A == Seq(DOMAIN es)
           left(t) == DOMAIN es \ Range(t)
           emit == [t \in Seq(DOMAIN es) |-> Emit(es, t, DOMAIN es \ Range(t))]
           tail[n \in 0..Len(es)] == IF n = 0 THEN s ELSE emit[tail[n-1]]
           behind(t) == Len(s) <= Len(t) /\ \A i \in 1..Len(s) : t[i] = s[i]
<1>1. N \in Nat /\ s \in A /\ DOMAIN es = 1..N /\ Len(s) \in Nat
  OBVIOUS
<1>2. \A t \in A : emit[t] = IF left(t) = {} THEN t ELSE Append(t, First(es, left(t)))
  BY DEF Emit
<1>3. \A t \in A : left(t) # {} => First(es, left(t)) \in left(t)
  <2> SUFFICES ASSUME NEW t \in A, left(t) # {} PROVE First(es, left(t)) \in left(t)
    OBVIOUS
  <2> DEFINE K == left(t)
  <2>1. K \in SUBSET DOMAIN es /\ K # {}
    OBVIOUS
  <2> HIDE DEF K
  <2>2. First(es, K) \in K
    BY <2>1, FirstIs
  <2>3. QED
    BY <2>2 DEF K
<1>4. emit \in [A -> A]
  <2>1. ASSUME NEW t \in A PROVE Emit(es, t, left(t)) \in A
    <3>1. CASE left(t) = {}
      BY <3>1 DEF Emit
    <3>2. CASE left(t) # {}
      <4>1. First(es, left(t)) \in DOMAIN es
        BY <1>3, <3>2
      <4>2. Append(t, First(es, left(t))) \in A
        BY <4>1
      <4>3. QED
        BY <3>2, <4>2 DEF Emit
    <3>3. QED
      BY <3>1, <3>2
  <2>2. QED
    BY <2>1
<1>5. MalformedTail(es, s) = tail[N]
  BY DEF MalformedTail
<1>6. tail = LoopOf(N, s, emit)
  BY DEF LoopOf
<1> HIDE DEF N, A, emit, tail
<1>7. /\ tail \in [0..N -> A] /\ tail[0] = s
      /\ \A n \in 1..N : tail[n] = emit[tail[n-1]]
  <2>1. Runs(LoopOf(N, s, emit), N, A, s, emit)
    BY <1>1, <1>4, Loop
  <2>2. QED
    BY <1>6, <2>1 DEF Runs
<1> DEFINE T == {n \in 0..N : /\ Once(tail[n]) /\ behind(tail[n])
                              /\ n <= Len(tail[n]) \/ left(tail[n]) = {}}
<1>8. 0 \in T
  BY <1>1, <1>7
<1>9. ASSUME NEW n \in 1..N, n-1 \in T PROVE n \in T
  <2> DEFINE t == tail[n-1]
             x == First(es, left(t))
  <2>1. /\ t \in A /\ Once(t) /\ behind(t) /\ (n-1 <= Len(t) \/ left(t) = {})
        /\ tail[n] = emit[t] /\ n \in 0..N /\ n \in Nat
    BY <1>1, <1>7, <1>9
  <2> HIDE DEF t
  <2>2. CASE left(t) = {}
    <3>1. tail[n] = t
      BY <1>2, <2>1, <2>2
    <3>2. QED
      BY <2>1, <2>2, <3>1
  <2>3. CASE left(t) # {}
    <3> DEFINE u == Append(t, x)
    <3>1. tail[n] = u
      BY <1>2, <2>1, <2>3
    <3>2. t \in Seq(DOMAIN es) /\ x \in DOMAIN es \ Range(t)
      BY <1>3, <2>1, <2>3 DEF A
    <3> HIDE DEF x
    <3>3. /\ Len(u) = Len(t) + 1 /\ \A i \in 1..Len(t) : u[i] = t[i]
      BY <3>2, AppendIs
    <3>4. Once(u)
      BY <2>1, <3>2, OnceMore
    <3> HIDE DEF u
    <3>5. Len(t) \in Nat
      BY <3>2
    <3>6. n <= Len(u) /\ behind(u)
      BY <1>1, <2>1, <2>3, <3>3, <3>5
    <3>7. QED
      BY <2>1, <3>1, <3>4, <3>6
  <2>4. QED
    BY <2>2, <2>3
<1> HIDE DEF T
<1>10. 0..N \subseteq T
  BY <1>1, <1>8, <1>9, Induction
<1> DEFINE t == tail[N]
<1>11. t \in A /\ Once(t) /\ behind(t) /\ (N <= Len(t) \/ left(t) = {})
  <2>1. N \in 0..N
    BY <1>1
  <2>2. N \in T /\ t \in A
    BY <1>7, <1>10, <2>1
  <2>3. QED
    BY <2>2 DEF T
<1> HIDE DEF t
<1>12. t \in Seq(1..N) /\ Len(t) \in Nat /\ Range(t) \subseteq 1..N
  BY <1>1, <1>11, RangeIs DEF A
<1>13. Len(t) <= N /\ (Len(t) = N <=> Range(t) = 1..N)
  BY <1>1, <1>11, <1>12, Pigeonhole
<1>14. Len(t) = N /\ Range(t) = 1..N
  <2>1. CASE N <= Len(t)
    BY <1>1, <1>12, <1>13, <2>1
  <2>2. CASE left(t) = {}
    <3>1. Range(t) = 1..N
      BY <1>1, <1>12, <2>2
    <3>2. QED
      BY <1>13, <3>1
  <2>3. QED
    BY <1>11, <2>1, <2>2
<1>15. QED
  BY <1>1, <1>5, <1>11, <1>14 DEF A, t, N

-----------------------------------------------------------------------------
\* What the order is like, in its own terms.

Branched(es) == \A j, k \in DOMAIN es : es[j].branch = es[k].branch => j = k

Parent(es, k) == Owner(es, es[k].base)

\* The first M entries follow their parents, and nobody overtakes an entry that
\* beats it unless to wait for its parent; the others have their parents among
\* themselves.
Stacked(es, M) ==
  /\ \A k \in 1..M : Parent(es, k) < k
  /\ \A j, k \in 1..M : j < k /\ Before(es[k], es[j]) => Parent(es, k) >= j
  /\ \A k \in (M+1)..Len(es) : Parent(es, k) \in (M+1)..Len(es)

LEMMA OwnerIs ==
  ASSUME NEW S, NEW es \in Seq(S), Branched(es), NEW b
  PROVE  /\ Owner(es, b) \in 0..Len(es)
         /\ \A k \in 1..Len(es) : es[k].branch = b <=> Owner(es, b) = k
<1> DEFINE I == {k \in DOMAIN es : es[k].branch = b}
<1>1. Len(es) \in Nat /\ DOMAIN es = 1..Len(es)
  OBVIOUS
<1>2. CASE I = {}
  BY <1>1, <1>2 DEF Owner, Last0
<1>3. ASSUME NEW k \in I PROVE I = {k} /\ Owner(es, b) = k
  <2>1. I = {k}
    BY <1>3 DEF Branched
  <2> HIDE DEF I
  <2>2. k \in Nat
    BY <1>1, <1>3 DEF I
  <2>3. Last0(I) = k
    BY <2>1, <2>2 DEF Last0
  <2>4. QED
    BY <2>1, <2>3 DEF Owner, I
<1>4. QED
  BY <1>1, <1>2, <1>3

LEMMA OrderIs ==
  ASSUME NEW S, NEW es \in Seq(S), Keyed(es), Branched(es)
  PROVE  LET l == OrderActiveQueue(es) IN
         /\ l \in Seq(S) /\ Len(l) = Len(es) /\ Range(l) = Range(es)
         /\ Keyed(l) /\ Branched(l)
         /\ \E M \in 0..Len(l) : Stacked(l, M)
<1> DEFINE N == Len(es)
           s == Emission(es)
           t == MalformedTail(es, s)
           l == OrderActiveQueue(es)
           M == Len(s)
<1>1. N \in Nat /\ DOMAIN es = 1..N /\ es \in [1..N -> S]
  OBVIOUS
<1>2. s \in Seq(DOMAIN es) /\ IsEmission(es, s) /\ Released(es, Range(s)) = {}
  BY EmissionIs
<1>3. /\ t \in Seq(DOMAIN es) /\ Once(t) /\ Len(t) = Len(es) /\ Range(t) = DOMAIN es
      /\ Len(s) <= Len(t) /\ \A i \in 1..Len(s) : t[i] = s[i]
  <2> HIDE DEF s
  <2>1. Once(s)
    BY <1>2 DEF IsEmission
  <2>2. QED
    BY <1>2, <2>1, TailIs
<1>4. l = [k \in DOMAIN t |-> es[t[k]]]
  BY <1>3 DEF OrderActiveQueue
<1> HIDE DEF t, s, l, N
<1>5. /\ DOMAIN t = 1..N /\ Len(t) = N /\ \A k \in 1..N : t[k] \in 1..N
      /\ M \in 0..N /\ \A i \in 1..M : i \in 1..N /\ t[i] = s[i]
      /\ Range(s) = {t[i] : i \in 1..M}
  <2>1. DOMAIN t = 1..N /\ Len(t) = N /\ \A k \in 1..N : t[k] \in 1..N
    BY <1>1, <1>3 DEF N
  <2>2. M \in 0..N /\ \A i \in 1..M : i \in 1..N /\ t[i] = s[i]
    BY <1>1, <1>2, <1>3 DEF N
  <2>3. Range(s) = {s[i] : i \in 1..M}
    BY <1>2, RangeIs
  <2>4. QED
    BY <2>1, <2>2, <2>3
<1> HIDE DEF M
<1>6. /\ \A i, j \in 1..N : t[i] = t[j] => i = j
      /\ \A k \in 1..N : \E i \in 1..N : t[i] = k
  BY <1>1, <1>3, <1>5 DEF Once, Range
<1>7. /\ l \in [1..N -> S] /\ DOMAIN l = 1..N /\ \A k \in 1..N : l[k] = es[t[k]]
  BY <1>1, <1>4, <1>5
<1>8. l \in Seq(S) /\ Len(l) = N
  BY <1>1, <1>7
<1>9. Range(l) = Range(es)
  <2>1. Range(l) = {l[k] : k \in 1..N} /\ Range(es) = {es[k] : k \in 1..N}
    BY <1>1, <1>7 DEF Range
  <2>2. \A k \in 1..N : t[k] \in 1..N /\ l[k] = es[t[k]]
    BY <1>5, <1>7
  <2>3. ASSUME NEW k \in 1..N PROVE es[k] \in Range(l)
    <3>1. PICK i \in 1..N : t[i] = k
      BY <1>6
    <3>2. es[k] = l[i]
      BY <2>2, <3>1
    <3>3. QED
      BY <2>1, <3>2
  <2>4. ASSUME NEW k \in 1..N PROVE l[k] \in Range(es)
    BY <2>1, <2>2
  <2>5. \A x \in Range(es) : x \in Range(l)
    BY <2>1, <2>3
  <2>6. \A x \in Range(l) : x \in Range(es)
    BY <2>1, <2>4
  <2>7. QED
    BY <2>5, <2>6
<1>10. Keyed(l)
  <2>1. \A k \in 1..N : t[k] \in DOMAIN es /\ l[k].prio = es[t[k]].prio /\ l[k].id = es[t[k]].id
    BY <1>1, <1>5, <1>7
  <2>2. \A j, k \in 1..N : l[j].id = l[k].id => j = k
    <3>1. \A j, k \in 1..N : l[j].id = l[k].id => t[j] = t[k]
      BY <2>1 DEF Keyed
    <3>2. QED
      BY <1>6, <3>1
  <2>3. \A k \in 1..N : l[k].prio \in Int /\ l[k].id \in Int
    BY <2>1 DEF Keyed
  <2>4. QED
    BY <1>7, <2>2, <2>3 DEF Keyed
<1>11. Branched(l)
  <2>1. \A k \in 1..N : t[k] \in DOMAIN es /\ l[k].branch = es[t[k]].branch
    BY <1>1, <1>5, <1>7
  <2>2. \A j, k \in 1..N : l[j].branch = l[k].branch => t[j] = t[k]
    BY <2>1 DEF Branched
  <2>3. QED
    BY <1>6, <1>7, <2>2 DEF Branched
\* Owners correspond.
<1>12. ASSUME NEW b
       PROVE  /\ Owner(l, b) \in 0..N
              /\ Owner(l, b) = 0 => Owner(es, b) = 0
              /\ Owner(l, b) # 0 => Owner(es, b) = t[Owner(l, b)]
  <2>1. /\ Owner(l, b) \in 0..N
        /\ \A k \in 1..N : l[k].branch = b <=> Owner(l, b) = k
    BY <1>8, <1>11, OwnerIs
  <2>2. /\ Owner(es, b) \in 0..N
        /\ \A k \in 1..N : es[k].branch = b <=> Owner(es, b) = k
    BY OwnerIs DEF N
  <2>3. CASE Owner(l, b) = 0
    <3>1. \A k \in 1..N : es[k].branch # b
      BY <1>5, <1>6, <1>7, <2>1, <2>3
    <3>2. QED
      BY <2>1, <2>2, <2>3, <3>1
  <2>4. CASE Owner(l, b) # 0
    <3>1. Owner(l, b) \in 1..N
      BY <1>1, <2>1, <2>4
    <3>2. QED
      BY <1>5, <1>7, <2>1, <2>2, <2>4, <3>1
  <2>5. QED
    BY <2>3, <2>4
<1>13. ASSUME NEW k \in 1..N
       PROVE  /\ Parent(l, k) \in 0..N
              /\ Parent(l, k) = 0 => Owner(es, es[t[k]].base) = 0
              /\ Parent(l, k) # 0 => Owner(es, es[t[k]].base) = t[Parent(l, k)]
  BY <1>7, <1>12 DEF Parent
<1>14. ASSUME NEW k \in 1..M
       PROVE  LET K == Released(es, {t[j] : j \in 1..k-1}) IN
              t[k] \in K /\ \A x \in K \ {t[k]} : Before(es[t[k]], es[x])
  <2>1. Greedy(es, s, k)
    BY <1>2 DEF IsEmission, M
  <2>2. t[k] = s[k] /\ \A j \in 1..k-1 : t[j] = s[j]
    BY <1>5
  <2>3. {t[j] : j \in 1..k-1} = {s[j] : j \in 1..k-1}
    BY <2>2
  <2>4. QED
    BY <2>1, <2>2, <2>3 DEF Greedy
<1>15. ASSUME NEW k \in 1..M PROVE Parent(l, k) < k
  <2>1. Owner(es, es[t[k]].base) \in {t[j] : j \in 1..k-1} \cup {0}
    BY <1>14 DEF Released
  <2>2. k \in 1..N /\ \A j \in 1..k-1 : j \in 1..N /\ t[j] # 0
    BY <1>5
  <2>3. CASE Parent(l, k) = 0
    BY <2>3
  <2>4. CASE Parent(l, k) # 0
    <3>1. Parent(l, k) \in 1..N /\ Owner(es, es[t[k]].base) = t[Parent(l, k)]
      BY <1>1, <1>13, <2>2, <2>4
    <3>2. PICK j \in 1..k-1 : t[Parent(l, k)] = t[j]
      BY <1>5, <2>1, <3>1
    <3>3. Parent(l, k) = j
      BY <1>6, <2>2, <3>1, <3>2
    <3>4. QED
      BY <3>3
  <2>5. QED
    BY <2>3, <2>4
<1>16. ASSUME NEW j \in 1..M, NEW k \in 1..M, j < k, Before(l[k], l[j])
       PROVE  Parent(l, k) >= j
  <2> SUFFICES ASSUME Parent(l, k) < j PROVE FALSE
    <3>1. k \in 1..N
      BY <1>5
    <3>2. Parent(l, k) \in Int /\ j \in Int
      BY <1>13, <3>1
    <3>3. QED
      BY <3>2
  <2> DEFINE E == {t[i] : i \in 1..j-1}
  <2>1. j \in 1..N /\ k \in 1..N /\ t[j] \in DOMAIN es /\ t[k] \in DOMAIN es /\ t[j] # t[k]
    BY <1>1, <1>5, <1>6, <1>16
  <2>2. t[k] \notin E
    <3>1. \A i \in 1..j-1 : i \in 1..N /\ i # k
      <4>1. j \in Nat /\ k \in Nat /\ N \in Nat /\ j <= N /\ j < k
        BY <1>1, <1>16, <2>1
      <4>2. QED
        BY <4>1
    <3>2. QED
      BY <1>6, <2>1, <3>1
  <2>3. Owner(es, es[t[k]].base) \in E \cup {0}
    <3>1. CASE Parent(l, k) = 0
      BY <1>13, <2>1, <3>1
    <3>2. CASE Parent(l, k) # 0
      <4>1. Parent(l, k) \in 1..j-1
        BY <1>13, <2>1, <3>2
      <4>2. QED
        BY <1>13, <2>1, <3>2, <4>1
    <3>3. QED
      BY <3>1, <3>2
  <2>4. t[k] \in Released(es, E)
    BY <2>1, <2>2, <2>3 DEF Released
  <2>5. Before(es[t[j]], es[t[k]])
    BY <1>14, <2>1, <2>4
  <2>6. Before(es[t[k]], es[t[j]])
    BY <1>7, <1>16, <2>1
  <2>7. QED
    BY <2>1, <2>5, <2>6, BeforeIsOrder
<1>17. ASSUME NEW k \in (M+1)..N PROVE Parent(l, k) \in (M+1)..N
  <2>1. k \in 1..N /\ M \in Nat
    BY <1>5, <1>17
  <2>2. t[k] \in DOMAIN es \ Range(s)
    <3>1. \A i \in 1..M : i # k /\ i \in 1..N
      BY <1>5, <1>17
    <3>2. QED
      BY <1>1, <1>5, <1>6, <2>1, <3>1
  <2>3. Owner(es, es[t[k]].base) \notin Range(s) \cup {0}
    BY <1>2, <2>2 DEF Released
  <2>4. Parent(l, k) # 0 /\ Parent(l, k) \in 0..N
    BY <1>13, <2>1, <2>3
  <2>5. ~(Parent(l, k) \in 1..M)
    BY <1>5, <1>13, <2>1, <2>3, <2>4
  <2>6. QED
    BY <1>1, <2>1, <2>4, <2>5
<1>18. Stacked(l, M)
  BY <1>8, <1>15, <1>16, <1>17 DEF Stacked
<1>19. QED
  BY <1>5, <1>8, <1>9, <1>10, <1>11, <1>18 DEF l, N

-----------------------------------------------------------------------------
\* What listActive returns.

\* A table: positions are ids, and one active entry per branch.
IsTable(S, es) ==
  /\ es \in Seq(S)
  /\ \A k \in DOMAIN es : es[k].id = k /\ es[k].prio \in Int
  /\ \A j, k \in DOMAIN es :
       Active(es[j]) /\ Active(es[k]) /\ es[j].branch = es[k].branch => j = k

\* l lists the active entries of es: stacks from the root up, malformed last.
IsListing(S, es, l) ==
  /\ l \in Seq(S) /\ Keyed(l) /\ Branched(l)
  /\ Len(l) = Cardinality({k \in DOMAIN es : Active(es[k])})
  /\ Range(l) = {e \in Range(es) : Active(e)}
  /\ \E M \in 0..Len(l) : Stacked(l, M)

LEMMA ListedIs ==
  ASSUME NEW S, NEW es, IsTable(S, es)
  PROVE  IsListing(S, es, OrderActiveQueue(ActiveOf(es)))
<1> DEFINE a == ActiveOf(es)
           l == OrderActiveQueue(a)
           N == Len(es)
           K == {k \in DOMAIN es : Active(es[k])}
<1>1. /\ es \in Seq(S) /\ N \in Nat /\ DOMAIN es = 1..N
      /\ \A k \in DOMAIN es : es[k].id = k /\ es[k].prio \in Int
      /\ \A j, k \in DOMAIN es :
           Active(es[j]) /\ Active(es[k]) /\ es[j].branch = es[k].branch => j = k
      /\ \A k \in 1..N : k \in K <=> Active(es[k])
  BY DEF IsTable
<1>2. a \in Seq(S) /\ IsKept(es, K, N, a)
  BY <1>1, AmongIs DEF ActiveOf
<1> HIDE DEF a, N, K
<1>3. /\ Len(a) \in Nat /\ DOMAIN a = 1..Len(a)
      /\ \A i \in 1..Len(a) : a[i].id \in 1..N /\ Active(es[a[i].id]) /\ a[i] = es[a[i].id]
      /\ \A i, j \in 1..Len(a) : a[i].id = a[j].id => i = j
      /\ \A k \in 1..N : Active(es[k]) => \E i \in 1..Len(a) : a[i] = es[k]
      /\ Len(a) = Cardinality(Upto(K, N))
  <2>1. \A x : x \in Upto(K, N) <=> x \in 1..N /\ Active(es[x])
    BY <1>1 DEF Upto
  <2>2. Len(a) \in Nat /\ DOMAIN a = 1..Len(a)
    BY <1>2
  <2>3. /\ \A i \in 1..Len(a) : a[i].id \in Upto(K, N) /\ a[i] = es[a[i].id]
        /\ \A i, j \in 1..Len(a) : a[i].id = a[j].id => i = j
        /\ \A k \in Upto(K, N) : \E i \in 1..Len(a) : a[i] = es[k]
        /\ Len(a) = Cardinality(Upto(K, N))
    BY <1>2 DEF IsKept
  <2>4. QED
    BY <2>1, <2>2, <2>3
<1>4. Keyed(a)
  <2>1. \A i \in 1..Len(a) : a[i].prio \in Int /\ a[i].id \in Int
    BY <1>1, <1>3
  <2>2. QED
    BY <1>3, <2>1 DEF Keyed
<1>5. Branched(a)
  <2> SUFFICES ASSUME NEW i \in 1..Len(a), NEW j \in 1..Len(a), a[i].branch = a[j].branch
               PROVE  i = j
    BY <1>3 DEF Branched
  <2>1. a[i].id = a[j].id
    BY <1>1, <1>3
  <2>2. QED
    BY <1>3, <2>1
<1>6. /\ l \in Seq(S) /\ Len(l) = Len(a) /\ Range(l) = Range(a)
      /\ Keyed(l) /\ Branched(l) /\ \E M \in 0..Len(l) : Stacked(l, M)
  BY <1>2, <1>4, <1>5, OrderIs
<1> HIDE DEF l
<1>7. Upto(K, N) = {k \in DOMAIN es : Active(es[k])}
  BY <1>1 DEF Upto
<1>8. Range(a) = {e \in Range(es) : Active(e)}
  <2>1. Range(a) = {a[i] : i \in 1..Len(a)} /\ Range(es) = {es[k] : k \in 1..N}
    BY <1>1, <1>2, RangeIs DEF N
  <2>2. \A e \in Range(a) : e \in Range(es) /\ Active(e)
    <3>1. ASSUME NEW i \in 1..Len(a) PROVE a[i] \in Range(es) /\ Active(a[i])
      <4>1. a[i].id \in 1..N /\ a[i] = es[a[i].id] /\ Active(es[a[i].id])
        BY <1>3
      <4>2. QED
        BY <2>1, <4>1
    <3>2. QED
      BY <2>1, <3>1
  <2>3. \A e \in Range(es) : Active(e) => e \in Range(a)
    BY <1>3, <2>1
  <2>4. QED
    BY <2>2, <2>3
<1>9. QED
  BY <1>3, <1>6, <1>7, <1>8 DEF IsListing, l, a

-----------------------------------------------------------------------------
\* The schedule of the ready entries.

Passes(active, all, e, before) ==
  \/ e.base = Main
  \/ /\ Owner(active, e.base) # 0
     /\ active[Owner(active, e.base)].id \in before
  \/ Owner(active, e.base) = 0 /\ Landed(all, e.base)

IdsOf(l) == {l[k].id : k \in 1..Len(l)}

\* r is the course of the loop of ReadyIds.
Readies(l, all, r) ==
  /\ ReadyIds(l, all) = r[Len(l)] /\ r[0] = {}
  /\ \A n \in 1..Len(l) :
       r[n] = r[n-1] \cup (IF Passes(l, all, l[n], r[n-1]) THEN {l[n].id} ELSE {})

LEMMA ReadyLoop ==
  ASSUME NEW S, NEW l \in Seq(S), NEW all
  PROVE  \E r : Readies(l, all, r)
<1> DEFINE N == Len(l)
           A == SUBSET IdsOf(l)
           a == {}
           More(n, before) ==
             before \cup (IF Passes(l, all, l[n], before) THEN {l[n].id} ELSE {})
           step == [n \in 1..N |-> [s \in A |-> More(n, s)]]
           passes(e, before) ==
             \/ e.base = Main
             \/ /\ Owner(l, e.base) # 0
                /\ l[Owner(l, e.base)].id \in before
             \/ Owner(l, e.base) = 0 /\ Landed(all, e.base)
           ready[n \in 0..Len(l)] ==
             IF n = 0 THEN {}
             ELSE LET before == ready[n-1]
                  IN  before \cup (IF passes(l[n], before) THEN {l[n].id} ELSE {})
<1>1. N \in Nat /\ a \in A
  OBVIOUS
<1>2. \A n \in 1..N : \A s \in A : More(n, s) \in A
  BY DEF IdsOf
<1>3. step \in [1..N -> [A -> A]] /\ \A n \in 1..N : \A s \in A : step[n][s] = More(n, s)
  BY <1>2
<1>4. ReadyIds(l, all) = ready[N]
  BY DEF ReadyIds
<1>5. ready = CHOOSE h : h = [n \in 0..N |-> IF n = 0 THEN a ELSE More(n, h[n-1])]
  BY DEF Passes
<1> HIDE DEF N, A, a, step, ready, passes
<1>6. PICK f \in [0..N -> A] : Iterates(f, N, a, step)
  BY <1>1, <1>3, Iteration
<1>7. \A n \in 1..N : n \in 0..N /\ n # 0 /\ n-1 \in 0..N
  BY <1>1
<1>8. \A n \in 0..N : n # 0 => n \in 1..N
  BY <1>1
<1>9. f = [n \in 0..N |-> IF n = 0 THEN a ELSE More(n, f[n-1])]
  <2>1. \A n \in 1..N : f[n-1] \in A
    BY <1>6, <1>7
  <2>2. f[0] = a /\ \A n \in 1..N : f[n] = More(n, f[n-1])
    BY <1>3, <1>6, <2>1 DEF Iterates
  <2> HIDE DEF More
  <2>3. QED
    BY <1>8, <2>2
<1>10. ready = [n \in 0..N |-> IF n = 0 THEN a ELSE More(n, ready[n-1])]
  <2>1. \E h : h = [n \in 0..N |-> IF n = 0 THEN a ELSE More(n, h[n-1])]
    BY <1>9, Zenon
  <2>2. QED
    BY <1>5, <2>1, Zenon
<1> HIDE DEF More
<1>11. \A n \in 0..N : ready[n] = IF n = 0 THEN a ELSE More(n, ready[n-1])
  BY <1>10, Zenon
<1>12. ready[0] = {} /\ \A n \in 1..N : ready[n] = More(n, ready[n-1])
  <2>1. 0 \in 0..N
    BY <1>1
  <2>2. QED
    BY <1>7, <1>11, <2>1 DEF a
<1>13. QED
  BY <1>4, <1>12 DEF N, More, Readies

\* An entry is ready when its base is the base branch, when its parent is ahead
\* of it and ready, or when its parent is gone and landed.
IsReady(l, all, k) == l[k].id \in ReadyIds(l, all)

LEMMA ReadyIs ==
  ASSUME NEW S, NEW l \in Seq(S), Keyed(l), Branched(l), NEW all, NEW k \in 1..Len(l)
  PROVE  IsReady(l, all, k) <=>
           \/ l[k].base = Main
           \/ /\ Parent(l, k) # 0 /\ Parent(l, k) < k
              /\ IsReady(l, all, Parent(l, k))
           \/ Parent(l, k) = 0 /\ Landed(all, l[k].base)
<1> DEFINE N == Len(l)
<1>1. N \in Nat /\ DOMAIN l = 1..N
  OBVIOUS
<1> PICK r : Readies(l, all, r)
  BY ReadyLoop
<1>2. /\ ReadyIds(l, all) = r[N] /\ r[0] = {}
      /\ \A n \in 1..N :
           r[n] = r[n-1] \cup (IF Passes(l, all, l[n], r[n-1]) THEN {l[n].id} ELSE {})
  BY DEF Readies
<1>3. \A i, j \in 1..N : l[i].id = l[j].id => i = j
  BY <1>1 DEF Keyed
<1> DEFINE in(j, n) == l[j].id \in r[n]
           passed(j) == Passes(l, all, l[j], r[j-1])
           T == {n \in 0..N : \A j \in 1..N : in(j, n) <=> (j <= n /\ passed(j))}
<1> HIDE DEF N
<1>4. 0 \in T
  BY <1>1, <1>2
<1>5. ASSUME NEW n \in 1..N, n-1 \in T PROVE n \in T
  <2>1. \A j \in 1..N : in(j, n-1) <=> (j <= n-1 /\ passed(j))
    BY <1>5
  <2>2. \A j \in 1..N : in(j, n) <=> (in(j, n-1) \/ (passed(n) /\ l[j].id = l[n].id))
    BY <1>2
  <2>3. \A j \in 1..N : l[j].id = l[n].id <=> j = n
    BY <1>3
  <2> HIDE DEF in, passed
  <2>4. \A j \in 1..N : j <= n <=> (j <= n-1 \/ j = n)
    BY <1>1
  <2>5. \A j \in 1..N : in(j, n) <=> (j <= n /\ passed(j))
    BY <2>1, <2>2, <2>3, <2>4
  <2>6. n \in 0..N
    BY <1>1
  <2>7. QED
    BY <2>5, <2>6
<1> HIDE DEF T
<1>6. 0..N \subseteq T
  BY <1>1, <1>4, <1>5, Induction
<1>7. \A n \in 0..N : \A j \in 1..N : in(j, n) <=> (j <= n /\ passed(j))
  BY <1>6 DEF T
<1>8. \A j \in 1..N : IsReady(l, all, j) <=> passed(j)
  <2>1. N \in 0..N /\ \A j \in 1..N : j <= N
    BY <1>1
  <2>2. \A j \in 1..N : in(j, N) <=> passed(j)
    BY <1>7, <2>1
  <2> HIDE DEF passed
  <2>3. QED
    BY <1>2, <2>2 DEF IsReady
<1> DEFINE p == Parent(l, k)
<1>9. p \in 0..N /\ p = Owner(l, l[k].base) /\ k \in 1..N
  <2>1. Owner(l, l[k].base) \in 0..Len(l)
    BY OwnerIs
  <2>2. QED
    BY <2>1 DEF Parent, N
<1>10. passed(k) <=> \/ l[k].base = Main
                     \/ p # 0 /\ in(p, k-1)
                     \/ p = 0 /\ Landed(all, l[k].base)
  BY <1>9 DEF Passes
<1> HIDE DEF p, in, passed
<1>11. p # 0 => (in(p, k-1) <=> (p < k /\ passed(p)))
  <2>1. k-1 \in 0..N /\ (p # 0 => p \in 1..N) /\ (p < k <=> p <= k-1)
    BY <1>1, <1>9
  <2>2. QED
    BY <1>7, <2>1
<1>12. p # 0 => (passed(p) <=> IsReady(l, all, p))
  BY <1>1, <1>8, <1>9
<1>13. IsReady(l, all, k) <=> passed(k)
  BY <1>8, <1>9
<1>14. QED
  BY <1>10, <1>11, <1>12, <1>13 DEF p


-----------------------------------------------------------------------------
\* The candidates that a removed entry contaminates.

Hit(active, dirty, n) == Active(active[n]) /\ active[n].dep \in dirty

\* d is the course of the loop of SelectDownstream.
Dirties(l, removed, d) ==
  /\ SelectDownstream(l, removed) = {l[n].id : n \in {m \in 1..Len(l) : Hit(l, d[m-1], m)}}
  /\ d[0] = {removed}
  /\ \A n \in 1..Len(l) :
       d[n] = IF Hit(l, d[n-1], n) THEN d[n-1] \cup {l[n].id} ELSE d[n-1]

LEMMA DirtyLoop ==
  ASSUME NEW S, NEW l \in Seq(S), NEW removed
  PROVE  \E d : Dirties(l, removed, d)
<1> DEFINE N == Len(l)
           A == SUBSET (IdsOf(l) \cup {removed})
           a == {removed}
           More(n, s) == IF Hit(l, s, n) THEN s \cup {l[n].id} ELSE s
           step == [n \in 1..N |-> [s \in A |-> More(n, s)]]
           hit(e, dirty) == Active(e) /\ e.dep \in dirty
           dirty[n \in 0..Len(l)] ==
             IF n = 0 THEN {removed}
             ELSE IF hit(l[n], dirty[n-1]) THEN dirty[n-1] \cup {l[n].id}
                                           ELSE dirty[n-1]
<1>1. N \in Nat /\ a \in A /\ DOMAIN l = 1..N
  OBVIOUS
<1>2. \A n \in 1..N : \A s \in A : More(n, s) \in A
  BY DEF IdsOf
<1>3. step \in [1..N -> [A -> A]] /\ \A n \in 1..N : \A s \in A : step[n][s] = More(n, s)
  BY <1>2
<1>4. SelectDownstream(l, removed) =
        {l[n].id : n \in {m \in 1..N : Hit(l, dirty[m-1], m)}}
  BY <1>1 DEF SelectDownstream, Hit
<1>5. dirty = CHOOSE h : h = [n \in 0..N |-> IF n = 0 THEN a ELSE More(n, h[n-1])]
  BY DEF Hit
<1> HIDE DEF N, A, a, step, dirty, hit
<1>6. PICK f \in [0..N -> A] : Iterates(f, N, a, step)
  BY <1>1, <1>3, Iteration
<1>7. \A n \in 1..N : n \in 0..N /\ n # 0 /\ n-1 \in 0..N
  BY <1>1
<1>8. \A n \in 0..N : n # 0 => n \in 1..N
  BY <1>1
<1>9. f = [n \in 0..N |-> IF n = 0 THEN a ELSE More(n, f[n-1])]
  <2>1. \A n \in 1..N : f[n-1] \in A
    BY <1>6, <1>7
  <2>2. f[0] = a /\ \A n \in 1..N : f[n] = More(n, f[n-1])
    BY <1>3, <1>6, <2>1 DEF Iterates
  <2> HIDE DEF More
  <2>3. QED
    BY <1>8, <2>2
<1>10. dirty = [n \in 0..N |-> IF n = 0 THEN a ELSE More(n, dirty[n-1])]
  <2>1. \E h : h = [n \in 0..N |-> IF n = 0 THEN a ELSE More(n, h[n-1])]
    BY <1>9, Zenon
  <2>2. QED
    BY <1>5, <2>1, Zenon
<1> HIDE DEF More
<1>11. \A n \in 0..N : dirty[n] = IF n = 0 THEN a ELSE More(n, dirty[n-1])
  BY <1>10, Zenon
<1>12. dirty[0] = {removed} /\ \A n \in 1..N : dirty[n] = More(n, dirty[n-1])
  <2>1. 0 \in 0..N
    BY <1>1
  <2>2. QED
    BY <1>7, <1>11, <2>1 DEF a
<1>13. QED
  BY <1>4, <1>12 DEF N, More, Dirties

\* Only active entries of the listing are contaminated.
LEMMA DownstreamIsActive ==
  ASSUME NEW S, NEW l \in Seq(S), NEW removed, NEW n \in SelectDownstream(l, removed)
  PROVE  \E k \in 1..Len(l) : n = l[k].id /\ Active(l[k])
<1> PICK d : Dirties(l, removed, d)
  BY DirtyLoop
<1>1. n \in {l[k].id : k \in {m \in 1..Len(l) : Hit(l, d[m-1], m)}}
  BY DEF Dirties
<1>2. QED
  BY <1>1 DEF Hit

-----------------------------------------------------------------------------
\* The schedules of a tick.

\* a has the entries of l with an index in K up to n, the first of them first.
Leads(l, K, n, a) ==
  /\ \A i \in 1..Len(a) : \E k \in 1..n : k \in K /\ a[i] = l[k]
  /\ Len(a) = 0 => \A k \in 1..n : k \notin K
  /\ Len(a) # 0 => \E k \in 1..n : k \in K /\ a[1] = l[k] /\ \A j \in 1..k-1 : j \notin K

LEMMA LeadsOn ==
  ASSUME NEW S, NEW l \in Seq(S), NEW K, NEW n \in 1..Len(l), NEW a \in Seq(S),
         Leads(l, K, n-1, a)
  PROVE  Leads(l, K, n, IF n \in K THEN Append(a, l[n]) ELSE a)
<1>1. /\ n \in Nat /\ Len(a) \in Nat /\ l[n] \in S
      /\ \A k \in 1..n : k \in 1..n-1 \/ k = n
      /\ \A k \in 1..n-1 : k \in 1..n
  OBVIOUS
<1>2. /\ \A i \in 1..Len(a) : \E k \in 1..n-1 : k \in K /\ a[i] = l[k]
      /\ Len(a) = 0 => \A k \in 1..n-1 : k \notin K
      /\ Len(a) # 0 => \E k \in 1..n-1 : k \in K /\ a[1] = l[k] /\ \A j \in 1..k-1 : j \notin K
  BY DEF Leads
<1>3. CASE n \notin K
  BY <1>1, <1>2, <1>3 DEF Leads
<1>4. CASE n \in K
  <2> DEFINE b == Append(a, l[n])
  <2>1. /\ Len(b) = Len(a) + 1 /\ b[Len(a) + 1] = l[n] /\ \A i \in 1..Len(a) : b[i] = a[i]
        /\ \A i \in 1..Len(b) : i \in 1..Len(a) \/ i = Len(a) + 1
    BY <1>1, AppendIs
  <2> HIDE DEF b
  <2>2. \A i \in 1..Len(b) : \E k \in 1..n : k \in K /\ b[i] = l[k]
    BY <1>1, <1>2, <1>4, <2>1
  <2>3. CASE Len(a) = 0
    <3>1. b[1] = l[n] /\ \A j \in 1..n-1 : j \notin K
      BY <1>2, <2>1, <2>3
    <3>2. QED
      BY <1>1, <1>4, <2>1, <2>2, <2>3, <3>1 DEF Leads, b
  <2>4. CASE Len(a) # 0
    <3>1. b[1] = a[1]
      BY <1>1, <2>1, <2>4
    <3>2. QED
      BY <1>1, <1>2, <1>4, <2>1, <2>2, <2>4, <3>1 DEF Leads, b
  <2>5. QED
    BY <2>3, <2>4
<1>5. QED
  BY <1>3, <1>4

LEMMA AmongLeads ==
  ASSUME NEW S, NEW l \in Seq(S), NEW K
  PROVE  Among(l, K) \in Seq(S) /\ Leads(l, K, Len(l), Among(l, K))
<1> DEFINE N == Len(l)
<1>1. N \in Nat
  OBVIOUS
<1>2. PICK f \in [0..N -> Seq(S)] :
        /\ Among(l, K) = f[N] /\ f[0] = <<>>
        /\ \A n \in 1..N : f[n] = IF n \in K THEN Append(f[n-1], l[n]) ELSE f[n-1]
  BY AmongLoop
<1> DEFINE T == {n \in 0..N : Leads(l, K, n, f[n])}
<1>3. 0 \in T
  BY <1>1, <1>2 DEF Leads
<1>4. ASSUME NEW n \in 1..N, n-1 \in T PROVE n \in T
  <2>1. f[n-1] \in Seq(S) /\ Leads(l, K, n-1, f[n-1])
    BY <1>1, <1>4
  <2>2. Leads(l, K, n, IF n \in K THEN Append(f[n-1], l[n]) ELSE f[n-1])
    BY <2>1, LeadsOn
  <2>3. QED
    BY <1>2, <2>2
<1> HIDE DEF T
<1>5. 0..N \subseteq T
  <2> HIDE DEF N
  <2>1. QED
    BY <1>1, <1>3, <1>4, Induction
<1>6. QED
  BY <1>1, <1>2, <1>5 DEF T

\* The entry that may land is the first one of the ready schedule: its parent, if
\* it has one, is no longer queued and has landed.  Whatever is blocked is not
\* ready.
LEMMA SchedulesAre ==
  ASSUME NEW S, NEW l \in Seq(S), Keyed(l), Branched(l), NEW all
  PROVE  LET ready == ReadySchedule(l, all)
             blocked == BlockedSchedule(l, all)
         IN  /\ ready \in Seq(S) /\ blocked \in Seq(S)
             /\ \A i \in 1..Len(ready) : ready[i] \in Range(l) /\ ready[i].id \in ReadyIds(l, all)
             /\ \A i \in 1..Len(blocked) :
                  blocked[i] \in Range(l) /\ blocked[i].id \notin ReadyIds(l, all)
             /\ Len(ready) # 0 => ready[1].base = Main \/ Landed(all, ready[1].base)
             /\ Len(l) # 0 => Len(ready) # 0 \/ Len(blocked) # 0
<1> DEFINE ids == ReadyIds(l, all)
           R == {k \in DOMAIN l : l[k].id \in ids}
           B == {k \in DOMAIN l : l[k].id \notin ids}
           ready == ReadySchedule(l, all)
           blocked == BlockedSchedule(l, all)
<1>1. Len(l) \in Nat /\ DOMAIN l = 1..Len(l) /\ Range(l) = {l[k] : k \in 1..Len(l)}
  BY RangeIs
<1>2. ready = Among(l, R) /\ blocked = Among(l, B)
  BY DEF ReadySchedule, BlockedSchedule
<1>3. \A k \in 1..Len(l) : (k \in R <=> l[k].id \in ids) /\ (k \in B <=> l[k].id \notin ids)
  BY <1>1
<1> HIDE DEF R, B, ready, blocked
<1>4. ready \in Seq(S) /\ Leads(l, R, Len(l), ready)
  BY <1>2, AmongLeads
<1>5. blocked \in Seq(S) /\ Leads(l, B, Len(l), blocked)
  BY <1>2, AmongLeads
<1>6. ASSUME NEW i \in 1..Len(ready) PROVE ready[i] \in Range(l) /\ ready[i].id \in ids
  <2>1. PICK k \in 1..Len(l) : k \in R /\ ready[i] = l[k]
    BY <1>4 DEF Leads
  <2>2. QED
    BY <1>1, <1>3, <2>1
<1>7. ASSUME NEW i \in 1..Len(blocked) PROVE blocked[i] \in Range(l) /\ blocked[i].id \notin ids
  <2>1. PICK k \in 1..Len(l) : k \in B /\ blocked[i] = l[k]
    BY <1>5 DEF Leads
  <2>2. QED
    BY <1>1, <1>3, <2>1
<1>8. ASSUME Len(ready) # 0 PROVE ready[1].base = Main \/ Landed(all, ready[1].base)
  <2>1. PICK k \in 1..Len(l) : k \in R /\ ready[1] = l[k] /\ \A j \in 1..k-1 : j \notin R
    BY <1>4, <1>8 DEF Leads
  <2> DEFINE p == Parent(l, k)
  <2>2. IsReady(l, all, k)
    BY <1>3, <2>1 DEF IsReady
  <2>3. p \in 0..Len(l)
    BY OwnerIs DEF Parent
  <2>4. \/ l[k].base = Main
        \/ p # 0 /\ p < k /\ IsReady(l, all, p)
        \/ p = 0 /\ Landed(all, l[k].base)
    BY <2>2, ReadyIs
  <2> HIDE DEF p
  <2>5. ~(p # 0 /\ p < k /\ IsReady(l, all, p))
    <3> SUFFICES ASSUME p # 0, p < k, IsReady(l, all, p) PROVE FALSE
      OBVIOUS
    <3>1. p \in 1..k-1 /\ p \in 1..Len(l)
      BY <2>3
    <3>2. p \in R
      BY <1>3, <3>1 DEF IsReady
    <3>3. QED
      BY <2>1, <3>1, <3>2
  <2>6. QED
    BY <2>1, <2>4, <2>5
<1>9. ASSUME Len(l) # 0 PROVE Len(ready) # 0 \/ Len(blocked) # 0
  <2>1. 1 \in 1..Len(l)
    BY <1>1, <1>9
  <2>2. 1 \in R \/ 1 \in B
    BY <1>3, <2>1
  <2>3. QED
    BY <1>4, <1>5, <2>1, <2>2 DEF Leads
<1>10. QED
  BY <1>4, <1>5, <1>6, <1>7, <1>8, <1>9 DEF ready, blocked

=============================================================================
