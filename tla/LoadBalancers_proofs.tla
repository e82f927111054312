------------------------- MODULE LoadBalancers_proofs -------------------------
(***************************************************************************)
(* What the balancers promise, for any instances, weights, hash function,    *)
(* number of callers and size of the counter.  The loops over a list are     *)
(* recursive functions: that there are such functions, and what they return, *)
(* is proved by an induction over Nat that is stated for a set (Induction).  *)
(***************************************************************************)
EXTENDS LoadBalancers, TLAPS, FiniteSetTheorems

(***************************************************************************)
(* Natural numbers                                                          *)

\* Were n missing, x + 1 would map the elements up to n into all of them but 0,
\* which are fewer.
LEMMA Induction ==
  ASSUME NEW S, 0 \in S, \A n \in Nat : n \in S => n + 1 \in S
  PROVE  Nat \subseteq S
<1> SUFFICES ASSUME NEW n \in Nat, n \notin S PROVE FALSE
  OBVIOUS
<1> DEFINE A == S \cap (0 .. n)
           B == A \ {0}
           f == [x \in A |-> x + 1]
<1>1. IsFiniteSet(A)
  <2>1. IsFiniteSet(0 .. n)
    BY FS_Interval
  <2> HIDE DEF A
  <2>2. A \in SUBSET (0 .. n)
    BY DEF A
  <2> QED BY <2>1, <2>2, FS_Subset
<1>2. IsFiniteSet(B) /\ Cardinality(B) = Cardinality(A) - 1 /\ Cardinality(A) \in Nat
  <2>1. 0 \in A
    OBVIOUS
  <2> HIDE DEF A, f
  <2>2. IsFiniteSet(A \ {0}) /\ Cardinality(A \ {0}) = Cardinality(A) - 1
    BY <1>1, <2>1, FS_RemoveElement
  <2>3. Cardinality(A) \in Nat
    BY <1>1, FS_CardinalityType
  <2> QED BY <2>2, <2>3
<1>3. f \in [A -> B]
  <2>1. ASSUME NEW x \in A PROVE x + 1 \in B
    <3>1. x \in Nat /\ x <= n /\ x \in S
      OBVIOUS
    <3>2. x # n
      BY <3>1
    <3> QED BY <3>1, <3>2
  <2> QED BY <2>1
<1>4. Cardinality(B) < Cardinality(A)
  <2> HIDE DEF A, B
  <2> QED BY <1>2
<1>5. A \subseteq Nat
  OBVIOUS
<1> HIDE DEF f, B, A
<1>6. PICK x, y \in A : x # y /\ f[x] = f[y]
  BY <1>1, <1>2, <1>3, <1>4, FS_PigeonHole
<1> QED BY <1>5, <1>6 DEF f

\* What holds at 0 and of n + 1 if of n < N holds up to N.
LEMMA InductionUpTo ==
  ASSUME NEW N \in Nat, NEW S, 0 \in S, \A n \in 0 .. N - 1 : n \in S => n + 1 \in S
  PROVE  0 .. N \subseteq S
<1> DEFINE T == {n \in Nat : n <= N => n \in S}
<1>1. 0 \in T
  OBVIOUS
<1>2. ASSUME NEW n \in Nat, n \in T PROVE n + 1 \in T
  <2> SUFFICES ASSUME n + 1 <= N PROVE n + 1 \in S
    OBVIOUS
  <2>1. n \in 0 .. N - 1 /\ n \in S
    BY <1>2
  <2> QED BY <2>1
<1> HIDE DEF T
<1>3. Nat \subseteq T
  BY <1>1, <1>2, Induction
<1> QED BY <1>3 DEF T

LEMMA Least ==
  ASSUME NEW S \in SUBSET Nat, S # {}
  PROVE  Min(S) \in S /\ \A x \in S : Min(S) <= x
<1> DEFINE T == {n \in Nat : \A x \in S : n <= x}
<1>1. SUFFICES \E m \in S : \A x \in S : m <= x
  BY DEF Min
<1>2. 0 \in T
  OBVIOUS
<1>3. PICK w \in S : w \in Nat
  OBVIOUS
<1>4. w + 1 \notin T
  BY <1>3
<1>5. PICK n \in Nat : n \in T /\ n + 1 \notin T
  <2> HIDE DEF T
  <2>1. ~(Nat \subseteq T)
    BY <1>3, <1>4
  <2> QED BY <1>2, <2>1, Induction
<1>6. PICK x \in S : ~(n + 1 <= x) /\ n <= x
  BY <1>5
<1>7. x = n
  BY <1>6
<1> QED BY <1>5, <1>7

LEMMA Greatest ==
  ASSUME NEW N \in Nat, NEW S \in SUBSET (0 .. N), S # {}
  PROVE  Max(S) \in S /\ \A x \in S : x <= Max(S)
<1> DEFINE T == {N - x : x \in S}
<1>0. \A x \in S : x \in Int /\ N - x \in Nat /\ N - x \in T
  OBVIOUS
<1>1. T \in SUBSET Nat /\ T # {}
  <2>1. \A t \in T : t \in Nat
    BY <1>0
  <2>2. PICK x \in S : TRUE
    OBVIOUS
  <2> QED BY <1>0, <2>1, <2>2
<1>2. Min(T) \in T /\ \A y \in T : Min(T) <= y
  BY <1>1, Least
<1>3. PICK m \in S : Min(T) = N - m
  BY <1>2
<1>4. ASSUME NEW x \in S PROVE m >= x
  <2>1. N - m <= N - x
    BY <1>0, <1>2, <1>3
  <2>2. m \in Int /\ x \in Int
    BY <1>0
  <2> QED BY <2>1, <2>2
<1>5. \E y \in S : \A x \in S : y >= x
  BY <1>4
<1>6. Max(S) \in S /\ \A x \in S : Max(S) >= x
  BY <1>5 DEF Max
<1> QED BY <1>6

LEMMA Product ==
  ASSUME NEW a \in Nat, NEW b \in Nat, NEW n \in Nat \ {0}, a < b
  PROVE  a * n + n <= b * n
<1> DEFINE k == b - a - 1
<1>1. b = a + 1 + k /\ k \in Nat
  OBVIOUS
<1>2. b * n = a * n + n + k * n
  BY <1>1
<1>3. k * n >= 0
  BY <1>1
<1>4. a * n \in Nat /\ k * n \in Nat /\ b * n \in Nat
  BY <1>1
<1> HIDE DEF k
<1> QED BY <1>2, <1>3, <1>4

LEMMA Quotient ==
  ASSUME NEW p \in Nat, NEW q \in Nat, NEW n \in Nat \ {0}, NEW a \in 0 .. n - 1, NEW b \in 0 .. n - 1,
         p * n + a = q * n + b
  PROVE  a = b
<1>1. p * n \in Nat /\ q * n \in Nat
  OBVIOUS
<1>2. ~(p < q)
  BY <1>1, Product
<1>3. ~(q < p)
  BY <1>1, Product
<1>4. p = q
  BY <1>2, <1>3
<1> QED BY <1>1, <1>4

LEMMA Remainder ==
  ASSUME NEW x \in Nat, NEW n \in Nat \ {0}
  PROVE  /\ (x % n) \in 0 .. n - 1
         /\ ((x + 1) % n) = IF (x % n) = n - 1 THEN 0 ELSE (x % n) + 1
         /\ (0 % n) = 0
<1> DEFINE q == x \div n
           r == x % n
           q1 == (x + 1) \div n
           r1 == (x + 1) % n
<1>1. r \in 0 .. n - 1 /\ q \in Nat /\ x = q * n + r
  OBVIOUS
<1>2. r1 \in 0 .. n - 1 /\ q1 \in Nat /\ x + 1 = q1 * n + r1
  OBVIOUS
<1>3. (0 % n) = 0
  OBVIOUS
<1> HIDE DEF q, r, q1, r1
<1>4. q * n \in Nat /\ (q + 1) * n = q * n + n /\ q1 * n \in Nat /\ q + 1 \in Nat
  BY <1>1, <1>2
<1>5. CASE r = n - 1
  <2>1. q1 * n + r1 = (q + 1) * n + 0 /\ 0 \in 0 .. n - 1
    BY <1>1, <1>2, <1>4, <1>5
  <2>2. r1 = 0
    BY <1>2, <1>4, <2>1, Quotient
  <2> QED BY <1>1, <1>3, <1>5, <2>2 DEF r, r1
<1>6. CASE r # n - 1
  <2>1. q1 * n + r1 = q * n + (r + 1) /\ r + 1 \in 0 .. n - 1
    BY <1>1, <1>2, <1>4, <1>6
  <2>2. r1 = r + 1
    BY <1>1, <1>2, <2>1, Quotient
  <2> QED BY <1>1, <1>3, <1>6, <2>2 DEF r, r1
<1> QED BY <1>5, <1>6

\* A recursion over 0 .. N has a solution.
Solves(f, N, b, G) == f[0] = b /\ \A n \in 1 .. N : f[n] = G[n][f[n - 1]]

LEMMA Recursion ==
  ASSUME NEW N \in Nat, NEW A, NEW b \in A, NEW G \in [1 .. N -> [A -> A]]
  PROVE  \E f \in [0 .. N -> A] : Solves(f, N, b, G)
<1> USE DEF Solves
<1> DEFINE S == {k \in 0 .. N : \E f \in [0 .. k -> A] : Solves(f, k, b, G)}
<1>1. 0 \in S
  <2>1. [x \in 0 .. 0 |-> b] \in [0 .. 0 -> A] /\ Solves([x \in 0 .. 0 |-> b], 0, b, G)
    OBVIOUS
  <2> HIDE DEF Solves
  <2> QED BY <2>1
<1>2. ASSUME NEW k \in 0 .. N - 1, k \in S PROVE k + 1 \in S
  <2>1. PICK f \in [0 .. k -> A] : Solves(f, k, b, G)
    BY <1>2
  <2> DEFINE g == [x \in 0 .. k + 1 |-> IF x = k + 1 THEN G[k + 1][f[k]] ELSE f[x]]
  <2>2. k + 1 \in 1 .. N /\ k \in 0 .. k
    OBVIOUS
  <2>3. G[k + 1][f[k]] \in A
    BY <2>2
  <2>4. g \in [0 .. k + 1 -> A]
    BY <2>3
  <2>5. ASSUME NEW n \in 1 .. k + 1 PROVE g[n] = G[n][g[n - 1]]
    <3>1. CASE n = k + 1
      BY <3>1
    <3>2. CASE n # k + 1
      <4>1. n \in 1 .. k /\ n - 1 \in 0 .. k /\ n \in 0 .. k
        BY <3>2
      <4>2. g[n] = f[n] /\ g[n - 1] = f[n - 1]
        BY <3>2, <4>1
      <4> HIDE DEF g
      <4> QED BY <2>1, <4>1, <4>2
    <3> QED BY <3>1, <3>2
  <2>6. g[0] = b
    BY <2>1
  <2> HIDE DEF g
  <2>7. Solves(g, k + 1, b, G)
    BY <2>5, <2>6
  <2> HIDE DEF Solves
  <2> QED BY <2>2, <2>4, <2>7
<1> HIDE DEF S
<1>3. 0 .. N \subseteq S
  BY <1>1, <1>2, InductionUpTo
<1>4. N \in S
  BY <1>3
<1> QED BY <1>4 DEF S

(***************************************************************************)
(* The lists                                                                *)

LEMMA Appended ==
  ASSUME NEW S, NEW s \in Seq(S), NEW e \in S
  PROVE  /\ Append(s, e) \in Seq(S) /\ Len(Append(s, e)) = Len(s) + 1
         /\ Append(s, e)[Len(s) + 1] = e
         /\ \A j \in 1 .. Len(s) : Append(s, e)[j] = s[j]
OBVIOUS

LEMMA SeqIs ==
  ASSUME NEW S, NEW s \in Seq(S)
  PROVE  /\ Len(s) \in Nat /\ DOMAIN s = 1 .. Len(s) /\ \A j \in 1 .. Len(s) : s[j] \in S
         /\ (Len(s) = 0 <=> s = <<>>)
         /\ Range(s) = {s[j] : j \in 1 .. Len(s)}
BY DEF Range

Pos(i) == CHOOSE n \in 1 .. Len(Order) : Order[n] = i

LEMMA PosIs ==
  /\ Len(Order) \in Nat /\ Order \in Seq(Instance)
  /\ \A i \in Instance : Pos(i) \in 1 .. Len(Order) /\ Order[Pos(i)] = i
  /\ \A n \in 1 .. Len(Order) : Order[n] \in Instance /\ Pos(Order[n]) = n
<1>1. Order \in Seq(Instance) /\ IsInjective(Order)
  BY BalancerAssumption
<1>2. Len(Order) \in Nat /\ DOMAIN Order = 1 .. Len(Order)
      /\ \A n \in 1 .. Len(Order) : Order[n] \in Instance
  BY <1>1, SeqIs
<1>3. ASSUME NEW i \in Instance PROVE Pos(i) \in 1 .. Len(Order) /\ Order[Pos(i)] = i
  <2>1. \E n \in 1 .. Len(Order) : Order[n] = i
    BY <1>2 DEF Instance, Range
  <2> QED BY <2>1 DEF Pos
<1>4. ASSUME NEW n \in 1 .. Len(Order) PROVE Pos(Order[n]) = n
  BY <1>1, <1>2, <1>3 DEF IsInjective
<1> QED BY <1>1, <1>2, <1>3, <1>4

\* A list holds the instances of a set, in their order.
IsListOf(l, S) ==
  /\ l \in Seq(Instance)
  /\ \A j \in 1 .. Len(l) : l[j] \in S
  /\ \A i \in S : \E j \in 1 .. Len(l) : l[j] = i
  /\ \A j, k \in 1 .. Len(l) : j < k => Pos(l[j]) < Pos(l[k])

First(S, n) == {i \in S : Pos(i) <= n}

LEMMA ListGrows ==
  ASSUME NEW S \in SUBSET Instance, NEW n \in 1 .. Len(Order), NEW l, IsListOf(l, First(S, n - 1))
  PROVE  IsListOf(IF Order[n] \in S THEN Append(l, Order[n]) ELSE l, First(S, n))
<1> DEFINE i == Order[n]
           m == Append(l, i)
<1>1. /\ i \in Instance /\ Pos(i) = n /\ n \in Nat
      /\ \A h \in S : h \in Instance /\ Pos(h) \in Nat /\ (Pos(h) = n => h = i)
  <2>1. Len(Order) \in Nat
    BY PosIs
  <2> QED BY <2>1, PosIs
<1>2. /\ l \in Seq(Instance) /\ Len(l) \in Nat
      /\ \A j \in 1 .. Len(l) : l[j] \in First(S, n - 1)
      /\ \A h \in First(S, n - 1) : \E j \in 1 .. Len(l) : l[j] = h
      /\ \A j, k \in 1 .. Len(l) : j < k => Pos(l[j]) < Pos(l[k])
  BY SeqIs DEF IsListOf
<1>3. CASE i \notin S
  <2>1. First(S, n) = First(S, n - 1)
    BY <1>1, <1>3 DEF First
  <2> QED BY <1>3, <2>1
<1>4. CASE i \in S
  <2>1. First(S, n) = First(S, n - 1) \cup {i}
    BY <1>1, <1>4 DEF First
  <2>2. \A h \in First(S, n - 1) : Pos(h) < Pos(i) /\ Pos(h) \in Nat
    BY <1>1 DEF First
  <2>3. /\ m \in Seq(Instance) /\ Len(m) = Len(l) + 1 /\ m[Len(l) + 1] = i
        /\ \A j \in 1 .. Len(l) : m[j] = l[j]
    BY <1>1, <1>2, Appended
  <2> HIDE DEF i, m
  <2>4. \A j \in 1 .. Len(m) : j \in 1 .. Len(l) \/ j = Len(l) + 1
    BY <1>2, <2>3
  <2>5. \A j \in 1 .. Len(m) : m[j] \in First(S, n)
    BY <1>2, <2>1, <2>3, <2>4
  <2>6. ASSUME NEW h \in First(S, n) PROVE \E j \in 1 .. Len(m) : m[j] = h
    <3>1. \A j \in 1 .. Len(l) : j \in 1 .. Len(m)
      BY <1>2, <2>3
    <3>2. Len(l) + 1 \in 1 .. Len(m)
      BY <1>2, <2>3
    <3>3. CASE h = i
      BY <2>3, <3>2, <3>3
    <3>4. CASE h \in First(S, n - 1)
      BY <1>2, <2>3, <3>1, <3>4
    <3> QED BY <2>1, <3>3, <3>4
  <2>7. ASSUME NEW j \in 1 .. Len(m), NEW k \in 1 .. Len(m), j < k PROVE Pos(m[j]) < Pos(m[k])
    <3>1. j \in 1 .. Len(l)
      BY <1>2, <2>3, <2>7
    <3>2. CASE k \in 1 .. Len(l)
      BY <1>2, <2>3, <2>7, <3>1, <3>2
    <3>3. CASE k = Len(l) + 1
      BY <1>2, <2>2, <2>3, <3>1, <3>3
    <3> QED BY <2>4, <3>2, <3>3
  <2>8. IsListOf(m, First(S, n))
    BY <2>3, <2>5, <2>6, <2>7 DEF IsListOf
  <2> QED BY <1>4, <2>8 DEF i, m
<1> QED BY <1>3, <1>4

LEMMA KeptIs ==
  ASSUME NEW S \in SUBSET Instance
  PROVE  IsListOf(Kept(S), S)
<1> DEFINE N == Len(Order)
           A == Seq(Instance)
           Next1(n, l) == IF Order[n] \in S THEN Append(l, Order[n]) ELSE l
           G == [n \in 1 .. N |-> [l \in A |-> Next1(n, l)]]
           IsKept(k) == k = [n \in 0 .. N |-> IF n = 0 THEN <<>>
                                              ELSE IF Order[n] \in S
                                                   THEN Append(k[n - 1], Order[n]) ELSE k[n - 1]]
           kept == CHOOSE k : IsKept(k)
<1>1. Kept(S) = kept[N]
  BY DEF Kept
<1>2. N \in Nat /\ \A n \in 1 .. N : Order[n] \in Instance
  BY PosIs
<1>3. <<>> \in A /\ G \in [1 .. N -> [A -> A]]
  <2>1. ASSUME NEW n \in 1 .. N, NEW l \in A PROVE Next1(n, l) \in A
    BY <1>2, Appended
  <2> HIDE DEF Next1
  <2> QED BY <2>1
<1>4. PICK k \in [0 .. N -> A] : Solves(k, N, <<>>, G)
  <2> HIDE DEF N, A, G
  <2> QED BY <1>2, <1>3, Recursion
<1>5. k[0] = <<>> /\ \A n \in 1 .. N : k[n] = G[n][k[n - 1]]
  <2> HIDE DEF N, A, G
  <2> QED BY <1>4 DEF Solves
<1>5a. \A n \in 1 .. N : k[n] = Next1(n, k[n - 1])
  <2>1. \A n \in 1 .. N : k[n - 1] \in A
    <3> HIDE DEF A
    <3> QED BY <1>2
  <2>2. \A n \in 1 .. N : \A l \in A : G[n][l] = Next1(n, l)
    <3> HIDE DEF Next1, A
    <3> QED OBVIOUS
  <2> HIDE DEF Next1, A, G
  <2> QED BY <1>5, <2>1, <2>2
<1>6. IsKept(k)
  <2>1. \A n \in 0 .. N : k[n] = IF n = 0 THEN <<>> ELSE Next1(n, k[n - 1])
    <3> HIDE DEF Next1, N, A
    <3> QED BY <1>2, <1>5, <1>5a
  <2> HIDE DEF N
  <2> QED BY <2>1
<1>7. IsKept(kept)
  <2> HIDE DEF IsKept
  <2> QED BY <1>6
<1>8. kept[0] = <<>> /\ \A n \in 1 .. N : kept[n] = Next1(n, kept[n - 1])
  <2> HIDE DEF kept
  <2>1. kept = [n \in 0 .. N |-> IF n = 0 THEN <<>>
                                 ELSE IF Order[n] \in S
                                      THEN Append(kept[n - 1], Order[n]) ELSE kept[n - 1]]
    BY <1>7
  <2>2. 0 \in 0 .. N /\ \A n \in 1 .. N : n \in 0 .. N /\ n # 0
    BY <1>2
  <2> QED BY <2>1, <2>2
<1> HIDE DEF kept, G, IsKept
<1> DEFINE T == {n \in 0 .. N : IsListOf(kept[n], First(S, n))}
<1>9. 0 \in T
  <2>1. First(S, 0) = {}
    <3>1. \A i \in S : Pos(i) \in 1 .. N
      BY PosIs
    <3> QED BY <1>2, <3>1 DEF First
  <2> QED BY <1>2, <1>8, <2>1 DEF IsListOf
<1>10. ASSUME NEW n \in 0 .. N - 1, n \in T PROVE n + 1 \in T
  <2>1. n + 1 \in 1 .. N /\ n + 1 \in 0 .. N /\ (n + 1) - 1 = n
    BY <1>2
  <2>2. kept[n + 1] = Next1(n + 1, kept[n])
    BY <1>8, <2>1
  <2>3. IsListOf(kept[n], First(S, (n + 1) - 1))
    BY <1>10, <2>1
  <2>4. IsListOf(Next1(n + 1, kept[n]), First(S, n + 1))
    BY <2>1, <2>3, ListGrows
  <2> QED BY <2>1, <2>2, <2>4
<1>11. N \in T
  <2> HIDE DEF T, N
  <2>1. 0 .. N \subseteq T
    BY <1>2, <1>9, <1>10, InductionUpTo
  <2> QED BY <1>2, <2>1
<1>12. First(S, N) = S
  BY PosIs DEF First
<1> QED BY <1>1, <1>11, <1>12

LEMMA ListIs ==
  ASSUME NEW S \in SUBSET Instance, NEW l, IsListOf(l, S)
  PROVE  /\ l \in Seq(Instance) /\ Len(l) \in Nat /\ DOMAIN l = 1 .. Len(l)
         /\ \A j \in 1 .. Len(l) : l[j] \in S /\ Pos(l[j]) \in Nat
         /\ \A i \in S : \E j \in 1 .. Len(l) : l[j] = i
         /\ \A j, k \in 1 .. Len(l) : (j < k => Pos(l[j]) < Pos(l[k])) /\ (l[j] = l[k] => j = k)
         /\ Range(l) = S
         /\ (S = {} <=> l = <<>>)
<1>1. /\ l \in Seq(Instance) /\ Len(l) \in Nat /\ DOMAIN l = 1 .. Len(l)
      /\ (Len(l) = 0 <=> l = <<>>) /\ Range(l) = {l[j] : j \in 1 .. Len(l)}
  BY SeqIs DEF IsListOf
<1>2. /\ \A j \in 1 .. Len(l) : l[j] \in S
      /\ \A i \in S : \E j \in 1 .. Len(l) : l[j] = i
      /\ \A j, k \in 1 .. Len(l) : j < k => Pos(l[j]) < Pos(l[k])
  BY DEF IsListOf
<1>3. \A i \in S : Pos(i) \in Nat
  <2>1. \A i \in Instance : Pos(i) \in 1 .. Len(Order) /\ Len(Order) \in Nat
    BY PosIs
  <2> QED BY <2>1
<1>4. ASSUME NEW j \in 1 .. Len(l), NEW k \in 1 .. Len(l), l[j] = l[k] PROVE j = k
  <2>1. ~(j < k) /\ ~(k < j)
    BY <1>2, <1>3, <1>4
  <2> QED BY <1>1, <2>1
<1>5. Range(l) = S
  BY <1>1, <1>2
<1>6. S = {} <=> l = <<>>
  <2>1. S = {} => Len(l) = 0
    BY <1>1, <1>2
  <2>2. Len(l) = 0 => S = {}
    BY <1>1, <1>2
  <2> QED BY <1>1, <2>1, <2>2
<1> QED BY <1>1, <1>2, <1>3, <1>4, <1>5, <1>6

LEMMA InLists ==
  ASSUME NEW l \in Lists
  PROVE  /\ IsListOf(l, Range(l)) /\ Range(l) \in SUBSET Instance
         /\ l \in Seq(Instance) /\ Len(l) \in Nat /\ DOMAIN l = 1 .. Len(l)
         /\ (l # <<>> => Len(l) \in Nat \ {0})
<1>1. PICK S \in SUBSET Instance : l = Kept(S)
  BY DEF Lists
<1>2. IsListOf(l, S)
  BY <1>1, KeptIs
<1>3. Range(l) = S
  BY <1>2, ListIs
<1> QED BY <1>2, <1>3, ListIs, SeqIs

LEMMA NoList == <<>> \in Lists
<1>1. IsListOf(Kept({}), {})
  BY KeptIs
<1>2. Kept({}) = <<>>
  BY <1>1, ListIs
<1> QED BY <1>2 DEF Lists

LEMMA HealthyIs ==
  /\ FilterHealthy \in Lists
  /\ Range(FilterHealthy) \in SUBSET Instance /\ FilterHealthy = Kept(Range(FilterHealthy))
<1> DEFINE S == {i \in Instance : status[i] = "healthy"}
<1>1. FilterHealthy = Kept(S) /\ S \in SUBSET Instance
  BY DEF FilterHealthy
<1> HIDE DEF S
<1>2. Range(Kept(S)) = S
  BY <1>1, KeptIs, ListIs
<1> QED BY <1>1, <1>2 DEF Lists

(***************************************************************************)
(* The ring                                                                 *)

HashOK == hash \in [VirtualKey \cup Key -> 0 .. RingSize - 1]

At(i, p) == \E v \in 0 .. VirtualNodes - 1 : hash[<<i, v>>] = p

PointsOf(S) == {hash[v] : v \in S \X (0 .. VirtualNodes - 1)}

\* p is the first point of Q from h on, around the ring.
Nearest(h, p, Q) ==
  p \in Q /\ \A q \in Q : IF h <= p THEN h <= q => p <= q ELSE q < h /\ p <= q

Chosen(S, key, c) ==
  \E p \in Nat : /\ Nearest(hash[key], p, PointsOf(S))
                 /\ c \in S /\ At(c, p)
                 /\ \A i \in S : At(i, p) => Pos(i) <= Pos(c)

LEMMA SizesAre ==
  VirtualNodes \in Nat \ {0} /\ RingSize \in Nat \ {0} /\ CounterSize \in Nat \ {0}
  /\ MaxSelects \in Nat \ {0}
BY BalancerAssumption

LEMMA PointsAre ==
  ASSUME HashOK, NEW S \in SUBSET Instance
  PROVE  /\ PointsOf(S) \in SUBSET Nat
         /\ \A p : p \in PointsOf(S) <=> \E i \in S : At(i, p)
         /\ (S # {} => PointsOf(S) # {})
         /\ \A key \in Key : hash[key] \in Nat
<1>1. RingSize \in Nat /\ 0 .. RingSize - 1 \subseteq Nat
  BY SizesAre
<1>2. \A i \in S : \A v \in 0 .. VirtualNodes - 1 : hash[<<i, v>>] \in Nat
  BY <1>1 DEF HashOK, VirtualKey
<1>3. \A key \in Key : hash[key] \in Nat
  BY <1>1 DEF HashOK
<1> DEFINE V == 0 .. VirtualNodes - 1
<1>4. \A p : p \in PointsOf(S) <=> \E i \in S : \E v \in V : hash[<<i, v>>] = p
  <2> HIDE DEF V
  <2>1. PointsOf(S) = {hash[w] : w \in S \X V}
    BY DEF PointsOf, V
  <2>2. ASSUME NEW p \in PointsOf(S) PROVE \E i \in S : \E v \in V : hash[<<i, v>>] = p
    <3>1. PICK w \in S \X V : p = hash[w]
      BY <2>1
    <3>2. w[1] \in S /\ w[2] \in V /\ w = <<w[1], w[2]>>
      OBVIOUS
    <3> QED BY <3>1, <3>2
  <2>3. ASSUME NEW i \in S, NEW v \in V PROVE hash[<<i, v>>] \in PointsOf(S)
    <3>1. <<i, v>> \in S \X V
      OBVIOUS
    <3> QED BY <2>1, <3>1
  <2> QED BY <2>2, <2>3
<1>5. 0 \in 0 .. VirtualNodes - 1
  BY SizesAre
<1>6. \A i \in S : hash[<<i, 0>>] \in PointsOf(S)
  BY <1>4, <1>5
<1> QED BY <1>2, <1>3, <1>4, <1>6 DEF At

LEMMA RingIs ==
  ASSUME HashOK, NEW S \in SUBSET Instance, S # {}, NEW l, IsListOf(l, S), NEW key \in Key
  PROVE  Chosen(S, key, OnRing(l, key))
<1> DEFINE Q == PointsOf(S)
           h == hash[key]
           from == {p \in Q : p >= h}
           p == IF from = {} THEN Min(Q) ELSE Min(from)
           N == {n \in DOMAIN l : \E v \in 0 .. VirtualNodes - 1 : hash[<<l[n], v>>] = p}
           c == l[Max(N)]
<1>1. /\ Q \in SUBSET Nat /\ Q # {} /\ h \in Nat
      /\ \A q : q \in Q <=> \E i \in S : At(i, q)
  BY PointsAre
<1>2. /\ l \in Seq(Instance) /\ Len(l) \in Nat /\ DOMAIN l = 1 .. Len(l)
      /\ \A j \in 1 .. Len(l) : l[j] \in S /\ Pos(l[j]) \in Nat
      /\ \A i \in S : \E j \in 1 .. Len(l) : l[j] = i
      /\ \A j, k \in 1 .. Len(l) : j < k => Pos(l[j]) < Pos(l[k])
      /\ Range(l) = S
  BY ListIs
<1>3. OnRing(l, key) = c
  <2>1. Points(l) = Q
    BY <1>2 DEF Points, PointsOf
  <2> QED BY <2>1 DEF OnRing, Owner
<1>4. Nearest(h, p, Q) /\ p \in Nat
  <2> HIDE DEF Q, h
  <2>1. CASE from = {}
    <3>1. Min(Q) \in Q /\ \A q \in Q : Min(Q) <= q
      BY <1>1, Least
    <3>2. p = Min(Q)
      BY <2>1
    <3>3. \A q \in Q : q < h
      BY <1>1, <2>1
    <3> HIDE DEF from, p
    <3> QED BY <1>1, <3>1, <3>2, <3>3 DEF Nearest
  <2>2. CASE from # {}
    <3>1. from \in SUBSET Nat
      BY <1>1
    <3>2. Min(from) \in from /\ \A q \in from : Min(from) <= q
      <4> HIDE DEF from
      <4> QED BY <2>2, <3>1, Least
    <3>3. p = Min(from)
      BY <2>2
    <3>4. p \in Q /\ h <= p /\ \A q \in Q : h <= q => p <= q
      <4> HIDE DEF p
      <4> QED BY <1>1, <3>2, <3>3
    <3> HIDE DEF from, p
    <3> QED BY <1>1, <3>4 DEF Nearest
  <2> QED BY <2>1, <2>2
<1> HIDE DEF p
<1>5. N \in SUBSET (0 .. Len(l)) /\ \A n \in 1 .. Len(l) : n \in N <=> At(l[n], p)
  <2>1. \A n : (\E v \in 0 .. VirtualNodes - 1 : hash[<<l[n], v>>] = p) <=> At(l[n], p)
    BY DEF At
  <2>2. N = {n \in DOMAIN l : At(l[n], p)}
    BY <2>1
  <2> HIDE DEF N
  <2> QED BY <1>2, <2>2
<1>6. N # {}
  <2>1. PICK i \in S : At(i, p)
    BY <1>1, <1>4 DEF Nearest
  <2>2. PICK n \in 1 .. Len(l) : l[n] = i
    BY <1>2
  <2> HIDE DEF N
  <2> QED BY <1>5, <2>1, <2>2
<1>7. Max(N) \in 1 .. Len(l)
  <2>1. Max(N) \in N
    <3> HIDE DEF N
    <3> QED BY <1>2, <1>5, <1>6, Greatest
  <2> QED BY <1>2, <2>1
<1>8. Max(N) \in N /\ \A n \in N : n <= Max(N)
  <2> HIDE DEF N
  <2> QED BY <1>2, <1>5, <1>6, Greatest
<1> HIDE DEF N
<1>9. c \in S /\ At(c, p)
  BY <1>2, <1>5, <1>7, <1>8
<1>10. ASSUME NEW i \in S, At(i, p) PROVE Pos(i) <= Pos(c)
  <2>1. PICK n \in 1 .. Len(l) : l[n] = i
    BY <1>2
  <2>2. n \in N
    BY <1>5, <1>10, <2>1
  <2>3. n <= Max(N)
    BY <1>8, <2>2
  <2>4. n = Max(N) \/ n < Max(N)
    BY <1>2, <1>7, <2>3
  <2>5. Pos(l[n]) \in Nat /\ Pos(l[Max(N)]) \in Nat /\ (n < Max(N) => Pos(l[n]) < Pos(l[Max(N)]))
    BY <1>2, <1>7
  <2> QED BY <2>1, <2>4, <2>5
<1> QED BY <1>3, <1>4, <1>9, <1>10 DEF Chosen

\* Two choices that both rings hold are the same.
LEMMA ChoicesStick ==
  ASSUME HashOK, NEW S \in SUBSET Instance, NEW T \in SUBSET Instance, NEW key \in Key,
         NEW c, NEW d, Chosen(S, key, c), Chosen(T, key, d), c \in T, d \in S
  PROVE  c = d
<1> DEFINE h == hash[key]
<1>1. PICK p \in Nat : /\ Nearest(h, p, PointsOf(S)) /\ c \in S /\ At(c, p)
                       /\ \A i \in S : At(i, p) => Pos(i) <= Pos(c)
  BY DEF Chosen
<1>2. PICK q \in Nat : /\ Nearest(h, q, PointsOf(T)) /\ d \in T /\ At(d, q)
                       /\ \A i \in T : At(i, q) => Pos(i) <= Pos(d)
  BY DEF Chosen
<1>3. p \in PointsOf(T) /\ q \in PointsOf(S) /\ h \in Nat
  BY <1>1, <1>2, PointsAre
<1> HIDE DEF h
<1>4. p = q
  BY <1>1, <1>2, <1>3 DEF Nearest
<1>5. Pos(c) <= Pos(d) /\ Pos(d) <= Pos(c)
  BY <1>1, <1>2, <1>4
<1>6. Pos(c) \in Nat /\ Pos(d) \in Nat /\ Order[Pos(c)] = c /\ Order[Pos(d)] = d
  <2>1. c \in Instance /\ d \in Instance
    OBVIOUS
  <2>2. \A i \in Instance : Pos(i) \in 1 .. Len(Order) /\ Order[Pos(i)] = i /\ Len(Order) \in Nat
    BY PosIs
  <2> QED BY <2>1, <2>2
<1> QED BY <1>5, <1>6

(***************************************************************************)
(* The weights                                                              *)

LEMMA EffectiveIs == \A i \in Instance : Effective(i) \in Nat \ {0}
<1>1. Weight \in [Instance -> Int]
  BY BalancerAssumption
<1> QED BY <1>1 DEF Effective

LEMMA UptoIs ==
  ASSUME NEW l \in Seq(Instance)
  PROVE  /\ Upto(l)[0] = 0
         /\ \A n \in 0 .. Len(l) : Upto(l)[n] \in Nat
         /\ \A n \in 1 .. Len(l) : Upto(l)[n] = Upto(l)[n - 1] + Effective(l[n])
<1> DEFINE N == Len(l)
           E(n) == Effective(l[n])
           G == [n \in 1 .. N |-> [x \in Nat |-> x + E(n)]]
           IsSum(s) == s = [n \in 0 .. N |-> IF n = 0 THEN 0 ELSE s[n - 1] + E(n)]
           sum == CHOOSE s : IsSum(s)
<1>1. Upto(l) = sum
  BY DEF Upto
<1>2. N \in Nat /\ \A n \in 1 .. N : E(n) \in Nat
  BY SeqIs, EffectiveIs
<1> HIDE DEF E
<1>3. G \in [1 .. N -> [Nat -> Nat]]
  <2>1. \A n \in 1 .. N : \A x \in Nat : x + E(n) \in Nat
    BY <1>2
  <2> QED BY <2>1
<1>4. PICK s \in [0 .. N -> Nat] : Solves(s, N, 0, G)
  <2> HIDE DEF N, G
  <2> QED BY <1>2, <1>3, Recursion
<1>5. s[0] = 0 /\ \A n \in 1 .. N : s[n] = s[n - 1] + E(n)
  <2>1. \A n \in 1 .. N : s[n - 1] \in Nat
    <3>1. \A n \in 1 .. N : n - 1 \in 0 .. N
      BY <1>2
    <3> QED BY <3>1
  <2>2. \A n \in 1 .. N : \A x \in Nat : G[n][x] = x + E(n)
    OBVIOUS
  <2> HIDE DEF G
  <2> QED BY <1>4, <2>1, <2>2 DEF Solves
<1>6. IsSum(s)
  <2>1. \A n \in 0 .. N : s[n] = IF n = 0 THEN 0 ELSE s[n - 1] + E(n)
    BY <1>2, <1>5
  <2> HIDE DEF N
  <2> QED BY <2>1
<1>7. IsSum(sum)
  <2> HIDE DEF IsSum
  <2> QED BY <1>6
<1> HIDE DEF sum
<1>8. sum[0] = 0 /\ \A n \in 1 .. N : sum[n] = sum[n - 1] + E(n)
  <2>1. 0 \in 0 .. N /\ \A n \in 1 .. N : n \in 0 .. N /\ n # 0
    BY <1>2
  <2> QED BY <1>7, <2>1
<1> DEFINE T == {n \in 0 .. N : sum[n] \in Nat}
<1>9. 0 \in T /\ \A n \in 0 .. N - 1 : n \in T => n + 1 \in T
  <2>1. 0 \in T
    BY <1>2, <1>8
  <2>2. ASSUME NEW n \in 0 .. N - 1, n \in T PROVE n + 1 \in T
    <3>1. n + 1 \in 1 .. N /\ n + 1 \in 0 .. N /\ (n + 1) - 1 = n
      BY <1>2
    <3>2. sum[n + 1] = sum[n] + E(n + 1) /\ E(n + 1) \in Nat /\ sum[n] \in Nat
      BY <1>2, <1>8, <2>2, <3>1
    <3> QED BY <3>1, <3>2
  <2> QED BY <2>1, <2>2
<1>10. 0 .. N \subseteq T
  <2> HIDE DEF T, N
  <2> QED BY <1>2, <1>9, InductionUpTo
<1> QED BY <1>1, <1>8, <1>10 DEF E

LEMMA UptoGrows ==
  ASSUME NEW l \in Seq(Instance), NEW a \in 0 .. Len(l), NEW b \in 0 .. Len(l), a <= b
  PROVE  Upto(l)[a] <= Upto(l)[b]
<1> DEFINE N == Len(l)
           u == Upto(l)
           T == {n \in 0 .. N : \A m \in 0 .. n : u[m] <= u[n]}
<1>1. /\ N \in Nat
      /\ \A n \in 0 .. N : u[n] \in Nat
      /\ \A n \in 1 .. N : u[n] = u[n - 1] + Effective(l[n]) /\ Effective(l[n]) \in Nat
  BY SeqIs, UptoIs, EffectiveIs
<1> HIDE DEF N, u
<1>2. 0 \in T
  BY <1>1
<1>3. ASSUME NEW n \in 0 .. N - 1, n \in T PROVE n + 1 \in T
  <2>1. n + 1 \in 1 .. N /\ n + 1 \in 0 .. N /\ (n + 1) - 1 = n /\ n \in 0 .. N
    BY <1>1
  <2>2. u[n] <= u[n + 1] /\ u[n] \in Nat /\ u[n + 1] \in Nat
    BY <1>1, <2>1
  <2>3. ASSUME NEW m \in 0 .. n + 1 PROVE u[m] <= u[n + 1]
    <3>1. CASE m = n + 1
      BY <2>2, <3>1
    <3>2. CASE m # n + 1
      <4>1. N \in Nat /\ n \in Nat /\ n <= N /\ m \in Nat /\ m <= n + 1
        BY <1>1, <2>1
      <4>2. m \in 0 .. n /\ m \in 0 .. N
        BY <3>2, <4>1
      <4>3. u[m] <= u[n] /\ u[m] \in Nat
        BY <1>1, <1>3, <4>2
      <4> QED BY <2>2, <4>3
    <3> QED BY <3>1, <3>2
  <2> QED BY <2>1, <2>3
<1> HIDE DEF T
<1>4. 0 .. N \subseteq T
  BY <1>1, <1>2, <1>3, InductionUpTo
<1>5. a \in 0 .. N /\ b \in 0 .. N /\ a \in 0 .. b
  BY DEF N
<1> QED BY <1>4, <1>5 DEF T, u

\* The instance that number r falls to.
LEMMA PickIs ==
  ASSUME NEW l \in Seq(Instance), NEW r \in 0 .. Total(l) - 1
  PROVE  \E n \in 1 .. Len(l) : WeightedPick(l, r) = l[n] /\ Upto(l)[n - 1] <= r /\ r < Upto(l)[n]
<1> DEFINE N == Len(l)
           u == Upto(l)
           S == {n \in DOMAIN l : u[n] > r}
           m == Min(S)
<1>1. /\ N \in Nat /\ DOMAIN l = 1 .. N /\ u[0] = 0
      /\ \A n \in 0 .. N : u[n] \in Nat
      /\ Total(l) = u[N]
  BY SeqIs, UptoIs DEF Total
<1>2. r \in Nat /\ r < u[N]
  BY <1>1
<1> HIDE DEF u
<1>3. N \in S
  BY <1>1, <1>2
<1>4. S \in SUBSET Nat /\ S # {}
  BY <1>1, <1>3
<1>5. m \in S /\ \A n \in S : m <= n
  <2> HIDE DEF S
  <2> QED BY <1>4, Least
<1>6. m \in 1 .. N /\ u[m] > r
  BY <1>1, <1>5
<1>7. WeightedPick(l, r) = l[m]
  BY DEF WeightedPick, u
<1>8. u[m - 1] <= r
  <2>1. CASE m = 1
    BY <1>1, <1>2, <2>1
  <2>2. CASE m # 1
    <3>1. m - 1 \in 1 .. N /\ m - 1 \in 0 .. N /\ ~(m <= m - 1)
      BY <1>1, <1>6, <2>2
    <3>2. m - 1 \notin S
      BY <1>5, <3>1
    <3>3. ~(u[m - 1] > r)
      BY <1>1, <3>1, <3>2
    <3> QED BY <1>1, <1>2, <3>1, <3>3
  <2> QED BY <2>1, <2>2
<1>9. r < u[m]
  BY <1>1, <1>2, <1>6
<1> HIDE DEF m
<1> QED BY <1>6, <1>7, <1>8, <1>9 DEF u

LEMMA ShareIs ==
  ASSUME NEW S \in SUBSET Instance, NEW l, IsListOf(l, S), NEW i \in S
  PROVE  Cardinality({r \in 0 .. Total(l) - 1 : WeightedPick(l, r) = i}) = Effective(i)
<1> DEFINE N == Len(l)
           u == Upto(l)
<1>1. /\ l \in Seq(Instance) /\ N \in Nat
      /\ \A j, k \in 1 .. N : l[j] = l[k] => j = k
      /\ \A h \in S : \E j \in 1 .. N : l[j] = h
  <2>1. /\ l \in Seq(Instance) /\ Len(l) \in Nat
        /\ \A h \in S : \E j \in 1 .. Len(l) : l[j] = h
    BY SeqIs DEF IsListOf
  <2>2. \A j, k \in 1 .. Len(l) : l[j] = l[k] => j = k
    BY ListIs
  <2> QED BY <2>1, <2>2
<1>2. PICK n \in 1 .. N : l[n] = i
  BY <1>1
<1>3. /\ \A k \in 0 .. N : u[k] \in Nat
      /\ \A k \in 1 .. N : u[k] = u[k - 1] + Effective(l[k])
      /\ u[0] = 0 /\ Total(l) = u[N]
  BY <1>1, UptoIs DEF Total
<1>4. n - 1 \in 0 .. N /\ n \in 0 .. N /\ N \in 0 .. N /\ n - 1 <= n /\ n <= N /\ 0 \in 0 .. N
  BY <1>1
<1>5. u[n] = u[n - 1] + Effective(i) /\ Effective(i) \in Nat \ {0} /\ u[n] \in Nat /\ u[n - 1] \in Nat
  BY <1>2, <1>3, <1>4, EffectiveIs
<1>6. \A a, b \in 0 .. N : a <= b => u[a] <= u[b]
  BY <1>1, UptoGrows
<1>7. u[n] <= u[N] /\ u[N] \in Nat
  BY <1>3, <1>4, <1>6
<1> DEFINE R == {r \in 0 .. Total(l) - 1 : WeightedPick(l, r) = i}
           I == u[n - 1] .. u[n] - 1
<1>8. ASSUME NEW r \in 0 .. Total(l) - 1 PROVE WeightedPick(l, r) = i <=> r \in I
  <2>1. PICK k \in 1 .. N : WeightedPick(l, r) = l[k] /\ u[k - 1] <= r /\ r < u[k]
    BY <1>1, PickIs
  <2>2. k - 1 \in 0 .. N /\ k \in 0 .. N /\ k \in Nat /\ n \in Nat
    BY <1>1
  <2>3. r \in Int /\ u[k] \in Nat /\ u[k - 1] \in Nat
    BY <1>3, <2>2
  <2> HIDE DEF u
  <2>4. k < n => u[k] <= u[n - 1]
    BY <1>4, <1>6, <2>2
  <2>5. n < k => u[n] <= u[k - 1]
    BY <1>4, <1>6, <2>2
  <2>6. r \in I <=> k = n
    <3>1. CASE k = n
      BY <1>5, <2>1, <2>3, <3>1
    <3>2. CASE k < n
      BY <1>5, <2>1, <2>2, <2>3, <2>4, <3>2
    <3>3. CASE n < k
      BY <1>5, <2>1, <2>2, <2>3, <2>5, <3>3
    <3> QED BY <2>2, <3>1, <3>2, <3>3
  <2> QED BY <1>1, <1>2, <2>1, <2>6
<1>9. \A r \in I : r \in 0 .. Total(l) - 1
  <2> HIDE DEF u
  <2> QED BY <1>3, <1>5, <1>7
<1>10. R = I
  <2> HIDE DEF I
  <2> QED BY <1>8, <1>9
<1> HIDE DEF u, R
<1>11. Cardinality(I) = Effective(i)
  <2> DEFINE a == u[n - 1]
             b == u[n] - 1
  <2>1. a \in Int /\ b \in Int /\ b - a + 1 = Effective(i) /\ ~(a > b)
    BY <1>5
  <2> HIDE DEF a, b
  <2>2. Cardinality(a .. b) = Effective(i)
    BY <2>1, FS_Interval
  <2> QED BY <2>2 DEF a, b
<1> QED BY <1>10, <1>11 DEF R

(***************************************************************************)
(* The turns                                                                *)

\* Place j had its turn since the turn of place s, and place r is next.
InTurn(s, r, j) == IF s <= r THEN s <= j /\ j < r ELSE s <= j \/ j < r

Ahead(s, r, j) == IF InTurn(s, r, j) THEN 1 ELSE 0

\* The places that had their turn in this round are one ahead of the others,
\* w aside.
Even(P, n, w, r) ==
  \E s \in 0 .. n - 1 : \A j, k \in 0 .. n - 1 :
    P[j] + Ahead(s, r, k) <= P[k] + Ahead(s, r, j) + w

\* A turn leaves the round even; and where the counter goes elsewhere, the round
\* begins anew, with one more out of turn.
LEMMA EvenTurn ==
  ASSUME NEW n \in Nat \ {0}, NEW r \in 0 .. n - 1, NEW t \in 0 .. n - 1,
         NEW w \in Nat, NEW P \in [0 .. n - 1 -> Nat], Even(P, n, w, r),
         NEW Q \in [0 .. n - 1 -> Nat], \A j \in 0 .. n - 1 : Q[j] = IF j = r THEN P[j] + 1 ELSE P[j]
  PROVE  /\ (t = IF r = n - 1 THEN 0 ELSE r + 1) => Even(Q, n, w, t)
         /\ Even(Q, n, w + 1, t)
<1>1. PICK s \in 0 .. n - 1 :
        \A j, k \in 0 .. n - 1 : P[j] + Ahead(s, r, k) <= P[k] + Ahead(s, r, j) + w
  BY DEF Even
<1> DEFINE On == t = IF r = n - 1 THEN 0 ELSE r + 1
<1>2. ASSUME NEW j \in 0 .. n - 1, NEW k \in 0 .. n - 1
      PROVE  /\ On /\ t # s => Q[j] + Ahead(s, t, k) <= Q[k] + Ahead(s, t, j) + w
             /\ On /\ t = s => Q[j] + Ahead(t, t, k) <= Q[k] + Ahead(t, t, j) + w
             /\ Q[j] + Ahead(t, t, k) <= Q[k] + Ahead(t, t, j) + (w + 1)
  <2> DEFINE pj == P[j]
             pk == P[k]
             qj == Q[j]
             qk == Q[k]
             aj == Ahead(s, r, j)
             ak == Ahead(s, r, k)
             bj == Ahead(s, t, j)
             bk == Ahead(s, t, k)
             cj == Ahead(t, t, j)
             ck == Ahead(t, t, k)
  <2>1. /\ pj \in Nat /\ pk \in Nat /\ qj \in Nat /\ qk \in Nat
        /\ j = r => qj = pj + 1
        /\ j # r => qj = pj
        /\ k = r => qk = pk + 1
        /\ k # r => qk = pk
        /\ j = k => (pj = pk /\ aj = ak /\ bj = bk)
    OBVIOUS
  <2>2. /\ aj \in 0 .. 1 /\ ak \in 0 .. 1 /\ bj \in 0 .. 1 /\ bk \in 0 .. 1 /\ cj = 0 /\ ck = 0
        /\ j = r => aj = 0
        /\ k = r => ak = 0
    BY DEF Ahead, InTurn
  <2>3. On /\ t = s => (j # r => aj = 1) /\ (k # r => ak = 1)
    BY DEF Ahead, InTurn
  <2>4. On /\ t # s => /\ (j # r => bj = aj) /\ (k # r => bk = ak)
                       /\ (j = r => bj = 1) /\ (k = r => bk = 1)
    BY DEF Ahead, InTurn
  <2>5. pj + ak <= pk + aj + w
    BY <1>1
  <2> HIDE DEF On, pj, pk, qj, qk, aj, ak, bj, bk, cj, ck
  <2>6. qj <= qk + (w + 1)
    BY <2>1, <2>2, <2>5
  <2>7. On /\ t = s => qj <= qk + w
    BY <2>1, <2>2, <2>3, <2>5
  <2>8. On /\ t # s => qj + bk <= qk + bj + w
    BY <2>1, <2>2, <2>4, <2>5
  <2>9. (qj <= qk + (w + 1) => qj + ck <= qk + cj + (w + 1)) /\ (qj <= qk + w => qj + ck <= qk + cj + w)
    BY <2>1, <2>2
  <2> QED BY <2>6, <2>7, <2>8, <2>9 DEF qj, qk, bj, bk, cj, ck
<1> HIDE DEF On
<1>3. On => Even(Q, n, w, t)
  <2>1. CASE On /\ t = s
    BY <1>2, <2>1 DEF Even
  <2>2. CASE On /\ t # s
    BY <1>2, <2>2 DEF Even
  <2> QED BY <2>1, <2>2
<1>4. Even(Q, n, w + 1, t)
  BY <1>2 DEF Even
<1> QED BY <1>3, <1>4 DEF On

LEMMA EvenAtFirst ==
  ASSUME NEW n \in Nat \ {0}, NEW r \in 0 .. n - 1, NEW w \in Nat,
         NEW P \in [0 .. n - 1 -> Nat], \A j \in 0 .. n - 1 : P[j] = 0
  PROVE  Even(P, n, w, r)
<1>1. \A j, k \in 0 .. n - 1 : P[j] + Ahead(r, r, k) <= P[k] + Ahead(r, r, j) + w
  <2>1. \A j \in 0 .. n - 1 : Ahead(r, r, j) = 0
    BY DEF Ahead, InTurn
  <2> QED BY <2>1
<1> QED BY <1>1 DEF Even

(***************************************************************************)
(* The inductive invariant                                                  *)

History == [list : Lists, picks : [Instance -> 0 .. MaxSelects], wraps : 0 .. MaxSelects]

Types ==
  /\ balancer \in Shared \cup {"consistent_hash"}
  /\ HashOK
  /\ status \in [Instance -> {"absent", "healthy", "unhealthy"}]
  /\ counter \in 0 .. CounterSize - 1
  /\ call \in [Caller -> [list : Lists \ {<<>>}, raced : BOOLEAN] \cup {None}]
  /\ drawn \in Instance \cup {"panic", None}
  /\ selects \in 0 .. MaxSelects

WindowOK ==
  /\ window \in History
  /\ \A i \in Instance : window.picks[i] <= selects
  /\ window.wraps <= selects

\* How often each place of the list was picked.
Turns(list, picks) == [j \in 0 .. Len(list) - 1 |-> picks[list[j + 1]]]

WindowIsEven ==
  window.list # <<>> =>
    Even(Turns(window.list, window.picks), Len(window.list), window.wraps,
         counter % Len(window.list))

LastOK ==
  /\ last \in [Key -> [healthy : SUBSET Instance, choice : Instance] \cup {None}]
  /\ \A k \in Key : last[k] # None => Chosen(last[k].healthy, k, last[k].choice)

IInv == Types /\ WindowOK /\ WindowIsEven /\ LastOK

\* A position has had some number of turns.
LEMMA TurnsType ==
  ASSUME NEW l \in Lists, NEW picks \in [Instance -> Nat]
  PROVE  Turns(l, picks) \in [0 .. Len(l) - 1 -> Nat]
<1>1. Len(l) \in Nat /\ \A j \in 1 .. Len(l) : l[j] \in Instance
  BY InLists, SeqIs
<1>2. \A j \in 0 .. Len(l) - 1 : picks[l[j + 1]] \in Nat
  <2>1. \A j \in 0 .. Len(l) - 1 : j + 1 \in 1 .. Len(l)
    BY <1>1
  <2> QED BY <1>1, <2>1
<1> QED BY <1>2 DEF Turns

LEMMA TurnsAre ==
  ASSUME NEW l \in Lists, l # <<>>, NEW picks \in [Instance -> Nat], NEW r \in 0 .. Len(l) - 1,
         NEW more \in [Instance -> Nat],
         \A h \in Instance : more[h] = IF h = l[r + 1] THEN picks[h] + 1 ELSE picks[h]
  PROVE  /\ Turns(l, picks) \in [0 .. Len(l) - 1 -> Nat]
         /\ Turns(l, more) \in [0 .. Len(l) - 1 -> Nat]
         /\ \A j \in 0 .. Len(l) - 1 :
              Turns(l, more)[j] = IF j = r THEN Turns(l, picks)[j] + 1 ELSE Turns(l, picks)[j]
<1> DEFINE N == Len(l)
<1>1. /\ N \in Nat
      /\ \A j \in 1 .. N : l[j] \in Instance
      /\ \A j, k \in 1 .. N : l[j] = l[k] => j = k
  <2>1. IsListOf(l, Range(l)) /\ Range(l) \in SUBSET Instance /\ l \in Seq(Instance)
    BY InLists
  <2>2. \A j, k \in 1 .. Len(l) : l[j] = l[k] => j = k
    <3> DEFINE S == Range(l)
    <3>1. S \in SUBSET Instance /\ IsListOf(l, S)
      BY <2>1
    <3> HIDE DEF S
    <3>2. \A j, k \in 1 .. Len(l) : (j < k => Pos(l[j]) < Pos(l[k])) /\ (l[j] = l[k] => j = k)
      BY <3>1, ListIs
    <3> QED BY <3>2
  <2>3. Len(l) \in Nat /\ \A j \in 1 .. Len(l) : l[j] \in Instance
    BY <2>1, SeqIs
  <2> QED BY <2>2, <2>3
<1>2. \A j \in 0 .. N - 1 : j + 1 \in 1 .. N
  BY <1>1
<1>3. \A j \in 0 .. N - 1 : l[j + 1] \in Instance /\ (l[j + 1] = l[r + 1] => j = r)
  <2>1. \A j \in 0 .. N - 1 : j + 1 = r + 1 => j = r
    OBVIOUS
  <2> QED BY <1>1, <1>2, <2>1
<1>4. \A j \in 0 .. N - 1 :
        more[l[j + 1]] = IF j = r THEN picks[l[j + 1]] + 1 ELSE picks[l[j + 1]]
  BY <1>3
<1> HIDE DEF N
<1>5. Turns(l, picks) = [j \in 0 .. N - 1 |-> picks[l[j + 1]]]
      /\ Turns(l, more) = [j \in 0 .. N - 1 |-> more[l[j + 1]]]
  BY DEF Turns, N
<1>6. /\ Turns(l, picks) \in [0 .. N - 1 -> Nat] /\ Turns(l, more) \in [0 .. N - 1 -> Nat]
      /\ \A j \in 0 .. N - 1 : Turns(l, picks)[j] = picks[l[j + 1]] /\ Turns(l, more)[j] = more[l[j + 1]]
  <2>1. \A j \in 0 .. N - 1 : picks[l[j + 1]] \in Nat /\ more[l[j + 1]] \in Nat
    BY <1>3
  <2> QED BY <1>5, <2>1
<1> QED BY <1>4, <1>6 DEF N

LEMMA NoTurns ==
  ASSUME NEW l \in Lists, l # <<>>, NEW picks, picks = [i \in Instance |-> 0]
  PROVE  /\ Turns(l, picks) \in [0 .. Len(l) - 1 -> Nat]
         /\ \A j \in 0 .. Len(l) - 1 : Turns(l, picks)[j] = 0
<1> DEFINE N == Len(l)
<1>1. N \in Nat /\ \A j \in 1 .. N : l[j] \in Instance
  <2>1. l \in Seq(Instance)
    BY InLists
  <2> QED BY <2>1, SeqIs
<1>2. \A j \in 0 .. N - 1 : picks[l[j + 1]] = 0
  <2>1. \A j \in 0 .. N - 1 : j + 1 \in 1 .. N
    BY <1>1
  <2> QED BY <1>1, <2>1
<1>3. Turns(l, picks) = [j \in 0 .. N - 1 |-> picks[l[j + 1]]]
  BY DEF Turns
<1> HIDE DEF N
<1>4. /\ Turns(l, picks) \in [0 .. N - 1 -> Nat]
      /\ \A j \in 0 .. N - 1 : Turns(l, picks)[j] = 0
  <2>1. \A j \in 0 .. N - 1 : picks[l[j + 1]] \in Nat
    BY <1>2
  <2> QED BY <1>2, <1>3, <2>1
<1> QED BY <1>4 DEF N

LEMMA PickedIs ==
  ASSUME window \in History, NEW list \in Lists, NEW i \in Instance, NEW wrap \in BOOLEAN,
         NEW p, p = IF window.list = list THEN window.picks ELSE [h \in Instance |-> 0],
         NEW w, w = IF window.list = list THEN window.wraps ELSE 0
  PROVE  /\ p \in [Instance -> 0 .. MaxSelects] /\ w \in 0 .. MaxSelects
         /\ Picked(list, i, wrap) = [list |-> list, picks |-> [p EXCEPT ![i] = @ + 1],
                                     wraps |-> IF wrap THEN w + 1 ELSE w]
<1> DEFINE v == IF window.list = list THEN window ELSE [NoWindow EXCEPT !.list = list]
<1>1. MaxSelects \in Nat /\ 0 \in 0 .. MaxSelects
  BY SizesAre
<1>2. p \in [Instance -> 0 .. MaxSelects] /\ w \in 0 .. MaxSelects
  BY <1>1 DEF History
<1>3. v = [list |-> list, picks |-> p, wraps |-> w]
  <2>1. CASE window.list = list
    <3>1. window = [list |-> window.list, picks |-> window.picks, wraps |-> window.wraps]
      BY DEF History
    <3> QED BY <2>1, <3>1
  <2>2. CASE window.list # list
    BY <2>2 DEF NoWindow
  <2> QED BY <2>1, <2>2
<1>4. Picked(list, i, wrap)
        = [v EXCEPT !.picks[i] = @ + 1, !.wraps = IF wrap THEN @ + 1 ELSE @]
  BY DEF Picked
<1> HIDE DEF v
<1> QED BY <1>2, <1>3, <1>4

\* Choices depend on the hash function only.
LEMMA ChoicesStay ==
  ASSUME hash' = hash, LastOK, last' = last
  PROVE  LastOK'
<1>1. \A S, k, c : Chosen(S, k, c) => Chosen(S, k, c)'
  BY DEF Chosen, Nearest, PointsOf, At
<1> QED BY <1>1 DEF LastOK

LEMMA InitIsOK == Init => IInv
<1> SUFFICES ASSUME Init PROVE IInv
  OBVIOUS
<1>1. Types
  <2>1. balancer \in Shared \cup {"consistent_hash"}
    BY DEF Init, Algorithm, Create, Shared
  <2>2. HashOK
    <3>1. [VirtualKey \cup Key -> {0}] \subseteq [VirtualKey \cup Key -> 0 .. RingSize - 1]
      BY SizesAre
    <3> QED BY <3>1 DEF Init, HashOK
  <2> QED BY <2>1, <2>2, SizesAre DEF Init, Types
<1>2. WindowOK
  <2>1. window = [list |-> <<>>, picks |-> [i \in Instance |-> 0], wraps |-> 0] /\ selects = 0
    BY DEF Init, NoWindow
  <2>2. <<>> \in Lists /\ 0 \in 0 .. MaxSelects
    BY NoList, SizesAre
  <2> QED BY <2>1, <2>2 DEF WindowOK, History
<1>3. WindowIsEven
  BY DEF Init, NoWindow, WindowIsEven
<1>4. LastOK
  BY DEF Init, LastOK
<1> QED BY <1>1, <1>2, <1>3, <1>4 DEF IInv

LEMMA BeginKeeps == ASSUME IInv, NEW c \in Caller, Begin(c) PROVE IInv'
<1> DEFINE drawing == {d \in Caller : call[d] # None}
           Call == [list : Lists \ {<<>>}, raced : BOOLEAN]
<1>1. call' \in [Caller -> Call \cup {None}]
  <2>1. FilterHealthy \in Lists \ {<<>>}
    BY HealthyIs DEF Begin
  <2>2. /\ call' = [d \in Caller |->
             IF d = c THEN [list |-> FilterHealthy, raced |-> drawing # {}]
             ELSE IF d \in drawing THEN [call[d] EXCEPT !.raced = TRUE] ELSE None]
    BY DEF Begin
  <2>3. \A d \in drawing : call[d] \in Call
    BY DEF IInv, Types
  <2>4. \A d \in drawing : [call[d] EXCEPT !.raced = TRUE] \in Call
    BY <2>3
  <2>5. [list |-> FilterHealthy, raced |-> drawing # {}] \in Call
    BY <2>1
  <2> HIDE DEF drawing, Call
  <2> QED BY <2>2, <2>4, <2>5
<1>2. Types'
  BY <1>1 DEF IInv, Types, HashOK, Begin, VirtualKey
<1>3. WindowOK' /\ WindowIsEven'
  BY DEF IInv, WindowOK, WindowIsEven, Begin
<1>4. LastOK'
  BY ChoicesStay DEF IInv, Begin
<1> QED BY <1>2, <1>3, <1>4 DEF IInv

LEMMA TurnKeeps == ASSUME IInv, NEW c \in Caller, SelectByTurns(c) PROVE IInv'
<1> DEFINE l == call[c].list
           n == Len(l)
           r == counter % n
           t == counter' % n
           i == l[r + 1]
           wrap == counter = CounterSize - 1
           p == IF window.list = l THEN window.picks ELSE [h \in Instance |-> 0]
           w == IF window.list = l THEN window.wraps ELSE 0
           q == [p EXCEPT ![i] = @ + 1]
<1>1. l \in Lists /\ l # <<>>
  BY DEF IInv, Types, SelectByTurns
<1>2. n \in Nat \ {0} /\ l \in Seq(Instance)
  BY <1>1, InLists
<1>3. /\ counter \in Nat /\ CounterSize \in Nat \ {0} /\ counter < CounterSize
      /\ counter' = (counter + 1) % CounterSize
  BY SizesAre DEF IInv, Types, SelectByTurns
<1>4. /\ counter' \in 0 .. CounterSize - 1
      /\ counter' = IF wrap THEN 0 ELSE counter + 1
  <2>1. CASE counter = CounterSize - 1
    <3>1. counter' = CounterSize % CounterSize
      BY <1>3, <2>1
    <3>2. CounterSize % CounterSize = 0
      BY <1>3
    <3> QED BY <1>3, <2>1, <3>1, <3>2
  <2>2. CASE counter # CounterSize - 1
    <3>1. counter + 1 \in 0 .. CounterSize - 1
      BY <1>3, <2>2
    <3>2. (counter + 1) % CounterSize = counter + 1
      BY <1>3, <3>1
    <3> QED BY <1>3, <2>2, <3>1, <3>2
  <2> QED BY <2>1, <2>2
<1>5. /\ r \in 0 .. n - 1 /\ t \in 0 .. n - 1
      /\ ~wrap => t = IF r = n - 1 THEN 0 ELSE r + 1
  <2> HIDE DEF n
  <2>1. counter' \in Nat
    BY <1>3, <1>4
  <2>2. (counter % n) \in 0 .. n - 1 /\ (counter' % n) \in 0 .. n - 1
    BY <1>2, <1>3, <2>1, Remainder
  <2>3. ((counter + 1) % n) = IF (counter % n) = n - 1 THEN 0 ELSE (counter % n) + 1
    BY <1>2, <1>3, Remainder
  <2>4. ~wrap => (counter' % n) = ((counter + 1) % n)
    BY <1>4
  <2> HIDE DEF wrap
  <2> QED BY <2>2, <2>3, <2>4
<1>6. i \in Instance
  <2> HIDE DEF l, r
  <2>1. r + 1 \in 1 .. n
    BY <1>2, <1>5
  <2> QED BY <1>2, <2>1, SeqIs
<1>7. window \in History /\ wrap \in BOOLEAN /\ MaxSelects \in Nat
      /\ selects \in 0 .. MaxSelects /\ selects' = selects + 1 /\ selects < MaxSelects
  BY SizesAre DEF IInv, WindowOK, Types, SelectByTurns
<1>8. /\ p \in [Instance -> 0 .. MaxSelects] /\ w \in 0 .. MaxSelects
      /\ window' = [list |-> l, picks |-> q, wraps |-> IF wrap THEN w + 1 ELSE w]
  <2>1. window' = Picked(l, i, wrap)
    BY DEF SelectByTurns, Pick
  <2> HIDE DEF l, i, wrap
  <2> QED BY <1>1, <1>6, <1>7, <2>1, PickedIs
<1>9. (\A h \in Instance : p[h] <= selects) /\ w <= selects
  BY <1>7 DEF IInv, WindowOK
<1>10. Types'
  <2>1. call' \in [Caller -> [list : Lists \ {<<>>}, raced : BOOLEAN] \cup {None}]
    BY DEF IInv, Types, SelectByTurns
  <2>2. selects' \in 0 .. MaxSelects
    BY <1>7
  <2> QED BY <1>4, <2>1, <2>2 DEF IInv, Types, HashOK, SelectByTurns, VirtualKey
<1> HIDE DEF l, n, r, t, i, wrap, p, w
<1>11. /\ q \in [Instance -> 0 .. MaxSelects]
       /\ \A h \in Instance : q[h] <= selects'
       /\ (IF wrap THEN w + 1 ELSE w) \in 0 .. MaxSelects
       /\ (IF wrap THEN w + 1 ELSE w) <= selects'
  <2>1. \A h \in Instance : p[h] \in Nat /\ p[h] <= selects
    BY <1>8, <1>9
  <2>2. \A h \in Instance : q[h] = IF h = i THEN p[h] + 1 ELSE p[h]
    BY <1>8
  <2>3. \A h \in Instance : q[h] \in 0 .. MaxSelects /\ q[h] <= selects'
    BY <1>7, <2>1, <2>2
  <2>4. q \in [Instance -> 0 .. MaxSelects]
    BY <1>8, <2>3
  <2> QED BY <1>7, <1>8, <1>9, <2>3, <2>4
<1> HIDE DEF q
<1>12. WindowOK'
  <2>1. window'.picks = q /\ window'.wraps = (IF wrap THEN w + 1 ELSE w)
    BY <1>8
  <2>2. window' \in History
    BY <1>1, <1>8, <1>11 DEF History
  <2> QED BY <1>11, <2>1, <2>2 DEF WindowOK
<1> DEFINE P == Turns(l, p)
           Q == Turns(l, q)
<1>13. /\ P \in [0 .. n - 1 -> Nat] /\ Q \in [0 .. n - 1 -> Nat]
       /\ \A j \in 0 .. n - 1 : Q[j] = IF j = r THEN P[j] + 1 ELSE P[j]
  <2>1. p \in [Instance -> Nat]
    BY <1>7, <1>8
  <2>2. /\ q \in [Instance -> Nat]
        /\ \A h \in Instance : q[h] = IF h = l[r + 1] THEN p[h] + 1 ELSE p[h]
    <3>1. \A h \in Instance : q[h] = IF h = i THEN p[h] + 1 ELSE p[h]
      BY <1>8 DEF q
    <3> QED BY <1>7, <1>11, <3>1 DEF i
  <2>3. r \in 0 .. Len(l) - 1
    BY <1>5 DEF n
  <2> HIDE DEF P, Q
  <2>4. /\ Turns(l, p) \in [0 .. Len(l) - 1 -> Nat]
        /\ Turns(l, q) \in [0 .. Len(l) - 1 -> Nat]
        /\ \A j \in 0 .. Len(l) - 1 :
             Turns(l, q)[j] = IF j = r THEN Turns(l, p)[j] + 1 ELSE Turns(l, p)[j]
    <3>1. /\ Turns(l, p) \in [0 .. Len(l) - 1 -> Nat]
          /\ Turns(l, q) \in [0 .. Len(l) - 1 -> Nat]
      BY <1>1, <2>1, <2>2, TurnsType
    <3>2. \A j \in 0 .. Len(l) - 1 :
            Turns(l, q)[j] = IF j = r THEN Turns(l, p)[j] + 1 ELSE Turns(l, p)[j]
      BY <1>1, <2>1, <2>2, <2>3, TurnsAre
    <3> QED BY <3>1, <3>2
  <2> QED BY <2>4 DEF n, P, Q
<1>14. w \in Nat /\ Even(P, n, w, r)
  <2>1. w \in Nat
    BY <1>7, <1>8
  <2>2. CASE window.list = l
    <3>1. p = window.picks /\ w = window.wraps
      BY <2>2 DEF p, w
    <3>2. Even(Turns(window.list, window.picks), Len(window.list), window.wraps,
               counter % Len(window.list))
      BY <1>1, <2>2 DEF IInv, WindowIsEven
    <3> QED BY <2>1, <2>2, <3>1, <3>2 DEF n, r
  <2>3. CASE window.list # l
    <3>1. p = [h \in Instance |-> 0]
      BY <2>3 DEF p
    <3>2. \A j \in 0 .. Len(l) - 1 : P[j] = 0
      BY <1>1, <3>1, NoTurns
    <3>3. \A j \in 0 .. n - 1 : P[j] = 0
      BY <3>2 DEF n
    <3> HIDE DEF P
    <3> QED BY <1>2, <1>5, <1>13, <2>1, <3>3, EvenAtFirst
  <2> QED BY <2>2, <2>3
<1>15. Even(Q, n, IF wrap THEN w + 1 ELSE w, t)
  <2> HIDE DEF P, Q
  <2>1. /\ (t = IF r = n - 1 THEN 0 ELSE r + 1) => Even(Q, n, w, t)
        /\ Even(Q, n, w + 1, t)
    BY <1>2, <1>5, <1>13, <1>14, EvenTurn
  <2> QED BY <1>5, <2>1
<1>16. WindowIsEven'
  <2>1. window'.list = l /\ window'.picks = q /\ window'.wraps = (IF wrap THEN w + 1 ELSE w)
    BY <1>8
  <2>2. Even(Turns(l, q), Len(l), IF wrap THEN w + 1 ELSE w, counter' % Len(l))
    BY <1>15 DEF n, t
  <2>3. Even(Turns(window'.list, window'.picks), Len(window'.list), window'.wraps,
             counter' % Len(window'.list))
    BY <2>1, <2>2
  <2>4. WindowIsEven' <=> (window'.list # <<>> =>
          Even(Turns(window'.list, window'.picks), Len(window'.list), window'.wraps,
               counter' % Len(window'.list)))
    BY DEF WindowIsEven, Even, Turns
  <2> QED BY <2>3, <2>4
<1>17. LastOK'
  BY ChoicesStay DEF IInv, SelectByTurns
<1> QED BY <1>10, <1>12, <1>16, <1>17 DEF IInv

LEMMA ChanceKeeps == ASSUME IInv, NEW c \in Caller, SelectByChance(c) PROVE IInv'
<1> DEFINE l == call[c].list
<1>1. l \in Lists
  BY DEF IInv, Types, SelectByChance
<1>2. l \in Seq(Instance) /\ Range(l) \in SUBSET Instance
  BY <1>1, InLists
<1>3. Answers(l) \subseteq Instance
  <2>1. ASSUME NEW r \in 0 .. Total(l) - 1 PROVE WeightedPick(l, r) \in Instance
    <3> HIDE DEF l
    <3>1. PICK n \in 1 .. Len(l) : WeightedPick(l, r) = l[n]
      BY <1>2, PickIs
    <3> QED BY <1>2, <3>1, SeqIs
  <2> QED BY <1>2, <2>1 DEF Answers
<1>4. drawn' \in Instance \cup {"panic", None}
  <2>1. drawn' \in Answers(l) \cup (IF call[c].raced THEN {"panic"} ELSE {})
    BY DEF SelectByChance
  <2> HIDE DEF l
  <2> QED BY <1>3, <2>1
<1>5. call' \in [Caller -> [list : Lists \ {<<>>}, raced : BOOLEAN] \cup {None}]
  BY DEF IInv, Types, SelectByChance
<1>6. Types'
  BY <1>4, <1>5 DEF IInv, Types, HashOK, SelectByChance, VirtualKey
<1>7. WindowOK' /\ WindowIsEven'
  BY DEF IInv, WindowOK, WindowIsEven, SelectByChance
<1>8. LastOK'
  BY ChoicesStay DEF IInv, SelectByChance
<1> QED BY <1>6, <1>7, <1>8 DEF IInv

LEMMA KeyChosen ==
  ASSUME IInv, NEW key \in Key, SelectByKey(key)
  PROVE  /\ last' = [last EXCEPT ![key] =
              [healthy |-> Range(FilterHealthy), choice |-> OnRing(FilterHealthy, key)]]
         /\ Range(FilterHealthy) \in SUBSET Instance
         /\ OnRing(FilterHealthy, key) \in Instance
         /\ Chosen(Range(FilterHealthy), key, OnRing(FilterHealthy, key))
<1> DEFINE l == FilterHealthy
           S == Range(l)
<1>1. l \in Lists /\ l # <<>>
  BY HealthyIs DEF SelectByKey
<1>2. IsListOf(l, S) /\ S \in SUBSET Instance
  BY <1>1, InLists
<1>3. S # {}
  <2> HIDE DEF S, l
  <2> QED BY <1>1, <1>2, ListIs
<1>4. HashOK
  BY DEF IInv, Types
<1>5. Chosen(S, key, OnRing(l, key))
  <2> HIDE DEF S, l
  <2> QED BY <1>2, <1>3, <1>4, RingIs
<1>6. OnRing(l, key) \in S
  <2> HIDE DEF S, l
  <2> QED BY <1>5 DEF Chosen
<1> QED BY <1>2, <1>5, <1>6 DEF SelectByKey

LEMMA KeyKeeps == ASSUME IInv, NEW key \in Key, SelectByKey(key) PROVE IInv'
<1> DEFINE S == Range(FilterHealthy)
           c == OnRing(FilterHealthy, key)
           e == [healthy |-> S, choice |-> c]
<1>1. last' = [last EXCEPT ![key] = e]
  BY KeyChosen
<1>2. S \in SUBSET Instance /\ c \in Instance /\ Chosen(S, key, c)
  BY KeyChosen
<1>3. Types'
  BY DEF IInv, Types, HashOK, SelectByKey, VirtualKey
<1>4. WindowOK' /\ WindowIsEven'
  BY DEF IInv, WindowOK, WindowIsEven, SelectByKey
<1> HIDE DEF S, c
<1>5. LastOK'
  <2> DEFINE Entry == [healthy : SUBSET Instance, choice : Instance]
  <2>1. last \in [Key -> Entry \cup {None}]
        /\ \A k \in Key : last[k] # None => Chosen(last[k].healthy, k, last[k].choice)
    BY DEF IInv, LastOK
  <2>2. e \in Entry /\ e.healthy = S /\ e.choice = c
    BY <1>2
  <2> HIDE DEF e, Entry
  <2>3. last' \in [Key -> Entry \cup {None}]
    BY <1>1, <2>1, <2>2
  <2>4. \A k \in Key : last'[k] = IF k = key THEN e ELSE last[k]
    BY <1>1, <2>1
  <2>5. ASSUME NEW k \in Key, last'[k] # None PROVE Chosen(last'[k].healthy, k, last'[k].choice)
    <3>1. CASE k = key
      BY <1>2, <2>2, <2>4, <3>1
    <3>2. CASE k # key
      BY <2>1, <2>4, <2>5, <3>2
    <3> QED BY <3>1, <3>2
  <2>6. hash' = hash
    BY DEF SelectByKey
  <2>7. \A T, k, d : Chosen(T, k, d) => Chosen(T, k, d)'
    BY <2>6 DEF Chosen, Nearest, PointsOf, At
  <2>8. ASSUME NEW k \in Key, last'[k] # None PROVE Chosen(last[k].healthy, k, last[k].choice)'
    BY <2>5, <2>7, <2>8
  <2> QED BY <2>3, <2>8 DEF LastOK, Entry
<1> QED BY <1>3, <1>4, <1>5 DEF IInv

LEMMA Invariance == Spec => []IInv
<1>1. IInv /\ [Next]_vars => IInv'
  <2> SUFFICES ASSUME IInv, [Next]_vars PROVE IInv'
    OBVIOUS
  <2>1. CASE ListChanges
    <3>1. Types'
      BY <2>1 DEF IInv, Types, HashOK, ListChanges, VirtualKey
    <3>2. WindowOK' /\ WindowIsEven'
      BY <2>1 DEF IInv, WindowOK, WindowIsEven, ListChanges
    <3>3. LastOK'
      BY <2>1, ChoicesStay DEF IInv, ListChanges
    <3> QED BY <3>1, <3>2, <3>3 DEF IInv
  <2>2. ASSUME NEW c \in Caller, Begin(c) PROVE IInv'
    BY <2>2, BeginKeeps
  <2>3. ASSUME NEW c \in Caller, SelectByTurns(c) PROVE IInv'
    BY <2>3, TurnKeeps
  <2>4. ASSUME NEW c \in Caller, SelectByChance(c) PROVE IInv'
    BY <2>4, ChanceKeeps
  <2>5. ASSUME NEW key \in Key, SelectByKey(key) PROVE IInv'
    BY <2>5, KeyKeeps
  <2>6. CASE UNCHANGED vars
    <3>1. Types' /\ WindowOK' /\ WindowIsEven'
      BY <2>6 DEF IInv, Types, HashOK, WindowOK, WindowIsEven, vars, VirtualKey
    <3>2. LastOK'
      BY <2>6, ChoicesStay DEF IInv, vars
    <3> QED BY <3>1, <3>2 DEF IInv
  <2> QED BY <2>1, <2>2, <2>3, <2>4, <2>5, <2>6 DEF Next
<1> QED BY <1>1, InitIsOK, PTL DEF Spec

(***************************************************************************)
(* What the balancers promise                                               *)

\* The state is of the types that the code declares; the counter stays within
\* its width, and who is chosen was healthy.
THEOREM BalancerTypeCorrect == Spec => []TypeOK
<1>1. IInv => TypeOK
  <2> SUFFICES ASSUME IInv PROVE TypeOK
    OBVIOUS
  <2>1. \A c \in Caller :
          call[c] = None \/ (call[c].list \in Lists \ {<<>>} /\ call[c].raced \in BOOLEAN)
    BY DEF IInv, Types
  <2>2. /\ window.list \in Lists
        /\ window.picks \in [Instance -> 0 .. MaxSelects] /\ window.wraps \in 0 .. MaxSelects
    BY DEF IInv, WindowOK, History
  <2>3. \A k \in Key :
          last[k] = None \/ (last[k].healthy \subseteq Instance /\ last[k].choice \in last[k].healthy)
    BY DEF IInv, LastOK, Chosen
  <2> QED BY <2>1, <2>2, <2>3 DEF IInv, Types, HashOK, TypeOK
<1> QED BY <1>1, Invariance, PTL

\* Turns are shared evenly: over selections with one list no instance is picked
\* twice more than another, and each overflow of the counter adds one at most;
\* whatever the number of instances, callers, and the counter's size are.
THEOREM RoundsAreShared == Spec => []RoundsAreFair
<1>1. IInv => RoundsAreFair
  <2> SUFFICES ASSUME IInv, NEW a \in Range(window.list), NEW b \in Range(window.list)
               PROVE  window.picks[a] <= window.picks[b] + 1 + window.wraps
    BY DEF RoundsAreFair
  <2> DEFINE l == window.list
             n == Len(l)
             r == counter % n
             P == Turns(l, window.picks)
             w == window.wraps
  <2>1. l \in Lists /\ window.picks \in [Instance -> 0 .. MaxSelects] /\ w \in 0 .. MaxSelects
    BY DEF IInv, WindowOK, History
  <2>2. MaxSelects \in Nat
    BY SizesAre
  <2>3. l \in Seq(Instance) /\ n \in Nat /\ Range(l) = {l[j] : j \in 1 .. n}
    BY <2>1, InLists, SeqIs
  <2>4. PICK x, y \in 1 .. n : l[x] = a /\ l[y] = b
    BY <2>3
  <2>5. l # <<>>
    BY <2>3, <2>4, SeqIs
  <2>6. PICK s \in 0 .. n - 1 : \A j, k \in 0 .. n - 1 :
          P[j] + Ahead(s, r, k) <= P[k] + Ahead(s, r, j) + w
    BY <2>5 DEF IInv, WindowIsEven, Even
  <2> DEFINE j == x - 1
             k == y - 1
  <2>7. j \in 0 .. n - 1 /\ k \in 0 .. n - 1 /\ j + 1 = x /\ k + 1 = y
    BY <2>3
  <2>8. P[j] = window.picks[a] /\ P[k] = window.picks[b]
    BY <2>4, <2>7 DEF Turns
  <2>9. P[j] + Ahead(s, r, k) <= P[k] + Ahead(s, r, j) + w
    BY <2>6, <2>7
  <2>10. a \in Instance /\ b \in Instance
    BY <2>3, <2>4, SeqIs
  <2>11. window.picks[a] \in Nat /\ window.picks[b] \in Nat /\ w \in Nat
    BY <2>1, <2>2, <2>10
  <2>12. Ahead(s, r, k) \in 0 .. 1 /\ Ahead(s, r, j) \in 0 .. 1
    BY DEF Ahead
  <2> DEFINE pa == window.picks[a]
             pb == window.picks[b]
             ak == Ahead(s, r, k)
             aj == Ahead(s, r, j)
  <2>13. pa + ak <= pb + aj + w /\ pa \in Nat /\ pb \in Nat /\ ak \in 0 .. 1 /\ aj \in 0 .. 1 /\ w \in Nat
    BY <2>8, <2>9, <2>11, <2>12
  <2> HIDE DEF pa, pb, ak, aj, w
  <2>14. pa <= pb + 1 + w
    BY <2>13
  <2> QED BY <2>14 DEF pa, pb, w
<1> QED BY <1>1, Invariance, PTL

\* The weighted balancer gives each instance of a list exactly its weight's share
\* of the numbers it may draw, for all weights, those that are not positive
\* included.
THEOREM SharesAreAsWeights == Spec => []SharesAreExact
<1>1. IInv => SharesAreExact
  <2> SUFFICES ASSUME IInv, NEW c \in Caller, call[c] # None, NEW i \in Range(call[c].list)
               PROVE  Cardinality({r \in 0 .. Total(call[c].list) - 1 :
                                     WeightedPick(call[c].list, r) = i}) = Effective(i)
    BY DEF SharesAreExact
  <2> DEFINE l == call[c].list
             S == Range(l)
  <2>1. l \in Lists
    BY DEF IInv, Types
  <2>2. IsListOf(l, S) /\ S \in SUBSET Instance /\ i \in S
    BY <2>1, InLists
  <2> HIDE DEF l, S
  <2>3. Cardinality({r \in 0 .. Total(l) - 1 : WeightedPick(l, r) = i}) = Effective(i)
    BY <2>2, ShareIs
  <2> QED BY <2>3 DEF l
<1> QED BY <1>1, Invariance, PTL

\* A key keeps its instance while that one is healthy, unless a new one takes the
\* key: for every hash function, with as many collisions as it likes.
THEOREM KeysKeepTheirChoice == Spec => KeysStick
<1> DEFINE Stick(k) ==
      last[k] # None =>
        \/ last'[k].choice = last[k].choice
        \/ last[k].choice \notin last'[k].healthy
        \/ last'[k].choice \notin last[k].healthy
<1>1. IInv /\ [Next]_vars => \A k \in Key : Stick(k)
  <2> SUFFICES ASSUME IInv, [Next]_vars, NEW k \in Key, last[k] # None
               PROVE  \/ last'[k].choice = last[k].choice
                      \/ last[k].choice \notin last'[k].healthy
                      \/ last'[k].choice \notin last[k].healthy
    OBVIOUS
  <2>1. CASE last' = last
    BY <2>1
  <2>2. ASSUME NEW key \in Key, SelectByKey(key)
        PROVE  \/ last'[k].choice = last[k].choice
               \/ last[k].choice \notin last'[k].healthy
               \/ last'[k].choice \notin last[k].healthy
    <3> DEFINE S == Range(FilterHealthy)
               c == OnRing(FilterHealthy, key)
    <3>1. /\ last' = [last EXCEPT ![key] = [healthy |-> S, choice |-> c]]
          /\ S \in SUBSET Instance /\ Chosen(S, key, c)
      BY <2>2, KeyChosen
    <3>2. /\ DOMAIN last = Key /\ last[k].healthy \in SUBSET Instance
          /\ Chosen(last[k].healthy, k, last[k].choice) /\ HashOK
      BY DEF IInv, LastOK, Types
    <3> HIDE DEF S, c
    <3>3. CASE k # key
      BY <3>1, <3>2, <3>3
    <3>4. CASE k = key
      <4>1. last'[k].choice = c /\ last'[k].healthy = S
        BY <3>1, <3>2, <3>4
      <4>2. last[k].choice \in S /\ c \in last[k].healthy => c = last[k].choice
        BY <3>1, <3>2, <3>4, ChoicesStick
      <4> QED BY <4>1, <4>2
    <3> QED BY <3>3, <3>4
  <2>3. \/ last' = last
        \/ \E key \in Key : SelectByKey(key)
    BY DEF Next, ListChanges, Begin, SelectByTurns, SelectByChance, vars
  <2> QED BY <2>1, <2>2, <2>3
<1> QED BY <1>1, Invariance, PTL DEF Spec, KeysStick
=============================================================================
