---------------------------- MODULE NumberProofs ----------------------------
(***************************************************************************)
(* Facts about natural numbers and about lists that several proofs need.   *)
(***************************************************************************)
EXTENDS Lists, FiniteSetsExt, SequencesExt, SequenceTheorems, WellFoundedInduction, TLAPS

LEMMA LeastExists ==
  ASSUME NEW T \in SUBSET Nat, T # {}
  PROVE  \E x \in T : \A y \in T : x <= y
<1>1. IsWellFoundedOn(OpToRel(<, Nat), Nat)
  BY NatLessThanWellFounded
<1>2. PICK x \in T : \A y \in T : <<y, x>> \notin OpToRel(<, Nat)
  BY <1>1, WFMin
<1>3. \A y \in T : ~(y < x)
  BY <1>2 DEF OpToRel
<1>4. x \in Nat /\ \A y \in T : y \in Nat
  BY <1>2
<1>5. QED
  BY <1>3, <1>4

\* Induction over the numbers up to n, for a property given as a set.
LEMMA UpTo ==
  ASSUME NEW n \in Nat, NEW P, 0 \in P, \A i \in 0 .. (n - 1) : i \in P => i + 1 \in P
  PROVE  \A i \in 0 .. n : i \in P
<1>1. SUFFICES ASSUME NEW z \in 0 .. n, z \notin P PROVE FALSE
  OBVIOUS
<1>2. PICK T : T = {i \in 0 .. n : i \notin P}
  OBVIOUS
<1>3. T \in SUBSET Nat /\ T # {}
  BY <1>1, <1>2
<1>4. PICK x \in T : \A y \in T : x <= y
  BY <1>3, LeastExists
<1>5. x \in 0 .. n /\ x \notin P
  BY <1>2, <1>4
<1>6. x # 0 /\ x - 1 \in 0 .. (n - 1) /\ x - 1 \in 0 .. n
  BY <1>5
<1>7. x - 1 \notin T
  BY <1>3, <1>4, <1>6
<1>8. x - 1 \in P
  BY <1>2, <1>6, <1>7
<1>9. QED
  BY <1>5, <1>6, <1>8

\* Max of a bounded set is its greatest member, and the only one.
LEMMA MaxProperty ==
  ASSUME NEW n \in Nat, NEW S \in SUBSET (0..n), S # {}
  PROVE  /\ Max(S) \in S /\ \A x \in S : x <= Max(S)
         /\ \A m \in S : (\A x \in S : x <= m) => Max(S) = m
<1> DEFINE T == {n - x : x \in S}
<1>1. T \in SUBSET Nat /\ T # {}
  <2>1. \A x \in S : n - x \in Nat
    OBVIOUS
  <2>2. QED
    BY <2>1
<1>2. PICK y \in T : \A z \in T : y <= z
  BY <1>1, LeastExists
<1>3. PICK m \in S : y = n - m
  BY <1>2
<1>4. \A x \in S : x <= m
  BY <1>2, <1>3
<1>5. \E x \in S : \A z \in S : x >= z
  BY <1>4
<1>6. Max(S) \in S /\ \A x \in S : x <= Max(S)
  BY <1>5 DEF Max
<1>7. ASSUME NEW q \in S, \A x \in S : x <= q PROVE Max(S) = q
  <2>1. q <= Max(S) /\ Max(S) <= q /\ Max(S) \in S
    BY <1>6, <1>7
  <2>2. \A x \in S : x \in Int
    OBVIOUS
  <2>3. q \in Int /\ Max(S) \in Int
    BY <1>7, <2>1, <2>2
  <2> HIDE DEF T
  <2>4. QED
    BY <2>1, <2>3
<1>8. QED
  BY <1>6, <1>7

\* Min of numbers is the least of them.
LEMMA MinProperty ==
  ASSUME NEW S \in SUBSET Nat, S # {}
  PROVE  Min(S) \in S /\ \A x \in S : Min(S) <= x
BY LeastExists DEF Min

\* Induction from n to b, for a property given as a set.
LEMMA FromTo ==
  ASSUME NEW n \in Nat, NEW b \in Nat, n <= b, NEW P, n \in P,
         \A i \in n .. (b - 1) : i \in P => i + 1 \in P
  PROVE  \A i \in n .. b : i \in P
<1>1. PICK Q : Q = {j \in 0 .. (b - n) : n + j \in P}
  OBVIOUS
<1>2. b - n \in Nat /\ 0 \in Q
  BY <1>1
<1>3. ASSUME NEW j \in 0 .. ((b - n) - 1), j \in Q PROVE j + 1 \in Q
  <2>1. n + j \in n .. (b - 1) /\ n + j \in P /\ j + 1 \in 0 .. (b - n) /\ (n + j) + 1 = n + (j + 1)
    BY <1>1, <1>3
  <2>2. n + (j + 1) \in P
    BY <2>1
  <2>3. QED
    BY <1>1, <2>1, <2>2
<1>4. \A j \in 0 .. (b - n) : j \in Q
  BY <1>2, <1>3, UpTo
<1>5. ASSUME NEW i \in n .. b PROVE i \in P
  <2>1. i - n \in 0 .. (b - n) /\ n + (i - n) = i
    OBVIOUS
  <2>2. QED
    BY <1>1, <1>4, <2>1
<1>6. QED
  BY <1>5

\* f begins with base at n, and goes on to b by step.
Solves(f, n, b, V, base, step) ==
  /\ f \in [n .. b -> V] /\ f[n] = base
  /\ \A i \in (n + 1) .. b : f[i] = step[<<i, f[i - 1]>>]

\* A recursion over n .. b whose steps stay in V has a solution there.
LEMMA Recursion ==
  ASSUME NEW n \in Nat, NEW b \in Nat, n <= b, NEW V, NEW base \in V,
         NEW step, step \in [((n + 1) .. b) \X V -> V]
  PROVE  \E f : Solves(f, n, b, V, base, step)
<1> DEFINE Solved == {m \in Nat : \E f : Solves(f, n, m, V, base, step)}
<1> USE DEF Solves
<1>1. n \in Solved
  <2> DEFINE f == [i \in n .. n |-> base]
  <2>1. Solves(f, n, n, V, base, step)
    OBVIOUS
  <2>2. QED
    BY <2>1
<1>2. ASSUME NEW m \in n .. (b - 1), m \in Solved PROVE m + 1 \in Solved
  <2>1. PICK f : Solves(f, n, m, V, base, step)
    BY <1>2
  <2> DEFINE g == [i \in n .. (m + 1) |-> IF i = m + 1 THEN step[<<m + 1, f[m]>>] ELSE f[i]]
  <2>2. m \in n .. m /\ f[m] \in V /\ m + 1 \in (n + 1) .. b /\ n # m + 1
    BY <2>1
  <2>3. step[<<m + 1, f[m]>>] \in V
    BY <2>2
  <2>4. g \in [n .. (m + 1) -> V] /\ g[n] = base
    BY <2>1, <2>2, <2>3
  <2>5. ASSUME NEW i \in (n + 1) .. (m + 1) PROVE g[i] = step[<<i, g[i - 1]>>]
    <3>1. i - 1 \in n .. m /\ i \in n .. (m + 1) /\ i - 1 # m + 1 /\ i - 1 \in n .. (m + 1)
      OBVIOUS
    <3>2. g[i - 1] = f[i - 1]
      BY <3>1
    <3>3. CASE i = m + 1
      <4>1. g[i] = step[<<i, f[m]>>] /\ i - 1 = m
        BY <3>1, <3>3
      <4>2. QED
        BY <3>2, <4>1
    <3>4. CASE i # m + 1
      <4>1. g[i] = f[i] /\ i \in (n + 1) .. m
        BY <3>1, <3>4
      <4>2. f[i] = step[<<i, f[i - 1]>>]
        BY <2>1, <4>1
      <4>3. QED
        BY <3>2, <4>1, <4>2
    <3>5. QED
      BY <3>3, <3>4
  <2>6. Solves(g, n, m + 1, V, base, step)
    BY <2>4, <2>5
  <2>7. m + 1 \in Nat
    BY <1>2
  <2> HIDE DEF Solves
  <2>8. QED
    BY <2>6, <2>7
<1>3. \A i \in n .. b : i \in Solved
  <2> HIDE DEF Solved
  <2>1. QED
    BY <1>1, <1>2, FromTo
<1>4. QED
  BY <1>3

\* The same, from zero.
FromZero(f, b, V, base, step) ==
  /\ f \in [0 .. b -> V] /\ f[0] = base
  /\ \A i \in 1 .. b : f[i] = step[<<i, f[i - 1]>>]

LEMMA RecursionFromZero ==
  ASSUME NEW b \in Nat, NEW V, NEW base \in V, NEW step, step \in [(1 .. b) \X V -> V]
  PROVE  \E f : FromZero(f, b, V, base, step)
<1>1. PICK zero : zero = 0
  OBVIOUS
<1>2. zero \in Nat /\ zero <= b /\ zero + 1 = 1
  BY <1>1
<1>3. step \in [((zero + 1) .. b) \X V -> V]
  BY ONLY <1>2, step \in [(1 .. b) \X V -> V]
<1>4. PICK f : Solves(f, zero, b, V, base, step)
  BY ONLY b \in Nat, base \in V, <1>2, <1>3, Recursion
<1>5. QED
  BY <1>1, <1>4 DEF Solves, FromZero

-----------------------------------------------------------------------------
(* Lists *)

\* The recursion of Without has a solution.
LEMMA WithoutIs ==
  ASSUME NEW S, NEW s \in Seq(S), NEW gone
  PROVE  \E f : /\ f = [i \in 0 .. Len(s) |->
                          IF i = 0 THEN <<>>
                          ELSE IF s[i] \in gone THEN f[i - 1]
                          ELSE Append(f[i - 1], s[i])]
                /\ Without(s, gone) = f[Len(s)]
<1> DEFINE Def(f, i) == IF i = 0 THEN <<>>
                        ELSE IF s[i] \in gone THEN f[i - 1] ELSE Append(f[i - 1], s[i])
           Next(i, v) == IF s[i] \in gone THEN v ELSE Append(v, s[i])
<1>1. PICK step : step = [p \in (1 .. Len(s)) \X Seq(S) |-> Next(p[1], p[2])]
  OBVIOUS
<1>2. Len(s) \in Nat
  BY LenProperties
<1>3. ASSUME NEW i \in 1 .. Len(s), NEW v \in Seq(S)
      PROVE  step[<<i, v>>] = Next(i, v) /\ Next(i, v) \in Seq(S)
  <2>1. step[<<i, v>>] = Next(i, v)
    BY <1>1
  <2>2. Append(v, s[i]) \in Seq(S)
    BY ElementOfSeq, AppendProperties
  <2>3. QED
    BY <2>1, <2>2
<1> HIDE DEF Next
<1>4. PICK f : Solves(f, 0, Len(s), Seq(S), <<>>, step)
  <2>1. PICK zero : zero = 0
    OBVIOUS
  <2>2. zero \in Nat /\ zero <= Len(s)
    BY <1>2, <2>1
  <2>3. step \in [(1 .. Len(s)) \X Seq(S) -> Seq(S)]
    BY <1>1, <1>3
  <2>4. step \in [((zero + 1) .. Len(s)) \X Seq(S) -> Seq(S)]
    <3>1. zero + 1 = 1
      BY <2>1
    <3>2. QED
      BY ONLY <2>3, <3>1
  <2>5. <<>> \in Seq(S)
    OBVIOUS
  <2>6. PICK f : Solves(f, zero, Len(s), Seq(S), <<>>, step)
    BY ONLY <1>2, <2>2, <2>4, <2>5, Recursion
  <2>7. QED
    BY <2>1, <2>6
<1>5. /\ f \in [0 .. Len(s) -> Seq(S)] /\ f[0] = <<>>
      /\ \A i \in 1 .. Len(s) : f[i] = step[<<i, f[i - 1]>>]
  BY <1>4 DEF Solves
<1>6. ASSUME NEW i \in 0 .. Len(s) PROVE f[i] = Def(f, i)
  <2>1. CASE i = 0
    BY <1>5, <2>1
  <2>2. CASE i # 0
    <3>1. i \in 1 .. Len(s) /\ i - 1 \in 0 .. Len(s)
      BY <1>2, <2>2
    <3>2. f[i - 1] \in Seq(S)
      BY <1>5, <3>1
    <3>3. f[i] = Next(i, f[i - 1])
      BY <1>3, <1>5, <3>1, <3>2
    <3>4. QED
      BY <2>2, <3>3 DEF Next
  <2>3. QED
    BY <2>1, <2>2
<1>7. f = [i \in 0 .. Len(s) |-> Def(f, i)]
  BY <1>5, <1>6
<1> DEFINE K == CHOOSE kept : kept = [i \in 0 .. Len(s) |-> Def(kept, i)]
<1>8. K = [i \in 0 .. Len(s) |-> Def(K, i)]
  BY <1>7
<1>9. Without(s, gone) = K[Len(s)]
  BY DEF Without
<1>10. QED
  BY <1>8, <1>9

\* What is left keeps its order: its places in s, e[1] < e[2] < ..., are all those
\* whose elements stay.
LEMMA Removal ==
  ASSUME NEW S, NEW s \in Seq(S), NEW gone
  PROVE  /\ Without(s, gone) \in Seq(S) /\ Len(Without(s, gone)) <= Len(s)
         /\ \E e \in [1 .. Len(Without(s, gone)) -> 1 .. Len(s)] :
              /\ \A k \in 1 .. Len(Without(s, gone)) :
                   Without(s, gone)[k] = s[e[k]] /\ s[e[k]] \notin gone
              /\ \A j, k \in 1 .. Len(Without(s, gone)) : j < k => e[j] < e[k]
              /\ \A i \in 1 .. Len(s) :
                   s[i] \notin gone => \E k \in 1 .. Len(Without(s, gone)) : e[k] = i
<1> DEFINE Places(q, n, e) ==
             /\ \A k \in 1 .. Len(q) : q[k] = s[e[k]] /\ s[e[k]] \notin gone
             /\ \A j, k \in 1 .. Len(q) : j < k => e[j] < e[k]
             /\ \A i \in 1 .. n : s[i] \notin gone => \E k \in 1 .. Len(q) : e[k] = i
           Good(q, n) == /\ q \in Seq(S) /\ Len(q) <= n
                         /\ \E e \in [1 .. Len(q) -> 1 .. n] : Places(q, n, e)
<1> HIDE DEF Places, Good
<1>1. PICK f : /\ f = [i \in 0 .. Len(s) |->
                         IF i = 0 THEN <<>>
                         ELSE IF s[i] \in gone THEN f[i - 1] ELSE Append(f[i - 1], s[i])]
               /\ Without(s, gone) = f[Len(s)]
  BY WithoutIs
<1>2. PICK P : P = {i \in 0 .. Len(s) : Good(f[i], i)}
  OBVIOUS
<1>3. Len(s) \in Nat
  BY LenProperties
<1>4. 0 \in P
  <2>1. f[0] = <<>> /\ Len(f[0]) = 0 /\ f[0] \in Seq(S)
    BY <1>1, <1>3, EmptySeq
  <2> DEFINE none == [x \in 1 .. 0 |-> x]
  <2>2. none \in [1 .. Len(f[0]) -> 1 .. 0] /\ Places(f[0], 0, none)
    BY <2>1 DEF Places
  <2> HIDE DEF none
  <2>3. Good(f[0], 0)
    <3>1. \E e \in [1 .. Len(f[0]) -> 1 .. 0] : Places(f[0], 0, e)
      BY <2>2
    <3>2. Len(f[0]) <= 0
      BY <2>1
    <3>3. QED
      BY <2>1, <3>1, <3>2, Zenon DEF Good
  <2>4. QED
    BY <1>2, <1>3, <2>3
<1>5. ASSUME NEW n \in 0 .. (Len(s) - 1), n \in P PROVE n + 1 \in P
  <2>1. /\ n + 1 \in 0 .. Len(s) /\ n + 1 \in 1 .. Len(s) /\ n \in 0 .. Len(s) /\ n + 1 # 0
        /\ (n + 1) - 1 = n
    BY <1>3
  <2>2. PICK q : q = f[n]
    OBVIOUS
  <2>3. Good(q, n)
    BY <1>2, <1>5, <2>2
  <2>4. PICK e \in [1 .. Len(q) -> 1 .. n] : Places(q, n, e)
    BY <2>3 DEF Good
  <2>5. Len(q) \in Nat /\ Len(q) <= n /\ q \in Seq(S)
    BY <2>3, LenProperties DEF Good
  <2>6. CASE s[n + 1] \in gone
    <3>1. f[n + 1] = q
      BY <1>1, <2>1, <2>2, <2>6
    <3>2. e \in [1 .. Len(q) -> 1 .. (n + 1)] /\ Places(q, n + 1, e)
      BY <2>1, <2>4, <2>6 DEF Places
    <3>3. Good(q, n + 1)
      BY <2>1, <2>5, <3>2 DEF Good
    <3>4. QED
      BY <1>2, <2>1, <3>1, <3>3
  <2>7. CASE s[n + 1] \notin gone
    <3> DEFINE r == Append(q, s[n + 1])
               g == [k \in 1 .. (Len(q) + 1) |-> IF k = Len(q) + 1 THEN n + 1 ELSE e[k]]
    <3>1. f[n + 1] = r
      BY <1>1, <2>1, <2>2, <2>7
    <3>2. s[n + 1] \in S
      BY <2>1, ElementOfSeq
    <3>3. /\ r \in Seq(S) /\ Len(r) = Len(q) + 1 /\ r[Len(q) + 1] = s[n + 1]
          /\ \A k \in 1 .. Len(q) : r[k] = q[k]
      BY <2>5, <3>2, AppendProperties
    <3>4. \A k \in 1 .. Len(q) : g[k] = e[k] /\ g[k] \in 1 .. n
      BY <2>4, <2>5
    <3>5. g[Len(q) + 1] = n + 1 /\ g \in [1 .. Len(r) -> 1 .. (n + 1)]
      BY <2>4, <2>5, <3>3
    <3> HIDE DEF r, g
    <3>6. \A k \in 1 .. Len(r) : r[k] = s[g[k]] /\ s[g[k]] \notin gone
      <4> TAKE k \in 1 .. Len(r)
      <4>1. CASE k = Len(q) + 1
        BY <2>7, <3>3, <3>5, <4>1
      <4>2. CASE k # Len(q) + 1
        <5>1. k \in 1 .. Len(q)
          BY <2>5, <3>3, <4>2
        <5>2. QED
          BY <2>4, <3>3, <3>4, <5>1 DEF Places
      <4>3. QED
        BY <4>1, <4>2
    <3>7. \A j, k \in 1 .. Len(r) : j < k => g[j] < g[k]
      <4> SUFFICES ASSUME NEW j \in 1 .. Len(r), NEW k \in 1 .. Len(r), j < k PROVE g[j] < g[k]
        OBVIOUS
      <4>1. j \in 1 .. Len(q)
        BY <2>5, <3>3
      <4>2. CASE k = Len(q) + 1
        BY <2>1, <3>4, <3>5, <4>1, <4>2
      <4>3. CASE k # Len(q) + 1
        <5>1. k \in 1 .. Len(q)
          BY <2>5, <3>3, <4>3
        <5>2. QED
          BY <2>4, <3>4, <4>1, <5>1 DEF Places
      <4>4. QED
        BY <4>2, <4>3
    <3>8. \A i \in 1 .. (n + 1) : s[i] \notin gone => \E k \in 1 .. Len(r) : g[k] = i
      <4> SUFFICES ASSUME NEW i \in 1 .. (n + 1), s[i] \notin gone
                   PROVE  \E k \in 1 .. Len(r) : g[k] = i
        OBVIOUS
      <4>1. CASE i = n + 1
        BY <2>5, <3>3, <3>5, <4>1
      <4>2. CASE i # n + 1
        <5>1. i \in 1 .. n
          BY <2>1, <4>2
        <5>2. PICK k \in 1 .. Len(q) : e[k] = i
          BY <2>4, <5>1 DEF Places
        <5>3. QED
          BY <2>5, <3>3, <3>4, <5>2
      <4>3. QED
        BY <4>1, <4>2
    <3>9. Good(r, n + 1)
      <4>1. Places(r, n + 1, g)
        BY <3>6, <3>7, <3>8 DEF Places
      <4>2. QED
        BY <2>1, <2>5, <3>3, <3>5, <4>1 DEF Good
    <3>10. QED
      BY <1>2, <2>1, <3>1, <3>9
  <2>8. QED
    BY <2>6, <2>7
<1>6. Len(s) \in P
  <2>1. \A i \in 0 .. Len(s) : i \in P
    BY <1>3, <1>4, <1>5, UpTo
  <2>2. QED
    BY <1>3, <2>1
<1>7. Good(Without(s, gone), Len(s))
  BY <1>1, <1>2, <1>6
<1>8. QED
  BY <1>7 DEF Good, Places

\* The elements that are left, and how often.
LEMMA RemovalKeeps ==
  ASSUME NEW S, NEW s \in Seq(S), NEW gone
  PROVE  /\ ToSet(Without(s, gone)) = ToSet(s) \ gone
         /\ IsInjective(s) => IsInjective(Without(s, gone))
         /\ Without(s, gone) \in Seq(S) /\ Len(Without(s, gone)) <= Len(s)
<1> PICK w : w = Without(s, gone)
  OBVIOUS
<1>1. w \in Seq(S) /\ Len(w) \in Nat /\ DOMAIN w = 1 .. Len(w)
      /\ Len(s) \in Nat /\ DOMAIN s = 1 .. Len(s) /\ Len(w) <= Len(s)
  BY Removal, LenProperties
<1>2. PICK e \in [1 .. Len(w) -> 1 .. Len(s)] :
         /\ \A k \in 1 .. Len(w) : w[k] = s[e[k]] /\ s[e[k]] \notin gone
         /\ \A j, k \in 1 .. Len(w) : j < k => e[j] < e[k]
         /\ \A i \in 1 .. Len(s) : s[i] \notin gone => \E k \in 1 .. Len(w) : e[k] = i
  BY Removal
<1>3. ToSet(w) = ToSet(s) \ gone
  <2>1. ToSet(w) = {w[k] : k \in 1 .. Len(w)} /\ ToSet(s) = {s[i] : i \in 1 .. Len(s)}
    BY <1>1 DEF ToSet
  <2>2. \A k \in 1 .. Len(w) : e[k] \in 1 .. Len(s)
    BY <1>2
  <2>3. ASSUME NEW x \in ToSet(w) PROVE x \in ToSet(s) \ gone
    <3>1. PICK k \in 1 .. Len(w) : x = w[k]
      BY <2>1
    <3>2. x = s[e[k]] /\ x \notin gone /\ e[k] \in 1 .. Len(s)
      BY <1>2, <2>2, <3>1
    <3>3. QED
      BY <2>1, <3>2
  <2>4. ASSUME NEW x \in ToSet(s), x \notin gone PROVE x \in ToSet(w)
    <3>1. PICK i \in 1 .. Len(s) : x = s[i]
      BY <2>1
    <3>2. PICK k \in 1 .. Len(w) : e[k] = i
      BY <1>2, <2>4, <3>1
    <3>3. x = w[k]
      BY <1>2, <3>1, <3>2
    <3>4. QED
      BY <2>1, <3>3
  <2>5. QED
    BY <2>3, <2>4
<1>4. ASSUME IsInjective(s) PROVE IsInjective(w)
  <2> SUFFICES ASSUME NEW j \in 1 .. Len(w), NEW k \in 1 .. Len(w), w[j] = w[k] PROVE j = k
    BY <1>1 DEF IsInjective
  <2>1. e[j] = e[k]
    BY <1>1, <1>2, <1>4 DEF IsInjective
  <2>2. ~(j < k) /\ ~(k < j)
    BY <1>2, <2>1
  <2>3. QED
    BY <1>1, <2>2
<1>5. QED
  BY <1>1, <1>3, <1>4

\* Elements and their number in a list that grows at its end or loses its head.
LEMMA EndsOfLists ==
  ASSUME NEW S, NEW s \in Seq(S)
  PROVE  /\ ToSet(s) \subseteq S
         /\ \A x \in S : /\ Append(s, x) \in Seq(S)
                         /\ ToSet(Append(s, x)) = ToSet(s) \union {x}
                         /\ IsInjective(s) /\ x \notin ToSet(s) => IsInjective(Append(s, x))
         /\ s # <<>> => /\ Head(s) \in ToSet(s) /\ Tail(s) \in Seq(S)
                        /\ Len(Tail(s)) = Len(s) - 1
                        /\ ToSet(Tail(s)) \subseteq ToSet(s)
                        /\ ToSet(s) = ToSet(Tail(s)) \union {Head(s)}
                        /\ IsInjective(s) => /\ IsInjective(Tail(s))
                                             /\ Head(s) \notin ToSet(Tail(s))
<1>1. ToSet(s) \subseteq S
  BY ElementOfSeq, LenProperties DEF ToSet
<1>2. ASSUME NEW x \in S
      PROVE  /\ Append(s, x) \in Seq(S)
             /\ ToSet(Append(s, x)) = ToSet(s) \union {x}
             /\ IsInjective(s) /\ x \notin ToSet(s) => IsInjective(Append(s, x))
  <2> PICK w : w = Append(s, x)
    OBVIOUS
  <2>1. /\ w \in Seq(S) /\ Len(w) = Len(s) + 1 /\ w[Len(s) + 1] = x
        /\ \A i \in 1 .. Len(s) : w[i] = s[i]
    BY AppendProperties
  <2>2. DOMAIN s = 1 .. Len(s) /\ DOMAIN w = 1 .. (Len(s) + 1) /\ Len(s) \in Nat
    BY <2>1, LenProperties
  <2>3. ToSet(w) = ToSet(s) \union {x}
    BY <2>1, <2>2 DEF ToSet
  <2>4. ASSUME IsInjective(s), x \notin ToSet(s) PROVE IsInjective(w)
    <3> SUFFICES ASSUME NEW j \in 1 .. (Len(s) + 1), NEW k \in 1 .. (Len(s) + 1), w[j] = w[k]
                 PROVE  j = k
      BY <2>2 DEF IsInjective
    <3>1. j \in 1 .. Len(s) /\ k \in 1 .. Len(s) => j = k
      BY <2>1, <2>2, <2>4 DEF IsInjective
    <3>2. \A i \in 1 .. Len(s) : w[i] # x
      BY <2>1, <2>2, <2>4 DEF ToSet
    <3>3. QED
      BY <2>1, <2>2, <3>1, <3>2
  <2>5. QED
    BY <2>1, <2>3, <2>4
<1>3. ASSUME s # <<>>
      PROVE  /\ Head(s) \in ToSet(s) /\ Tail(s) \in Seq(S)
             /\ Len(Tail(s)) = Len(s) - 1
             /\ ToSet(Tail(s)) \subseteq ToSet(s)
             /\ ToSet(s) = ToSet(Tail(s)) \union {Head(s)}
             /\ IsInjective(s) => /\ IsInjective(Tail(s))
                                  /\ Head(s) \notin ToSet(Tail(s))
  <2> PICK w : w = Tail(s)
    OBVIOUS
  <2>1. /\ w \in Seq(S) /\ Len(w) = Len(s) - 1 /\ Head(s) = s[1]
        /\ \A i \in 1 .. Len(w) : w[i] = s[i + 1]
    BY <1>3, HeadTailProperties
  <2>2. DOMAIN s = 1 .. Len(s) /\ DOMAIN w = 1 .. (Len(s) - 1) /\ Len(s) \in Nat \ {0}
    BY <1>3, <2>1, LenProperties, EmptySeq
  <2>3. ToSet(w) \subseteq ToSet(s) /\ Head(s) \in ToSet(s)
    BY <2>1, <2>2 DEF ToSet
  <2>4. ToSet(s) = ToSet(w) \union {s[1]}
    <3>1. ASSUME NEW i \in 1 .. Len(s), i # 1 PROVE s[i] \in ToSet(w)
      <4>1. i - 1 \in 1 .. Len(w) /\ s[i] = w[i - 1]
        BY <2>1, <2>2, <3>1
      <4>2. QED
        BY <2>1, <2>2, <4>1 DEF ToSet
    <3>2. QED
      BY <2>1, <2>2, <2>3, <3>1 DEF ToSet
  <2>5. ASSUME IsInjective(s) PROVE IsInjective(w) /\ s[1] \notin ToSet(w)
    BY <2>1, <2>2, <2>5 DEF IsInjective, ToSet
  <2>6. QED
    BY <2>1, <2>3, <2>4, <2>5
<1>4. QED
  BY <1>1, <1>2, <1>3

==============================================================================
