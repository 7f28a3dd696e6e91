----------------------------- MODULE SumsProofs -----------------------------
(***************************************************************************)
(* Facts about sums and recursive functions, and about greatest and least  *)
(* elements, that the proofs of the other modules cite.                    *)
(*                                                                         *)
(* Induction is stated over a set: what holds is the set of numbers that   *)
(* have been shown to have a property.                                     *)
(***************************************************************************)
EXTENDS Sums, FiniteSetsExt, WellFoundedInduction, SequenceTheorems, TLAPS

\* A nonempty set of naturals has a least element.
LEMMA Least ==
  ASSUME NEW S, S \subseteq Nat, S # {}
  PROVE  \E m \in S : \A x \in S : m <= x
<1>. DEFINE R == OpToRel(<, Nat)
<1>1. PICK m \in S : \A y \in S : <<y, m>> \notin R
  <2>1. IsWellFoundedOn(R, Nat)
    BY NatLessThanWellFounded
  <2>. HIDE DEF R
  <2>. QED
    BY <2>1, WFMin
<1>2. \A y \in S : ~(y < m)
  BY <1>1 DEF OpToRel
<1>. QED
  BY <1>2

\* A nonempty set of naturals with an upper bound has a greatest element.
LEMMA Greatest ==
  ASSUME NEW S, S \subseteq Nat, S # {}, NEW bound \in Nat, \A x \in S : x <= bound
  PROVE  \E m \in S : \A x \in S : x <= m
<1>. DEFINE R == OpToRel(<, Nat)
            Bounds == {n \in Nat : \A x \in S : x <= n}
<1>1. PICK m \in Bounds : \A y \in Bounds : <<y, m>> \notin R
  <2>1. Bounds \subseteq Nat /\ bound \in Bounds
    OBVIOUS
  <2>2. IsWellFoundedOn(R, Nat)
    BY NatLessThanWellFounded
  <2>. HIDE DEF R, Bounds
  <2>. QED
    BY <2>1, <2>2, WFMin
<1>2. \A y \in Bounds : ~(y < m)
  BY <1>1 DEF OpToRel
<1>3. m \in S
  <2>. SUFFICES ASSUME m \notin S PROVE FALSE
    OBVIOUS
  <2>1. m # 0
    <3>1. PICK x \in S : x <= m
      OBVIOUS
    <3>. QED
      BY <3>1
  <2>2. m - 1 \in Bounds
    BY <2>1
  <2>. QED
    BY <2>2, <1>2
<1>. QED
  BY <1>3

\* The minimum of a set is its least element.
LEMMA MinIs ==
  ASSUME NEW S, S \subseteq Int, NEW m \in S, \A x \in S : m <= x
  PROVE  Min(S) = m
<1>. DEFINE least == Min(S)
<1>1. least \in S /\ \A x \in S : least <= x
  BY DEF Min
<1>. HIDE DEF least
<1>2. least \in Int /\ m \in Int /\ least <= m /\ m <= least
  BY <1>1
<1>3. least = m
  BY <1>2
<1>. QED
  BY <1>3 DEF least

\* Likewise for the maximum.
LEMMA MaxIs ==
  ASSUME NEW S, S \subseteq Int, NEW m \in S, \A x \in S : x <= m
  PROVE  Max(S) = m
<1>. DEFINE greatest == Max(S)
<1>1. greatest \in S /\ \A x \in S : greatest >= x
  BY DEF Max
<1>. HIDE DEF greatest
<1>2. greatest \in Int /\ m \in Int /\ greatest <= m /\ m <= greatest
  BY <1>1
<1>3. greatest = m
  BY <1>2
<1>. QED
  BY <1>3 DEF greatest

\* A nonempty set of naturals has a minimum.
LEMMA MinOfNaturals ==
  ASSUME NEW S, S \subseteq Nat, S # {}
  PROVE  Min(S) \in S /\ \A x \in S : Min(S) <= x
BY Least DEF Min

\* Induction up to a bound.
LEMMA Induction ==
  ASSUME NEW n \in Nat, NEW P, 0 \in P, \A i \in 0 .. n : i \in P /\ i < n => i + 1 \in P
  PROVE  0 .. n \subseteq P
<1>. DEFINE missing == {i \in 0 .. n : i \notin P}
<1>. SUFFICES ASSUME missing # {} PROVE FALSE
  OBVIOUS
<1>1. missing \subseteq Nat
  OBVIOUS
<1>. HIDE DEF missing
<1>2. PICK m \in missing : \A x \in missing : m <= x
  BY <1>1, Least
<1>3. m \in 0 .. n /\ m # 0 /\ m \notin P
  BY <1>2 DEF missing
<1>4. m - 1 \in 0 .. n /\ m - 1 < n /\ m - 1 \notin missing
  BY <1>2, <1>3
<1>5. m - 1 \in P
  BY <1>4 DEF missing
<1>6. (m - 1) + 1 \in P
  BY <1>4, <1>5
<1>. QED
  BY <1>3, <1>6

\* A function on 0 .. k that starts at base and follows step.
Follows(f, k, S, base, step) ==
  /\ f \in [0 .. k -> S]
  /\ f[0] = base
  /\ \A i \in 1 .. k : f[i] = step[i][f[i - 1]]

\* A function defined step by step exists.
LEMMA Recursion ==
  ASSUME NEW n \in Nat, NEW S, NEW base \in S, NEW step \in [1 .. n -> [S -> S]]
  PROVE  \E f : Follows(f, n, S, base, step)
<1>. DEFINE P == {k \in 0 .. n : \E f : Follows(f, k, S, base, step)}
<1>1. 0 \in P
  <2>1. Follows([i \in 0 .. 0 |-> base], 0, S, base, step)
    BY DEF Follows
  <2>. QED
    BY <2>1
<1>2. ASSUME NEW k \in 0 .. n, k \in P, k < n PROVE k + 1 \in P
  <2>1. PICK f : Follows(f, k, S, base, step)
    BY <1>2
  <2>. DEFINE g == [i \in 0 .. k + 1 |-> IF i = k + 1 THEN step[k + 1][f[k]] ELSE f[i]]
  <2>2. step[k + 1][f[k]] \in S
    BY <1>2, <2>1 DEF Follows
  <2>3. g \in [0 .. k + 1 -> S] /\ g[0] = base
    BY <2>1, <2>2 DEF Follows
  <2>4. ASSUME NEW i \in 1 .. k + 1 PROVE g[i] = step[i][g[i - 1]]
    <3>1. CASE i = k + 1
      BY <3>1
    <3>2. CASE i # k + 1
      <4>1. i \in 1 .. k /\ i - 1 \in 0 .. k
        BY <3>2
      <4>2. g[i] = f[i] /\ g[i - 1] = f[i - 1]
        BY <4>1
      <4>. QED
        BY <2>1, <4>1, <4>2 DEF Follows
    <3>. QED
      BY <3>1, <3>2
  <2>5. Follows(g, k + 1, S, base, step)
    BY <2>3, <2>4 DEF Follows
  <2>6. k + 1 \in 0 .. n
    BY <1>2
  <2>. HIDE DEF g
  <2>. QED
    BY <2>5, <2>6
<1>. HIDE DEF P
<1>3. 0 .. n \subseteq P
  BY <1>1, <1>2, Induction
<1>4. n \in P
  BY <1>3
<1>. QED
  BY <1>4 DEF P

\* The partial sums that SumOf is the last of.
Partial(s, f) ==
  f = [i \in 0 .. Len(s) |-> IF i = 0 THEN 0 ELSE f[i - 1] + s[i]]

\* Partial sums exist, and there is only one list of them.
LEMMA PartialSums ==
  ASSUME NEW s \in Seq(Int)
  PROVE  \E f \in [0 .. Len(s) -> Int] : Partial(s, f) /\ SumOf(s) = f[Len(s)]
<1>. DEFINE n == Len(s)
            step == [i \in 1 .. n |-> [v \in Int |-> v + s[i]]]
            upTo == CHOOSE f : Partial(s, f)
<1>1. n \in Nat /\ step \in [1 .. n -> [Int -> Int]]
  OBVIOUS
<1>2. \E f : Partial(s, f)
  <2>1. PICK f : Follows(f, n, Int, 0, step)
    <3>1. 0 \in Int
      OBVIOUS
    <3>. HIDE DEF n, step
    <3>. QED
      BY <1>1, <3>1, Recursion
  <2>2. ASSUME NEW i \in 1 .. n PROVE f[i] = f[i - 1] + s[i]
    <3>1. i - 1 \in 0 .. n
      BY <1>1
    <3>2. f[i - 1] \in Int
      BY <2>1, <3>1 DEF Follows
    <3>. QED
      BY <2>1, <3>2 DEF Follows
  <2>3. Partial(s, f)
    BY <2>1, <2>2 DEF Partial, Follows
  <2>. QED
    BY <2>3
<1>3. Partial(s, upTo)
  BY <1>2
<1>4. SumOf(s) = upTo[n]
  BY DEF SumOf, Partial
<1>. HIDE DEF upTo
<1>5. upTo \in [0 .. n -> Int]
  <2>. DEFINE P == {i \in 0 .. n : upTo[i] \in Int}
  <2>1. 0 \in P
    BY <1>1, <1>3 DEF Partial
  <2>2. ASSUME NEW i \in 0 .. n, i \in P, i < n PROVE i + 1 \in P
    <3>1. i + 1 \in 0 .. n /\ i + 1 # 0 /\ (i + 1) - 1 = i /\ i + 1 \in 1 .. n
      BY <1>1, <2>2
    <3>2. upTo[i + 1] = upTo[(i + 1) - 1] + s[i + 1]
      BY <1>3, <3>1 DEF Partial
    <3>. QED
      BY <2>2, <3>1, <3>2
  <2>. HIDE DEF P
  <2>3. 0 .. n \subseteq P
    BY <1>1, <2>1, <2>2, Induction
  <2>. QED
    BY <1>3, <2>3 DEF P, Partial
<1>. QED
  BY <1>3, <1>4, <1>5

\* Nothing sums up to 0.
LEMMA SumOfEmpty == SumOf(<<>>) = 0
<1>1. <<>> \in Seq(Int) /\ Len(<<>>) = 0
  OBVIOUS
<1>2. PICK f : Partial(<<>>, f) /\ SumOf(<<>>) = f[0]
  BY <1>1, PartialSums
<1>. QED
  BY <1>1, <1>2 DEF Partial

\* What is appended is added.
LEMMA SumOfAppend ==
  ASSUME NEW s \in Seq(Int), NEW x \in Int
  PROVE  SumOf(s) \in Int /\ SumOf(Append(s, x)) = SumOf(s) + x
<1>. DEFINE t == Append(s, x)
            n == Len(s)
<1>1. /\ n \in Nat /\ t \in Seq(Int) /\ Len(t) = n + 1 /\ t[n + 1] = x
      /\ \A i \in 1 .. n : t[i] = s[i]
  OBVIOUS
<1>2. PICK f \in [0 .. n -> Int] : Partial(s, f) /\ SumOf(s) = f[n]
  BY PartialSums
<1>3. PICK g \in [0 .. n + 1 -> Int] : Partial(t, g) /\ SumOf(t) = g[n + 1]
  BY <1>1, PartialSums
<1>4. \A i \in 0 .. n : g[i] = f[i]
  <2>. DEFINE P == {i \in 0 .. n : g[i] = f[i]}
  <2>1. 0 \in P
    BY <1>1, <1>2, <1>3 DEF Partial
  <2>2. ASSUME NEW i \in 0 .. n, i \in P, i < n PROVE i + 1 \in P
    <3>1. i + 1 \in 1 .. n /\ i + 1 \in 0 .. n + 1 /\ i + 1 # 0 /\ (i + 1) - 1 = i
      BY <1>1, <2>2
    <3>2. f[i + 1] = f[i] + s[i + 1]
      BY <1>2, <3>1 DEF Partial
    <3>3. g[i + 1] = g[i] + t[i + 1]
      BY <1>1, <1>3, <3>1 DEF Partial
    <3>. QED
      BY <1>1, <2>2, <3>1, <3>2, <3>3
  <2>. HIDE DEF P
  <2>3. 0 .. n \subseteq P
    BY <1>1, <2>1, <2>2, Induction
  <2>. QED
    BY <2>3 DEF P
<1>5. g[n + 1] = g[n] + x
  BY <1>1, <1>3 DEF Partial
<1>6. f[n] \in Int /\ g[n] = f[n]
  BY <1>1, <1>4
<1>. QED
  BY <1>2, <1>3, <1>5, <1>6

\* A column of a table.
Column(s, f) == [i \in DOMAIN s |-> f[s[i]]]

\* Its entries have a sum.
LEMMA ColumnSum ==
  ASSUME NEW S, NEW f \in [S -> Int], NEW s \in Seq(S)
  PROVE  Column(s, f) \in Seq(Int) /\ Len(Column(s, f)) = Len(s) /\ SumOf(Column(s, f)) \in Int
<1>1. Len(s) \in Nat /\ DOMAIN s = 1 .. Len(s) /\ \A i \in 1 .. Len(s) : f[s[i]] \in Int
  OBVIOUS
<1>2. Column(s, f) \in Seq(Int) /\ Len(Column(s, f)) = Len(s)
  BY <1>1 DEF Column
<1>. QED
  BY <1>2, SumOfAppend

\* One row more adds its entry.
LEMMA ColumnGrows ==
  ASSUME NEW S, NEW f \in [S -> Int], NEW s \in Seq(S), NEW x \in S
  PROVE  /\ Column(s, f) \in Seq(Int) /\ SumOf(Column(s, f)) \in Int
         /\ SumOf(Column(Append(s, x), f)) = SumOf(Column(s, f)) + f[x]
<1>. DEFINE n == Len(s)
            t == Append(s, x)
<1>1. /\ n \in Nat /\ DOMAIN s = 1 .. n /\ t \in Seq(S) /\ Len(t) = n + 1
      /\ DOMAIN t = 1 .. n + 1 /\ t[n + 1] = x /\ \A i \in 1 .. n : t[i] = s[i] /\ s[i] \in S
      /\ f[x] \in Int
  OBVIOUS
<1>. HIDE DEF t, n
<1>2. Column(s, f) \in Seq(Int) /\ Len(Column(s, f)) = n
  BY ColumnSum DEF n
<1>3. Column(t, f) \in Seq(Int) /\ Len(Column(t, f)) = n + 1
  BY <1>1, ColumnSum
<1>. DEFINE a == Append(Column(s, f), f[x])
<1>4. a \in Seq(Int) /\ Len(a) = n + 1
  BY <1>1, <1>2
<1>5. ASSUME NEW i \in 1 .. n + 1 PROVE Column(t, f)[i] = a[i]
  <2>1. CASE i = n + 1
    BY <1>1, <1>2, <2>1 DEF Column
  <2>2. CASE i # n + 1
    <3>1. i \in 1 .. n
      BY <1>1, <2>2
    <3>2. a[i] = Column(s, f)[i]
      BY <1>1, <1>2, <3>1
    <3>. QED
      BY <1>1, <3>1, <3>2 DEF Column
  <2>. QED
    BY <2>1, <2>2
<1>6. Column(t, f) = a
  <2>. HIDE DEF a
  <2>. QED
    BY <1>3, <1>4, <1>5, SeqEqual
<1>. QED
  BY <1>1, <1>2, <1>6, SumOfAppend DEF t

\* A sum changes by as much as the one term of it that changes.
LEMMA SumOfChange ==
  ASSUME NEW s \in Seq(Int), NEW t \in Seq(Int), Len(t) = Len(s), NEW k \in 1 .. Len(s),
         \A i \in 1 .. Len(s) : i # k => t[i] = s[i]
  PROVE  SumOf(s) \in Int /\ SumOf(t) = SumOf(s) + t[k] - s[k]
<1>. DEFINE n == Len(s)
<1>1. /\ n \in Nat /\ t[k] \in Int /\ s[k] \in Int /\ k \in 1 .. n
      /\ \A i \in 1 .. n : s[i] \in Int /\ t[i] \in Int
  OBVIOUS
<1>2. PICK f \in [0 .. n -> Int] : Partial(s, f) /\ SumOf(s) = f[n]
  BY PartialSums
<1>3. PICK g \in [0 .. n -> Int] : Partial(t, g) /\ SumOf(t) = g[n]
  BY PartialSums
<1>. DEFINE d == t[k] - s[k]
<1>. DEFINE P == {i \in 0 .. n : g[i] = IF i < k THEN f[i] ELSE f[i] + d}
<1>4. 0 \in P
  BY <1>1, <1>2, <1>3 DEF Partial
<1>5. ASSUME NEW i \in 0 .. n, i \in P, i < n PROVE i + 1 \in P
  <2>1. i + 1 \in 1 .. n /\ i + 1 \in 0 .. n /\ i + 1 # 0 /\ (i + 1) - 1 = i
    BY <1>1, <1>5
  <2>2. f[i + 1] = f[i] + s[i + 1] /\ g[i + 1] = g[i] + t[i + 1]
    BY <1>2, <1>3, <2>1 DEF Partial
  <2>3. f[i] \in Int /\ f[i + 1] \in Int /\ s[i + 1] \in Int /\ t[i + 1] \in Int
    BY <1>1, <2>1
  <2>4. i + 1 # k => t[i + 1] = s[i + 1]
    BY <2>1
  <2>5. d \in Int /\ i \in Nat /\ k \in Nat /\ (i + 1 = k => t[i + 1] = s[i + 1] + d)
    <3>1. d \in Int /\ t[k] = s[k] + d
      BY <1>1
    <3>2. i \in Nat /\ k \in Nat
      BY <1>1
    <3>. HIDE DEF n, d
    <3>. QED
      BY <3>1, <3>2
  <2>6. g[i] = IF i < k THEN f[i] ELSE f[i] + d
    BY <1>5
  <2>. HIDE DEF n, d
  <2>. DEFINE a == f[i]  b == s[i + 1]
  <2>7. (a + d) + b = (a + b) + d /\ a + (b + d) = (a + b) + d
    <3>1. a \in Int /\ b \in Int /\ d \in Int
      BY <2>3, <2>5
    <3>. HIDE DEF a, b
    <3>. QED
      BY ONLY <3>1
  <2>8. g[i + 1] = IF i + 1 < k THEN f[i + 1] ELSE f[i + 1] + d
    <3>1. CASE i + 1 < k
      <4>1. g[i] = f[i] /\ t[i + 1] = s[i + 1]
        BY <2>4, <2>5, <2>6, <3>1
      <4>. QED
        BY <2>2, <3>1, <4>1
    <3>2. CASE i + 1 = k
      <4>1. g[i] = f[i] /\ t[i + 1] = s[i + 1] + d /\ ~(i + 1 < k)
        BY <2>5, <2>6, <3>2
      <4>. QED
        BY <2>2, <2>7, <4>1
    <3>3. CASE i + 1 > k
      <4>1. g[i] = f[i] + d /\ t[i + 1] = s[i + 1] /\ ~(i + 1 < k)
        BY <2>4, <2>5, <2>6, <3>3
      <4>. QED
        BY <2>2, <2>7, <4>1
    <3>. QED
      BY <2>5, <3>1, <3>2, <3>3
  <2>. QED
    BY <2>1, <2>8
<1>. HIDE DEF P
<1>6. 0 .. n \subseteq P
  BY <1>1, <1>4, <1>5, Induction
<1>7. n \in 0 .. n /\ ~(n < k)
  BY <1>1
<1>8. g[n] = f[n] + d /\ f[n] \in Int
  BY <1>6, <1>7 DEF P
<1>. QED
  BY <1>1, <1>2, <1>3, <1>8

\* Nothings sum up to 0.
LEMMA SumOfZeros ==
  ASSUME NEW s \in Seq(Int), \A i \in 1 .. Len(s) : s[i] = 0
  PROVE  SumOf(s) = 0
<1>. DEFINE n == Len(s)
<1>1. n \in Nat
  OBVIOUS
<1>2. PICK f \in [0 .. n -> Int] : Partial(s, f) /\ SumOf(s) = f[n]
  BY PartialSums
<1>. DEFINE P == {i \in 0 .. n : f[i] = 0}
<1>3. 0 \in P
  BY <1>1, <1>2 DEF Partial
<1>4. ASSUME NEW i \in 0 .. n, i \in P, i < n PROVE i + 1 \in P
  <2>1. i + 1 \in 1 .. n /\ i + 1 \in 0 .. n /\ i + 1 # 0 /\ (i + 1) - 1 = i
    BY <1>1, <1>4
  <2>2. f[i + 1] = f[i] + s[i + 1]
    BY <1>2, <2>1 DEF Partial
  <2>. QED
    BY <1>4, <2>1, <2>2
<1>. HIDE DEF P
<1>5. 0 .. n \subseteq P
  BY <1>1, <1>3, <1>4, Induction
<1>. QED
  BY <1>1, <1>2, <1>5 DEF P
=============================================================================
