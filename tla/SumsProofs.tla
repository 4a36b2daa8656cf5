----------------------------- MODULE SumsProofs -----------------------------
(***************************************************************************)
(* What SumTo computes, for sums of any length.  The recursive function    *)
(* inside SumTo is a CHOOSE, so its existence and its uniqueness come      *)
(* first.  Induction is stated over a set: the library's least-element     *)
(* theorem for well-founded relations takes a set, not a predicate.        *)
(***************************************************************************)
EXTENDS Sums, WellFoundedInduction, TLAPS

(* Induction over the natural numbers, for the members of a set *)
LEMMA SetInduction ==
    ASSUME NEW S, 0 \in S, \A n \in Nat : n \in S => n + 1 \in S
    PROVE  \A n \in Nat : n \in S
<1>. DEFINE T == Nat \ S
<1>1. SUFFICES ASSUME T # {} PROVE FALSE
  OBVIOUS
<1>2. IsWellFoundedOn(OpToRel(<, Nat), Nat)
  BY NatLessThanWellFounded
<1>3. \E n \in T : \A m \in T : <<m, n>> \notin OpToRel(<, Nat)
  BY <1>1, <1>2, WFMin
<1>4. PICK n \in T : \A m \in T : ~(m < n)
  BY <1>3 DEF OpToRel
<1>5. n # 0 /\ n - 1 \in Nat
  BY <1>4
<1>6. n - 1 \in S
  BY <1>4, <1>5
<1>. QED BY <1>4, <1>5, <1>6

(* g is the function of partial sums that SumTo(f, n) chooses *)
PartialSums(f, n, g) ==
    g = [i \in 0..n |-> IF i = 0 THEN 0 ELSE g[i - 1] + f[i - 1]]

(* Partial sums exist for every n: those for n extend to those for n + 1 *)
LEMMA PartialSumsExist ==
    ASSUME NEW f
    PROVE  \A n \in Nat : \E g : PartialSums(f, n, g)
<1>. DEFINE S == {n \in Nat : \E g : PartialSums(f, n, g)}
<1>1. 0 \in S
  <2>. DEFINE g == [i \in 0..0 |-> 0]
  <2>1. PartialSums(f, 0, g)
    BY DEF PartialSums
  <2>. QED BY <2>1
<1>2. ASSUME NEW n \in Nat, n \in S PROVE n + 1 \in S
  <2>1. PICK g : PartialSums(f, n, g)
    BY <1>2
  <2>. DEFINE h == [i \in 0..(n + 1) |-> IF i = n + 1 THEN g[n] + f[n] ELSE g[i]]
  <2>2. \A i \in 0..n : g[i] = IF i = 0 THEN 0 ELSE g[i - 1] + f[i - 1]
    BY <2>1 DEF PartialSums
  <2>3. ASSUME NEW i \in 0..(n + 1)
        PROVE  h[i] = IF i = 0 THEN 0 ELSE h[i - 1] + f[i - 1]
    <3>1. CASE i = n + 1
      <4>1. h[i] = g[n] + f[n]
        BY <3>1
      <4>2. h[i - 1] = g[n]
        BY <3>1
      <4>. QED BY <3>1, <4>1, <4>2
    <3>2. CASE i # n + 1
      <4>1. i \in 0..n
        BY <3>2
      <4>2. h[i] = g[i]
        BY <3>2
      <4>3. i # 0 => h[i - 1] = g[i - 1]
        BY <4>1
      <4>. QED BY <2>2, <4>1, <4>2, <4>3
    <3>. QED BY <3>1, <3>2
  <2>4. h = [i \in 0..(n + 1) |-> h[i]]
    OBVIOUS
  <2>5. PartialSums(f, n + 1, h)
    <3>. HIDE DEF h
    <3>. QED BY <2>3, <2>4 DEF PartialSums
  <2>. QED BY <2>5
<1>. HIDE DEF S
<1>3. \A n \in Nat : n \in S
  BY <1>1, <1>2, SetInduction
<1>. QED BY <1>3 DEF S

(* Longer partial sums agree with shorter ones *)
LEMMA PartialSumsAgree ==
    ASSUME NEW f, NEW m \in Nat, NEW n \in Nat, m <= n,
           NEW g, PartialSums(f, m, g), NEW h, PartialSums(f, n, h)
    PROVE  \A i \in 0..m : g[i] = h[i]
<1>. DEFINE S == {i \in Nat : i <= m => g[i] = h[i]}
<1>1. \A i \in 0..m : g[i] = IF i = 0 THEN 0 ELSE g[i - 1] + f[i - 1]
  BY DEF PartialSums
<1>2. \A i \in 0..n : h[i] = IF i = 0 THEN 0 ELSE h[i - 1] + f[i - 1]
  BY DEF PartialSums
<1>3. 0 \in S
  BY <1>1, <1>2
<1>4. ASSUME NEW i \in Nat, i \in S PROVE i + 1 \in S
  BY <1>1, <1>2, <1>4
<1>. HIDE DEF S
<1>5. \A i \in Nat : i \in S
  BY <1>3, <1>4, SetInduction
<1>. QED BY <1>5 DEF S

(* SumTo is the last of its partial sums *)
LEMMA SumToChosen ==
    ASSUME NEW f, NEW n \in Nat
    PROVE  \E g : PartialSums(f, n, g) /\ SumTo(f, n) = g[n]
<1>. DEFINE c == CHOOSE g : PartialSums(f, n, g)
<1>1. PartialSums(f, n, c)
  BY PartialSumsExist
<1>2. SumTo(f, n) = c[n]
  BY DEF SumTo, PartialSums
<1>. QED BY <1>1, <1>2

(* An empty sum is 0 *)
LEMMA SumToZero ==
    ASSUME NEW f
    PROVE  SumTo(f, 0) = 0
<1>1. PICK g : PartialSums(f, 0, g) /\ SumTo(f, 0) = g[0]
  BY SumToChosen
<1>. QED BY <1>1 DEF PartialSums

(* A sum with one more summand *)
LEMMA SumToNext ==
    ASSUME NEW f, NEW n \in Nat
    PROVE  SumTo(f, n + 1) = SumTo(f, n) + f[n]
<1>1. PICK g : PartialSums(f, n, g) /\ SumTo(f, n) = g[n]
  BY SumToChosen
<1>2. PICK h : PartialSums(f, n + 1, h) /\ SumTo(f, n + 1) = h[n + 1]
  BY SumToChosen
<1>3. g[n] = h[n]
  BY <1>1, <1>2, PartialSumsAgree
<1>4. h[n + 1] = h[n] + f[n]
  BY <1>2 DEF PartialSums
<1>. QED BY <1>1, <1>2, <1>3, <1>4

(* A sum of integers is an integer *)
LEMMA SumToInt ==
    ASSUME NEW n \in Nat, NEW f, \A i \in 0..(n - 1) : f[i] \in Int
    PROVE  SumTo(f, n) \in Int
<1>. DEFINE S == {k \in Nat : k <= n => SumTo(f, k) \in Int}
<1>1. 0 \in S
  BY SumToZero
<1>2. ASSUME NEW k \in Nat, k \in S PROVE k + 1 \in S
  BY <1>2, SumToNext
<1>. HIDE DEF S
<1>3. \A k \in Nat : k \in S
  BY <1>1, <1>2, SetInduction
<1>. QED BY <1>3 DEF S

(* A sum depends on its summands only *)
LEMMA SumToEqual ==
    ASSUME NEW n \in Nat, NEW f, NEW g, \A i \in 0..(n - 1) : f[i] = g[i]
    PROVE  SumTo(f, n) = SumTo(g, n)
<1>. DEFINE S == {k \in Nat : k <= n => SumTo(f, k) = SumTo(g, k)}
<1>1. 0 \in S
  BY SumToZero
<1>2. ASSUME NEW k \in Nat, k \in S PROVE k + 1 \in S
  BY <1>2, SumToNext
<1>. HIDE DEF S
<1>3. \A k \in Nat : k \in S
  BY <1>1, <1>2, SetInduction
<1>. QED BY <1>3 DEF S

(* A sum is monotone in its summands *)
LEMMA SumToMonotone ==
    ASSUME NEW n \in Nat, NEW f, NEW g,
           \A i \in 0..(n - 1) : f[i] \in Int /\ g[i] \in Int /\ f[i] <= g[i]
    PROVE  SumTo(f, n) <= SumTo(g, n)
<1>. DEFINE S == {k \in Nat : k <= n =>
                     /\ SumTo(f, k) \in Int /\ SumTo(g, k) \in Int
                     /\ SumTo(f, k) <= SumTo(g, k)}
<1>1. 0 \in S
  BY SumToZero
<1>2. ASSUME NEW k \in Nat, k \in S PROVE k + 1 \in S
  BY <1>2, SumToNext
<1>. HIDE DEF S
<1>3. \A k \in Nat : k \in S
  BY <1>1, <1>2, SetInduction
<1>. QED BY <1>3 DEF S

(* The sum of zeros is 0 *)
LEMMA SumToZeros ==
    ASSUME NEW n \in Nat, NEW f, \A i \in 0..(n - 1) : f[i] = 0
    PROVE  SumTo(f, n) = 0
<1>. DEFINE S == {k \in Nat : k <= n => SumTo(f, k) = 0}
<1>1. 0 \in S
  BY SumToZero
<1>2. ASSUME NEW k \in Nat, k \in S PROVE k + 1 \in S
  BY <1>2, SumToNext
<1>. HIDE DEF S
<1>3. \A k \in Nat : k \in S
  BY <1>1, <1>2, SetInduction
<1>. QED BY <1>3 DEF S

(* A sum of natural numbers is a natural number *)
LEMMA SumToNat ==
    ASSUME NEW n \in Nat, NEW f, \A i \in 0..(n - 1) : f[i] \in Nat
    PROVE  SumTo(f, n) \in Nat
<1>. DEFINE S == {k \in Nat : k <= n => SumTo(f, k) \in Nat}
<1>1. 0 \in S
  BY SumToZero
<1>2. ASSUME NEW k \in Nat, k \in S PROVE k + 1 \in S
  BY <1>2, SumToNext
<1>. HIDE DEF S
<1>3. \A k \in Nat : k \in S
  BY <1>1, <1>2, SetInduction
<1>. QED BY <1>3 DEF S

(* Changing one summand changes the sum by the difference *)
LEMMA SumToChange ==
    ASSUME NEW n \in Nat, NEW f, NEW g, NEW k \in 0..(n - 1),
           \A i \in 0..(n - 1) : f[i] \in Int,
           \A i \in 0..(n - 1) : i # k => g[i] = f[i],
           g[k] \in Int
    PROVE  SumTo(g, n) = SumTo(f, n) + (g[k] - f[k])
<1>. DEFINE S == {j \in Nat : j <= n =>
                     /\ SumTo(f, j) \in Int
                     /\ SumTo(g, j) = IF j <= k THEN SumTo(f, j)
                                      ELSE SumTo(f, j) + (g[k] - f[k])}
<1>1. 0 \in S
  BY SumToZero
<1>2. ASSUME NEW j \in Nat, j \in S PROVE j + 1 \in S
  <2>1. SUFFICES ASSUME j + 1 <= n
                 PROVE  /\ SumTo(f, j + 1) \in Int
                        /\ SumTo(g, j + 1) = IF j + 1 <= k THEN SumTo(f, j + 1)
                                             ELSE SumTo(f, j + 1) + (g[k] - f[k])
    OBVIOUS
  <2>2. /\ SumTo(f, j) \in Int
        /\ SumTo(g, j) = IF j <= k THEN SumTo(f, j) ELSE SumTo(f, j) + (g[k] - f[k])
    BY <1>2, <2>1
  <2>3. SumTo(f, j + 1) = SumTo(f, j) + f[j] /\ SumTo(g, j + 1) = SumTo(g, j) + g[j]
    BY SumToNext
  <2>4. f[j] \in Int /\ f[k] \in Int /\ (j # k => g[j] = f[j])
    BY <2>1
  <2>. QED BY <2>2, <2>3, <2>4
<1>. HIDE DEF S
<1>3. \A j \in Nat : j \in S
  BY <1>1, <1>2, SetInduction
<1>4. n \in S
  BY <1>3
<1>. QED BY <1>4 DEF S

(* A sum of natural numbers bounds each of its summands *)
LEMMA SumToMember ==
    ASSUME NEW n \in Nat, NEW f, NEW k \in 0..(n - 1),
           \A i \in 0..(n - 1) : f[i] \in Nat
    PROVE  f[k] <= SumTo(f, n)
<1>. DEFINE S == {j \in Nat : j <= n =>
                     SumTo(f, j) \in Nat /\ (k < j => f[k] <= SumTo(f, j))}
<1>1. 0 \in S
  BY SumToZero
<1>2. ASSUME NEW j \in Nat, j \in S PROVE j + 1 \in S
  <2>1. SUFFICES ASSUME j + 1 <= n
                 PROVE  /\ SumTo(f, j + 1) \in Nat
                        /\ k < j + 1 => f[k] <= SumTo(f, j + 1)
    OBVIOUS
  <2>2. SumTo(f, j) \in Nat /\ (k < j => f[k] <= SumTo(f, j))
    BY <1>2, <2>1
  <2>3. SumTo(f, j + 1) = SumTo(f, j) + f[j] /\ f[j] \in Nat /\ f[k] \in Nat
    BY <2>1, SumToNext
  <2>. QED BY <2>2, <2>3
<1>. HIDE DEF S
<1>3. \A j \in Nat : j \in S
  BY <1>1, <1>2, SetInduction
<1>. QED BY <1>3 DEF S

(* A sum that reaches the sum of its summands' bounds reaches every bound *)
LEMMA SumToTight ==
    ASSUME NEW n \in Nat, NEW f, NEW g,
           \A i \in 0..(n - 1) : f[i] \in Int /\ g[i] \in Int /\ f[i] <= g[i],
           SumTo(f, n) = SumTo(g, n)
    PROVE  \A i \in 0..(n - 1) : f[i] = g[i]
<1>. DEFINE S == {k \in Nat : k <= n /\ SumTo(f, k) = SumTo(g, k) =>
                                   \A i \in 0..(k - 1) : f[i] = g[i]}
<1>1. 0 \in S
  OBVIOUS
<1>2. ASSUME NEW k \in Nat, k \in S PROVE k + 1 \in S
  <2>1. SUFFICES ASSUME k + 1 <= n, SumTo(f, k + 1) = SumTo(g, k + 1)
                 PROVE  \A i \in 0..k : f[i] = g[i]
    OBVIOUS
  <2>2. SumTo(f, k + 1) = SumTo(f, k) + f[k] /\ SumTo(g, k + 1) = SumTo(g, k) + g[k]
    BY SumToNext
  <2>3. SumTo(f, k) \in Int /\ SumTo(g, k) \in Int
    BY <2>1, SumToInt
  <2>4. SumTo(f, k) <= SumTo(g, k)
    BY <2>1, SumToMonotone
  <2>5. f[k] \in Int /\ g[k] \in Int /\ f[k] <= g[k]
    BY <2>1
  <2>6. f[k] = g[k] /\ SumTo(f, k) = SumTo(g, k)
    BY <2>1, <2>2, <2>3, <2>4, <2>5
  <2>7. \A i \in 0..(k - 1) : f[i] = g[i]
    BY <1>2, <2>1, <2>6
  <2>. QED BY <2>6, <2>7
<1>. HIDE DEF S
<1>3. \A k \in Nat : k \in S
  BY <1>1, <1>2, SetInduction
<1>. QED BY <1>3 DEF S

(* A later part of a sum grows with its summands *)
LEMMA SumToRest ==
    ASSUME NEW n \in Nat, NEW m \in 0..n, NEW f, NEW g,
           \A i \in 0..(n - 1) : f[i] \in Int /\ g[i] \in Int /\ f[i] <= g[i]
    PROVE  SumTo(f, n) - SumTo(f, m) <= SumTo(g, n) - SumTo(g, m)
<1>. DEFINE S == {k \in Nat : m <= k /\ k <= n =>
                     /\ SumTo(f, k) \in Int /\ SumTo(g, k) \in Int
                     /\ SumTo(f, k) - SumTo(f, m) <= SumTo(g, k) - SumTo(g, m)}
<1>1. \A k \in 0..n : SumTo(f, k) \in Int /\ SumTo(g, k) \in Int
  <2>. TAKE k \in 0..n
  <2>1. \A i \in 0..(k - 1) : f[i] \in Int /\ g[i] \in Int
    OBVIOUS
  <2>. QED BY <2>1, SumToInt
<1>2. 0 \in S
  BY <1>1
<1>3. ASSUME NEW k \in Nat, k \in S PROVE k + 1 \in S
  <2>. SUFFICES ASSUME m <= k + 1, k + 1 <= n
                PROVE  SumTo(f, k + 1) - SumTo(f, m) <= SumTo(g, k + 1) - SumTo(g, m)
    BY <1>1
  <2>1. CASE m = k + 1
    BY <1>1, <2>1
  <2>2. CASE m <= k
    <3>1. SumTo(f, k) - SumTo(f, m) <= SumTo(g, k) - SumTo(g, m)
      BY <1>3, <2>2
    <3>2. /\ SumTo(f, k + 1) = SumTo(f, k) + f[k]
          /\ SumTo(g, k + 1) = SumTo(g, k) + g[k]
      BY SumToNext
    <3>3. f[k] \in Int /\ g[k] \in Int /\ f[k] <= g[k]
      OBVIOUS
    <3>. QED BY <1>1, <2>2, <3>1, <3>2, <3>3
  <2>. QED BY <2>1, <2>2
<1>. HIDE DEF S
<1>4. n \in S
  BY <1>2, <1>3, SetInduction
<1>. QED BY <1>4 DEF S
=============================================================================
