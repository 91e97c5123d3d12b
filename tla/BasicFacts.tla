------------------------------ MODULE BasicFacts ------------------------------
(***************************************************************************)
(* Facts the proofs of this project share: induction on a set rather than  *)
(* on a predicate, least and greatest elements, products and quotients,    *)
(* and the elements of sequences put together or cut.                      *)
(***************************************************************************)
EXTENDS Integers, FiniteSetsExt, SequencesExt, SequenceTheorems,
        WellFoundedInduction, NaturalsInduction, TLAPS

\* Every non-empty set of naturals has a least element.
LEMMA NatLeast ==
  ASSUME NEW S \in SUBSET Nat, S # {}
  PROVE  \E m \in S : \A y \in S : m <= y
<1> DEFINE R == {ss \in Nat \X Nat : ss[1] < ss[2]}
<1>1. IsWellFoundedOn(R, Nat)
  BY NatLessThanWellFounded DEF OpToRel
<1>2. \A a, b \in Nat : a < b => <<a, b>> \in R
  OBVIOUS
<1> HIDE DEF R
<1>3. PICK x \in S : \A y \in S : ~(<<y, x>> \in R)
  BY <1>1, WFMin
<1>4. ASSUME NEW y \in S PROVE x <= y
  <2>1. x \in Nat /\ y \in Nat
    OBVIOUS
  <2>2. ~(y < x)
    BY <1>2, <1>3, <2>1
  <2>. QED BY <2>1, <2>2
<1>. QED BY <1>4

\* A set of naturals with 0 and every successor of its members is Nat.
LEMMA SetInduction ==
  ASSUME NEW S \in SUBSET Nat, 0 \in S, \A n \in S : n + 1 \in S
  PROVE  S = Nat
<1>1. SUFFICES ASSUME Nat \ S # {} PROVE FALSE
  OBVIOUS
<1>2. PICK m \in Nat \ S : \A y \in Nat \ S : m <= y
  BY <1>1, NatLeast
<1>3. m - 1 \in Nat /\ m - 1 \in S
  BY <1>2
<1>. QED BY <1>2, <1>3

\* Values are given in D, and elsewhere made by step of the value at a smaller number.
StepsDown(S, D, base, next, step) ==
  /\ D \in SUBSET Nat /\ base \in [D -> S]
  /\ next \in [Nat \ D -> Nat] /\ \A i \in Nat \ D : next[i] < i
  /\ step \in [(Nat \ D) \X S -> S]

\* There is a function defined that way.
LEMMA CourseOfValues ==
  ASSUME NEW S, NEW D, NEW base, NEW next, NEW step, StepsDown(S, D, base, next, step)
  PROVE  \E f \in [Nat -> S] :
           \A i \in Nat : f[i] = IF i \in D THEN base[i] ELSE step[<<i, f[next[i]]>>]
<1> DEFINE Obeys(g, i) == g[i] = IF i \in D THEN base[i] ELSE step[<<i, g[next[i]]>>]
           Good(n, g)  == g \in [0 .. n -> S] /\ \A i \in 0 .. n : Obeys(g, i)
           T == {n \in Nat : \E g : Good(n, g)}
<1>0. D \in SUBSET Nat /\ base \in [D -> S]
  BY DEF StepsDown
<1>1. \A i \in Nat \ D : next[i] \in Nat /\ next[i] < i /\ next[i] \in 0 .. i - 1
  BY DEF StepsDown
<1>2. \A i \in Nat \ D : \A v \in S : step[<<i, v>>] \in S
  BY DEF StepsDown
<1>3. 0 \in T
  <2> DEFINE g == [i \in 0 .. 0 |-> base[0]]
  <2>1. 0 \in D
    BY <1>1
  <2>2. g \in [0 .. 0 -> S] /\ Obeys(g, 0)
    BY <1>0, <2>1
  <2>3. Good(0, g)
    BY <2>2
  <2>. QED BY <2>3
<1>4. ASSUME NEW n \in T PROVE n + 1 \in T
  <2>1. PICK g : Good(n, g)
    OBVIOUS
  <2> DEFINE v == IF n + 1 \in D THEN base[n + 1] ELSE step[<<n + 1, g[next[n + 1]]>>]
             k == [i \in 0 .. n + 1 |-> IF i = n + 1 THEN v ELSE g[i]]
  <2>2. n \in Nat
    OBVIOUS
  <2>3. v \in S
    <3>1. CASE n + 1 \in D
      BY <1>0, <3>1
    <3>2. CASE n + 1 \notin D
      <4>1. next[n + 1] \in 0 .. n
        BY <1>1, <2>2, <3>2
      <4>2. g[next[n + 1]] \in S
        BY <2>1, <4>1
      <4>. QED BY <1>2, <2>2, <3>2, <4>2
    <3>. QED BY <3>1, <3>2
  <2>4. /\ k \in [0 .. n + 1 -> S] /\ k[n + 1] = v
        /\ \A i \in 0 .. n : k[i] = g[i]
    <3> HIDE DEF v
    <3>. QED BY <2>1, <2>2, <2>3
  <2> HIDE DEF k
  <2>5. ASSUME NEW i \in 0 .. n + 1 PROVE Obeys(k, i)
    <3>1. i \notin D => next[i] \in 0 .. n /\ k[next[i]] = g[next[i]]
      BY <1>1, <2>2, <2>4
    <3>2. CASE i = n + 1
      BY <2>4, <3>1, <3>2
    <3>3. CASE i # n + 1
      <4>1. i \in 0 .. n
        BY <2>2, <3>3
      <4>2. k[i] = g[i] /\ Obeys(g, i)
        BY <2>1, <2>4, <4>1
      <4>. QED BY <3>1, <4>2
    <3>. QED BY <3>2, <3>3
  <2>6. Good(n + 1, k)
    <3> HIDE DEF Obeys
    <3>. QED BY <2>4, <2>5
  <2>7. n + 1 \in Nat /\ \E z : Good(n + 1, z)
    <3> HIDE DEF Good
    <3>. QED BY <2>2, <2>6
  <2>. QED BY <2>7
<1>5. T = Nat
  <2>1. T \in SUBSET Nat
    OBVIOUS
  <2> HIDE DEF T
  <2>. QED BY <1>3, <1>4, <2>1, SetInduction
<1>6. ASSUME NEW m \in Nat, NEW n \in Nat, NEW g, NEW k, Good(m, g), Good(n, k), m <= n
      PROVE  \A i \in 0 .. m : g[i] = k[i]
  <2> DEFINE Apart == {i \in 0 .. m : g[i] # k[i]}
  <2>1. ASSUME Apart # {} PROVE FALSE
    <3>1. Apart \in SUBSET Nat
      OBVIOUS
    <3>2. PICK i \in Apart : \A j \in Apart : i <= j
      <4> HIDE DEF Apart
      <4>. QED BY <2>1, <3>1, NatLeast
    <3>3. i \in 0 .. m /\ i \in 0 .. n /\ g[i] # k[i] /\ Obeys(g, i) /\ Obeys(k, i)
      BY <1>6
    <3>4. i \notin D
      BY <3>3
    <3>5. next[i] \in 0 .. m /\ next[i] < i
      BY <1>1, <3>3, <3>4
    <3>6. g[next[i]] = k[next[i]]
      BY <3>2, <3>5
    <3>. QED BY <3>3, <3>4, <3>6
  <2>. QED BY <2>1
<1> DEFINE G(n) == CHOOSE g : Good(n, g)
           f    == [n \in Nat |-> G(n)[n]]
<1>7. ASSUME NEW n \in Nat PROVE Good(n, G(n))
  <2>1. \E g : Good(n, g)
    BY <1>5
  <2> HIDE DEF Good
  <2>. QED BY <2>1
<1> HIDE DEF G
<1>8. f \in [Nat -> S]
  BY <1>7
<1>9. ASSUME NEW i \in Nat
      PROVE  f[i] = IF i \in D THEN base[i] ELSE step[<<i, f[next[i]]>>]
  <2>1. Good(i, G(i)) /\ Obeys(G(i), i)
    BY <1>7
  <2>2. CASE i \in D
    BY <2>1, <2>2
  <2>3. CASE i \notin D
    <3>1. next[i] \in Nat /\ next[i] <= i /\ next[i] \in 0 .. next[i]
      BY <1>1, <2>3
    <3>2. Good(next[i], G(next[i]))
      BY <1>7, <3>1
    <3>3. G(next[i])[next[i]] = G(i)[next[i]]
      <4> HIDE DEF Good
      <4>. QED BY <1>6, <2>1, <3>1, <3>2
    <3>. QED BY <2>1, <2>3, <3>1, <3>3
  <2>. QED BY <2>2, <2>3
<1>. QED BY <1>8, <1>9

\* Multiplication by a natural number keeps the order.
LEMMA TimesMonotone ==
  ASSUME NEW m \in Nat, NEW n \in Nat, NEW k \in Nat, m >= n
  PROVE  m * k >= n * k
<1> DEFINE d == m - n
<1>1. d \in Nat /\ m = n + d
  OBVIOUS
<1> HIDE DEF d
<1>2. m * k = n * k + d * k
  BY <1>1
<1>3. d * k \in Nat /\ n * k \in Nat
  BY <1>1
<1>4. QED
  BY <1>2, <1>3

\* Rounding down to a multiple of g and up again.
LEMMA DivFacts ==
  ASSUME NEW n \in Nat, NEW g \in Nat \ {0}
  PROVE  /\ n \div g \in Nat
         /\ (n \div g) * g <= n
         /\ \A m \in Nat : m > n \div g => m * g > n
<1> DEFINE q == n \div g
           r == n % g
<1>1. n = g * q + r /\ r \in 0 .. g - 1 /\ q \in Nat
  OBVIOUS
<1> HIDE DEF q, r
<1>2. q * g = g * q /\ q * g \in Nat
  BY <1>1
<1>3. ASSUME NEW m \in Nat, m > q
      PROVE  m * g > n
  <2>1. m * g >= (q + 1) * g
    <3>1. q + 1 \in Nat /\ m >= q + 1
      BY <1>1, <1>3
    <3>2. QED
      BY <3>1, TimesMonotone
  <2>2. (q + 1) * g = q * g + g
    BY <1>1
  <2>3. m * g \in Nat
    OBVIOUS
  <2>4. QED
    BY <1>1, <1>2, <2>1, <2>2, <2>3
<1>4. q * g <= n
  BY <1>1, <1>2
<1>5. QED
  BY <1>1, <1>3, <1>4 DEF q

\* A bounded non-empty set of naturals has a greatest element.
LEMMA NatGreatest ==
  ASSUME NEW n \in Nat, NEW S \in SUBSET (0 .. n), S # {}
  PROVE  \E m \in S : \A y \in S : y <= m
<1> DEFINE T == {k \in 0 .. n : n - k \in S}
<1>1. T \in SUBSET Nat
  OBVIOUS
<1>2. T # {}
  <2>1. PICK x \in S : TRUE
    OBVIOUS
  <2>2. n - x \in T
    OBVIOUS
  <2>3. QED
    BY <2>2
<1>3. PICK k \in T : \A j \in T : k <= j
  BY <1>1, <1>2, NatLeast
<1>4. ASSUME NEW y \in S PROVE y <= n - k
  <2>1. n - y \in T
    OBVIOUS
  <2>2. QED
    BY <1>3, <2>1
<1>5. QED
  BY <1>3, <1>4

\* Min of a non-empty set of naturals is its least member.
LEMMA MinIsLeast ==
  ASSUME NEW S \in SUBSET Nat, S # {}
  PROVE  Min(S) \in S /\ \A y \in S : Min(S) <= y
<1>1. \E x \in S : \A y \in S : x <= y
  BY NatLeast
<1>2. QED
  BY <1>1 DEF Min

\* Max of a bounded non-empty set of naturals is its greatest member.
LEMMA MaxIsGreatest ==
  ASSUME NEW n \in Nat, NEW S \in SUBSET (0 .. n), S # {}
  PROVE  Max(S) \in S /\ \A y \in S : Max(S) >= y
<1>1. \E x \in S : \A y \in S : x >= y
  <2>1. PICK m \in S : \A y \in S : y <= m
    BY NatGreatest
  <2>2. \A y \in S : m >= y
    BY <2>1
  <2>3. QED
    BY <2>2
<1>2. QED
  BY <1>1 DEF Max

\* Min and Max of two integers.
LEMMA MinMaxOfTwo ==
  ASSUME NEW a \in Int, NEW b \in Int
  PROVE  /\ Min({a, b}) = IF a <= b THEN a ELSE b
         /\ Max({a, b}) = IF a >= b THEN a ELSE b
<1> DEFINE lo == IF a <= b THEN a ELSE b
           hi == IF a >= b THEN a ELSE b
<1>1. /\ lo \in {a, b} /\ \A y \in {a, b} : lo <= y
      /\ \A x \in {a, b} : (\A y \in {a, b} : x <= y) => x = lo
  OBVIOUS
<1>2. /\ hi \in {a, b} /\ \A y \in {a, b} : hi >= y
      /\ \A x \in {a, b} : (\A y \in {a, b} : x >= y) => x = hi
  OBVIOUS
<1> HIDE DEF lo, hi
<1>3. Min({a, b}) = lo
  BY <1>1 DEF Min
<1>4. Max({a, b}) = hi
  BY <1>2 DEF Max
<1>. QED BY <1>3, <1>4 DEF lo, hi

----------------------------------------------------------------------------
\* The elements of two sequences put together.
LEMMA ConcatFacts ==
  ASSUME NEW T, NEW a \in Seq(T), NEW b \in Seq(T)
  PROVE  /\ a \o b \in Seq(T) /\ Len(a \o b) = Len(a) + Len(b)
         /\ \A j \in 1 .. Len(a) : (a \o b)[j] = a[j]
         /\ \A j \in 1 .. Len(b) : (a \o b)[Len(a) + j] = b[j]
<1>1. /\ a \o b \in Seq(T) /\ Len(a \o b) = Len(a) + Len(b)
      /\ \A i \in 1 .. Len(a) + Len(b) : (a \o b)[i] = IF i <= Len(a) THEN a[i] ELSE b[i - Len(a)]
      /\ Len(a) \in Nat /\ Len(b) \in Nat
  BY ConcatProperties, LenProperties
<1>2. ASSUME NEW j \in 1 .. Len(b)
      PROVE  (a \o b)[Len(a) + j] = b[j]
  <2>1. Len(a) + j \in 1 .. Len(a) + Len(b) /\ ~(Len(a) + j <= Len(a)) /\ Len(a) + j - Len(a) = j
    BY <1>1
  <2>2. QED
    BY <1>1, <2>1
<1>3. QED
  BY <1>1, <1>2

\* What holds of a place when it holds of all places behind it holds of all.
LEMMA FromTheEnd ==
  ASSUME NEW n \in Nat, NEW S \in SUBSET (1 .. n),
         \A i \in 1 .. n : (\A j \in i + 1 .. n : j \in S) => i \in S
  PROVE  S = 1 .. n
<1> DEFINE T == (1 .. n) \ S
<1>1. ASSUME T # {} PROVE FALSE
  <2>1. T \in SUBSET (0 .. n)
    OBVIOUS
  <2>2. PICK m \in T : \A y \in T : y <= m
    <3> HIDE DEF T
    <3>. QED BY <1>1, <2>1, NatGreatest
  <2>3. \A j \in m + 1 .. n : j \in S
    BY <2>2
  <2>. QED BY <2>2, <2>3
<1>. QED BY <1>1

\* The elements of a sequence from i up to before e.
LEMMA CutOut ==
  ASSUME NEW T, NEW src \in Seq(T), NEW i \in 1 .. Len(src) + 1, NEW e \in i .. Len(src) + 1
  PROVE  /\ SubSeq(src, i, e - 1) \in Seq(T) /\ Len(SubSeq(src, i, e - 1)) = e - i
         /\ \A k \in 1 .. e - i : SubSeq(src, i, e - 1)[k] = src[i + k - 1]
<1>1. Len(src) \in Nat /\ i \in Int /\ e - 1 \in Int
  OBVIOUS
<1>2. \A k \in i .. e - 1 : src[k] \in T
  OBVIOUS
<1>3. /\ SubSeq(src, i, e - 1) \in Seq(T)
      /\ Len(SubSeq(src, i, e - 1)) = IF i <= e - 1 THEN (e - 1) - i + 1 ELSE 0
      /\ \A k \in 1 .. (e - 1) - i + 1 : SubSeq(src, i, e - 1)[k] = src[i + k - 1]
  BY <1>1, <1>2, SubSeqProperties
<1>4. (e - 1) - i + 1 = e - i /\ (~(i <= e - 1) => e - i = 0)
  BY <1>1
<1>. QED BY <1>3, <1>4

\* Min of a set of naturals is the member that none is below.
LEMMA MinIs ==
  ASSUME NEW S \in SUBSET Nat, NEW m \in S, \A j \in S : m <= j
  PROVE  Min(S) = m
<1>1. Min(S) \in S /\ Min(S) <= m
  BY MinIsLeast
<1>2. m <= Min(S) /\ m \in Nat /\ Min(S) \in Nat
  BY <1>1
<1>3. QED
  BY <1>1, <1>2

\* Values for 1 to n: given in D, and elsewhere made by step of the value at a greater
\* number.
StepsUp(S, n, D, base, next, step) ==
  /\ n \in Nat /\ S # {}
  /\ D \in SUBSET (1 .. n) /\ base \in [D -> S]
  /\ next \in [(1 .. n) \ D -> 1 .. n] /\ \A i \in (1 .. n) \ D : i < next[i]
  /\ step \in [((1 .. n) \ D) \X S -> S]

\* There is a function defined that way.
LEMMA CourseFromTheEnd ==
  ASSUME NEW S, NEW n, NEW D, NEW base, NEW next, NEW step,
         StepsUp(S, n, D, base, next, step)
  PROVE  \E f \in [1 .. n -> S] :
           \A i \in 1 .. n : f[i] = IF i \in D THEN base[i] ELSE step[<<i, f[next[i]]>>]
<1>0. n \in Nat /\ S # {}
  BY DEF StepsUp
<1>1. PICK s \in S : TRUE
  BY <1>0
<1> DEFINE R == (1 .. n) \ D
           E == {k \in Nat : n + 1 - k \notin R}
           b == [k \in E |-> IF n + 1 - k \in D THEN base[n + 1 - k] ELSE s]
           x == [k \in Nat \ E |-> n + 1 - next[n + 1 - k]]
           t == [p \in (Nat \ E) \X S |-> step[<<n + 1 - p[1], p[2]>>]]
<1>2. ASSUME NEW k \in Nat \ E
      PROVE  /\ n + 1 - k \in R
             /\ n + 1 - next[n + 1 - k] \in Nat /\ n + 1 - next[n + 1 - k] < k
  <2>1. n + 1 - k \in R
    BY <1>0
  <2>2. PICK i \in R : i = n + 1 - k
    BY <2>1
  <2>3. PICK y \in 1 .. n : y = next[i] /\ i < y
    BY <2>2 DEF StepsUp
  <2>4. n + 1 - y \in Nat /\ n + 1 - y < k
    BY <1>0, <2>2, <2>3
  <2>5. QED
    BY <2>1, <2>2, <2>3, <2>4
<1>3. E \in SUBSET Nat /\ b \in [E -> S]
  BY <1>1 DEF StepsUp
<1>4. x \in [Nat \ E -> Nat] /\ \A k \in Nat \ E : x[k] < k
  <2> HIDE DEF E, R
  <2>1. QED
    BY <1>2
<1>5. t \in [(Nat \ E) \X S -> S]
  <2>1. ASSUME NEW k \in Nat \ E, NEW v \in S PROVE step[<<n + 1 - k, v>>] \in S
    <3>1. n + 1 - k \in R
      BY <1>2
    <3>2. QED
      BY <3>1 DEF StepsUp
  <2> HIDE DEF E
  <2>2. QED
    BY <2>1
<1>6. StepsDown(S, E, b, x, t)
  <2> HIDE DEF E, b, x, t
  <2>1. QED
    BY <1>3, <1>4, <1>5 DEF StepsDown
<1>7. PICK g \in [Nat -> S] :
        \A k \in Nat : g[k] = IF k \in E THEN b[k] ELSE t[<<k, g[x[k]]>>]
  <2> HIDE DEF E, b, x, t
  <2>1. QED
    BY <1>6, CourseOfValues, SMTT(30)
<1> DEFINE f == [i \in 1 .. n |-> g[n + 1 - i]]
<1>8. f \in [1 .. n -> S]
  BY <1>0
<1>9. ASSUME NEW i \in 1 .. n
      PROVE  f[i] = IF i \in D THEN base[i] ELSE step[<<i, f[next[i]]>>]
  <2>1. PICK k \in Nat : k = n + 1 - i /\ n + 1 - k = i
    BY <1>0
  <2>2. f[i] = g[k]
    BY <2>1
  <2>3. CASE i \in D
    <3>1. k \in E /\ b[k] = base[i]
      BY <2>1, <2>3
    <3> HIDE DEF E, b, x, t, f
    <3>2. QED
      BY <1>7, <2>2, <2>3, <3>1
  <2>4. CASE i \notin D
    <3>1. k \in Nat \ E /\ i \in R
      BY <2>1, <2>4
    <3>2. PICK y \in 1 .. n : y = next[i]
      BY <3>1 DEF StepsUp
    <3>3. x[k] = n + 1 - y /\ n + 1 - y \in Nat
      BY <1>0, <2>1, <3>1, <3>2
    <3>4. f[y] = g[n + 1 - y]
      BY <1>0, <3>2
    <3>5. \A v \in S : t[<<k, v>>] = step[<<i, v>>]
      <4> HIDE DEF E
      <4>1. QED
        BY <2>1, <3>1
    <3> HIDE DEF E, b, x, t, f, R
    <3>6. g[k] = t[<<k, g[n + 1 - y]>>]
      BY <1>7, <3>1, <3>3
    <3>7. g[n + 1 - y] \in S
      BY <3>3
    <3>8. QED
      BY <2>2, <2>4, <3>2, <3>4, <3>5, <3>6, <3>7
  <2>5. QED
    BY <2>3, <2>4
<1>10. QED
  <2> HIDE DEF f
  <2>1. QED
    BY <1>8, <1>9
=============================================================================
