--------------------------- MODULE ExpressionProofs ---------------------------
(***************************************************************************)
(* Proofs about Lexer and Expression, for every set of lines, every width  *)
(* of a long and an int, and every limit on digits, names, texts,          *)
(* arguments and files: the tokens of a line and its blanks are the line,  *)
(* and no line makes a value, a call or the stack of activations leave its *)
(* bounds or reads from a file what was not left in it.                    *)
(***************************************************************************)
EXTENDS Expression, BasicFacts, FiniteSetTheorems

----------------------------------------------------------------------------
(* Characters and numbers.                                                 *)

\* The characters of two sequences put together.
LEMMA ConcatRange ==
  ASSUME NEW T, NEW a \in Seq(T), NEW b \in Seq(T)
  PROVE  a \o b \in Seq(T) /\ ToSet(a) \subseteq ToSet(a \o b) /\ ToSet(b) \subseteq ToSet(a \o b)
<1>1. /\ a \o b \in Seq(T) /\ Len(a \o b) = Len(a) + Len(b)
      /\ \A j \in 1 .. Len(a) : (a \o b)[j] = a[j]
      /\ \A j \in 1 .. Len(b) : (a \o b)[Len(a) + j] = b[j]
  BY ConcatFacts
<1>2. /\ DOMAIN a = 1 .. Len(a) /\ DOMAIN b = 1 .. Len(b) /\ DOMAIN (a \o b) = 1 .. Len(a) + Len(b)
      /\ Len(a) \in Nat /\ Len(b) \in Nat
  BY <1>1, LenProperties
<1>3. \A j \in 1 .. Len(b) : Len(a) + j \in 1 .. Len(a) + Len(b)
  BY <1>2
<1>4. ToSet(a) \subseteq ToSet(a \o b)
  BY <1>1, <1>2 DEF ToSet
<1>5. ToSet(b) \subseteq ToSet(a \o b)
  <2>1. ASSUME NEW j \in 1 .. Len(b) PROVE b[j] \in ToSet(a \o b)
    <3>1. PICK k \in 1 .. Len(a) + Len(b) : (a \o b)[k] = b[j]
      BY <1>1, <1>3
    <3>. QED BY <1>2, <3>1 DEF ToSet
  <2>. QED BY <1>2, <2>1 DEF ToSet
<1>. QED BY <1>1, <1>4, <1>5

\* The digits and the letters are characters, and so is the minus.
LEMMA CharFacts ==
  /\ Digit \in [1 .. 10 -> Char] /\ Lower \in [1 .. 26 -> Char]
  /\ Upper \in [1 .. 26 -> Char] /\ "-" \in Char
<1> DEFINE signs == << "\t", "\r", " ", "!", "\"", "%", "(", ")", "*", "+", ",", "-", ".", "/" >>
           compare == << "<", "=", ">", "?" >>
           under == << "_" >>
           T == UNION {ToSet(signs), ToSet(Digit), ToSet(compare), ToSet(Upper), ToSet(under), ToSet(Lower)}
<1>1. signs \in Seq(ToSet(signs)) /\ "-" \in ToSet(signs)
  <2>1. signs \in Seq(ToSet(signs))
    <3>1. DOMAIN signs = 1 .. 14 /\ signs = [k \in 1 .. 14 |-> signs[k]]
      OBVIOUS
    <3> HIDE DEF signs
    <3>2. \A k \in 1 .. 14 : signs[k] \in ToSet(signs)
      BY <3>1 DEF ToSet
    <3>3. PICK n \in Nat : n = 14
      OBVIOUS
    <3>4. signs \in [1 .. n -> ToSet(signs)]
      BY <3>1, <3>2, <3>3
    <3>. QED BY <3>4
  <2>2. DOMAIN signs = 1 .. 14 /\ signs[12] = "-" /\ 12 \in 1 .. 14
    OBVIOUS
  <2> HIDE DEF signs
  <2>. QED BY <2>1, <2>2 DEF ToSet
<1>2. compare \in Seq(ToSet(compare)) /\ under \in Seq(ToSet(under))
  <2>1. compare \in Seq(ToSet(compare))
    BY DEF ToSet
  <2>2. under \in Seq(ToSet(under))
    <3>1. DOMAIN under = 1 .. 1 /\ under = [k \in 1 .. 1 |-> under[k]]
      OBVIOUS
    <3> HIDE DEF under
    <3>2. \A k \in 1 .. 1 : under[k] \in ToSet(under)
      BY <3>1 DEF ToSet
    <3>3. PICK n \in Nat : n = 1
      OBVIOUS
    <3>4. under \in [1 .. n -> ToSet(under)]
      BY <3>1, <3>2, <3>3
    <3>. QED BY <3>4
  <2>. QED BY <2>1, <2>2
<1>3. Digit \in Seq(ToSet(Digit)) /\ DOMAIN Digit = 1 .. 10
  BY DEF ToSet, Digit
<1>4. Lower \in Seq(ToSet(Lower)) /\ DOMAIN Lower = 1 .. 26
  BY DEF ToSet, Lower
<1>5. Upper \in Seq(ToSet(Upper)) /\ DOMAIN Upper = 1 .. 26
  BY DEF ToSet, Upper
<1>6. Ascii = ((((signs \o Digit) \o compare) \o Upper) \o under) \o Lower
  BY DEF Ascii
<1> HIDE DEF signs, compare, under
<1>7. /\ signs \in Seq(T) /\ Digit \in Seq(T) /\ compare \in Seq(T)
      /\ Upper \in Seq(T) /\ under \in Seq(T) /\ Lower \in Seq(T)
  BY <1>1, <1>2, <1>3, <1>4, <1>5
<1> HIDE DEF T
<1> DEFINE a == signs \o Digit
           b == a \o compare
           c == b \o Upper
           d == c \o under
<1>8. a \in Seq(T) /\ ToSet(signs) \subseteq ToSet(a) /\ ToSet(Digit) \subseteq ToSet(a)
  BY <1>7, ConcatRange
<1> HIDE DEF a
<1>9. b \in Seq(T) /\ ToSet(a) \subseteq ToSet(b)
  BY <1>7, <1>8, ConcatRange
<1> HIDE DEF b
<1>10. c \in Seq(T) /\ ToSet(b) \subseteq ToSet(c) /\ ToSet(Upper) \subseteq ToSet(c)
  BY <1>7, <1>9, ConcatRange
<1> HIDE DEF c
<1>11. d \in Seq(T) /\ ToSet(c) \subseteq ToSet(d)
  BY <1>7, <1>10, ConcatRange
<1> HIDE DEF d
<1>12. ToSet(d) \subseteq ToSet(Ascii) /\ ToSet(Lower) \subseteq ToSet(Ascii)
  <2>1. Ascii = d \o Lower
    BY <1>6 DEF a, b, c, d
  <2>. QED BY <1>7, <1>11, <2>1, ConcatRange
<1>13. /\ ToSet(signs) \subseteq Char /\ ToSet(Digit) \subseteq Char
       /\ ToSet(Upper) \subseteq Char /\ ToSet(Lower) \subseteq Char
  BY <1>8, <1>9, <1>10, <1>11, <1>12 DEF Char
<1>14. ASSUME NEW f, NEW n, f = [k \in 1 .. n |-> f[k]], ToSet(f) \subseteq Char
       PROVE  f \in [1 .. n -> Char]
  <2>1. \A k \in 1 .. n : f[k] \in Char
    BY <1>14 DEF ToSet
  <2>. QED BY <1>14, <2>1
<1>15. /\ Digit = [k \in 1 .. 10 |-> Digit[k]] /\ Lower = [k \in 1 .. 26 |-> Lower[k]]
       /\ Upper = [k \in 1 .. 26 |-> Upper[k]]
  BY <1>3, <1>4, <1>5
<1>16. Digit \in [1 .. 10 -> Char] /\ Lower \in [1 .. 26 -> Char] /\ Upper \in [1 .. 26 -> Char]
  BY <1>13, <1>14, <1>15
<1>. QED BY <1>1, <1>13, <1>16

\* The sizes of the lexer.
LEMMA LexerSizes ==
  /\ MaxDigits \in Nat \ {0} /\ MaxName \in Nat \ {0} /\ MaxStr \in Nat \ {0}
  /\ IntWord \in Nat \ {0} /\ Word \in Nat \ {0} /\ Word % 2 = 0
  /\ MaxArgs \in Nat /\ MaxFiles \in Nat
  BY LexerAssumption, ExpressionAssumption

\* An int is a number, and the value of a digit too.
LEMMA IntFacts ==
  /\ \A n \in Int : WrapInt(n) \in Int
  /\ \A c \in Digits : DigitOf(c) \in Int
<1>1. ASSUME NEW n \in Int PROVE WrapInt(n) \in Int
  <2>1. PICK h \in Int : h = IntWord \div 2
    BY LexerSizes
  <2>2. (n + h) % IntWord \in Int
    BY LexerSizes, <2>1
  <2>. QED BY <2>1, <2>2 DEF WrapInt
<1>2. ASSUME NEW c \in Digits PROVE DigitOf(c) \in Int
  <2>1. DOMAIN Digit = 1 .. 10
    BY CharFacts
  <2>2. \E d \in 1 .. 10 : Digit[d] = c
    BY <2>1 DEF Digits, ToSet
  <2>3. PICK d \in 1 .. 10 : d = CHOOSE k \in 1 .. 10 : Digit[k] = c
    BY <2>2
  <2>4. DigitOf(c) = d - 1
    BY <2>3 DEF DigitOf
  <2>. QED BY <2>4
<1>. QED BY <1>1, <1>2

\* The value of digits is a number.
LEMMA KatoiType ==
  ASSUME NEW s, Len(s) \in Nat, \A n \in 1 .. Len(s) : s[n] \in Digits
  PROVE  Katoi(s) \in Int
<1> DEFINE N == Len(s)
           D == {0} \cup {n \in Nat : n > N}
           base == [n \in D |-> 0]
           next == [n \in Nat \ D |-> n - 1]
           step == [p \in (Nat \ D) \X Int |-> WrapInt(10 * p[2] + DigitOf(s[p[1]]))]
<1>1. \A n \in Nat \ D : n \in 1 .. N
  OBVIOUS
<1>2. D \in SUBSET Nat /\ base \in [D -> Int]
  OBVIOUS
<1>3. next \in [Nat \ D -> Nat] /\ \A n \in Nat \ D : next[n] < n
  OBVIOUS
<1>4. ASSUME NEW n \in 1 .. N, NEW v \in Int
      PROVE  WrapInt(10 * v + DigitOf(s[n])) \in Int
  <2>1. DigitOf(s[n]) \in Int
    BY IntFacts
  <2>2. 10 * v + DigitOf(s[n]) \in Int
    BY <2>1
  <2>. QED BY <2>2, IntFacts
<1>5. step \in [(Nat \ D) \X Int -> Int]
  BY <1>1, <1>4
<1> HIDE DEF D, base, next, step
<1>6. PICK f \in [Nat -> Int] :
        \A n \in Nat : f[n] = IF n \in D THEN base[n] ELSE step[<<n, f[next[n]]>>]
  <2>1. StepsDown(Int, D, base, next, step)
    BY <1>2, <1>3, <1>5 DEF StepsDown
  <2>. QED BY <2>1, CourseOfValues, SMTT(30)
<1> DEFINE g == [n \in 0 .. N |-> f[n]]
           F(a) == [n \in 0 .. N |-> IF n = 0 THEN 0 ELSE WrapInt(10 * a[n - 1] + DigitOf(s[n]))]
           upto == CHOOSE a : a = F(a)
<1>7. g = F(g)
  <2>1. ASSUME NEW n \in 0 .. N
        PROVE  g[n] = IF n = 0 THEN 0 ELSE WrapInt(10 * g[n - 1] + DigitOf(s[n]))
    <3>1. CASE n = 0
      BY <1>6, <3>1 DEF D, base
    <3>2. CASE n # 0
      <4>1. n \in Nat \ D /\ n - 1 \in 0 .. N /\ next[n] = n - 1 /\ f[n - 1] \in Int
        BY <3>2 DEF D, next
      <4>2. f[n] = step[<<n, f[n - 1]>>]
        BY <1>6, <4>1
      <4>3. step[<<n, f[n - 1]>>] = WrapInt(10 * f[n - 1] + DigitOf(s[n]))
        BY <4>1 DEF step
      <4>. QED BY <3>2, <4>1, <4>2, <4>3
    <3>. QED BY <3>1, <3>2
  <2>. QED BY <2>1
<1>8. upto = F(upto)
  BY <1>7, Zenon
<1>9. Katoi(s) = upto[N]
  BY DEF Katoi
<1> HIDE DEF upto, g
<1> DEFINE T == {n \in Nat : n <= N => upto[n] \in Int}
<1>10. \A n \in 0 .. N : upto[n] = IF n = 0 THEN 0 ELSE WrapInt(10 * upto[n - 1] + DigitOf(s[n]))
  BY <1>8
<1>11. T = Nat
  <2>1. 0 \in T
    BY <1>10
  <2>2. ASSUME NEW n \in T PROVE n + 1 \in T
    <3>1. CASE n + 1 <= N
      <4>1. n + 1 \in 1 .. N /\ upto[n] \in Int /\ (n + 1) - 1 = n
        BY <3>1
      <4>2. upto[n + 1] = WrapInt(10 * upto[n] + DigitOf(s[n + 1]))
        BY <1>10, <4>1
      <4>. QED BY <1>4, <4>1, <4>2
    <3>2. CASE ~(n + 1 <= N)
      BY <3>2
    <3>. QED BY <3>1, <3>2
  <2>3. T \in SUBSET Nat
    OBVIOUS
  <2> HIDE DEF T
  <2>. QED BY <2>1, <2>2, <2>3, SetInduction
<1>12. N \in T
  <2> HIDE DEF T
  <2>. QED BY <1>11
<1>. QED BY <1>9, <1>12

----------------------------------------------------------------------------
(* The lexer.                                                              *)

\* A run stops where its characters do or at its limit, and not before.
LEMMA RunFacts ==
  ASSUME NEW src, Len(src) \in Nat, NEW i \in 1 .. Len(src) + 1, NEW class, NEW limit \in Nat
  PROVE  /\ RunEnd(src, i, class, limit) \in i .. Len(src) + 1
         /\ RunEnd(src, i, class, limit) <= i + limit
         /\ \A j \in i .. RunEnd(src, i, class, limit) - 1 : j \in 1 .. Len(src) /\ src[j] \in class
         /\ \/ RunEnd(src, i, class, limit) > Len(src)
            \/ src[RunEnd(src, i, class, limit)] \notin class
            \/ RunEnd(src, i, class, limit) = i + limit
<1> DEFINE S == {j \in i .. Len(src) + 1 : j > Len(src) \/ src[j] \notin class \/ j = i + limit}
           e == Min(S)
<1>1. S \in SUBSET Nat /\ Len(src) + 1 \in S
  OBVIOUS
<1>2. e \in S /\ \A j \in S : e <= j
  <2> HIDE DEF S
  <2>. QED BY <1>1, MinIsLeast
<1>3. RunEnd(src, i, class, limit) = e
  BY DEF RunEnd
<1> HIDE DEF e
<1>4. e \in i .. Len(src) + 1 /\ (e > Len(src) \/ src[e] \notin class \/ e = i + limit)
  BY <1>2
<1>5. e <= i + limit
  <2>1. CASE i + limit <= Len(src) + 1
    <3>1. i + limit \in S
      BY <2>1
    <3>. QED BY <1>2, <3>1
  <2>2. CASE ~(i + limit <= Len(src) + 1)
    BY <1>4, <2>2
  <2>. QED BY <2>1, <2>2
<1>6. ASSUME NEW j \in i .. e - 1
      PROVE  j \in 1 .. Len(src) /\ src[j] \in class
  <2>1. j \in i .. Len(src) + 1 /\ j < e
    BY <1>4
  <2>2. j \notin S
    BY <1>2, <1>4, <2>1
  <2>. QED BY <2>1, <2>2
<1>. QED BY <1>3, <1>4, <1>5, <1>6

\* Blanks are skipped, and nothing else.
LEMMA BlankFacts ==
  ASSUME NEW src, Len(src) \in Nat, NEW i \in 1 .. Len(src) + 1
  PROVE  /\ PastBlanks(src, i) \in i .. Len(src) + 1
         /\ \A j \in i .. PastBlanks(src, i) - 1 : j \in 1 .. Len(src) /\ src[j] \in Blanks
         /\ PastBlanks(src, i) <= Len(src) => src[PastBlanks(src, i)] \notin Blanks
<1> DEFINE S == {j \in i .. Len(src) + 1 : j > Len(src) \/ src[j] \notin Blanks}
           e == Min(S)
<1>1. S \in SUBSET Nat /\ Len(src) + 1 \in S
  OBVIOUS
<1>2. e \in S /\ \A j \in S : e <= j
  <2> HIDE DEF S
  <2>. QED BY <1>1, MinIsLeast
<1>3. PastBlanks(src, i) = e
  BY DEF PastBlanks
<1> HIDE DEF e
<1>4. e \in i .. Len(src) + 1 /\ (e > Len(src) \/ src[e] \notin Blanks)
  BY <1>2
<1>5. ASSUME NEW j \in i .. e - 1
      PROVE  j \in 1 .. Len(src) /\ src[j] \in Blanks
  <2>1. j \in i .. Len(src) + 1 /\ j < e
    BY <1>4
  <2>2. j \notin S
    BY <1>2, <1>4, <2>1
  <2>. QED BY <2>1, <2>2
<1>. QED BY <1>3, <1>4, <1>5

\* A number's token carries a number, and a text's a text.
TokenTyped(t) ==
  /\ t.type = "number" => t.num \in Int
  /\ t.type = "string" => t.text \in Texts

\* Where a token that starts at i may end.
Whole(src, i, t, to) ==
  /\ t.type = "number" => /\ to - i <= MaxDigits
                          /\ to - i = MaxDigits \/ to > Len(src) \/ src[to] \notin Digits
  /\ t.type \in {"ident", "keyword"} => /\ to - i <= MaxName
                                        /\ to - i = MaxName \/ to > Len(src) \/ src[to] \notin IdentChars
  /\ t.type = "string" => /\ Len(t.text) <= MaxStr
                          /\ Len(t.text) = MaxStr \/ to > Len(src) \/ src[to - 1] = Quote
  /\ t.type \notin {"number", "ident", "keyword", "string"} =>
       to - i = 2 \/ to > Len(src) \/ <<src[i], src[to]>> \notin Pairs

Proper(src, i, s) ==
  s.to \in i + 1 .. Len(src) + 1 /\ TokenTyped(s.token) /\ Whole(src, i, s.token, s.to)

LEMMA NumberProper ==
  ASSUME NEW src \in Texts, NEW i \in 1 .. Len(src), src[i] \in Digits
  PROVE  Proper(src, i, Number(src, i))
<1>1. Len(src) \in Nat /\ i \in 1 .. Len(src) + 1 /\ src \in Seq(Char)
  BY DEF Texts
<1> DEFINE to == RunEnd(src, i, Digits, MaxDigits)
           cut == SubSeq(src, i, to - 1)
<1>2. /\ to \in i .. Len(src) + 1 /\ to <= i + MaxDigits
      /\ \A j \in i .. to - 1 : j \in 1 .. Len(src) /\ src[j] \in Digits
      /\ to > Len(src) \/ src[to] \notin Digits \/ to = i + MaxDigits
  BY <1>1, RunFacts, LexerSizes
<1> HIDE DEF to
<1>3. to # i
  BY <1>1, <1>2, LexerSizes
<1>4. Len(cut) = to - i /\ \A k \in 1 .. to - i : cut[k] = src[i + k - 1]
  BY <1>1, <1>2, CutOut
<1>5. \A k \in 1 .. Len(cut) : cut[k] \in Digits
  BY <1>1, <1>2, <1>4
<1>6. Katoi(cut) \in Int
  <2>1. Len(cut) \in Nat
    BY <1>1, <1>2, <1>4
  <2> HIDE DEF cut
  <2>. QED BY <1>5, <2>1, KatoiType
<1>7. Number(src, i) = [token |-> [type |-> "number", num |-> Katoi(cut)], to |-> to]
  BY DEF Number, Scanned, to
<1> HIDE DEF cut
<1>8. TokenTyped([type |-> "number", num |-> Katoi(cut)])
  BY <1>6 DEF TokenTyped
<1>9. Whole(src, i, [type |-> "number", num |-> Katoi(cut)], to)
  <2>1. to - i <= MaxDigits /\ (to - i = MaxDigits \/ to > Len(src) \/ src[to] \notin Digits)
    BY <1>1, <1>2, LexerSizes
  <2>. QED BY <2>1 DEF Whole
<1>10. to \in i + 1 .. Len(src) + 1
  BY <1>1, <1>2, <1>3
<1>. QED BY <1>7, <1>8, <1>9, <1>10 DEF Proper

LEMMA StringProper ==
  ASSUME NEW src \in Texts, NEW i \in 1 .. Len(src)
  PROVE  Proper(src, i, String(src, i))
<1>1. Len(src) \in Nat /\ i + 1 \in 1 .. Len(src) + 1 /\ src \in Seq(Char) /\ i \in Nat
  BY DEF Texts
<1> DEFINE to == RunEnd(src, i + 1, Quotable, MaxStr)
           cut == SubSeq(src, i + 1, to - 1)
           past == IF to <= Len(src) /\ src[to] = Quote THEN to + 1 ELSE to
<1>2. /\ to \in i + 1 .. Len(src) + 1 /\ to <= (i + 1) + MaxStr
      /\ to > Len(src) \/ src[to] \notin Quotable \/ to = (i + 1) + MaxStr
  BY <1>1, RunFacts, LexerSizes
<1>3. Len(cut) = to - (i + 1) /\ cut \in Texts
  <2>1. SubSeq(src, i + 1, to - 1) \in Seq(Char) /\ Len(SubSeq(src, i + 1, to - 1)) = to - (i + 1)
    <3> HIDE DEF to
    <3>. QED BY <1>1, <1>2, CutOut
  <2>. QED BY <2>1 DEF Texts
<1>4. String(src, i) = [token |-> [type |-> "string", text |-> cut], to |-> past]
  BY DEF String, Scanned
<1> HIDE DEF to, cut
<1>5. past \in i + 1 .. Len(src) + 1
  BY <1>1, <1>2
<1>6. TokenTyped([type |-> "string", text |-> cut])
  BY <1>3 DEF TokenTyped
<1>7. Len(cut) <= MaxStr /\ (Len(cut) = MaxStr \/ past > Len(src) \/ src[past - 1] = Quote)
  <2>1. Len(cut) <= MaxStr
    BY <1>1, <1>2, <1>3, LexerSizes
  <2>2. CASE to > Len(src)
    BY <1>2, <2>1, <2>2
  <2>3. CASE to = (i + 1) + MaxStr
    BY <1>1, <1>3, <2>1, <2>3, LexerSizes
  <2>4. CASE to <= Len(src) /\ src[to] \notin Quotable
    <3>1. to \in 1 .. Len(src)
      BY <1>1, <1>2, <2>4
    <3>2. src[to] \in Char
      BY <1>1, <3>1, ElementOfSeq
    <3>3. src[to] = Quote
      BY <2>4, <3>2 DEF Quotable
    <3>4. past = to + 1 /\ past - 1 = to
      BY <2>4, <3>1, <3>3
    <3>. QED BY <2>1, <3>3, <3>4
  <2>. QED BY <1>1, <1>2, <2>2, <2>3, <2>4
<1> HIDE DEF past
<1>8. Whole(src, i, [type |-> "string", text |-> cut], past)
  BY <1>7 DEF Whole
<1>. QED BY <1>4, <1>5, <1>6, <1>8 DEF Proper

LEMMA IdentifierProper ==
  ASSUME NEW src \in Texts, NEW i \in 1 .. Len(src), src[i] \in Alphas
  PROVE  Proper(src, i, Identifier(src, i))
<1>1. Len(src) \in Nat /\ i \in 1 .. Len(src) + 1 /\ src[i] \in IdentChars
  BY DEF Texts, IdentChars
<1> DEFINE to == RunEnd(src, i, IdentChars, MaxName)
           name == Spelled(SubSeq(src, i, to - 1))
           type == IF name \in Keywords THEN "keyword" ELSE "ident"
<1>2. /\ to \in i .. Len(src) + 1 /\ to <= i + MaxName
      /\ to > Len(src) \/ src[to] \notin IdentChars \/ to = i + MaxName
  BY <1>1, RunFacts, LexerSizes
<1>3. Identifier(src, i) = [token |-> [type |-> type, name |-> name], to |-> to]
  BY DEF Identifier, Scanned
<1>4. type \in {"ident", "keyword"}
  OBVIOUS
<1> HIDE DEF to, name, type
<1>5. to \in i + 1 .. Len(src) + 1
  BY <1>1, <1>2, LexerSizes
<1>6. TokenTyped([type |-> type, name |-> name])
  BY <1>4 DEF TokenTyped
<1>7. to - i <= MaxName /\ (to - i = MaxName \/ to > Len(src) \/ src[to] \notin IdentChars)
  BY <1>1, <1>2, LexerSizes
<1>8. Whole(src, i, [type |-> type, name |-> name], to)
  BY <1>4, <1>7 DEF Whole
<1>. QED BY <1>3, <1>5, <1>6, <1>8 DEF Proper

LEMMA SignProper ==
  ASSUME NEW src \in Texts, NEW i \in 1 .. Len(src)
  PROVE  Proper(src, i, Sign(src, i))
<1>1. Len(src) \in Nat /\ i \in Nat
  BY DEF Texts
<1>2. CASE i < Len(src) /\ <<src[i], src[i + 1]>> \in Pairs
  <2>1. src[i] \in DOMAIN Twofold
    BY <1>2 DEF Pairs
  <2>2. Twofold[src[i]] \in {"==", "!=", "<=", ">="}
    BY <2>1 DEF Twofold
  <2> DEFINE type == Twofold[src[i]]
  <2>3. Sign(src, i) = [token |-> [type |-> type], to |-> i + 2]
    BY <1>2 DEF Sign, Scanned
  <2> HIDE DEF type
  <2>4. type \in {"==", "!=", "<=", ">="}
    BY <2>2 DEF type
  <2>5. TokenTyped([type |-> type])
    BY <2>4 DEF TokenTyped
  <2>6. Whole(src, i, [type |-> type], i + 2)
    BY <1>1, <2>4 DEF Whole
  <2>7. i + 2 \in i + 1 .. Len(src) + 1
    BY <1>1, <1>2
  <2>. QED BY <2>3, <2>5, <2>6, <2>7 DEF Proper
<1>3. CASE ~(i < Len(src) /\ <<src[i], src[i + 1]>> \in Pairs)
  <2> DEFINE type == IF src[i] \in Singles THEN src[i] ELSE "unknown"
  <2>1. Sign(src, i) = [token |-> [type |-> type], to |-> i + 1]
    BY <1>3 DEF Sign, Scanned
  <2>2. type \notin {"number", "ident", "keyword", "string"}
    BY DEF Singles
  <2> HIDE DEF type
  <2>3. TokenTyped([type |-> type])
    BY <2>2 DEF TokenTyped
  <2>4. i + 1 > Len(src) \/ <<src[i], src[i + 1]>> \notin Pairs
    BY <1>1, <1>3
  <2>5. Whole(src, i, [type |-> type], i + 1)
    BY <2>2, <2>4 DEF Whole
  <2>6. i + 1 \in i + 1 .. Len(src) + 1
    BY <1>1
  <2>. QED BY <2>1, <2>3, <2>5, <2>6 DEF Proper
<1>. QED BY <1>2, <1>3

\* Digits, letters and the quote are different characters.
LEMMA ClassesApart ==
  /\ Quote \notin Digits /\ Quote \notin Alphas
  /\ \A c \in Digits : c \notin Alphas
<1> DEFINE digits == {"0", "1", "2", "3", "4", "5", "6", "7", "8", "9"}
           lower == {"a", "b", "c", "d", "e", "f", "g", "h", "i", "j", "k", "l", "m",
                     "n", "o", "p", "q", "r", "s", "t", "u", "v", "w", "x", "y", "z"}
           upper == {"A", "B", "C", "D", "E", "F", "G", "H", "I", "J", "K", "L", "M",
                     "N", "O", "P", "Q", "R", "S", "T", "U", "V", "W", "X", "Y", "Z"}
<1>1. ASSUME NEW T, NEW f \in Seq(T) PROVE ToSet(f) \subseteq T
  BY DEF ToSet
<1>2. Digits \subseteq digits
  <2>1. Digit \in Seq(digits)
    BY DEF Digit
  <2> HIDE DEF digits
  <2>. QED BY <1>1, <2>1 DEF Digits
<1>3. ToSet(Lower) \subseteq lower
  <2>1. Lower \in Seq(lower)
    BY DEF Lower
  <2> HIDE DEF lower
  <2>. QED BY <1>1, <2>1
<1>4. ToSet(Upper) \subseteq upper
  <2>1. Upper \in Seq(upper)
    BY DEF Upper
  <2> HIDE DEF upper
  <2>. QED BY <1>1, <2>1
<1>5. Alphas \subseteq lower \cup upper \cup {"_"}
  <2> HIDE DEF lower, upper
  <2>. QED BY <1>3, <1>4 DEF Alphas
<1>6. Quote \notin digits /\ Quote \notin lower \cup upper \cup {"_"}
  BY DEF Quote
<1>7. \A c \in digits : c \notin lower \cup upper \cup {"_"}
  OBVIOUS
<1> HIDE DEF digits, lower, upper
<1>. QED BY <1>2, <1>5, <1>6, <1>7

\* A token takes at least a character and no more than there are, and ends where its
\* characters end or at its limit.
LEMMA ScanProper ==
  ASSUME NEW src \in Texts, NEW i \in 1 .. Len(src)
  PROVE  Proper(src, i, Scan(src, i))
<1>1. CASE src[i] \in Digits
  <2>1. src[i] # Quote /\ src[i] \notin Alphas
    BY <1>1, ClassesApart
  <2>2. Scan(src, i) = Number(src, i)
    BY <1>1, <2>1 DEF Scan
  <2>. QED BY <1>1, <2>2, NumberProper
<1>2. CASE src[i] = Quote
  <2>1. src[i] \notin Digits /\ src[i] \notin Alphas
    BY <1>2, ClassesApart
  <2>2. Scan(src, i) = String(src, i)
    BY <1>2, <2>1 DEF Scan
  <2>. QED BY <2>2, StringProper
<1>3. CASE src[i] \in Alphas
  <2>1. src[i] \notin Digits /\ src[i] # Quote
    BY <1>3, ClassesApart
  <2>2. Scan(src, i) = Identifier(src, i)
    BY <1>3, <2>1 DEF Scan
  <2>. QED BY <1>3, <2>2, IdentifierProper
<1>4. CASE src[i] \notin Digits /\ src[i] # Quote /\ src[i] \notin Alphas
  <2>1. Scan(src, i) = Sign(src, i)
    BY <1>4 DEF Scan
  <2>. QED BY <2>1, SignProper
<1>. QED BY <1>1, <1>2, <1>3, <1>4

----------------------------------------------------------------------------
(* The tokens of a line.                                                   *)

\* A token with its places, at j of a line, and all such.
Item(src, j) == [token |-> Scan(src, j).token, from |-> j, to |-> Scan(src, j).to]
Items(src)   == {Item(src, j) : j \in 1 .. Len(src)}

\* The tokens from each place on are the first of them and those behind it.
Follows(src, from) ==
  /\ from \in [1 .. Len(src) + 1 -> Seq(Items(src))]
  /\ \A i \in 1 .. Len(src) + 1 :
       from[i] = IF PastBlanks(src, i) > Len(src) THEN <<>>
                 ELSE <<Item(src, PastBlanks(src, i))>> \o from[Scan(src, PastBlanks(src, i)).to]

LEMMA FirstPlace ==
  ASSUME NEW src \in Texts, NEW i \in 1 .. Len(src) + 1, ~(PastBlanks(src, i) > Len(src))
  PROVE  /\ PastBlanks(src, i) \in 1 .. Len(src) /\ i <= PastBlanks(src, i)
         /\ Scan(src, PastBlanks(src, i)).to \in i + 1 .. Len(src) + 1
         /\ PastBlanks(src, i) < Scan(src, PastBlanks(src, i)).to
         /\ Item(src, PastBlanks(src, i)) \in Items(src)
<1>1. Len(src) \in Nat
  BY DEF Texts
<1>2. PICK p \in Nat : p = PastBlanks(src, i) /\ p \in i .. Len(src) + 1
  BY <1>1, BlankFacts
<1>3. p \in 1 .. Len(src) /\ i <= p
  BY <1>1, <1>2
<1>4. Scan(src, p).to \in p + 1 .. Len(src) + 1
  BY <1>3, ScanProper DEF Proper
<1>5. Scan(src, p).to \in i + 1 .. Len(src) + 1 /\ p < Scan(src, p).to
  BY <1>1, <1>3, <1>4
<1>. QED BY <1>2, <1>3, <1>5 DEF Items

\* The recursive function in Scans satisfies its defining equation.
LEMMA ScansEquation ==
  ASSUME NEW src \in Texts
  PROVE  \E from : Follows(src, from) /\ Scans(src) = from[1]
<1>0. PICK N \in Nat : N = Len(src)
  BY DEF Texts
<1> DEFINE Q == Seq(Items(src))
           P(i) == PastBlanks(src, i)
           D == {k \in Nat : k > N \/ P(N + 1 - k) > N}
           base == [k \in D |-> <<>>]
           next == [k \in Nat \ D |-> N + 1 - Scan(src, P(N + 1 - k)).to]
           step == [p \in (Nat \ D) \X Q |-> <<Item(src, P(N + 1 - p[1]))>> \o p[2]]
<1>1. ASSUME NEW k \in Nat \ D
      PROVE  /\ N + 1 - k \in 1 .. N + 1 /\ ~(P(N + 1 - k) > N)
             /\ Scan(src, P(N + 1 - k)).to \in N + 1 - k + 1 .. N + 1
             /\ Item(src, P(N + 1 - k)) \in Items(src)
  <2>1. k <= N /\ ~(P(N + 1 - k) > N) /\ N + 1 - k \in 1 .. N + 1
    BY <1>1
  <2>. QED BY <1>0, <2>1, FirstPlace
<1>2. D \in SUBSET Nat /\ base \in [D -> Q]
  OBVIOUS
<1>3. next \in [Nat \ D -> Nat] /\ \A k \in Nat \ D : next[k] < k
  <2>1. ASSUME NEW k \in Nat \ D
        PROVE  N + 1 - Scan(src, P(N + 1 - k)).to \in Nat /\ N + 1 - Scan(src, P(N + 1 - k)).to < k
    <3>1. PICK z \in Int : z = Scan(src, P(N + 1 - k)).to /\ z \in N + 1 - k + 1 .. N + 1
      BY <1>1
    <3>2. N + 1 - z \in Nat /\ N + 1 - z < k
      BY <3>1
    <3>. QED BY <3>1, <3>2
  <2> HIDE DEF D, P
  <2>. QED BY <2>1
<1>4. step \in [(Nat \ D) \X Q -> Q]
  <2>1. ASSUME NEW k \in Nat \ D, NEW q \in Q
        PROVE  <<Item(src, P(N + 1 - k))>> \o q \in Q
    <3>1. <<Item(src, P(N + 1 - k))>> \in Q
      BY <1>1
    <3> HIDE DEF P
    <3>. QED BY <3>1, ConcatProperties
  <2> HIDE DEF D, P, Q
  <2>. QED BY <2>1
<1>5. StepsDown(Q, D, base, next, step)
  <2> HIDE DEF D, base, next, step, Q
  <2>. QED BY <1>2, <1>3, <1>4 DEF StepsDown
<1>6. PICK f \in [Nat -> Q] :
        \A k \in Nat : f[k] = IF k \in D THEN base[k] ELSE step[<<k, f[next[k]]>>]
  <2> HIDE DEF D, base, next, step, Q
  <2>. QED BY <1>5, CourseOfValues, SMTT(30)
<1> DEFINE F(a) == [i \in 1 .. Len(src) + 1 |->
                      IF PastBlanks(src, i) > Len(src) THEN <<>>
                      ELSE <<[token |-> Scan(src, PastBlanks(src, i)).token,
                              from  |-> PastBlanks(src, i),
                              to    |-> Scan(src, PastBlanks(src, i)).to]>>
                             \o a[Scan(src, PastBlanks(src, i)).to]]
           g == [i \in 1 .. Len(src) + 1 |-> f[N + 1 - i]]
           chosen == CHOOSE a : a = F(a)
<1>7. g = F(g)
  <2>1. ASSUME NEW i \in 1 .. Len(src) + 1 PROVE g[i] = F(g)[i]
    <3>1. N + 1 - i \in Nat /\ N + 1 - (N + 1 - i) = i /\ ~(N + 1 - i > N)
      BY <1>0
    <3>2. CASE P(i) > N
      <4>1. N + 1 - i \in D
        BY <3>1, <3>2
      <4>2. f[N + 1 - i] = <<>>
        BY <1>6, <3>1, <4>1
      <4>. QED BY <1>0, <3>2, <4>2
    <3>3. CASE ~(P(i) > N)
      <4> DEFINE k == N + 1 - i
                 z == Scan(src, P(i)).to
      <4>1. k \in Nat \ D
        BY <3>1, <3>3
      <4>2. z \in 1 .. Len(src) + 1 /\ N + 1 - z \in Nat
        <5>1. z \in i + 1 .. N + 1
          <6> HIDE DEF D, P
          <6>. QED BY <1>1, <3>1, <4>1
        <5> HIDE DEF z
        <5>2. z \in Int /\ z >= i + 1 /\ z <= N + 1 /\ i \in Nat
          BY <1>0, <5>1
        <5>. QED BY <1>0, <5>2
      <4>3. next[k] = N + 1 - z
        BY <3>1, <4>1
      <4>4. f[k] = step[<<k, f[N + 1 - z]>>]
        <5> HIDE DEF D, base, next, step, Q, k, z
        <5>. QED BY <1>6, <4>1, <4>3
      <4>5. step[<<k, f[N + 1 - z]>>] = <<Item(src, P(i))>> \o f[N + 1 - z]
        <5>1. f[N + 1 - z] \in Q
          <6> HIDE DEF Q, z
          <6>. QED BY <1>6, <4>2
        <5>2. \A q \in Q : step[<<k, q>>] = <<Item(src, P(N + 1 - k))>> \o q
          <6> HIDE DEF Q, k, D, P
          <6>. QED BY <4>1
        <5>. QED BY <3>1, <5>1, <5>2
      <4>6. g[i] = f[k] /\ g[z] = f[N + 1 - z]
        <5> HIDE DEF z
        <5>. QED BY <4>2
      <4>7. F(g)[i] = <<Item(src, P(i))>> \o g[z]
        <5> HIDE DEF g
        <5>. QED BY <1>0, <3>3 DEF Item
      <4> HIDE DEF g, F, k, z, P, step
      <4>. QED BY <4>4, <4>5, <4>6, <4>7
    <3>. QED BY <3>2, <3>3
  <2>2. g = [i \in 1 .. Len(src) + 1 |-> g[i]] /\ F(g) = [i \in 1 .. Len(src) + 1 |-> F(g)[i]]
    OBVIOUS
  <2> HIDE DEF g, F
  <2>. QED BY <2>1, <2>2
<1>8. chosen = F(chosen)
  BY <1>7, Zenon
<1>9. Scans(src) = chosen[1]
  BY DEF Scans, Scanned
<1> HIDE DEF chosen
<1>10. \A i \in 1 .. Len(src) + 1 :
         chosen[i] = IF PastBlanks(src, i) > Len(src) THEN <<>>
                     ELSE <<Item(src, PastBlanks(src, i))>> \o chosen[Scan(src, PastBlanks(src, i)).to]
  BY <1>8 DEF Item
<1>11. chosen = [i \in 1 .. Len(src) + 1 |-> chosen[i]]
  BY <1>8
<1> DEFINE T == {i \in 1 .. N + 1 : chosen[i] \in Seq(Items(src))}
<1>12. ASSUME NEW i \in 1 .. N + 1, \A j \in i + 1 .. N + 1 : j \in T
       PROVE  i \in T
  <2>1. CASE PastBlanks(src, i) > N
    <3>1. chosen[i] = <<>>
      BY <1>0, <1>10, <2>1
    <3>2. <<>> \in Seq(Items(src))
      OBVIOUS
    <3>. QED BY <3>1, <3>2
  <2>2. CASE ~(PastBlanks(src, i) > N)
    <3>1. PICK z \in i + 1 .. N + 1 : z = Scan(src, PastBlanks(src, i)).to
      BY <1>0, <2>2, FirstPlace
    <3>2. PICK it \in Items(src) : it = Item(src, PastBlanks(src, i))
      BY <1>0, <2>2, FirstPlace
    <3>3. chosen[i] = <<it>> \o chosen[z]
      BY <1>0, <1>10, <2>2, <3>1, <3>2
    <3>4. chosen[z] \in Seq(Items(src)) /\ <<it>> \in Seq(Items(src))
      <4>1. z \in T
        <5> HIDE DEF T
        <5>. QED BY <1>12, <3>1
      <4>2. <<it>> \in Seq(Items(src))
        BY <3>2
      <4>. QED BY <4>1, <4>2
    <3>5. <<it>> \o chosen[z] \in Seq(Items(src))
      BY <3>4, ConcatProperties
    <3>. QED BY <3>3, <3>5
  <2>. QED BY <2>1, <2>2
<1>13. T = 1 .. N + 1
  <2>1. N + 1 \in Nat /\ T \in SUBSET (1 .. N + 1)
    OBVIOUS
  <2> HIDE DEF T
  <2>. QED BY <1>12, <2>1, FromTheEnd
<1>14. chosen \in [1 .. Len(src) + 1 -> Seq(Items(src))]
  BY <1>0, <1>11, <1>13
<1>15. Follows(src, chosen)
  BY <1>10, <1>14 DEF Follows
<1>. QED BY <1>9, <1>15

\* The tokens from place i on and the blanks between them make up the line from there.
MakesUp(src, i, q) ==
  /\ \A n \in 1 .. Len(q) :
       /\ src[q[n].from] \notin Blanks
       /\ LET e == IF n = 1 THEN i ELSE q[n - 1].to
          IN  e <= q[n].from /\ \A j \in e .. q[n].from - 1 : src[j] \in Blanks
  /\ LET e == IF Len(q) = 0 THEN i ELSE q[Len(q)].to
     IN  \A j \in e .. Len(src) : src[j] \in Blanks

LEMMA ItemFacts ==
  ASSUME NEW src \in Texts, NEW s \in Items(src)
  PROVE  s.from \in 1 .. Len(src) /\ Proper(src, s.from, s)
<1>1. PICK j \in 1 .. Len(src) : s = Item(src, j)
  BY DEF Items
<1>2. s.from = j /\ s.to = Scan(src, j).to /\ s.token = Scan(src, j).token
  BY <1>1 DEF Item
<1>3. Proper(src, j, Scan(src, j))
  BY ScanProper
<1>. QED BY <1>2, <1>3 DEF Proper

\* One token more in front.
LEMMA MakesUpMore ==
  ASSUME NEW src \in Texts, NEW i \in 1 .. Len(src) + 1, NEW it \in Items(src),
         NEW r \in Seq(Items(src)), MakesUp(src, it.to, r),
         i <= it.from, src[it.from] \notin Blanks,
         \A j \in i .. it.from - 1 : src[j] \in Blanks
  PROVE  MakesUp(src, i, <<it>> \o r)
<1> DEFINE q == <<it>> \o r
<1>1. Len(r) \in Nat /\ Len(q) = Len(r) + 1 /\ q[1] = it
      /\ \A n \in 1 .. Len(r) : q[1 + n] = r[n]
  <2>1. <<it>> \in Seq(Items(src)) /\ Len(<<it>>) = 1 /\ <<it>>[1] = it
    OBVIOUS
  <2>2. PICK a \in Seq(Items(src)) : a = <<it>>
    BY <2>1
  <2>3. /\ Len(a \o r) = Len(a) + Len(r)
        /\ \A j \in 1 .. Len(a) : (a \o r)[j] = a[j]
        /\ \A j \in 1 .. Len(r) : (a \o r)[Len(a) + j] = r[j]
    BY <2>2, ConcatFacts
  <2>4. Len(a) = 1 /\ a[1] = it /\ Len(r) \in Nat /\ 1 \in 1 .. Len(a)
    BY <2>1, <2>2
  <2>. QED BY <2>2, <2>3, <2>4
<1> HIDE DEF q
<1>2. ASSUME NEW n \in 1 .. Len(q)
      PROVE  /\ src[q[n].from] \notin Blanks
             /\ LET e == IF n = 1 THEN i ELSE q[n - 1].to
                IN  e <= q[n].from /\ \A j \in e .. q[n].from - 1 : src[j] \in Blanks
  <2>1. CASE n = 1
    BY <1>1, <2>1
  <2>2. CASE n # 1
    <3>1. PICK m \in 1 .. Len(r) : n = 1 + m
      <4>1. n - 1 \in 1 .. Len(r) /\ n = 1 + (n - 1)
        BY <1>1, <2>2
      <4>. QED BY <4>1
    <3>2. q[n] = r[m] /\ n - 1 = m
      BY <1>1, <3>1
    <3>3. q[n - 1].to = IF m = 1 THEN it.to ELSE r[m - 1].to
      <4>1. CASE m = 1
        BY <1>1, <3>2, <4>1
      <4>2. CASE m # 1
        <5>1. m - 1 \in 1 .. Len(r) /\ 1 + (m - 1) = m
          BY <1>1, <4>2
        <5>2. q[1 + (m - 1)] = r[m - 1]
          BY <1>1, <5>1
        <5>. QED BY <3>2, <4>2, <5>1, <5>2
      <4>. QED BY <4>1, <4>2
    <3>4. /\ src[r[m].from] \notin Blanks
          /\ LET e == IF m = 1 THEN it.to ELSE r[m - 1].to
             IN  e <= r[m].from /\ \A j \in e .. r[m].from - 1 : src[j] \in Blanks
      BY DEF MakesUp
    <3>. QED BY <2>2, <3>2, <3>3, <3>4
  <2>. QED BY <2>1, <2>2
<1>3. q[Len(q)].to = IF Len(r) = 0 THEN it.to ELSE r[Len(r)].to
  <2>1. CASE Len(r) = 0
    BY <1>1, <2>1
  <2>2. CASE Len(r) # 0
    <3>1. Len(r) \in 1 .. Len(r) /\ Len(q) = 1 + Len(r)
      BY <1>1, <2>2
    <3>. QED BY <1>1, <2>2, <3>1
  <2>. QED BY <2>1, <2>2
<1>4. \A j \in q[Len(q)].to .. Len(src) : src[j] \in Blanks
  BY <1>3 DEF MakesUp
<1>5. Len(q) # 0
  BY <1>1
<1>6. MakesUp(src, i, q)
  BY <1>2, <1>4, <1>5 DEF MakesUp
<1>. QED BY <1>6 DEF q

LEMMA ScansMakeUp ==
  ASSUME NEW src \in Texts
  PROVE  Scans(src) \in Seq(Items(src)) /\ MakesUp(src, 1, Scans(src))
<1>1. PICK from : Follows(src, from) /\ Scans(src) = from[1]
  BY ScansEquation
<1>2. PICK N \in Nat : N = Len(src)
  BY DEF Texts
<1> DEFINE T == {i \in 1 .. N + 1 : MakesUp(src, i, from[i])}
<1>3. ASSUME NEW i \in 1 .. N + 1, \A j \in i + 1 .. N + 1 : j \in T
      PROVE  MakesUp(src, i, from[i])
  <2>1. PICK p \in Nat : p = PastBlanks(src, i)
    BY <1>2, BlankFacts
  <2>2. /\ p \in i .. Len(src) + 1
        /\ \A j \in i .. p - 1 : j \in 1 .. Len(src) /\ src[j] \in Blanks
        /\ p <= Len(src) => src[p] \notin Blanks
    BY <1>2, <2>1, BlankFacts
  <2>3. CASE p > Len(src)
    <3>1. from[i] = <<>>
      BY <1>1, <1>2, <2>1, <2>3 DEF Follows
    <3>2. \A j \in i .. Len(src) : src[j] \in Blanks
      BY <1>2, <2>2, <2>3
    <3>. QED BY <3>1, <3>2 DEF MakesUp
  <2>4. CASE ~(p > Len(src))
    <3>1. PICK z \in i + 1 .. N + 1 : z = Scan(src, p).to
      BY <1>2, <2>1, <2>4, FirstPlace
    <3>2. PICK it \in Items(src) : it = Item(src, p)
      BY <1>2, <2>1, <2>4, FirstPlace
    <3>3. it.from = p /\ it.to = z
      BY <3>1, <3>2 DEF Item
    <3>4. from[i] = <<it>> \o from[z]
      BY <1>1, <1>2, <2>1, <2>4, <3>1, <3>2 DEF Follows
    <3>5. from[z] \in Seq(Items(src))
      <4>1. z \in 1 .. Len(src) + 1
        BY <1>2, <3>1
      <4>. QED BY <1>1, <4>1 DEF Follows
    <3>6. MakesUp(src, z, from[z])
      <4>1. z \in T
        <5> HIDE DEF T
        <5>. QED BY <1>3, <3>1
      <4>. QED BY <4>1
    <3>7. /\ i <= it.from /\ src[it.from] \notin Blanks
          /\ \A j \in i .. it.from - 1 : src[j] \in Blanks
      BY <1>2, <2>2, <2>4, <3>3
    <3>8. MakesUp(src, i, <<it>> \o from[z])
      <4>1. PICK r \in Seq(Items(src)) : r = from[z]
        BY <3>5
      <4>. QED BY <1>2, <3>3, <3>6, <3>7, <4>1, MakesUpMore
    <3>. QED BY <3>4, <3>8
  <2>. QED BY <2>3, <2>4
<1>4. T = 1 .. N + 1
  <2>1. \A i \in 1 .. N + 1 : (\A j \in i + 1 .. N + 1 : j \in T) => i \in T
    BY <1>3
  <2>2. N + 1 \in Nat /\ T \in SUBSET (1 .. N + 1)
    OBVIOUS
  <2> HIDE DEF T
  <2>. QED BY <2>1, <2>2, FromTheEnd
<1>5. 1 \in T /\ 1 \in 1 .. Len(src) + 1
  <2> HIDE DEF T
  <2>. QED BY <1>2, <1>4
<1>6. from[1] \in Seq(Items(src))
  BY <1>1, <1>5 DEF Follows
<1>. QED BY <1>1, <1>5, <1>6

\* What the parser needs of a line's tokens.
LineTyped(l) ==
  /\ l \in Seq(ToSet(l))
  /\ \A n \in 1 .. Len(l) : TokenTyped(l[n])

LEMMA TokensTyped ==
  ASSUME NEW src \in Texts
  PROVE  LineTyped(Tokens(src))
<1>1. PICK q \in Seq(Items(src)) : q = Scans(src)
  BY ScansMakeUp
<1>2. PICK n \in Nat : n = Len(q) /\ DOMAIN q = 1 .. n /\ \A k \in 1 .. n : q[k] \in Items(src)
  <2>1. Len(q) \in Nat /\ DOMAIN q = 1 .. Len(q)
    OBVIOUS
  <2>. QED BY <2>1, ElementOfSeq
<1>3. Tokens(src) = [k \in 1 .. n |-> q[k].token]
  BY <1>1, <1>2 DEF Tokens
<1> DEFINE l == Tokens(src)
<1>4. l = [k \in 1 .. n |-> l[k]] /\ DOMAIN l = 1 .. n /\ \A k \in 1 .. n : l[k] = q[k].token
  BY <1>3
<1> HIDE DEF l
<1>5. l \in Seq(ToSet(l)) /\ Len(l) = n
  <2>1. \A k \in 1 .. n : l[k] \in ToSet(l)
    BY <1>4 DEF ToSet
  <2>2. l \in [1 .. n -> ToSet(l)]
    BY <1>4, <2>1
  <2>. QED BY <2>2
<1>6. \A k \in 1 .. n : TokenTyped(q[k].token)
  BY <1>2, ItemFacts DEF Proper
<1>. QED BY <1>4, <1>5, <1>6 DEF l, LineTyped

\* The tokens and the blanks between them make up the line, and none stops early or
\* runs past its array (number, string and identifier of the lexer), whatever the line
\* and the limits.
THEOREM TokensAreLine == Spec => []TokensMakeUpLine
<1>1. Init => source \in Texts
  BY InputAssumption DEF Init
<1>2. source \in Texts /\ [Next]_<<reading, effects>> => (source \in Texts)'
  BY DEF Next, Operand, Value, MakeCall, reading
<1>3. source \in Texts => TokensMakeUpLine
  <2> SUFFICES ASSUME source \in Texts PROVE TokensMakeUpLine
    OBVIOUS
  <2>1. PICK q \in Seq(Items(source)) : q = Scans(source)
    BY ScansMakeUp
  <2>2. MakesUp(source, 1, q)
    BY <2>1, ScansMakeUp
  <2>3. Len(q) \in Nat /\ DOMAIN q = 1 .. Len(q)
    OBVIOUS
  <2>4. ASSUME NEW n \in 1 .. Len(q) PROVE Complete(q[n])
    <3>1. q[n] \in Items(source)
      BY ElementOfSeq
    <3>2. Whole(source, q[n].from, q[n].token, q[n].to)
      BY <3>1, ItemFacts DEF Proper
    <3>. QED BY <3>2 DEF Complete, Whole
  <2> DEFINE end(n) == IF n = 0 THEN 1 ELSE q[n].to
  <2>5. ASSUME NEW n \in 1 .. Len(q)
        PROVE  /\ Complete(q[n]) /\ source[q[n].from] \notin Blanks
               /\ end(n - 1) <= q[n].from
               /\ \A i \in end(n - 1) .. q[n].from - 1 : source[i] \in Blanks
    <3>1. end(n - 1) = IF n = 1 THEN 1 ELSE q[n - 1].to
      OBVIOUS
    <3> HIDE DEF end
    <3>. QED BY <2>2, <2>4, <3>1 DEF MakesUp
  <2>6. \A i \in end(Len(q)) .. Len(source) : source[i] \in Blanks
    BY <2>2 DEF MakesUp
  <2> HIDE DEF end
  <2>7. /\ \A n \in DOMAIN q :
             /\ Complete(q[n]) /\ source[q[n].from] \notin Blanks
             /\ end(n - 1) <= q[n].from
             /\ \A i \in end(n - 1) .. q[n].from - 1 : source[i] \in Blanks
        /\ \A i \in end(Len(q)) .. Len(source) : source[i] \in Blanks
    BY <2>3, <2>5, <2>6
  <2>. QED BY <2>1, <2>7, Zenon DEF TokensMakeUpLine, end
<1>. QED BY <1>1, <1>2, <1>3, PTL DEF Spec

----------------------------------------------------------------------------
(* Values.                                                                 *)

\* A number below another is what it leaves when divided by it.
LEMMA SmallRest ==
  ASSUME NEW a \in Nat, NEW b \in Nat, a < b
  PROVE  a % b = a
<1>1. a = b * (a \div b) + (a % b) /\ a % b \in 0 .. b - 1 /\ a \div b \in Nat
  OBVIOUS
<1> DEFINE q == a \div b
           r == a % b
<1>2. q \in Nat /\ a = b * q + r /\ r \in Nat
  BY <1>1
<1> HIDE DEF q, r
<1>3. CASE q = 0
  <2>1. b * q = 0
    BY <1>3
  <2>. QED BY <1>2, <2>1 DEF r
<1>4. CASE q # 0
  <2>1. q >= 1 /\ 1 \in Nat
    BY <1>2, <1>4
  <2>2. q * b >= 1 * b
    BY <1>2, <2>1, TimesMonotone
  <2>3. b * q = q * b /\ 1 * b = b /\ q * b \in Nat
    BY <1>2
  <2>4. FALSE
    BY <1>2, <2>2, <2>3
  <2>. QED BY <2>4
<1>. QED BY <1>3, <1>4

\* Longs are values, and 0 and 1 are two.
LEMMA LongFacts ==
  /\ \A n \in Int : Long(n) \in Values
  /\ Long(0) # Long(1)
  /\ \A b : Truth(b) \in Values
<1>1. PICK h \in Nat : h = Word \div 2 /\ Word = 2 * h /\ h >= 1
  BY LexerSizes
<1>2. ASSUME NEW n \in Int PROVE Long(n) \in Values
  <2>1. PICK r \in Int : r = (n + h) % Word /\ r \in 0 .. Word - 1
    <3>1. (n + h) % Word \in 0 .. Word - 1
      BY LexerSizes
    <3>. QED BY <3>1
  <2>2. r - h \in -h .. h - 1
    BY <1>1, <2>1
  <2>3. Wrap(n) = r - h
    BY <1>1, <2>1 DEF Wrap
  <2>4. <<>> \in Texts /\ Len(<<>>) <= MaxStr
    BY LexerSizes DEF Texts
  <2>5. Wrap(n) \in -(Word \div 2) .. Word \div 2 - 1
    BY <1>1, <2>2, <2>3
  <2>. QED BY <2>4, <2>5 DEF Long, Values
<1>3. Wrap(0) # Wrap(1)
  <2>1. Wrap(0) = 0
    <3>1. h % Word = h
      BY <1>1, SmallRest
    <3>2. 0 + h = h /\ h - h = 0
      BY <1>1
    <3>. QED BY <1>1, <3>1, <3>2 DEF Wrap
  <2>2. CASE h = 1
    <3>1. (1 + h) % Word = 0
      BY <1>1, <2>2
    <3>2. Wrap(1) = 0 - 1
      BY <1>1, <2>2, <3>1 DEF Wrap
    <3>. QED BY <2>1, <3>2
  <2>3. CASE h # 1
    <3>1. PICK m \in Nat : m = 1 + h /\ m < Word /\ m - h = 1
      BY <1>1, <2>3
    <3>2. m % Word = m
      BY <1>1, <3>1, SmallRest
    <3>3. Wrap(1) = 1
      BY <1>1, <3>1, <3>2 DEF Wrap
    <3>. QED BY <2>1, <3>3
  <2>. QED BY <2>2, <2>3
<1>4. Long(0) # Long(1)
  BY <1>3 DEF Long
<1>5. ASSUME NEW b PROVE Truth(b) \in Values
  <2>1. (IF b THEN 1 ELSE 0) \in Int
    OBVIOUS
  <2>. QED BY <1>2, <2>1 DEF Truth
<1>. QED BY <1>2, <1>4, <1>5

\* What a value is made of.
LEMMA ValueFacts ==
  ASSUME NEW v \in Values
  PROVE  v.type \in {"number", "string"} /\ v.num \in Int /\ v.str \in Texts /\ Len(v.str) <= MaxStr
<1>1. Word \div 2 \in Int
  BY LexerSizes
<1>2. v.num \in -(Word \div 2) .. Word \div 2 - 1
  BY DEF Values
<1>. QED BY <1>1, <1>2 DEF Values

\* A text cut to the array is a value.
LEMMA TextFacts ==
  ASSUME NEW s \in Texts
  PROVE  Text(s) \in Values
<1>1. Len(s) \in Nat /\ s \in Seq(Char)
  BY DEF Texts
<1>2. PICK m \in Nat : m = Min({Len(s), MaxStr}) /\ m <= MaxStr /\ m <= Len(s)
  BY <1>1, LexerSizes, MinMaxOfTwo
<1>3. \A k \in 1 .. m : s[k] \in Char
  BY <1>1, <1>2
<1>4. SubSeq(s, 1, m) \in Seq(Char) /\ Len(SubSeq(s, 1, m)) = IF 1 <= m THEN m - 1 + 1 ELSE 0
  BY <1>2, <1>3, SubSeqProperties
<1>5. SubSeq(s, 1, m) \in Texts /\ Len(SubSeq(s, 1, m)) <= MaxStr
  <2>1. (IF 1 <= m THEN m - 1 + 1 ELSE 0) = m
    OBVIOUS
  <2>. QED BY <1>2, <1>4, <2>1 DEF Texts
<1>6. 0 \in -(Word \div 2) .. Word \div 2 - 1
  <2>1. Word \div 2 \in Nat /\ Word \div 2 >= 1
    BY LexerSizes
  <2>. QED BY <2>1
<1>. QED BY <1>2, <1>5, <1>6 DEF Text, Values

\* Numbers are written with characters.
LEMMA DecimalType == \A n \in Nat : Decimal[n] \in Texts
<1> DEFINE D == 0 .. 9
           base == [k \in D |-> <<Digit[k + 1]>>]
           next == [k \in Nat \ D |-> k \div 10]
           step == [p \in (Nat \ D) \X Texts |-> Append(p[2], Digit[(p[1] % 10) + 1])]
<1>0. \A k \in 1 .. 10 : Digit[k] \in Char
  BY CharFacts
<1>1. D \in SUBSET Nat /\ \A k \in Nat : k \in D <=> k < 10
  OBVIOUS
<1> HIDE DEF D
<1>2. \A k \in D : k + 1 \in 1 .. 10
  BY DEF D
<1>3. \A k \in Nat : (k % 10) + 1 \in 1 .. 10
  OBVIOUS
<1>4. \A k \in Nat \ D : k \div 10 \in Nat /\ k \div 10 < k
  BY <1>1
<1> DEFINE R == 1 .. 10
<1> HIDE DEF R
<1>5. base \in [D -> Texts]
  <2>1. \A k \in D : Digit[k + 1] \in Char
    BY <1>0, <1>2 DEF R
  <2>. QED BY <2>1 DEF Texts
<1>6. step \in [(Nat \ D) \X Texts -> Texts]
  <2>1. \A k \in Nat : Digit[(k % 10) + 1] \in Char
    BY <1>0, <1>3
  <2>2. ASSUME NEW k \in Nat \ D, NEW t \in Texts PROVE Append(t, Digit[(k % 10) + 1]) \in Texts
    <3>1. PICK c \in Char : c = Digit[(k % 10) + 1]
      BY <2>1
    <3>2. Append(t, c) \in Seq(Char)
      BY DEF Texts
    <3>. QED BY <3>1, <3>2 DEF Texts
  <2>. QED BY <2>2
<1>7. StepsDown(Texts, D, base, next, step)
  <2>1. next \in [Nat \ D -> Nat] /\ \A i \in Nat \ D : next[i] < i
    BY <1>4
  <2> HIDE DEF base, next, step
  <2>. QED BY <1>1, <1>5, <1>6, <2>1 DEF StepsDown
<1>8. PICK f \in [Nat -> Texts] :
        \A k \in Nat : f[k] = IF k \in D THEN base[k] ELSE step[<<k, f[next[k]]>>]
  <2> HIDE DEF base, next, step
  <2>. QED BY <1>7, CourseOfValues, SMTT(30)
<1> DEFINE F(a) == [k \in Nat |-> IF k < 10 THEN <<Digit[k + 1]>>
                                  ELSE Append(a[k \div 10], Digit[(k % 10) + 1])]
<1>9. f = F(f)
  <2>1. ASSUME NEW k \in Nat PROVE f[k] = F(f)[k]
    <3>1. CASE k < 10
      BY <1>1, <1>8, <3>1
    <3>2. CASE ~(k < 10)
      <4>1. k \in Nat \ D /\ next[k] = k \div 10 /\ f[k \div 10] \in Texts
        BY <1>1, <1>4, <3>2
      <4>2. f[k] = step[<<k, f[k \div 10]>>]
        BY <1>8, <4>1
      <4>3. step[<<k, f[k \div 10]>>] = Append(f[k \div 10], Digit[(k % 10) + 1])
        BY <4>1
      <4>4. F(f)[k] = Append(f[k \div 10], Digit[(k % 10) + 1])
        BY <3>2
      <4>. QED BY <4>2, <4>3, <4>4
    <3>. QED BY <3>1, <3>2
  <2>2. f = [k \in Nat |-> f[k]] /\ F(f) = [k \in Nat |-> F(f)[k]]
    OBVIOUS
  <2> HIDE DEF F
  <2>. QED BY <2>1, <2>2
<1>10. Decimal = CHOOSE a : a = F(a)
  BY DEF Decimal
<1>11. Decimal = F(Decimal)
  BY <1>9, <1>10, Zenon
<1>12. \A k \in Nat : Decimal[k] = IF k < 10 THEN <<Digit[k + 1]>>
                                   ELSE Append(Decimal[k \div 10], Digit[(k % 10) + 1])
  <2> DEFINE d == Decimal
  <2>1. d = F(d)
    BY <1>11
  <2> HIDE DEF d
  <2>2. \A k \in Nat : d[k] = IF k < 10 THEN <<Digit[k + 1]>>
                              ELSE Append(d[k \div 10], Digit[(k % 10) + 1])
    BY <2>1
  <2>. QED BY <2>2 DEF d
<1>13. ASSUME NEW n \in Nat PROVE Decimal[n] \in Texts
  <2> DEFINE Bad == {k \in Nat : Decimal[k] \notin Texts}
  <2>1. ASSUME Bad # {} PROVE FALSE
    <3>1. PICK k \in Bad : \A j \in Bad : k <= j
      <4>1. Bad \in SUBSET Nat
        OBVIOUS
      <4> HIDE DEF Bad
      <4>. QED BY <2>1, <4>1, NatLeast
    <3>2. k \in Nat /\ Decimal[k] \notin Texts
      OBVIOUS
    <3>3. CASE k < 10
      <4>1. k + 1 \in 1 .. 10
        BY <3>2, <3>3
      <4>2. PICK c \in Char : c = Digit[k + 1]
        BY <1>0, <4>1
      <4>3. Decimal[k] = <<c>>
        BY <1>12, <3>2, <3>3, <4>2
      <4>4. <<c>> \in Seq(Char)
        OBVIOUS
      <4>. QED BY <3>2, <4>3, <4>4 DEF Texts
    <3>4. CASE ~(k < 10)
      <4>1. k \div 10 \in Nat /\ k \div 10 < k
        BY <3>2, <3>4
      <4>2. Decimal[k \div 10] \in Texts
        BY <3>1, <3>2, <4>1
      <4>3. PICK c \in Char : c = Digit[(k % 10) + 1]
        BY <1>0, <1>3, <3>2
      <4>4. PICK t \in Texts : t = Decimal[k \div 10]
        BY <4>2
      <4>5. Decimal[k] = Append(t, c)
        BY <1>12, <3>2, <3>4, <4>3, <4>4
      <4>6. Append(t, c) \in Seq(Char)
        BY DEF Texts
      <4>. QED BY <3>2, <4>5, <4>6 DEF Texts
    <3>. QED BY <3>3, <3>4
  <2>. QED BY <2>1
<1>. QED BY <1>13

\* A value is written with characters.
LEMMA AsTextType ==
  ASSUME NEW v \in Values
  PROVE  AsText(v) \in Texts
<1>1. v.num \in Int /\ v.str \in Texts
  BY ValueFacts
<1>2. ASSUME NEW n \in Int PROVE Kitoa(n) \in Texts
  <2>1. CASE n < 0
    <3>1. -n \in Nat
      BY <2>1
    <3>2. PICK d \in Seq(Char) : d = Decimal[-n]
      BY <3>1, DecimalType DEF Texts
    <3>3. <<"-">> \in Seq(Char)
      BY CharFacts
    <3>4. <<"-">> \o d \in Seq(Char)
      BY <3>3, ConcatProperties
    <3>5. Kitoa(n) = <<"-">> \o d
      BY <2>1, <3>2 DEF Kitoa
    <3>. QED BY <3>4, <3>5 DEF Texts
  <2>2. CASE ~(n < 0)
    <3>1. n \in Nat /\ Kitoa(n) = Decimal[n]
      BY <2>2 DEF Kitoa
    <3>. QED BY <3>1, DecimalType
  <2>. QED BY <2>1, <2>2
<1>. QED BY <1>1, <1>2 DEF AsText

\* A function on the first n numbers is a sequence.
LEMMA ArrayIsSeq ==
  ASSUME NEW T, NEW n \in Nat, NEW t \in [1 .. n -> T]
  PROVE  t \in Seq(T)
  OBVIOUS

\* Letters turned into letters.
LEMMA MappedType ==
  ASSUME NEW s \in Texts, NEW from \in [1 .. 26 -> Char], NEW to \in [1 .. 26 -> Char]
  PROVE  Mapped(s, from, to) \in Texts
<1> DEFINE K == 1 .. 26
<1>1. from \in [K -> Char] /\ to \in [K -> Char]
  OBVIOUS
<1>2. PICK n \in Nat : n = Len(s) /\ \A i \in 1 .. n : s[i] \in Char
  <2>1. s \in Seq(Char) /\ Len(s) \in Nat
    BY DEF Texts
  <2>2. \A i \in 1 .. Len(s) : s[i] \in Char
    BY <2>1, ElementOfSeq
  <2>. QED BY <2>1, <2>2
<1>3. Mapped(s, from, to) = [i \in 1 .. n |-> IF s[i] \in ToSet(from)
                                              THEN to[CHOOSE k \in K : from[k] = s[i]] ELSE s[i]]
  BY <1>2 DEF Mapped
<1> HIDE DEF K
<1>4. ASSUME NEW i \in 1 .. n, s[i] \in ToSet(from)
      PROVE  to[CHOOSE k \in K : from[k] = s[i]] \in Char
  <2>1. \E k \in K : from[k] = s[i]
    BY <1>1, <1>4 DEF ToSet
  <2>2. (CHOOSE k \in K : from[k] = s[i]) \in K
    BY <2>1
  <2>. QED BY <1>1, <2>2
<1>5. Mapped(s, from, to) \in [1 .. n -> Char]
  BY <1>2, <1>3, <1>4
<1>6. PICK t \in [1 .. n -> Char] : t = Mapped(s, from, to)
  BY <1>5
<1>7. t \in Seq(Char)
  BY ArrayIsSeq
<1>. QED BY <1>6, <1>7 DEF Texts

\* The operators of a stack.
Operators == {"or", "and", "==", "=", "!=", "<", ">", "<=", ">=", "+", "-", "*", "/", "%"}

\* An operator makes a value of two.
LEMMA BinaryType ==
  ASSUME NEW a \in Values, NEW b \in Values, NEW op \in Operators
  PROVE  Binary(a, op, b) \in Values
<1>1. PICK m \in Int, n \in Int : m = a.num /\ n = b.num
  BY ValueFacts
<1>2. \A k \in Int : Long(k) \in Values
  BY LongFacts
<1>3. \A c : Truth(c) \in Values
  BY LongFacts
<1>4. Text(AsText(a) \o AsText(b)) \in Values
  <2>1. AsText(a) \in Seq(Char) /\ AsText(b) \in Seq(Char)
    BY AsTextType DEF Texts
  <2>2. AsText(a) \o AsText(b) \in Texts
    BY <2>1, ConcatProperties DEF Texts
  <2>. QED BY <2>2, TextFacts
<1>5. n # 0 => Quotient(m, n) \in Int
  <2> SUFFICES ASSUME n # 0 PROVE Quotient(m, n) \in Int
    OBVIOUS
  <2>1. PICK x \in Nat, y \in Nat \ {0} : x = Abs(m) /\ y = Abs(n)
    BY DEF Abs
  <2>2. x \div y \in Int
    OBVIOUS
  <2>. QED BY <2>1, <2>2 DEF Quotient
<1>6. /\ Long(m + n) \in Values /\ Long(m - n) \in Values /\ Long(m * n) \in Values
      /\ Long(IF n = 0 THEN 0 ELSE Quotient(m, n)) \in Values
      /\ Long(IF n = 0 THEN 0 ELSE m - n * Quotient(m, n)) \in Values
  <2>1. m + n \in Int /\ m - n \in Int /\ m * n \in Int
    OBVIOUS
  <2>2. (IF n = 0 THEN 0 ELSE Quotient(m, n)) \in Int
    BY <1>5
  <2>3. (IF n = 0 THEN 0 ELSE m - n * Quotient(m, n)) \in Int
    BY <1>5
  <2>. QED BY <1>2, <2>1, <2>2, <2>3
<1>7. CASE op = "+"
  BY <1>1, <1>4, <1>6, <1>7 DEF Binary
<1>8. CASE op \in {"-", "*", "/", "%"}
  BY <1>1, <1>6, <1>8 DEF Binary
<1>9. CASE op \in {"or", "and", "==", "=", "!=", "<", ">", "<=", ">="}
  BY <1>3, <1>9 DEF Binary
<1>. QED BY <1>7, <1>8, <1>9 DEF Operators

LEMMA NegatedType ==
  ASSUME NEW v \in Values
  PROVE  Negated(v) \in Values
  BY ValueFacts, LongFacts DEF Negated

----------------------------------------------------------------------------
(* The library.                                                            *)

\* The variables hold values, the files texts, and there is room for them.
VarsTyped(f) == \A n \in DOMAIN f : f[n] \in Values
FilesTyped(f) ==
  /\ IsFiniteSet(DOMAIN f) /\ Cardinality(DOMAIN f) <= MaxFiles
  /\ \A p \in DOMAIN f : f[p] \in Texts

\* What read() finds.
Content(f, path) == IF path \in DOMAIN f THEN f[path] ELSE <<>>

\* A call that leaves its mark on a file, and what it leaves there.
Marks(name, args, v, path) ==
  name \in {"write", "delete"} /\ args # <<>> /\ AsText(args[1]) = path /\ v = Long(1)
Mark(name, args) == IF name = "write" THEN AsText(args[2]) ELSE <<>>

\* An outcome that leaves the files alone, and what any outcome must be.
Harmless(o) == o.value \in Values /\ o.vars = vars /\ o.files = files
Lawful(name, args, o) ==
  /\ o.value \in Values /\ VarsTyped(o.vars) /\ FilesTyped(o.files)
  /\ name = "read" /\ args # <<>> => o.value = Text(Content(files, AsText(args[1])))
  /\ \A path : Content(o.files, path) =
       IF Marks(name, args, o.value, path) THEN Mark(name, args) ELSE Content(files, path)

LEMMA OutcomeHarmless ==
  ASSUME NEW v \in Values
  PROVE  Harmless(Outcome(v)) /\ Outcome(v).value = v
  BY DEF Harmless, Outcome

\* The first argument of a call is a value.
LEMMA ArgumentFacts ==
  ASSUME NEW args \in Seq(Values)
  PROVE  /\ Len(args) \in Nat
         /\ args # <<>> => args[1] \in Values /\ AsText(args[1]) \in Texts
         /\ Len(args) >= 2 => args # <<>> /\ args[2] \in Values /\ AsText(args[2]) \in Texts
<1>1. Len(args) \in Nat /\ (args # <<>> => 1 \in 1 .. Len(args))
      /\ (Len(args) >= 2 => args # <<>> /\ 2 \in 1 .. Len(args))
  OBVIOUS
<1>. QED BY <1>1, ElementOfSeq, AsTextType

\* A file written: the others stay, and it holds the text.
LEMMA WrittenLawful ==
  ASSUME VarsTyped(vars), FilesTyped(files), NEW args \in Seq(Values), Len(args) >= 2
  PROVE  Lawful("write", args, Written(args))
<1>1. args # <<>> /\ AsText(args[1]) \in Texts /\ AsText(args[2]) \in Texts
  BY ArgumentFacts
<1> DEFINE path == AsText(args[1])
           new  == path \notin DOMAIN files
<1>2. Long(0) \in Values /\ Long(1) \in Values /\ Long(0) # Long(1)
  BY LongFacts
<1>3. CASE path = <<>> \/ (new /\ Cardinality(DOMAIN files) >= MaxFiles)
  <2>1. Written(args) = Outcome(Long(0))
    BY <1>3 DEF Written
  <2>. QED BY <1>2, <2>1 DEF Lawful, Outcome, Marks
<1>4. CASE ~(path = <<>> \/ (new /\ Cardinality(DOMAIN files) >= MaxFiles))
  <2> DEFINE f == [p \in DOMAIN files \cup {path} |-> IF p = path THEN AsText(args[2]) ELSE files[p]]
  <2>1. Written(args) = [Outcome(Long(1)) EXCEPT !.files = f]
    BY <1>4 DEF Written
  <2>2. Written(args).value = Long(1) /\ Written(args).vars = vars /\ Written(args).files = f
    <3> HIDE DEF f
    <3>. QED BY <2>1 DEF Outcome
  <2>3. \A p \in DOMAIN f : f[p] \in Texts
    BY <1>1 DEF FilesTyped
  <2>4. IsFiniteSet(DOMAIN f) /\ Cardinality(DOMAIN f) <= MaxFiles
    <3>1. IsFiniteSet(DOMAIN files) /\ Cardinality(DOMAIN files) <= MaxFiles /\ DOMAIN f = DOMAIN files \cup {path}
      BY DEF FilesTyped
    <3>2. PICK S : S = DOMAIN files
      OBVIOUS
    <3>3. PICK n \in Nat : n = Cardinality(S)
      BY <3>1, <3>2, FS_CardinalityType
    <3>4. CASE path \in S
      <4>1. DOMAIN f = S
        BY <3>1, <3>2, <3>4
      <4>. QED BY <3>1, <3>2, <4>1
    <3>5. CASE path \notin S
      <4>1. IsFiniteSet(S \cup {path}) /\ Cardinality(S \cup {path}) = n + 1
        BY <3>1, <3>2, <3>3, <3>5, FS_AddElement
      <4>2. n + 1 <= MaxFiles
        BY <1>4, <3>2, <3>3, <3>5, LexerSizes
      <4>. QED BY <3>1, <3>2, <4>1, <4>2
    <3>. QED BY <3>4, <3>5
  <2>5. ASSUME NEW q
        PROVE  Content(f, q) = IF Marks("write", args, Long(1), q) THEN Mark("write", args)
                               ELSE Content(files, q)
    <3>1. Marks("write", args, Long(1), q) <=> q = path
      BY <1>1 DEF Marks
    <3>2. Content(f, q) = IF q = path THEN AsText(args[2]) ELSE Content(files, q)
      BY DEF Content
    <3>. QED BY <3>1, <3>2 DEF Mark
  <2> HIDE DEF f
  <2>. QED BY <1>2, <2>2, <2>3, <2>4, <2>5 DEF Lawful, FilesTyped
<1>. QED BY <1>3, <1>4

\* A file deleted: the others stay.
LEMMA DeletedLawful ==
  ASSUME VarsTyped(vars), FilesTyped(files), NEW args \in Seq(Values), args # <<>>
  PROVE  Lawful("delete", args, Deleted(AsText(args[1])))
<1> DEFINE path == AsText(args[1])
<1>2. Long(0) \in Values /\ Long(1) \in Values /\ Long(0) # Long(1)
  BY LongFacts
<1>3. CASE path \notin DOMAIN files
  <2>1. Deleted(path) = Outcome(Long(0))
    BY <1>3 DEF Deleted
  <2>. QED BY <1>2, <2>1 DEF Lawful, Outcome, Marks
<1>4. CASE path \in DOMAIN files
  <2> DEFINE f == [p \in DOMAIN files \ {path} |-> files[p]]
  <2>1. Deleted(path) = [Outcome(Long(1)) EXCEPT !.files = f]
    BY <1>4 DEF Deleted
  <2>2. Deleted(path).value = Long(1) /\ Deleted(path).vars = vars /\ Deleted(path).files = f
    <3> HIDE DEF f
    <3>. QED BY <2>1 DEF Outcome
  <2>3. \A p \in DOMAIN f : f[p] \in Texts
    BY DEF FilesTyped
  <2>4. IsFiniteSet(DOMAIN f) /\ Cardinality(DOMAIN f) <= MaxFiles
    <3>1. IsFiniteSet(DOMAIN files) /\ Cardinality(DOMAIN files) <= MaxFiles
          /\ DOMAIN f \subseteq DOMAIN files
      BY DEF FilesTyped
    <3>2. /\ IsFiniteSet(DOMAIN f) /\ Cardinality(DOMAIN f) \in Nat
          /\ Cardinality(DOMAIN files) \in Nat
          /\ Cardinality(DOMAIN f) <= Cardinality(DOMAIN files)
      BY <3>1, FS_Subset, FS_CardinalityType
    <3>. QED BY <3>1, <3>2, LexerSizes
  <2>5. ASSUME NEW q
        PROVE  Content(f, q) = IF Marks("delete", args, Long(1), q) THEN Mark("delete", args)
                               ELSE Content(files, q)
    <3>1. Marks("delete", args, Long(1), q) <=> q = path
      BY DEF Marks
    <3>2. Content(f, q) = IF q = path THEN <<>> ELSE Content(files, q)
      BY DEF Content
    <3>. QED BY <3>1, <3>2 DEF Mark
  <2> HIDE DEF f
  <2>. QED BY <1>2, <2>2, <2>3, <2>4, <2>5 DEF Lawful, FilesTyped
<1>. QED BY <1>3, <1>4

\* What a function of the program leaves in the variables.
LEMMA CountedTyped ==
  ASSUME VarsTyped(vars)
  PROVE  VarsTyped(Counted)
<1>1. Long(1) \in Values /\ Variable("x") \in Values
  BY LongFacts DEF Variable, VarsTyped
<1>2. "+" \in Operators
  BY DEF Operators
<1>3. Binary(Variable("x"), "+", Long(1)) \in Values
  BY <1>1, <1>2, BinaryType
<1>. QED BY <1>3 DEF Counted, VarsTyped

\* Every outcome of a call is lawful.
LEMMA CallsLawful ==
  ASSUME VarsTyped(vars), FilesTyped(files), NEW name, NEW args \in Seq(Values),
         NEW o \in Calls(name, args)
  PROVE  Lawful(name, args, o)
<1>0. \A n \in Int : Long(n) \in Values
  BY LongFacts
<1>1. ASSUME Harmless(o), name \notin {"read", "write", "delete"}
      PROVE  Lawful(name, args, o)
  BY <1>1 DEF Harmless, Lawful, Marks
<1>2. CASE name = "write"
  <2>1. Calls(name, args) = {IF Len(args) >= 2 THEN Written(args) ELSE Outcome(Long(0))}
    BY <1>2 DEF Calls, Builtins
  <2>2. CASE Len(args) >= 2
    BY <1>2, <2>1, <2>2, WrittenLawful
  <2>3. CASE ~(Len(args) >= 2)
    <3>1. o = Outcome(Long(0)) /\ Long(0) \in Values /\ Long(0) # Long(1)
      BY <2>1, <2>3, LongFacts
    <3>. QED BY <1>2, <3>1 DEF Lawful, Outcome, Marks
  <2>. QED BY <2>2, <2>3
<1>3. CASE name = "delete"
  <2>1. Calls(name, args) = {IF args # <<>> THEN Deleted(AsText(args[1])) ELSE Outcome(Long(0))}
    BY <1>3 DEF Calls, Builtins
  <2>2. CASE args # <<>>
    BY <1>3, <2>1, <2>2, DeletedLawful
  <2>3. CASE args = <<>>
    <3>1. o = Outcome(Long(0)) /\ Long(0) \in Values
      BY <2>1, <2>3, LongFacts
    <3>. QED BY <1>3, <2>3, <3>1 DEF Lawful, Outcome, Marks
  <2>. QED BY <2>2, <2>3
<1>4. CASE name = "read"
  <2> DEFINE t == IF args # <<>> THEN ReadFile(AsText(args[1])) ELSE <<>>
  <2>1. o = Outcome(Text(t))
    BY <1>4 DEF Calls, Builtins
  <2>2. \A path : ReadFile(path) = Content(files, path)
    BY DEF ReadFile, Content
  <2>3. t \in Texts
    <3>1. \A path : Content(files, path) \in Texts
      BY DEF Content, FilesTyped, Texts
    <3>2. <<>> \in Texts
      BY DEF Texts
    <3>. QED BY <2>2, <3>1, <3>2
  <2>4. args # <<>> => t = Content(files, AsText(args[1]))
    BY <2>2
  <2> HIDE DEF t
  <2>5. Text(t) \in Values
    BY <2>3, TextFacts
  <2>. QED BY <1>4, <2>1, <2>4, <2>5 DEF Lawful, Outcome, Marks
<1>5. CASE name = "input"
  <2>1. PICK s \in Answers : o = Outcome(Text(s))
    BY <1>5 DEF Calls, Builtins
  <2>2. Text(s) \in Values
    BY TextFacts, InputAssumption
  <2>3. Harmless(o)
    BY <2>1, <2>2, OutcomeHarmless
  <2>. QED BY <1>1, <1>5, <2>3
<1>6. CASE name = "random"
  <2>1. PICK n \in 0 .. Modulus(args) - 1 : o = Outcome(Long(n))
    BY <1>6 DEF Calls, Builtins
  <2>2. Modulus(args) \in Int
    BY ArgumentFacts, ValueFacts DEF Modulus
  <2>3. n \in Int
    BY <2>2
  <2>4. Harmless(o)
    BY <1>0, <2>1, <2>3, OutcomeHarmless
  <2>. QED BY <1>1, <1>6, <2>4
<1>7. CASE name = "time"
  <2>1. PICK n \in Times : o = Outcome(Long(n))
    BY <1>7 DEF Calls, Builtins
  <2>2. Harmless(o)
    BY <1>0, <2>1, InputAssumption, OutcomeHarmless
  <2>. QED BY <1>1, <1>7, <2>2
<1>8. CASE name = "length"
  <2> DEFINE n == IF args # <<>> THEN Len(AsText(args[1])) ELSE 0
  <2>1. o = Outcome(Long(n))
    BY <1>8 DEF Calls, Builtins
  <2>2. n \in Int
    <3>1. args # <<>> => AsText(args[1]) \in Texts
      BY ArgumentFacts
    <3>. QED BY <3>1 DEF Texts
  <2> HIDE DEF n
  <2>3. Harmless(o)
    BY <1>0, <2>1, <2>2, OutcomeHarmless
  <2>. QED BY <1>1, <1>8, <2>3
<1>9. CASE name \in {"upper", "lower"}
  <2>1. PICK v : o = Outcome(v) /\ v \in {Long(0), Text(Mapped(AsText(args[1]), Lower, Upper)),
                                          Text(Mapped(AsText(args[1]), Upper, Lower))}
                 /\ (args = <<>> => v = Long(0))
    <3>1. CASE name = "upper"
      <4>1. o = Outcome(IF args # <<>> THEN Text(Mapped(AsText(args[1]), Lower, Upper)) ELSE Long(0))
        BY <3>1 DEF Calls, Builtins
      <4>. QED BY <4>1
    <3>2. CASE name = "lower"
      <4>1. o = Outcome(IF args # <<>> THEN Text(Mapped(AsText(args[1]), Upper, Lower)) ELSE Long(0))
        BY <3>2 DEF Calls, Builtins
      <4>. QED BY <4>1
    <3>. QED BY <1>9, <3>1, <3>2
  <2>2. v \in Values
    <3>1. CASE args = <<>>
      BY <2>1, <3>1, LongFacts
    <3>2. CASE args # <<>>
      <4>1. PICK s \in Texts : s = AsText(args[1])
        BY <3>2, ArgumentFacts
      <4>2. Mapped(s, Lower, Upper) \in Texts /\ Mapped(s, Upper, Lower) \in Texts
        BY MappedType, CharFacts
      <4>3. Text(Mapped(s, Lower, Upper)) \in Values /\ Text(Mapped(s, Upper, Lower)) \in Values
        BY <4>2, TextFacts
      <4>. QED BY <2>1, <4>1, <4>3, LongFacts
    <3>. QED BY <3>1, <3>2
  <2>3. Harmless(o)
    BY <2>1, <2>2, OutcomeHarmless
  <2>. QED BY <1>1, <1>9, <2>3
<1>10. CASE name \notin Builtins
  <2>1. o \in {[Outcome(Long(0)) EXCEPT !.vars = Counted], Outcome(Long(0))}
    BY <1>10 DEF Calls, Builtins
  <2>2. Long(0) \in Values
    BY LongFacts
  <2>3. CASE o = Outcome(Long(0))
    <3>1. Harmless(o)
      BY <2>2, <2>3, OutcomeHarmless
    <3>. QED BY <1>1, <1>10, <3>1 DEF Builtins
  <2>4. CASE o = [Outcome(Long(0)) EXCEPT !.vars = Counted]
    <3>1. o.value = Long(0) /\ o.vars = Counted /\ o.files = files
      BY <2>4 DEF Outcome
    <3>2. name \notin {"read", "write", "delete"}
      BY <1>10 DEF Builtins
    <3>. QED BY <2>2, <3>1, <3>2, CountedTyped DEF Lawful, Marks
  <2>. QED BY <2>1, <2>3, <2>4
<1>. QED BY <1>2, <1>3, <1>4, <1>5, <1>6, <1>7, <1>8, <1>9, <1>10 DEF Builtins

----------------------------------------------------------------------------
(* The parser's state.                                                     *)

\* The names on the line, and what an activation may wait for.
Names == {t.name : t \in ToSet(line)}
BinaryFrames == {Binds(op, left, level) : op \in Operators, left \in Values, level \in Nat}
CallFrames == {Call(name, as) : name \in Names, as \in {s \in Seq(Values) : Len(s) <= MaxArgs}}
Frames == BinaryFrames \cup {Minus, Paren} \cup CallFrames

\* Left, of any sequence of calls.
LeftIn(l, n, path) ==
  LET touched == {m \in 1 .. n : Touches(l[m], path)}
      last    == l[Max(touched)]
  IN  IF touched = {} THEN Content(Files, path)
      ELSE IF last.name = "write" THEN AsText(last.args[2]) ELSE <<>>

ReadsIn(l) ==
  \A n \in 1 .. Len(l) :
    l[n].name = "read" /\ l[n].args # <<>> =>
      l[n].value = Text(LeftIn(l, n - 1, AsText(l[n].args[1])))

\* The parts of the inductive invariant.
TokensOK == LineTyped(line) /\ at \in 1 .. Len(line) + 1
ValueOK  == /\ mode \in {"operand", "value", "close", "done", "undefined"}
            /\ had_error \in BOOLEAN /\ value \in Values
StackOK  ==
  /\ stack \in Seq(Frames)
  /\ \A k \in 1 .. Len(stack) :
       stack[k].kind = "binary" /\ k > 1 => stack[k - 1].level < stack[k].level
CloseOK  == mode = "close" => Waits("call")
EffectsOK ==
  /\ VarsTyped(vars) /\ FilesTyped(files)
  /\ log \in Seq(ToSet(log)) /\ ReadsIn(log)
  /\ \A path : Content(files, path) = LeftIn(log, Len(log), path)

ParserInv == TokensOK /\ ValueOK /\ StackOK /\ CloseOK /\ EffectsOK

\* What a frame is made of.
LEMMA FrameFacts ==
  ASSUME NEW f \in Frames
  PROVE  /\ f.level \in Nat
         /\ f.kind \in {"binary", "minus", "paren", "call"}
         /\ f.kind = "binary" => f.op \in Operators /\ f.left \in Values
         /\ f.kind = "call" => /\ f.name \in Names /\ f.args \in Seq(Values)
                               /\ Len(f.args) <= MaxArgs
         /\ f.kind = "call" => f.level = 0
<1>1. CASE f \in BinaryFrames
  <2>1. PICK op \in Operators, left \in Values, level \in Nat : f = Binds(op, left, level)
    BY <1>1 DEF BinaryFrames
  <2>. QED BY <2>1 DEF Binds
<1>2. CASE f \in CallFrames
  <2>1. PICK name \in Names, as \in {s \in Seq(Values) : Len(s) <= MaxArgs} : f = Call(name, as)
    BY <1>2 DEF CallFrames
  <2>. QED BY <2>1 DEF Call
<1>3. CASE f \in {Minus, Paren}
  BY <1>3 DEF Minus, Paren
<1>. QED BY <1>1, <1>2, <1>3 DEF Frames

LEMMA FramesMade ==
  /\ Minus \in Frames /\ Paren \in Frames
  /\ \A op \in Operators, left \in Values, level \in Nat : Binds(op, left, level) \in Frames
  /\ \A name \in Names, as \in Seq(Values) : Len(as) <= MaxArgs => Call(name, as) \in Frames
BY DEF Frames, BinaryFrames, CallFrames

\* The innermost activation.
LEMMA LastFacts ==
  ASSUME StackOK, stack # <<>>
  PROVE  /\ Len(stack) \in Nat \ {0} /\ Last(stack) = stack[Len(stack)] /\ Last(stack) \in Frames
         /\ Pending = Last(stack).level
<1>1. stack \in Seq(Frames) /\ Len(stack) \in Nat \ {0}
  BY EmptySeq DEF StackOK
<1>2. Last(stack) = stack[Len(stack)]
  BY DEF Last
<1>. QED BY <1>1, <1>2, ElementOfSeq DEF Pending

LEMMA PendingType ==
  ASSUME StackOK
  PROVE  Pending \in Nat
<1>1. CASE stack = <<>>
  BY <1>1 DEF Pending
<1>2. CASE stack # <<>>
  BY <1>2, LastFacts, FrameFacts
<1>. QED BY <1>1, <1>2

\* Another activation.
LEMMA Pushed ==
  ASSUME StackOK, NEW f \in Frames, f.kind = "binary" => Pending < f.level,
         stack' = Append(stack, f), line' = line
  PROVE  StackOK' /\ stack' # <<>> /\ Last(stack') = f
<1>1. PICK n \in Nat : n = Len(stack)
  BY EmptySeq, LenProperties DEF StackOK
<1>2. /\ stack' \in Seq(Frames) /\ stack' # <<>> /\ Len(stack') = n + 1 /\ stack'[n + 1] = f
      /\ \A k \in 1 .. n : stack'[k] = stack[k]
  BY <1>1, AppendProperties DEF StackOK
<1>3. Frames' = Frames
  BY DEF Frames, CallFrames, BinaryFrames, Names
<1>4. ASSUME NEW k \in 1 .. n + 1, stack'[k].kind = "binary", k > 1
      PROVE  stack'[k - 1].level < stack'[k].level
  <2>1. CASE k = n + 1
    <3>1. stack # <<>> /\ Pending = stack[n].level /\ n \in 1 .. n /\ k - 1 = n
      <4>1. n > 0
        BY <1>1, <1>4, <2>1
      <4>2. stack # <<>>
        BY <1>1, <4>1
      <4>. QED BY <1>1, <2>1, <4>1, <4>2, LastFacts
    <3>2. Pending < f.level
      BY <1>2, <1>4, <2>1
    <3>. QED BY <1>2, <2>1, <3>1, <3>2
  <2>2. CASE k # n + 1
    <3>1. k \in 1 .. n /\ k - 1 \in 1 .. n
      BY <1>4, <2>2
    <3>. QED BY <1>1, <1>2, <1>4, <3>1 DEF StackOK
  <2>. QED BY <2>1, <2>2
<1>5. Last(stack') = f
  BY <1>2 DEF Last
<1>. QED BY <1>2, <1>3, <1>4, <1>5 DEF StackOK

\* An activation less.
LEMMA Popped ==
  ASSUME StackOK, stack # <<>>, stack' = Front(stack), line' = line
  PROVE  StackOK'
<1>1. PICK n \in Nat : n = Len(stack) /\ n > 0
  BY LastFacts
<1>2. stack \in Seq(Frames) /\ 1 \in 1 .. n + 1 /\ n - 1 \in 0 .. n /\ n - 1 \in Nat
  BY <1>1 DEF StackOK
<1>3. stack' = SubSeq(stack, 1, n - 1)
  BY <1>1 DEF Front
<1>4. /\ stack' \in Seq(Frames) /\ Len(stack') = n - 1
      /\ \A k \in 1 .. n - 1 : stack'[k] = stack[k]
  BY <1>1, <1>2, <1>3
<1>5. Frames' = Frames
  BY DEF Frames, CallFrames, BinaryFrames, Names
<1>6. ASSUME NEW k \in 1 .. n - 1, stack'[k].kind = "binary", k > 1
      PROVE  stack'[k - 1].level < stack'[k].level
  <2>1. k \in 1 .. n /\ k - 1 \in 1 .. n - 1
    BY <1>6
  <2>. QED BY <1>1, <1>4, <1>6, <2>1 DEF StackOK
<1>. QED BY <1>4, <1>5, <1>6 DEF StackOK

\* Tokens.
LEMMA TokenFacts ==
  ASSUME TokensOK, NEW i \in Nat, i >= 1
  PROVE  /\ TokenTyped(Token(i))
         /\ Token(i).type # "end" => i <= Len(line) /\ Token(i) \in ToSet(line)
<1>1. line \in Seq(ToSet(line)) /\ Len(line) \in Nat
  BY LenProperties DEF TokensOK, LineTyped
<1>2. CASE i <= Len(line)
  <2>1. i \in 1 .. Len(line) /\ Token(i) = line[i]
    BY <1>1, <1>2 DEF Token
  <2>. QED BY <1>1, <1>2, <2>1, ElementOfSeq DEF TokensOK, LineTyped
<1>3. CASE ~(i <= Len(line))
  BY <1>3 DEF Token, End, TokenTyped
<1>. QED BY <1>2, <1>3

LEMMA CurrentFacts ==
  ASSUME TokensOK
  PROVE  /\ at \in Nat /\ at >= 1 /\ Len(line) \in Nat /\ Advanced \in 1 .. Len(line) + 1
         /\ TokenTyped(Current)
         /\ Current.type = "ident" => Current.name \in Names
<1>1. at \in Nat /\ at >= 1 /\ Len(line) \in Nat
  BY LenProperties DEF TokensOK, LineTyped
<1>2. Advanced \in 1 .. Len(line) + 1
  BY <1>1, MinMaxOfTwo DEF Advanced, TokensOK
<1>3. TokenTyped(Current) /\ (Current.type = "ident" => Current \in ToSet(line))
  BY <1>1, TokenFacts DEF Current
<1>. QED BY <1>1, <1>2, <1>3 DEF Names

\* What binds is an operator.
LEMMA LevelFacts ==
  ASSUME NEW t
  PROVE  Level(t) \in Nat /\ (Level(t) > 0 => Operator(t) \in Operators)
<1>1. CASE t.type = "ident"
  <2>1. Level(t) = Tightness("ident", t.name) /\ Operator(t) = t.name
    BY <1>1 DEF Level, NameOf, Operator
  <2>2. Tightness("ident", t.name) = IF t.name = "or" THEN 1 ELSE IF t.name = "and" THEN 2 ELSE 0
    BY DEF Tightness
  <2>. QED BY <2>1, <2>2 DEF Operators
<1>2. CASE t.type # "ident"
  <2>1. Operator(t) = t.type
    BY <1>2 DEF Operator
  <2>2. CASE t.type \in {"==", "=", "!=", "<", ">", "<=", ">="}
    <3>1. Level(t) = 3
      BY <1>2, <2>2 DEF Level, NameOf, Tightness
    <3>. QED BY <2>1, <2>2, <3>1 DEF Operators
  <2>3. CASE t.type \in {"+", "-"}
    <3>1. Level(t) = 4
      BY <1>2, <2>3 DEF Level, NameOf, Tightness
    <3>. QED BY <2>1, <2>3, <3>1 DEF Operators
  <2>4. CASE t.type \in {"*", "/", "%"}
    <3>1. Level(t) = 5
      BY <1>2, <2>4 DEF Level, NameOf, Tightness
    <3>. QED BY <2>1, <2>4, <3>1 DEF Operators
  <2>5. CASE /\ t.type \notin {"==", "=", "!=", "<", ">", "<=", ">="}
             /\ t.type \notin {"+", "-"} /\ t.type \notin {"*", "/", "%"}
    <3>1. Level(t) = 0
      BY <1>2, <2>5 DEF Level, NameOf, Tightness
    <3>. QED BY <2>1, <3>1
  <2>. QED BY <2>2, <2>3, <2>4, <2>5
<1>. QED BY <1>1, <1>2

----------------------------------------------------------------------------
(* The steps.                                                              *)

LEMMA EffectsStay ==
  ASSUME EffectsOK, UNCHANGED effects
  PROVE  EffectsOK'
BY DEF EffectsOK, effects

LEMMA TokensStay ==
  ASSUME TokensOK, line' = line, at' \in 1 .. Len(line) + 1
  PROVE  TokensOK'
BY DEF TokensOK

LEMMA StackStays ==
  ASSUME StackOK, stack' = stack, line' = line
  PROVE  StackOK'
<1>1. Frames' = Frames
  BY DEF Frames, CallFrames, BinaryFrames, Names
<1>. QED BY <1>1 DEF StackOK

\* A value read.
LEMMA Yielded ==
  ASSUME ValueOK, NEW v \in Values, Yield(v), had_error' \in BOOLEAN
  PROVE  ValueOK' /\ CloseOK'
BY DEF ValueOK, CloseOK, Yield

LEMMA LiteralKeeps ==
  ASSUME TokensOK, ValueOK, StackOK, Literal, line' = line
  PROVE  TokensOK' /\ ValueOK' /\ StackOK' /\ CloseOK'
<1> DEFINE v == IF Current.type = "number" THEN Long(Current.num) ELSE Text(Current.text)
<1>1. v \in Values
  BY CurrentFacts, LongFacts, TextFacts DEF Literal, TokenTyped
<1>2. Yield(v) /\ at' = Advanced /\ UNCHANGED <<stack, had_error>>
  BY DEF Literal
<1> HIDE DEF v
<1>. QED BY <1>1, <1>2, CurrentFacts, Yielded, TokensStay, StackStays DEF ValueOK

LEMMA ReadVariableKeeps ==
  ASSUME TokensOK, ValueOK, StackOK, VarsTyped(vars), ReadVariable, line' = line
  PROVE  TokensOK' /\ ValueOK' /\ StackOK' /\ CloseOK'
<1> DEFINE v == Variable(Current.name)
<1>1. v \in Values
  BY LongFacts DEF Variable, VarsTyped
<1>2. Yield(v) /\ at' = Advanced /\ UNCHANGED <<stack, had_error>>
  BY DEF ReadVariable
<1> HIDE DEF v
<1>. QED BY <1>1, <1>2, CurrentFacts, Yielded, TokensStay, StackStays DEF ValueOK

LEMMA UnexpectedKeeps ==
  ASSUME TokensOK, ValueOK, StackOK, Unexpected, line' = line
  PROVE  TokensOK' /\ ValueOK' /\ StackOK' /\ CloseOK'
<1>1. Yield(Long(0)) /\ Long(0) \in Values /\ at' = Advanced /\ stack' = stack /\ had_error' = TRUE
  BY LongFacts DEF Unexpected
<1>. QED BY <1>1, CurrentFacts, Yielded, TokensStay, StackStays

\* An operand inside a minus or a bracket.
LEMMA NestKeeps ==
  ASSUME TokensOK, ValueOK, StackOK, mode = "operand", Negate \/ Open, line' = line
  PROVE  TokensOK' /\ ValueOK' /\ StackOK' /\ CloseOK'
<1>1. PICK f \in {Minus, Paren} : stack' = Append(stack, f)
  BY DEF Negate, Open
<1>2. at' = Advanced /\ UNCHANGED <<mode, value, had_error>>
  BY DEF Negate, Open
<1>3. f \in Frames /\ f.kind # "binary"
  BY <1>1, FramesMade DEF Minus, Paren
<1>4. StackOK'
  BY <1>1, <1>3, Pushed
<1>5. ValueOK' /\ CloseOK'
  BY <1>2 DEF ValueOK, CloseOK
<1>. QED BY <1>2, <1>4, <1>5, CurrentFacts, TokensStay

LEMMA OpenCallKeeps ==
  ASSUME TokensOK, ValueOK, StackOK, OpenCall, line' = line
  PROVE  TokensOK' /\ ValueOK' /\ StackOK' /\ CloseOK'
<1> DEFINE f == Call(Current.name, <<>>)
<1>1. /\ Current.type = "ident" /\ Token(at + 1).type = "("
      /\ stack' = Append(stack, f) /\ at' = at + 2 /\ mode' = ArgumentOrClose(at + 2)
      /\ UNCHANGED <<value, had_error>>
  BY DEF OpenCall
<1>2. f \in Frames /\ f.kind = "call"
  <2>1. Current.name \in Names /\ <<>> \in Seq(Values) /\ Len(<<>>) <= MaxArgs
    BY <1>1, CurrentFacts, LexerSizes, EmptySeq
  <2>. QED BY <2>1, FramesMade DEF Call
<1> HIDE DEF f
<1>3. StackOK' /\ stack' # <<>> /\ Last(stack') = f
  BY <1>1, <1>2, Pushed
<1>4. at' \in 1 .. Len(line) + 1
  <2>1. at \in Nat /\ at + 1 \in Nat /\ at + 1 >= 1 /\ at >= 1 /\ Len(line) \in Nat
    BY CurrentFacts
  <2>2. at + 1 <= Len(line)
    BY <1>1, <2>1, TokenFacts
  <2>. QED BY <1>1, <2>1, <2>2
<1>5. mode' \in {"operand", "close"}
  BY <1>1 DEF ArgumentOrClose
<1>6. ValueOK' /\ CloseOK'
  BY <1>1, <1>2, <1>3, <1>5 DEF ValueOK, CloseOK, Waits
<1>. QED BY <1>3, <1>4, <1>6, TokensStay

\* An operator takes the value as its left side.
LEMMA ShiftKeeps ==
  ASSUME TokensOK, ValueOK, StackOK, Shift, line' = line
  PROVE  TokensOK' /\ ValueOK' /\ StackOK' /\ CloseOK'
<1> DEFINE f == Binds(Operator(Current), value, Level(Current))
<1>1. /\ Level(Current) > Pending /\ stack' = Append(stack, f) /\ mode' = "operand"
      /\ at' = Advanced /\ UNCHANGED <<value, had_error>>
  BY DEF Shift
<1>2. PICK n \in Nat : n = Level(Current)
  BY LevelFacts
<1>3. Pending \in Nat /\ n > 0 /\ Pending < n
  BY <1>1, <1>2, PendingType
<1>4. f \in Frames /\ f.level = n
  <2>1. Operator(Current) \in Operators /\ value \in Values
    BY <1>2, <1>3, LevelFacts DEF ValueOK
  <2>. QED BY <1>2, <2>1, FramesMade DEF Binds
<1> HIDE DEF f
<1>5. StackOK'
  BY <1>1, <1>3, <1>4, Pushed
<1>6. ValueOK' /\ CloseOK'
  BY <1>1 DEF ValueOK, CloseOK
<1>. QED BY <1>1, <1>5, <1>6, CurrentFacts, TokensStay

\* What waits gets the value.
LEMMA CombineKeeps ==
  ASSUME TokensOK, ValueOK, StackOK, mode = "value", Combine, line' = line
  PROVE  TokensOK' /\ ValueOK' /\ StackOK' /\ CloseOK'
<1>1. stack # <<>>
  BY DEF Combine, Pending
<1>2. PICK f \in Frames : f = Last(stack)
  BY <1>1, LastFacts
<1>3. stack' = Front(stack) /\ UNCHANGED <<at, had_error>>
  BY DEF Combine
<1>4. StackOK' /\ TokensOK'
  BY <1>1, <1>3, Popped, TokensStay DEF TokensOK
<1>5. \/ f.kind = "minus" /\ Yield(Negated(value))
      \/ f.kind = "binary" /\ Yield(Binary(f.left, f.op, value))
      \/ mode' = "undefined" /\ value' = value
  BY <1>2 DEF Combine
<1>6. value \in Values /\ had_error' \in BOOLEAN
  BY <1>3 DEF ValueOK
<1>7. CASE f.kind = "minus" /\ Yield(Negated(value))
  BY <1>4, <1>6, <1>7, NegatedType, Yielded
<1>8. CASE f.kind = "binary" /\ Yield(Binary(f.left, f.op, value))
  <2>1. Binary(f.left, f.op, value) \in Values
    BY <1>6, <1>8, FrameFacts, BinaryType
  <2>. QED BY <1>4, <1>6, <1>8, <2>1, Yielded
<1>9. CASE mode' = "undefined" /\ value' = value
  BY <1>4, <1>6, <1>9 DEF ValueOK, CloseOK
<1>. QED BY <1>5, <1>7, <1>8, <1>9

LEMMA ClosedFacts ==
  ASSUME TokensOK, ValueOK, Closed
  PROVE  at' \in 1 .. Len(line) + 1 /\ had_error' \in BOOLEAN
BY CurrentFacts DEF Closed, TokensOK, ValueOK

LEMMA CloseKeeps ==
  ASSUME TokensOK, ValueOK, StackOK, mode = "value", Close, line' = line
  PROVE  TokensOK' /\ ValueOK' /\ StackOK' /\ CloseOK'
<1>1. stack # <<>> /\ Closed /\ stack' = Front(stack) /\ UNCHANGED <<mode, value>>
  BY DEF Close, Waits
<1>2. at' \in 1 .. Len(line) + 1 /\ had_error' \in BOOLEAN
  BY <1>1, ClosedFacts
<1>3. ValueOK' /\ CloseOK'
  BY <1>1, <1>2 DEF ValueOK, CloseOK
<1>. QED BY <1>1, <1>2, <1>3, Popped, TokensStay

LEMMA FinishKeeps ==
  ASSUME TokensOK, ValueOK, StackOK, Finish, line' = line
  PROVE  TokensOK' /\ ValueOK' /\ StackOK' /\ CloseOK'
<1>1. mode' = "done" /\ UNCHANGED <<at, stack, value, had_error>>
  BY DEF Finish
<1>2. ValueOK' /\ CloseOK'
  BY <1>1 DEF ValueOK, CloseOK
<1>. QED BY <1>1, <1>2, StackStays, TokensStay DEF TokensOK

\* One more argument, or none when there are enough.
LEMMA ArgumentKeeps ==
  ASSUME TokensOK, ValueOK, StackOK, Argument, line' = line
  PROVE  TokensOK' /\ ValueOK' /\ StackOK' /\ CloseOK'
<1>1. /\ Waits("call")
      /\ stack' = [stack EXCEPT ![Len(stack)].args = IF Len(@) < MaxArgs THEN Append(@, value) ELSE @]
      /\ IF Current.type = "," THEN at' = Advanced /\ mode' = ArgumentOrClose(at + 1)
                               ELSE mode' = "close" /\ at' = at
      /\ UNCHANGED <<value, had_error>>
  BY DEF Argument
<1>2. PICK n \in Nat \ {0} : n = Len(stack)
  BY <1>1, LastFacts DEF Waits
<1>3. PICK f \in Frames : f = stack[n] /\ f = Last(stack) /\ f.kind = "call" /\ n \in 1 .. n
  <2>1. stack # <<>> /\ Last(stack).kind = "call"
    BY <1>1 DEF Waits
  <2>2. n \in 1 .. n
    OBVIOUS
  <2>. QED BY <1>2, <2>1, <2>2, LastFacts
<1>4. PICK as : as = IF Len(f.args) < MaxArgs THEN Append(f.args, value) ELSE f.args
  OBVIOUS
<1>5. PICK g : g = [f EXCEPT !.args = as]
  OBVIOUS
<1>6. f = Call(f.name, f.args)
  <2>1. f \in CallFrames
    BY <1>3 DEF Frames, BinaryFrames, Binds, Minus, Paren
  <2>. QED BY <2>1 DEF CallFrames, Call
<1>7. g = Call(f.name, as)
  <2>1. PICK x, y : f = Call(x, y)
    BY <1>6
  <2>2. f = [kind |-> "call", level |-> 0, name |-> x, args |-> y] /\ f.name = x
    BY <2>1 DEF Call
  <2>3. g = [kind |-> "call", level |-> 0, name |-> x, args |-> as]
    BY <1>5, <2>2
  <2>. QED BY <2>2, <2>3 DEF Call
<1>8. as \in Seq(Values) /\ Len(as) <= MaxArgs
  <2>1. f.args \in Seq(Values) /\ Len(f.args) <= MaxArgs /\ Len(f.args) \in Nat
    BY <1>3, FrameFacts
  <2>2. value \in Values
    BY DEF ValueOK
  <2>3. Append(f.args, value) \in Seq(Values) /\ Len(Append(f.args, value)) = Len(f.args) + 1
    BY <2>1, <2>2, AppendProperties
  <2>. QED BY <1>4, <2>1, <2>3, LexerSizes
<1>9. g \in Frames /\ g.kind = "call" /\ g.level = f.level /\ f.name \in Names
  BY <1>3, <1>7, <1>8, FrameFacts, FramesMade DEF Call
<1>10. stack' = [stack EXCEPT ![n] = g]
  BY <1>1, <1>2, <1>3, <1>4, <1>5
<1>11. /\ stack' \in Seq(Frames) /\ Len(stack') = n
       /\ \A k \in 1 .. n : stack'[k] = IF k = n THEN g ELSE stack[k]
  BY <1>2, <1>3, <1>9, <1>10, ExceptSeq DEF StackOK
<1>12. StackOK'
  <2>1. Frames' = Frames
    BY DEF Frames, CallFrames, BinaryFrames, Names
  <2>2. ASSUME NEW k \in 1 .. n, stack'[k].kind = "binary", k > 1
        PROVE  stack'[k - 1].level < stack'[k].level
    <3>1. k # n /\ k - 1 # n /\ k - 1 \in 1 .. n
      BY <1>9, <1>11, <2>2
    <3>. QED BY <1>2, <1>11, <2>2, <3>1 DEF StackOK
  <2>. QED BY <1>11, <2>1, <2>2 DEF StackOK
<1>13. mode' \in {"operand", "close"} /\ at' \in 1 .. Len(line) + 1
  BY <1>1, CurrentFacts DEF ArgumentOrClose, TokensOK
<1>14. stack' # <<>> /\ Last(stack') = g
  BY <1>2, <1>3, <1>11 DEF Last
<1>15. ValueOK' /\ CloseOK'
  BY <1>1, <1>9, <1>13, <1>14 DEF ValueOK, CloseOK, Waits
<1>. QED BY <1>12, <1>13, <1>15, TokensStay

----------------------------------------------------------------------------
(* Calls and what they leave.                                              *)

\* A sequence of anything, and one more of it.
LEMMA AppendOwn ==
  ASSUME NEW s, s \in Seq(ToSet(s)), NEW e
  PROVE  /\ Append(s, e) \in Seq(ToSet(Append(s, e)))
         /\ Len(Append(s, e)) = Len(s) + 1 /\ Len(s) \in Nat
         /\ \A i \in 1 .. Len(s) : Append(s, e)[i] = s[i]
         /\ Append(s, e)[Len(s) + 1] = e
<1> DEFINE T == ToSet(s) \cup {e}
<1>1. s \in Seq(T) /\ e \in T
  <2>1. PICK n \in Nat : n = Len(s) /\ DOMAIN s = 1 .. n /\ s = [i \in 1 .. n |-> s[i]]
    BY LenProperties
  <2>2. \A i \in 1 .. n : s[i] \in T
    BY <2>1 DEF ToSet
  <2>3. s \in [1 .. n -> T]
    BY <2>1, <2>2
  <2>. QED BY <2>1, <2>3, ArrayIsSeq
<1> HIDE DEF T
<1>2. PICK t \in Seq(T) : t = Append(s, e)
  BY <1>1, AppendProperties
<1>3. /\ Len(t) = Len(s) + 1 /\ Len(s) \in Nat
      /\ \A i \in 1 .. Len(s) : t[i] = s[i]
      /\ t[Len(s) + 1] = e
  BY <1>1, <1>2, AppendProperties, LenProperties
<1>4. t \in Seq(ToSet(t))
  <2>1. PICK n \in Nat : n = Len(t) /\ DOMAIN t = 1 .. n /\ t = [i \in 1 .. n |-> t[i]]
    BY LenProperties
  <2>2. \A i \in 1 .. n : t[i] \in ToSet(t)
    BY <2>1 DEF ToSet
  <2>3. t \in [1 .. n -> ToSet(t)]
    BY <2>1, <2>2
  <2>. QED BY <2>1, <2>3, ArrayIsSeq
<1>. QED BY <1>2, <1>3, <1>4

\* What calls leave in a file, with a call more.
OneMore(s, e, l) == s \in Seq(ToSet(s)) /\ l = Append(s, e)

LeftAfter(s, e, l, path) ==
  /\ \A n \in 0 .. Len(s) : LeftIn(l, n, path) = LeftIn(s, n, path)
  /\ LeftIn(l, Len(s) + 1, path) =
       IF Touches(e, path) THEN IF e.name = "write" THEN AsText(e.args[2]) ELSE <<>>
       ELSE LeftIn(s, Len(s), path)

LEMMA LeftMore ==
  ASSUME NEW s, NEW e, NEW l, OneMore(s, e, l), NEW path
  PROVE  LeftAfter(s, e, l, path)
<1>1. PICK N \in Nat : N = Len(s)
  BY AppendOwn DEF OneMore
<1>2. (\A i \in 1 .. N : l[i] = s[i]) /\ l[N + 1] = e
  BY <1>1, AppendOwn DEF OneMore
<1> DEFINE In(q, n) == {m \in 1 .. n : Touches(q[m], path)}
<1>3. ASSUME NEW n \in 0 .. N
      PROVE  In(l, n) = In(s, n) /\ (In(s, n) # {} => l[Max(In(s, n))] = s[Max(In(s, n))])
  <2>1. \A m \in 1 .. n : l[m] = s[m]
    <3>1. \A m \in 1 .. n : m \in 1 .. N
      BY <1>1
    <3>. QED BY <1>2, <3>1
  <2>2. In(l, n) = In(s, n)
    BY <2>1
  <2>3. PICK S : S = In(s, n)
    OBVIOUS
  <2>4. S \in SUBSET (1 .. n) /\ S \in SUBSET (0 .. n) /\ n \in Nat
    BY <2>3
  <2>5. S # {} => Max(S) \in 1 .. n
    BY <2>4, MaxIsGreatest
  <2>. QED BY <2>1, <2>2, <2>3, <2>5
<1>4. ASSUME NEW n \in 0 .. N PROVE LeftIn(l, n, path) = LeftIn(s, n, path)
  <2> HIDE DEF In
  <2>. QED BY <1>3 DEF LeftIn, In
<1>5. CASE Touches(e, path)
  <2>1. PICK S : S = In(l, N + 1)
    OBVIOUS
  <2>2. N + 1 \in S /\ S \in SUBSET (0 .. N + 1) /\ N + 1 \in Nat
    <3>1. N + 1 \in 1 .. N + 1 /\ 1 .. N + 1 \subseteq 0 .. N + 1 /\ N + 1 \in Nat
      BY <1>1
    <3>2. S = {m \in 1 .. N + 1 : Touches(l[m], path)}
      BY <2>1
    <3>. QED BY <1>2, <1>5, <3>1, <3>2
  <2>3. Max(S) \in S /\ Max(S) >= N + 1
    BY <2>2, MaxIsGreatest
  <2>4. Max(S) = N + 1
    <3>1. Max(S) \in 0 .. N + 1
      BY <2>2, <2>3
    <3>. QED BY <1>1, <2>3, <3>1
  <2>5. LeftIn(l, N + 1, path) = IF e.name = "write" THEN AsText(e.args[2]) ELSE <<>>
    BY <1>2, <2>1, <2>2, <2>4 DEF LeftIn
  <2>. QED BY <1>1, <1>4, <1>5, <2>5 DEF LeftAfter
<1>6. CASE ~Touches(e, path)
  <2>1. In(l, N + 1) = In(l, N)
    <3>1. \A m \in 1 .. N + 1 : m \in 1 .. N \/ m = N + 1
      BY <1>1
    <3>2. \A m \in 1 .. N : m \in 1 .. N + 1
      BY <1>1
    <3>. QED BY <1>2, <1>6, <3>1, <3>2
  <2>2. LeftIn(l, N + 1, path) = LeftIn(l, N, path)
    <3> HIDE DEF In
    <3>. QED BY <2>1 DEF LeftIn, In
  <2>. QED BY <1>1, <1>4, <1>6, <2>2 DEF LeftAfter
<1>. QED BY <1>5, <1>6

\* A call made.
LEMMA MakeCallKeeps ==
  ASSUME ParserInv, MakeCall
  PROVE  ParserInv'
<1>1. PICK f \in Frames : f = Last(stack) /\ f.kind = "call" /\ stack # <<>>
  <2>1. stack # <<>> /\ Last(stack).kind = "call"
    BY DEF ParserInv, CloseOK, MakeCall, Waits
  <2>. QED BY <2>1, LastFacts DEF ParserInv
<1>2. PICK name, args : name = f.name /\ args = f.args
  OBVIOUS
<1>3. PICK o \in Calls(name, args) :
        /\ Yield(o.value) /\ vars' = o.vars /\ files' = o.files
        /\ log' = Append(log, [name |-> name, args |-> args, value |-> o.value,
                               vars |-> o.vars, files |-> o.files])
  BY <1>1, <1>2 DEF MakeCall
<1>4. Closed /\ stack' = Front(stack) /\ source' = source /\ line' = line
  BY DEF MakeCall
<1>5. args \in Seq(Values) /\ VarsTyped(vars) /\ FilesTyped(files)
  BY <1>1, <1>2, FrameFacts DEF ParserInv, EffectsOK
<1>6. Lawful(name, args, o)
  BY <1>3, <1>5, CallsLawful
<1>7. TokensOK' /\ StackOK' /\ ValueOK' /\ CloseOK'
  <2>1. o.value \in Values
    BY <1>6 DEF Lawful
  <2>2. at' \in 1 .. Len(line) + 1 /\ had_error' \in BOOLEAN
    BY <1>4, ClosedFacts DEF ParserInv
  <2>. QED BY <1>1, <1>3, <1>4, <2>1, <2>2, Popped, TokensStay, Yielded DEF ParserInv
<1> DEFINE N == Len(log)
<1>8. PICK e : /\ e.name = name /\ e.args = args /\ e.value = o.value
               /\ log' = Append(log, e)
  BY <1>3
<1>9. log \in Seq(ToSet(log)) /\ N \in Nat
  BY AppendOwn DEF ParserInv, EffectsOK
<1>10. \A path : Touches(e, path) <=> Marks(name, args, o.value, path)
  BY <1>8 DEF Touches, Marks
<1>11. /\ log' \in Seq(ToSet(log')) /\ Len(log') = N + 1 /\ log'[N + 1] = e
       /\ \A n \in 1 .. N : log'[n] = log[n]
  BY <1>8, <1>9, AppendOwn
<1>12. /\ \A path : \A n \in 0 .. N : LeftIn(log', n, path) = LeftIn(log, n, path)
       /\ \A path : LeftIn(log', N + 1, path) =
                      IF Touches(e, path) THEN IF e.name = "write" THEN AsText(e.args[2]) ELSE <<>>
                      ELSE LeftIn(log, N, path)
  <2>1. PICK l : l = log'
    OBVIOUS
  <2>2. PICK s : s = log
    OBVIOUS
  <2>3. OneMore(s, e, l)
    BY <1>8, <1>9, <2>1, <2>2 DEF OneMore
  <2>4. \A path : LeftAfter(s, e, l, path)
    BY <2>3, LeftMore
  <2>. QED BY <2>1, <2>2, <2>4, Zenon DEF LeftAfter
<1>13. \A path : Content(files, path) = LeftIn(log, N, path)
  BY DEF ParserInv, EffectsOK
<1>14. \A path : Content(files', path) = LeftIn(log', N + 1, path)
  <2>1. ASSUME NEW path PROVE Content(files', path) = LeftIn(log', N + 1, path)
    <3>1. Content(o.files, path) = IF Marks(name, args, o.value, path) THEN Mark(name, args)
                                   ELSE Content(files, path)
      BY <1>6 DEF Lawful
    <3>. QED BY <1>3, <1>8, <1>10, <1>12, <1>13, <3>1 DEF Mark
  <2>. QED BY <2>1
<1>15. ReadsIn(log')
  <2>1. SUFFICES ASSUME NEW n \in 1 .. N + 1, log'[n].name = "read", log'[n].args # <<>>
                 PROVE  log'[n].value = Text(LeftIn(log', n - 1, AsText(log'[n].args[1])))
    BY <1>11 DEF ReadsIn
  <2>2. CASE n = N + 1
    <3>1. /\ log'[n] = e /\ n - 1 = N /\ n - 1 \in 0 .. N
      BY <1>9, <1>11, <2>2
    <3>2. name = "read" /\ args # <<>>
      BY <1>8, <2>1, <3>1
    <3>3. o.value = Text(Content(files, AsText(args[1])))
      BY <1>6, <3>2 DEF Lawful
    <3>4. LeftIn(log', n - 1, AsText(args[1])) = Content(files, AsText(args[1]))
      BY <1>12, <1>13, <3>1
    <3>. QED BY <1>8, <3>1, <3>3, <3>4
  <2>3. CASE n # N + 1
    <3>1. n \in 1 .. N /\ n - 1 \in 0 .. N
      BY <1>9, <2>3
    <3>2. log'[n] = log[n]
      BY <1>11, <3>1
    <3>3. log[n].value = Text(LeftIn(log, n - 1, AsText(log[n].args[1])))
      BY <2>1, <3>1, <3>2 DEF ParserInv, EffectsOK, ReadsIn
    <3>. QED BY <1>12, <3>1, <3>2, <3>3
  <2>. QED BY <2>2, <2>3
<1>16. EffectsOK'
  <2>1. VarsTyped(vars') /\ FilesTyped(files')
    BY <1>3, <1>6 DEF Lawful
  <2>. QED BY <1>11, <1>14, <1>15, <2>1 DEF EffectsOK
<1>. QED BY <1>7, <1>16 DEF ParserInv

----------------------------------------------------------------------------
(* The invariant.                                                          *)

LEMMA ParserInit == Init => ParserInv
<1> SUFFICES ASSUME Init PROVE ParserInv
  OBVIOUS
<1>1. line = Tokens(source) /\ source \in Texts
  BY InputAssumption DEF Init
<1>2. LineTyped(line) /\ Len(line) \in Nat
  BY <1>1, TokensTyped, LenProperties DEF LineTyped
<1>3. TokensOK
  BY <1>2 DEF TokensOK, Init
<1>4. ValueOK /\ CloseOK
  <2>1. Long(0) \in Values
    BY LongFacts
  <2>2. mode = "operand" /\ value = Long(0) /\ had_error = FALSE
    BY DEF Init
  <2>. QED BY <2>1, <2>2 DEF ValueOK, CloseOK
<1>5. StackOK
  <2>1. stack \in Seq(Frames) /\ Len(stack) = 0
    BY EmptySeq DEF Init
  <2>. QED BY <2>1 DEF StackOK
<1>6. EffectsOK
  <2>1. VarsTyped(vars) /\ FilesTyped(files)
    BY InputAssumption, LongFacts DEF Init, VarsTyped, FilesTyped
  <2>2. log \in Seq(ToSet(log)) /\ Len(log) = 0
    BY EmptySeq DEF Init
  <2>3. ReadsIn(log)
    BY <2>2 DEF ReadsIn
  <2>4. \A path : LeftIn(log, 0, path) = Content(Files, path)
    BY DEF LeftIn
  <2>. QED BY <2>1, <2>2, <2>3, <2>4 DEF EffectsOK, Init
<1>. QED BY <1>3, <1>4, <1>5, <1>6 DEF ParserInv

LEMMA ParserStep == ParserInv /\ [Next]_<<reading, effects>> => ParserInv'
<1> SUFFICES ASSUME ParserInv, [Next]_<<reading, effects>> PROVE ParserInv'
  OBVIOUS
<1>1. TokensOK /\ ValueOK /\ StackOK /\ CloseOK /\ EffectsOK /\ VarsTyped(vars)
  BY DEF ParserInv, EffectsOK
<1>2. ASSUME TokensOK', ValueOK', StackOK', CloseOK', UNCHANGED effects
      PROVE  ParserInv'
  BY <1>1, <1>2, EffectsStay DEF ParserInv
<1>3. CASE Operand
  <2>1. mode = "operand" /\ line' = line /\ UNCHANGED effects
        /\ (Literal \/ Negate \/ Open \/ ReadVariable \/ OpenCall \/ Unexpected)
    BY <1>3 DEF Operand
  <2>2. CASE Literal
    BY <1>1, <1>2, <2>1, <2>2, LiteralKeeps
  <2>3. CASE Negate \/ Open
    BY <1>1, <1>2, <2>1, <2>3, NestKeeps
  <2>4. CASE ReadVariable
    BY <1>1, <1>2, <2>1, <2>4, ReadVariableKeeps
  <2>5. CASE OpenCall
    BY <1>1, <1>2, <2>1, <2>5, OpenCallKeeps
  <2>6. CASE Unexpected
    BY <1>1, <1>2, <2>1, <2>6, UnexpectedKeeps
  <2>. QED BY <2>1, <2>2, <2>3, <2>4, <2>5, <2>6
<1>4. CASE Value
  <2>1. mode = "value" /\ line' = line /\ UNCHANGED effects
        /\ (Shift \/ Combine \/ Close \/ Argument \/ Finish)
    BY <1>4 DEF Value
  <2>2. CASE Shift
    BY <1>1, <1>2, <2>1, <2>2, ShiftKeeps
  <2>3. CASE Combine
    BY <1>1, <1>2, <2>1, <2>3, CombineKeeps
  <2>4. CASE Close
    BY <1>1, <1>2, <2>1, <2>4, CloseKeeps
  <2>5. CASE Argument
    BY <1>1, <1>2, <2>1, <2>5, ArgumentKeeps
  <2>6. CASE Finish
    BY <1>1, <1>2, <2>1, <2>6, FinishKeeps
  <2>. QED BY <2>1, <2>2, <2>3, <2>4, <2>5, <2>6
<1>5. CASE MakeCall
  BY <1>5, MakeCallKeeps
<1>6. CASE UNCHANGED <<reading, effects>>
  <2>1. UNCHANGED <<line, at, stack, mode, value, had_error>> /\ UNCHANGED effects
    BY <1>6 DEF reading, effects
  <2>2. TokensOK' /\ ValueOK' /\ StackOK' /\ CloseOK'
    BY <1>1, <2>1, StackStays DEF TokensOK, ValueOK, CloseOK, Waits
  <2>. QED BY <1>2, <2>1, <2>2
<1>. QED BY <1>3, <1>4, <1>5, <1>6 DEF Next

LEMMA ParserInvSound == ParserInv => ParserSound
<1> SUFFICES ASSUME ParserInv PROVE ParserSound
  OBVIOUS
<1>1. PICK n \in Nat : n = Len(stack) /\ DOMAIN stack = 1 .. n
  BY LenProperties DEF ParserInv, StackOK
<1>2. ASSUME NEW k \in DOMAIN stack
      PROVE  /\ stack[k].kind = "call" => Len(stack[k].args) <= MaxArgs
             /\ stack[k].kind = "binary" => /\ stack[k].left \in Values
                                            /\ k > 1 => stack[k - 1].level < stack[k].level
  <2>1. stack[k] \in Frames
    BY <1>1, ElementOfSeq DEF ParserInv, StackOK
  <2>2. stack[k].kind = "binary" /\ k > 1 => stack[k - 1].level < stack[k].level
    BY <1>1 DEF ParserInv, StackOK
  <2>. QED BY <2>1, <2>2, FrameFacts
<1>3. TypeOK
  BY <1>2 DEF TypeOK, ParserInv, TokensOK, ValueOK, EffectsOK, VarsTyped, FilesTyped
<1>4. ReadsWhatWasWritten
  <2>1. \A m, path : Left(m, path) = LeftIn(log, m, path)
    BY DEF Left, LeftIn, Content
  <2>2. DOMAIN log = 1 .. Len(log)
    BY LenProperties DEF ParserInv, EffectsOK
  <2>. QED BY <2>1, <2>2 DEF ReadsWhatWasWritten, ParserInv, EffectsOK, ReadsIn
<1>. QED BY <1>3, <1>4 DEF ParserSound

\* Whatever the line, its values are longs and texts of their size, a call keeps at most its
\* number of arguments, what waits binds ever tighter up to the next bracket, there are never
\* more files than there is room for, and read() gives back what the last successful write()
\* or delete() of that path left there, or what was there before the line (parse_or to
\* parse_primary, call_builtin).
THEOREM ParserSafe == Spec => []ParserSound
<1>. QED BY ParserInit, ParserStep, ParserInvSound, PTL DEF Spec
=============================================================================
