---------------------------- MODULE StartupProofs ---------------------------
(***************************************************************************)
(* Devices alone never bring the kernel down, and log and screen tell how  *)
(* far it came, for every set of lines with a device, every length of the  *)
(* messages and every bound.  The first argument is the order of the       *)
(* start: the interrupt flag is on in the shell only, and the shell is     *)
(* entered behind the last step, when gates and controllers are set up.    *)
(* The second counts: what has gone to the port and to the screen is so    *)
(* many characters of the start and so many of a panic.                    *)
(***************************************************************************)
EXTENDS Startup, BasicFacts

\* A start that no exception and no noise has touched.
Quiet == faults = <<>> /\ spurious = 0

\* Who has turned interrupts on has set up the controllers.
SetUp ==
  /\ step \in 0 .. Len(Steps)
  /\ step >= 2 => idt
  /\ step >= 5 => base = Remapped
  /\ intf => cpu = "shell"
  /\ cpu = "shell" => step = Len(Steps) /\ base = Remapped /\ mask = MaskEnabled

Counts == faults \in Seq(Exceptions) /\ spurious \in Nat

----------------------------------------------------------------------------
(* Characters.                                                             *)

Item == {Hello} \cup {<<w, k>> : w \in {Kernel, Dying, "X"}, k \in Nat}

LEMMA LettersFacts ==
  ASSUME NEW who \in {Kernel, Dying}, NEW m \in Nat, NEW n \in Nat, m <= n
  PROVE  /\ Letters(who, m, n) \in Seq(Item) /\ Len(Letters(who, m, n)) = n - m
         /\ \A k \in 1 .. n - m : Letters(who, m, n)[k] = <<who, m + k>>
<1>1. n - m \in Nat
  OBVIOUS
<1>2. \A k \in 1 .. n - m : <<who, m + k>> \in Item
  <2>1. \A k \in 1 .. n - m : m + k \in Nat
    OBVIOUS
  <2>2. QED
    BY <2>1 DEF Item
<1>3. QED
  BY <1>1, <1>2 DEF Letters

LEMMA NoLetters ==
  ASSUME NEW who, NEW m \in Nat
  PROVE  Letters(who, m, m) = <<>>
BY DEF Letters

\* One more character at the end.
LEMMA LettersMore ==
  ASSUME NEW who \in {Kernel, Dying}, NEW m \in Nat, NEW n \in Nat, m <= n
  PROVE  Letters(who, m, n + 1) = Append(Letters(who, m, n), <<who, n + 1>>)
<1> DEFINE a == Letters(who, m, n)
           x == <<who, n + 1>>
           b == Letters(who, m, n + 1)
           c == Append(a, x)
<1>1. x \in Item
  BY DEF Item
<1>2. /\ a \in Seq(Item) /\ Len(a) = n - m
      /\ \A k \in 1 .. n - m : a[k] = <<who, m + k>>
  BY LettersFacts
<1>3. /\ b \in Seq(Item) /\ Len(b) = n + 1 - m
      /\ \A k \in 1 .. n + 1 - m : b[k] = <<who, m + k>>
  <2>1. PICK l \in Nat : l = n + 1
    OBVIOUS
  <2>2. m <= l
    BY <2>1
  <2>3. /\ Letters(who, m, l) \in Seq(Item) /\ Len(Letters(who, m, l)) = l - m
        /\ \A k \in 1 .. l - m : Letters(who, m, l)[k] = <<who, m + k>>
    BY <2>2, LettersFacts
  <2>4. QED
    BY <2>1, <2>3
<1> HIDE DEF a, b, x
<1>3a. a \in Seq(Item)
  BY <1>2
<1>3b. /\ c \in Seq(Item) /\ Len(c) = Len(a) + 1
       /\ \A k \in 1 .. Len(a) : c[k] = a[k]
       /\ c[Len(a) + 1] = x
  BY <1>1, <1>3a, AppendProperties
<1>4. /\ c \in Seq(Item) /\ Len(c) = n - m + 1
      /\ \A k \in 1 .. n - m : c[k] = a[k]
      /\ c[n - m + 1] = x
  BY <1>2, <1>3b
<1> HIDE DEF c
<1>5. ASSUME NEW k \in 1 .. n + 1 - m PROVE b[k] = c[k]
  <2>1. CASE k \in 1 .. n - m
    BY <1>2, <1>3, <1>4, <2>1
  <2>2. CASE k = n - m + 1
    <3>1. m + k = n + 1
      BY <2>2
    <3>2. QED
      BY <1>3, <1>4, <2>2, <3>1 DEF x
  <2>3. QED
    BY <2>1, <2>2
<1>6. Len(b) = Len(c) /\ Len(b) = n + 1 - m
  BY <1>3, <1>4
<1>7. b = c
  BY <1>3, <1>4, <1>5, <1>6, SeqEqual
<1>8. QED
  BY <1>7 DEF b, c, a, x

\* The first character, and those behind it.
LEMMA LettersLess ==
  ASSUME NEW who \in {Kernel, Dying}, NEW m \in Nat, NEW n \in Nat, m < n
  PROVE  /\ Letters(who, m, n) # <<>> /\ Head(Letters(who, m, n)) = <<who, m + 1>>
         /\ Tail(Letters(who, m, n)) = Letters(who, m + 1, n)
<1> DEFINE a == Letters(who, m, n)
           b == Letters(who, m + 1, n)
           c == Tail(a)
<1>0. m <= n
  OBVIOUS
<1>1. /\ a \in Seq(Item) /\ Len(a) = n - m
      /\ \A k \in 1 .. n - m : a[k] = <<who, m + k>>
  BY <1>0, LettersFacts
<1>2. /\ b \in Seq(Item) /\ Len(b) = n - (m + 1)
      /\ \A k \in 1 .. n - (m + 1) : b[k] = <<who, m + 1 + k>>
  <2>1. m + 1 \in Nat /\ m + 1 <= n
    OBVIOUS
  <2>2. QED
    BY <2>1, LettersFacts
<1> HIDE DEF a, b
<1>3. a # <<>> /\ 1 \in 1 .. n - m
  BY <1>1
<1>4. /\ Head(a) = a[1] /\ c \in Seq(Item) /\ Len(c) = n - m - 1
      /\ \A k \in 1 .. n - m - 1 : c[k] = a[k + 1]
  BY <1>1, <1>3, HeadTailProperties
<1> HIDE DEF c
<1>5. ASSUME NEW k \in 1 .. n - (m + 1) PROVE b[k] = c[k]
  <2>1. k \in 1 .. n - m - 1 /\ k + 1 \in 1 .. n - m /\ m + (k + 1) = m + 1 + k
    OBVIOUS
  <2>2. QED
    BY <1>1, <1>2, <1>4, <2>1
<1>6. Len(b) = Len(c) /\ Len(b) = n - (m + 1)
  BY <1>2, <1>4
<1>7. b = c
  BY <1>2, <1>4, <1>5, <1>6, SeqEqual
<1>8. QED
  BY <1>1, <1>3, <1>4, <1>7 DEF a, b, c

\* What is left of a text tells where it stands.
LEMMA LettersLeft ==
  ASSUME NEW who \in {Kernel, Dying}, NEW m \in Nat, NEW n \in Nat, m <= n
  PROVE  Letters(who, m, n) = <<>> <=> m = n
<1>1. CASE m = n
  BY <1>1, NoLetters
<1>2. CASE m < n
  BY <1>2, LettersLess
<1>3. QED
  BY <1>1, <1>2

LEMMA AppendLast ==
  ASSUME NEW a \in Seq(Item), NEW b \in Seq(Item), NEW x \in Item
  PROVE  Append(a \o b, x) = a \o Append(b, x)
<1> DEFINE ab == a \o b
           bx == Append(b, x)
           l  == Append(ab, x)
           r  == a \o bx
<1>1. /\ ab \in Seq(Item) /\ Len(ab) = Len(a) + Len(b)
      /\ \A j \in 1 .. Len(a) : ab[j] = a[j]
      /\ \A j \in 1 .. Len(b) : ab[Len(a) + j] = b[j]
  BY ConcatFacts
<1>2. /\ bx \in Seq(Item) /\ Len(bx) = Len(b) + 1
      /\ \A j \in 1 .. Len(b) : bx[j] = b[j]
      /\ bx[Len(b) + 1] = x
  BY AppendProperties
<1> HIDE DEF ab, bx
<1>3. /\ l \in Seq(Item) /\ Len(l) = Len(ab) + 1
      /\ \A j \in 1 .. Len(ab) : l[j] = ab[j]
      /\ l[Len(ab) + 1] = x
  BY <1>1, AppendProperties
<1>3a. bx \in Seq(Item)
  BY <1>2
<1>4. /\ r \in Seq(Item) /\ Len(r) = Len(a) + Len(bx)
      /\ \A j \in 1 .. Len(a) : r[j] = a[j]
      /\ \A j \in 1 .. Len(bx) : r[Len(a) + j] = bx[j]
  BY <1>3a, ConcatFacts
<1> HIDE DEF l, r
<1>5. Len(a) \in Nat /\ Len(b) \in Nat
  OBVIOUS
<1>6. Len(l) = Len(a) + Len(b) + 1 /\ Len(r) = Len(a) + Len(b) + 1
  BY <1>1, <1>2, <1>3, <1>4, <1>5
<1>7. ASSUME NEW j \in 1 .. Len(a) + Len(b) + 1 PROVE l[j] = r[j]
  <2>1. CASE j \in 1 .. Len(a)
    <3>1. j \in 1 .. Len(ab)
      BY <1>1, <1>5, <2>1
    <3>2. QED
      BY <1>1, <1>3, <1>4, <2>1, <3>1
  <2>2. CASE j \in Len(a) + 1 .. Len(a) + Len(b)
    <3>1. PICK i \in 1 .. Len(b) : j = Len(a) + i
      <4>1. j - Len(a) \in 1 .. Len(b) /\ j = Len(a) + (j - Len(a))
        BY <1>5, <2>2
      <4>2. QED
        BY <4>1
    <3>2. j \in 1 .. Len(ab) /\ i \in 1 .. Len(bx)
      BY <1>1, <1>2, <1>5, <2>2, <3>1
    <3>3. l[j] = b[i]
      BY <1>1, <1>3, <3>1, <3>2
    <3>4. r[j] = b[i]
      BY <1>2, <1>4, <3>1, <3>2
    <3>5. QED
      BY <3>3, <3>4
  <2>3. CASE j = Len(a) + Len(b) + 1
    <3>1. Len(bx) \in 1 .. Len(bx) /\ Len(a) + Len(bx) = j /\ Len(ab) + 1 = j
      BY <1>1, <1>2, <1>5, <2>3
    <3>2. r[j] = bx[Len(bx)]
      BY <1>4, <3>1
    <3>3. QED
      BY <1>2, <1>3, <3>1, <3>2
  <2>4. QED
    BY <1>5, <2>1, <2>2, <2>3
<1>8. l = r
  BY <1>3, <1>4, <1>6, <1>7, SeqEqual
<1>9. QED
  BY <1>8 DEF l, r, ab, bx

LEMMA NothingAdded ==
  ASSUME NEW T, NEW a \in Seq(T)
  PROVE  a \o <<>> = a /\ <<>> \o a = a
OBVIOUS

----------------------------------------------------------------------------
(* The log and the screen, from the numbers of their characters.           *)

LogOf(g, n, note, p) == g \o Letters(Kernel, 0, n) \o note \o Letters(Dying, 0, p)
ScreenOf(m, e, q)    == Letters(Kernel, m, e) \o Letters(Dying, 0, q)

LEMMA LogMore ==
  ASSUME NEW g \in Seq(Item), NEW n \in Nat
  PROVE  Append(LogOf(g, n, <<>>, 0), <<Kernel, n + 1>>) = LogOf(g, n + 1, <<>>, 0)
<1> DEFINE a == Letters(Kernel, 0, n)
           b == Letters(Kernel, 0, n + 1)
           x == <<Kernel, n + 1>>
<1>1. a \in Seq(Item) /\ b \in Seq(Item) /\ x \in Item /\ b = Append(a, x)
  <2>1. 0 \in Nat /\ n + 1 \in Nat /\ 0 <= n /\ 0 <= n + 1 /\ Kernel \in {Kernel, Dying}
    OBVIOUS
  <2>2. x \in Item
    BY <2>1 DEF Item
  <2>3. QED
    BY <2>1, <2>2, LettersFacts, LettersMore
<1>2. Letters(Dying, 0, 0) = <<>>
  BY NoLetters
<1> HIDE DEF a, b, x
<1>3. g \o a \in Seq(Item) /\ g \o b \in Seq(Item)
  BY <1>1, ConcatFacts
<1>4. (g \o a) \o <<>> \o <<>> = g \o a /\ (g \o b) \o <<>> \o <<>> = g \o b
  BY <1>3, NothingAdded
<1>5. Append(g \o a, x) = g \o b
  BY <1>1, AppendLast
<1>6. QED
  BY <1>2, <1>4, <1>5 DEF LogOf, a, b, x

LEMMA LogDies ==
  ASSUME NEW g \in Seq(Item), NEW n \in Nat, NEW note \in Seq(Item), NEW p \in Nat
  PROVE  Append(LogOf(g, n, note, p), <<Dying, p + 1>>) = LogOf(g, n, note, p + 1)
<1> DEFINE a == Letters(Kernel, 0, n)
           d == Letters(Dying, 0, p)
           e == Letters(Dying, 0, p + 1)
           x == <<Dying, p + 1>>
<1>1. a \in Seq(Item) /\ d \in Seq(Item) /\ x \in Item /\ e = Append(d, x)
  <2>1. 0 \in Nat /\ p + 1 \in Nat /\ 0 <= n /\ 0 <= p /\ {Kernel, Dying} \subseteq {Kernel, Dying}
    OBVIOUS
  <2>2. x \in Item
    BY <2>1 DEF Item
  <2>3. QED
    BY <2>1, <2>2, LettersFacts, LettersMore
<1> HIDE DEF a, d, e, x
<1>2. g \o a \in Seq(Item)
  BY <1>1, ConcatFacts
<1>3. g \o a \o note \in Seq(Item)
  BY <1>2, ConcatFacts
<1>4. Append((g \o a \o note) \o d, x) = (g \o a \o note) \o Append(d, x)
  BY <1>1, <1>3, AppendLast
<1>5. QED
  BY <1>1, <1>4 DEF LogOf, a, d, e, x

LEMMA LogNotes ==
  ASSUME NEW g \in Seq(Item), NEW n \in Nat, NEW note \in Seq(Item)
  PROVE  LogOf(g, n, <<>>, 0) \o note = LogOf(g, n, note, 0)
<1> DEFINE a == Letters(Kernel, 0, n)
<1>1. a \in Seq(Item)
  <2>1. 0 \in Nat /\ 0 <= n /\ Kernel \in {Kernel, Dying}
    OBVIOUS
  <2>2. QED
    BY <2>1, LettersFacts
<1>2. Letters(Dying, 0, 0) = <<>>
  BY NoLetters
<1> HIDE DEF a
<1>3. g \o a \in Seq(Item)
  BY <1>1, ConcatFacts
<1>4. g \o a \o note \in Seq(Item)
  BY <1>3, ConcatFacts
<1>5. (g \o a) \o <<>> \o <<>> = g \o a /\ (g \o a \o note) \o <<>> = g \o a \o note
  BY <1>3, <1>4, NothingAdded
<1>6. QED
  BY <1>2, <1>5 DEF LogOf, a

\* The log before the first character, behind it, and at the end.
LEMMA LogStarts ==
  /\ LogOf(<<>>, 0, <<>>, 0) = <<>>
  /\ LogOf(<<Hello>>, 0, <<>>, 0) = <<Hello>>
  /\ \A n \in Nat : LogOf(<<Hello>>, n, <<>>, 0) = <<Hello>> \o Letters(Kernel, 0, n)
<1>1. Letters(Dying, 0, 0) = <<>> /\ Letters(Kernel, 0, 0) = <<>>
  BY NoLetters
<1>2. <<>> \o <<>> \o <<>> \o <<>> = <<>> /\ <<Hello>> \o <<>> \o <<>> \o <<>> = <<Hello>>
  OBVIOUS
<1>3. ASSUME NEW n \in Nat
      PROVE  LogOf(<<Hello>>, n, <<>>, 0) = <<Hello>> \o Letters(Kernel, 0, n)
  <2> DEFINE a == Letters(Kernel, 0, n)
             h == <<Hello>>
  <2>1. a \in Seq(Item)
    <3>1. 0 \in Nat /\ 0 <= n /\ Kernel \in {Kernel, Dying}
      OBVIOUS
    <3>2. QED
      BY <3>1, LettersFacts
  <2>2. h \in Seq(Item)
    BY DEF Item
  <2> HIDE DEF a, h
  <2>3. h \o a \in Seq(Item)
    BY <2>1, <2>2, ConcatFacts
  <2>4. (h \o a) \o <<>> \o <<>> = h \o a
    BY <2>3, NothingAdded
  <2>5. QED
    BY <1>1, <2>4 DEF LogOf, a, h
<1>4. QED
  BY <1>1, <1>2, <1>3 DEF LogOf

LEMMA ScreenMore ==
  ASSUME NEW m \in Nat, NEW e \in Nat, m <= e
  PROVE  Append(ScreenOf(m, e, 0), <<Kernel, e + 1>>) = ScreenOf(m, e + 1, 0)
<1> DEFINE a == Letters(Kernel, m, e)
           b == Letters(Kernel, m, e + 1)
<1>1. a \in Seq(Item) /\ b \in Seq(Item) /\ b = Append(a, <<Kernel, e + 1>>)
  <2>1. e + 1 \in Nat /\ m <= e + 1 /\ Kernel \in {Kernel, Dying}
    OBVIOUS
  <2>2. QED
    BY <2>1, LettersFacts, LettersMore
<1>2. Letters(Dying, 0, 0) = <<>>
  BY NoLetters
<1> HIDE DEF a, b
<1>3. a \o <<>> = a /\ b \o <<>> = b
  BY <1>1, NothingAdded
<1>4. QED
  BY <1>1, <1>2, <1>3 DEF ScreenOf, a, b

LEMMA ScreenDies ==
  ASSUME NEW m \in Nat, NEW e \in Nat, m <= e, NEW q \in Nat
  PROVE  Append(ScreenOf(m, e, q), <<Dying, q + 1>>) = ScreenOf(m, e, q + 1)
<1> DEFINE a == Letters(Kernel, m, e)
           d == Letters(Dying, 0, q)
           f == Letters(Dying, 0, q + 1)
           x == <<Dying, q + 1>>
<1>1. a \in Seq(Item) /\ d \in Seq(Item) /\ x \in Item /\ f = Append(d, x)
  <2>1. 0 \in Nat /\ q + 1 \in Nat /\ 0 <= q /\ Kernel \in {Kernel, Dying} /\ Dying \in {Kernel, Dying}
    OBVIOUS
  <2>2. x \in Item
    BY <2>1 DEF Item
  <2>3. QED
    BY <2>1, <2>2, LettersFacts, LettersMore
<1> HIDE DEF a, d, f, x
<1>2. Append(a \o d, x) = a \o Append(d, x)
  BY <1>1, AppendLast
<1>3. QED
  BY <1>1, <1>2 DEF ScreenOf, a, d, f, x

LEMMA ScreenClears ==
  ASSUME NEW m \in Nat
  PROVE  ScreenOf(m, m, 0) = <<>>
<1>1. Letters(Dying, 0, 0) = <<>> /\ Letters(Kernel, m, m) = <<>>
  BY NoLetters
<1>2. QED
  BY <1>1 DEF ScreenOf

----------------------------------------------------------------------------
(* The steps of kernel_main.                                               *)

LEMMA StepsFacts ==
  /\ Len(Steps) \in Nat /\ 5 <= Len(Steps)
  /\ \A k \in 1 .. Len(Steps) :
       /\ Steps[k] = "serial" <=> k = 1
       /\ Steps[k] = "idt" <=> k = 2
       /\ Steps[k] = "terminal" <=> k = 4
       /\ Steps[k] = "pic" <=> k = 5
BY DEF Steps

LEMMA EndsFacts ==
  /\ Ends[0] = 0
  /\ \A k \in 0 .. Len(Steps) : Ends[k] \in Nat
  /\ \A k \in 0 .. Len(Steps) : k < Len(Steps) => Ends[k] < Ends[k + 1]
<1>1. ASSUME NEW k \in 0 .. Len(Steps), k < Len(Steps)
      PROVE  Ends[k] < Ends[k + 1]
  <2>1. k + 1 \in 1 .. Len(Steps) /\ (k + 1) - 1 = k
    BY <1>1, StepsFacts
  <2>2. QED
    BY <2>1, StartupAssumption
<1>2. QED
  BY <1>1, StartupAssumption

\* The gates of the lines that pass the enabled mask return.
LEMMA OpenLinesHaveHandlers ==
  ASSUME SetUp, NEW line \in Lines, Serve(line), serial \in Seq(Item), ready \in BOOLEAN
  PROVE  UNCHANGED <<step, cpu, intf, idt, base, mask, log, faults, spurious>>
<1>1. base = Remapped /\ mask = MaskEnabled
  BY DEF SetUp, Serve
<1>2. line \in 0 .. 15 /\ line # 2 /\ line \notin 3 .. 15
  BY <1>1, StartupAssumption DEF Serve, Presented, MaskEnabled
<1>3. line \in {0, 1}
  BY <1>2
<1>4. Vector(line) \in {32, 33}
  BY <1>1, <1>3 DEF Vector, Remapped
<1>5. PICK n \in {32, 33} : n = StubOf(Vector(line))
  BY <1>4 DEF StubOf
<1>6. Number(n) = <<>> /\ n >= 32 /\ n \in {32, 33, 47}
  BY <1>5 DEF Number
<1>7. serial' = serial \o <<>> /\ ready' = (ready /\ n >= 32)
  BY <1>5, <1>6 DEF Serve, Enter, Stub
<1>8. serial' = serial
  BY <1>7, NothingAdded
<1>9. ready' = ready
  BY <1>6, <1>7, Zenon
<1>10. UNCHANGED <<step, cpu, intf, idt, base, mask, text, half, screen, faults, spurious>>
  BY <1>5, <1>6 DEF Serve, Enter, Stub
<1>11. QED
  BY <1>8, <1>9, <1>10 DEF log

\* An exception or a noise leaves its trace, so a quiet state follows quiet ones only.
LEMMA QuietBefore ==
  ASSUME Counts, [Next]_vars
  PROVE  Counts' /\ (Quiet' => Quiet /\ UNCHANGED <<faults, spurious>>)
<1>1. CASE UNCHANGED <<faults, spurious>>
  BY <1>1 DEF Counts, Quiet
<1>2. CASE \E first \in BOOLEAN : Spurious(first)
  BY <1>2 DEF Spurious, Counts, Quiet
<1>3. ASSUME NEW v \in Exceptions, Exception(v)
      PROVE  Counts' /\ ~Quiet'
  <2>1. faults' = Append(faults, v) /\ spurious' = spurious
    BY <1>3 DEF Exception
  <2>2. faults' \in Seq(Exceptions) /\ Len(faults') = Len(faults) + 1
    BY <2>1 DEF Counts
  <2>3. QED
    BY <2>1, <2>2 DEF Counts, Quiet
<1>4. QED
  BY <1>1, <1>2, <1>3 DEF Next, Processor, Begin, Finish, PanicStops, Printing, Transmit,
     Request, Serve, vars

----------------------------------------------------------------------------
(* The order of the start.                                                 *)

\* The processor's flags, and the controllers between two of its instructions.
Idle ==
  /\ cpu \in States /\ intf \in BOOLEAN /\ idt \in BOOLEAN
  /\ half \in BOOLEAN /\ ready \in BOOLEAN
  /\ intf <=> cpu = "shell"
  /\ idt <=> step >= 2
  /\ mask \subseteq 0 .. 15 /\ irr \subseteq Lines /\ isr = {}
  /\ spurious \in 0 .. MaxSpurious /\ Len(faults) <= MaxFaults

\* The log is a sequence of characters.
Logged == serial \in Seq(Item)

LEMMA SetUpInductive ==
  ASSUME SetUp, Idle, Logged, [Next]_vars
  PROVE  SetUp'
<1>1. CASE Begin
  <2>1. /\ step + 1 \in 1 .. Len(Steps) /\ step' = step + 1 /\ step \in Nat
        /\ cpu = "main" /\ cpu' = "main" /\ intf' = intf
    BY <1>1, StepsFacts DEF Begin, SetUp
  <2>2. /\ base' = IF Steps[step + 1] = "pic" THEN Remapped ELSE base
        /\ idt' = (idt \/ Steps[step + 1] = "idt")
    BY <1>1, Zenon DEF Begin, Initialise, Prepare
  <2>3. (Steps[step + 1] = "pic" <=> step + 1 = 5) /\ (Steps[step + 1] = "idt" <=> step + 1 = 2)
    BY <2>1, StepsFacts
  <2>4. step' >= 5 => base' = Remapped
    BY <2>1, <2>2, <2>3 DEF SetUp
  <2>5. step' >= 2 => idt'
    <3>1. step + 1 >= 2 => idt \/ Steps[step + 1] = "idt"
      BY <2>1, <2>3 DEF SetUp
    <3>2. QED
      BY <2>1, <2>2, <3>1, Zenon
  <2>6. QED
    BY <2>1, <2>4, <2>5 DEF SetUp
<1>2. CASE Finish
  BY <1>2, StepsFacts DEF Finish, SetUp
<1>3. CASE PanicStops
  BY <1>3 DEF PanicStops, SetUp, pic
<1>4. CASE Printing
  BY <1>4 DEF Printing, SetUp, pic
<1>5. CASE Transmit
  BY <1>5 DEF Transmit, SetUp, pic
<1>6. ASSUME NEW line \in Lines, Request(line)
      PROVE  SetUp'
  BY <1>6 DEF Request, SetUp
<1>7. ASSUME NEW line \in Lines, Serve(line)
      PROVE  SetUp'
  <2>1. UNCHANGED <<step, cpu, intf, idt, base, mask>>
    BY <1>7, OpenLinesHaveHandlers DEF Idle, Logged
  <2>2. QED
    BY <2>1 DEF SetUp
<1>8. ASSUME NEW first \in BOOLEAN, Spurious(first)
      PROVE  SetUp'
  BY <1>8 DEF Spurious, Enter, Stub, Panic, SetUp
<1>9. ASSUME NEW v \in Exceptions, Exception(v)
      PROVE  SetUp'
  <2>1. UNCHANGED <<step, idt, base, mask>>
    BY <1>9 DEF Exception, pic
  <2>2. \/ cpu' = "reset" /\ intf' = intf /\ ~idt
        \/ cpu' = "panic" /\ intf' = FALSE
        \/ UNCHANGED <<cpu, intf>>
    BY <1>9 DEF Exception, Stub, Panic
  <2>3. cpu = "shell" => idt
    BY StepsFacts DEF SetUp
  <2>4. QED
    BY <2>1, <2>2, <2>3 DEF SetUp
<1>10. CASE UNCHANGED vars
  BY <1>10 DEF vars, SetUp, pic
<1>11. QED
  BY <1>1, <1>2, <1>3, <1>4, <1>5, <1>6, <1>7, <1>8, <1>9, <1>10 DEF Next, Processor

\* An exception without a gate resets, one with a gate panics: no stub is a handler's.
LEMMA ExceptionEnds ==
  ASSUME NEW v \in Exceptions, Exception(v)
  PROVE  /\ cpu \in {"main", "shell"} /\ faults' = Append(faults, v) /\ Len(faults) < MaxFaults
         /\ UNCHANGED <<step, idt, base, mask, irr, isr, spurious>>
         /\ \/ cpu' = "reset" /\ ~idt /\ UNCHANGED <<intf, text, half, ready, serial, screen>>
            \/ /\ Panic /\ half' = FALSE /\ screen' = screen
               /\ serial' = serial \o Number(StubOf(v))
               /\ ready' = (ready /\ StubOf(v) >= 32)
<1>1. /\ cpu \in {"main", "shell"} /\ faults' = Append(faults, v) /\ Len(faults) < MaxFaults
      /\ UNCHANGED <<step, idt, base, mask, irr, isr, spurious>>
  BY DEF Exception, pic
<1>2. CASE ~idt
  BY <1>1, <1>2 DEF Exception, log
<1>3. CASE idt
  <2>1. Stub(StubOf(v))
    BY <1>3 DEF Exception
  <2>2. StubOf(v) \notin {32, 33, 47}
    BY StartupAssumption DEF StubOf
  <2>3. QED
    BY <1>1, <2>1, <2>2, Zenon DEF Stub
<1>4. QED
  BY <1>2, <1>3

\* A noise is seen on the first controller only, and its gate panics.
LEMMA NoisePanics ==
  ASSUME SetUp, Idle, Logged, NEW first \in BOOLEAN, Spurious(first)
  PROVE  /\ isr' = isr /\ spurious' = spurious + 1 /\ spurious < MaxSpurious
         /\ cpu = "shell" /\ Panic /\ half' = FALSE
         /\ UNCHANGED <<step, idt, base, mask, irr, faults, ready, serial, screen>>
<1>1. base = Remapped /\ mask = 3 .. 15 /\ cpu = "shell"
  BY DEF SetUp, Spurious, MaskEnabled
<1>2. first = TRUE
  BY <1>1 DEF Spurious
<1>3. StubOf(base[1] + 7) = 255
  BY <1>1 DEF StubOf, Remapped
<1>4. PICK n \in Nat : n = 255
  OBVIOUS
<1>5. /\ Enter(base[1] + 7, isr) /\ spurious < MaxSpurious /\ spurious' = spurious + 1
      /\ UNCHANGED <<step, idt, base, mask, irr, faults>>
  BY <1>2 DEF Spurious
<1>6. isr' = Ended(n, isr) /\ Stub(n)
  BY <1>3, <1>4, <1>5 DEF Enter
<1>7. n \notin {32, 33, 47} /\ n >= 32 /\ ~(n < 32)
  BY <1>4
<1>8. isr' = isr
  BY <1>6, <1>7 DEF Ended
<1>9. Panic /\ half' = FALSE /\ screen' = screen
  BY <1>6, <1>7 DEF Stub
<1>10. serial' = serial \o <<>> /\ ready' = (ready /\ n >= 32)
  BY <1>6, <1>7, Zenon DEF Stub, Number
<1>11. serial' = serial
  BY <1>10, NothingAdded DEF Logged
<1>12. ready' = ready
  BY <1>7, <1>10, Zenon DEF Idle
<1>13. QED
  BY <1>1, <1>5, <1>8, <1>9, <1>11, <1>12

\* A line that is served is no longer in service when its handler returns.
LEMMA ServedIsEnded ==
  ASSUME SetUp, isr = {}, NEW line \in Lines, Serve(line)
  PROVE  isr' = {} /\ irr' = irr \ {line}
<1>1. base = Remapped /\ mask = MaskEnabled
  BY DEF SetUp, Serve
<1>2. line \in 0 .. 15 /\ line # 2 /\ line \notin 3 .. 15
  BY <1>1, StartupAssumption DEF Serve, Presented, MaskEnabled
<1>3. line \in {0, 1}
  BY <1>2
<1>4. Vector(line) \in {32, 33}
  BY <1>1, <1>3 DEF Vector, Remapped
<1>5. StubOf(Vector(line)) \in {32, 33}
  BY <1>4 DEF StubOf
<1>6. {l \in {line} : l < 8} \cup {16} = {line, 16}
  BY <1>3
<1>7. Min({line, 16}) = line
  <2>1. {line, 16} \subseteq Nat /\ line < 16
    BY <1>3
  <2>2. QED
    BY <2>1, MinIsLeast
<1>8. isr' = Ended(StubOf(Vector(line)), {line}) /\ irr' = irr \ {line}
  BY <1>3 DEF Serve, Enter
<1>9. QED
  BY <1>5, <1>6, <1>7, <1>8 DEF Ended

LEMMA IdleInductive ==
  ASSUME Counts, SetUp, Idle, Logged, [Next]_vars
  PROVE  Idle'
<1>1. CASE Begin
  <2>1. /\ cpu = "main" /\ cpu' = "main" /\ step + 1 \in 1 .. Len(Steps) /\ step' = step + 1
        /\ step \in Nat
    BY <1>1, StepsFacts DEF Begin, SetUp
  <2>2. Steps[step + 1] = "idt" <=> step = 1
    BY <2>1, StepsFacts
  <2>3. (idt \/ Steps[step + 1] = "idt") <=> step + 1 >= 2
    BY <2>1, <2>2 DEF Idle
  <2>4. idt' = (idt \/ Steps[step + 1] = "idt")
    BY <1>1, Zenon DEF Begin, Initialise
  <2>5. idt' \in BOOLEAN /\ (idt' <=> step' >= 2)
    BY <2>1, <2>3, <2>4, Zenon
  <2>6. ready' \in BOOLEAN
    <3>1. ready' = (ready /\ Steps[step + 1] # "serial")
      BY <1>1, Zenon DEF Begin, Initialise, Prepare
    <3>2. QED
      BY <3>1, Zenon
  <2>7. mask' \subseteq 0 .. 15 /\ UNCHANGED <<intf, irr, isr, half, spurious, faults>>
    BY <1>1 DEF Begin, Initialise, Prepare, Idle
  <2>8. QED
    BY <2>1, <2>5, <2>6, <2>7 DEF Idle
<1>2. CASE Finish
  <2>1. cpu = "main" /\ UNCHANGED <<step, idt, irr, isr, half, ready, faults, spurious>>
    BY <1>2 DEF Finish, log
  <2>2. CASE cpu' = "shell" /\ intf' = TRUE /\ mask' = MaskEnabled
    BY <2>1, <2>2 DEF Idle, States, MaskEnabled
  <2>3. CASE cpu' = "stopped" /\ UNCHANGED <<intf, mask>>
    BY <2>1, <2>3 DEF Idle, States
  <2>4. QED
    BY <1>2, <2>2, <2>3 DEF Finish
<1>3. CASE PanicStops
  BY <1>3 DEF PanicStops, Idle, States, pic, log
<1>4. CASE Printing
  BY <1>4 DEF Printing, Show, Send, Idle, pic
<1>5. CASE Transmit
  BY <1>5 DEF Transmit, Idle, pic
<1>6. ASSUME NEW line \in Lines, Request(line)
      PROVE  Idle'
  BY <1>6 DEF Request, Idle, log
<1>7. ASSUME NEW line \in Lines, Serve(line)
      PROVE  Idle'
  <2>1. UNCHANGED <<step, cpu, intf, idt, mask, half, ready, faults, spurious>>
    BY <1>7, OpenLinesHaveHandlers DEF log, Idle, Logged
  <2>2. isr' = {} /\ irr' = irr \ {line}
    BY <1>7, ServedIsEnded DEF Idle
  <2>3. QED
    BY <2>1, <2>2 DEF Idle
<1>8. ASSUME NEW first \in BOOLEAN, Spurious(first)
      PROVE  Idle'
  <2>1. /\ isr' = isr /\ spurious' = spurious + 1 /\ spurious < MaxSpurious
        /\ cpu' = "panic" /\ intf' = FALSE /\ half' = FALSE
        /\ UNCHANGED <<step, idt, mask, irr, faults, ready>>
    BY <1>8, NoisePanics DEF Panic
  <2>2. spurious' \in 0 .. MaxSpurious
    BY <2>1, StartupAssumption DEF Idle
  <2>3. QED
    BY <2>1, <2>2 DEF Idle, States
<1>9. ASSUME NEW v \in Exceptions, Exception(v)
      PROVE  Idle'
  <2>1. /\ faults' = Append(faults, v) /\ Len(faults) < MaxFaults
        /\ UNCHANGED <<step, idt, mask, irr, isr, spurious>>
        /\ \/ cpu' = "reset" /\ intf' = intf /\ half' = half /\ ~idt
           \/ cpu' = "panic" /\ intf' = FALSE /\ half' = FALSE
        /\ ready' = ready \/ ready' = (ready /\ StubOf(v) >= 32)
    BY <1>9, ExceptionEnds DEF Panic
  <2>2. Len(faults') <= MaxFaults
    BY <2>1, StartupAssumption DEF Counts
  <2>3. cpu' = "reset" => ~intf
    BY <2>1, StepsFacts DEF Idle, SetUp
  <2>4. (intf' <=> cpu' = "shell") /\ intf' \in BOOLEAN /\ cpu' \in States /\ half' \in BOOLEAN
    <3>1. CASE cpu' = "reset" /\ intf' = intf /\ half' = half /\ ~idt
      BY <2>3, <3>1 DEF Idle, States
    <3>2. CASE cpu' = "panic" /\ intf' = FALSE /\ half' = FALSE
      BY <3>2 DEF Idle, States
    <3>3. QED
      BY <2>1, <3>1, <3>2
  <2>5. ready' \in BOOLEAN
    BY <2>1, Zenon DEF Idle
  <2>6. QED
    BY <2>1, <2>2, <2>4, <2>5 DEF Idle
<1>10. CASE UNCHANGED vars
  BY <1>10 DEF vars, pic, log, Idle
<1>11. QED
  BY <1>1, <1>2, <1>3, <1>4, <1>5, <1>6, <1>7, <1>8, <1>9, <1>10 DEF Next, Processor

----------------------------------------------------------------------------
(* The log and the screen.  n characters of the start and p of a panic     *)
(* have gone to the port, and cut more of the start to the screen.         *)

Extent(n, cut, p) ==
  /\ n \in Nat /\ cut \in {0, 1} /\ p \in Nat
  /\ n + cut <= Ends[step] /\ p <= PanicSize /\ Missed <= n
  /\ step > 0 => Ends[step - 1] <= n
  /\ cpu \in {"main", "shell", "reset"} => cut = Ahead /\ p = 0

\* Characters of panic on the screen.
Shown(p) == IF cpu = "panic" THEN p + Ahead ELSE p

Written(n, cut, p) ==
  /\ serial = LogOf(Greeting, n, Noted, p)
  /\ screen = ScreenOf(Missed, n + cut, Shown(p))

\* What is still to be printed.
ToPrint(n, p) ==
  /\ cpu = "main" => text = Letters(Kernel, n, Ends[step])
  /\ cpu = "panic" => text = Letters(Dying, p, PanicSize) /\ p + Ahead <= PanicSize

\* Without an exception or noise the kernel stops behind its last message only.
Course(n, p) ==
  Quiet => /\ cpu \in {"main", "shell", "stopped"}
           /\ cpu = "stopped" => step = Len(Steps) /\ n = Ends[step] /\ p = 0

LogAt(n, cut, p) == Extent(n, cut, p) /\ Written(n, cut, p) /\ ToPrint(n, p) /\ Course(n, p)

LogSound ==
  /\ cpu \in {"main", "shell"} => faults = <<>>
  /\ \E n \in Nat, cut \in {0, 1}, p \in Nat : LogAt(n, cut, p)

\* The texts around the start's own are characters too.
LEMMA Margins ==
  ASSUME Counts
  PROVE  /\ Greeting \in Seq(Item) /\ Noted \in Seq(Item)
         /\ \A v \in Exceptions : Number(StubOf(v)) \in Seq(Item)
<1>1. ASSUME NEW v \in Exceptions PROVE Number(StubOf(v)) \in Seq(Item)
  <2>1. PICK n \in Nat : n = StubOf(v)
    BY StartupAssumption DEF StubOf
  <2>2. <<"X", n>> \in Item
    BY DEF Item
  <2>3. QED
    BY <2>1, <2>2 DEF Number
<1>2. Noted \in Seq(Item)
  <2>1. CASE faults = <<>>
    BY <2>1 DEF Noted
  <2>2. CASE faults # <<>>
    <3>1. faults[1] \in Exceptions
      BY <2>2 DEF Counts
    <3>2. QED
      BY <1>1, <3>1 DEF Noted
  <2>3. QED
    BY <2>1, <2>2
<1>3. Greeting \in Seq(Item)
  <2>1. Hello \in Item
    BY DEF Item
  <2>2. <<Hello>> \in Seq(Item)
    BY <2>1
  <2>3. QED
    BY <2>2 DEF Greeting
<1>4. QED
  BY <1>1, <1>2, <1>3

LEMMA EndsNow ==
  ASSUME SetUp
  PROVE  Ends[step] \in Nat /\ PanicSize \in Nat /\ Missed \in Nat
<1>1. step \in 0 .. Len(Steps) /\ 3 \in 0 .. Len(Steps)
  BY StepsFacts DEF SetUp
<1>2. QED
  BY <1>1, EndsFacts, StartupAssumption DEF Missed

LEMMA LogIsLogged ==
  ASSUME Counts, LogSound
  PROVE  Logged
<1>1. PICK n \in Nat, p \in Nat : serial = LogOf(Greeting, n, Noted, p)
  BY DEF LogSound, LogAt, Written
<1> DEFINE a == Letters(Kernel, 0, n)
           d == Letters(Dying, 0, p)
<1>2. a \in Seq(Item) /\ d \in Seq(Item)
  <2>1. 0 \in Nat /\ 0 <= n /\ 0 <= p /\ Kernel \in {Kernel, Dying} /\ Dying \in {Kernel, Dying}
    OBVIOUS
  <2>2. QED
    BY <2>1, LettersFacts
<1> HIDE DEF a, d
<1>3. Greeting \in Seq(Item) /\ Noted \in Seq(Item)
  BY Margins
<1>4. Greeting \o a \in Seq(Item)
  BY <1>2, <1>3, ConcatFacts
<1>5. Greeting \o a \o Noted \in Seq(Item)
  BY <1>3, <1>4, ConcatFacts
<1>6. Greeting \o a \o Noted \o d \in Seq(Item)
  BY <1>2, <1>5, ConcatFacts
<1>7. QED
  BY <1>1, <1>6 DEF Logged, LogOf, a, d

\* What leaves the printing alone.
LEMMA LogKept ==
  ASSUME LogSound, UNCHANGED <<step, cpu, text, half, serial, screen, faults, spurious>>
  PROVE  LogSound'
<1>1. PICK n \in Nat, cut \in {0, 1}, p \in Nat : LogAt(n, cut, p)
  BY DEF LogSound
<1>2. Greeting' = Greeting /\ Noted' = Noted /\ Missed' = Missed /\ Ahead' = Ahead
  BY DEF Greeting, Noted, Missed, Ahead
<1>3. LogAt(n, cut, p)'
  BY <1>1, <1>2 DEF LogAt, Extent, Written, Shown, ToPrint, Course, Quiet
<1>4. QED
  BY <1>3 DEF LogSound

\* While kernel_main prints, screen and log are at the same character, or the
\* screen is one ahead.
MainAt(n) ==
  /\ n + Ahead <= Ends[step] /\ Missed <= n
  /\ step > 0 => Ends[step - 1] <= n
  /\ serial = LogOf(Greeting, n, <<>>, 0)
  /\ screen = ScreenOf(Missed, n + Ahead, 0)
  /\ text = Letters(Kernel, n, Ends[step])

InMain == cpu = "main" /\ faults = <<>> /\ \E n \in Nat : MainAt(n)

LEMMA AtMain ==
  ASSUME Counts, SetUp, LogSound, cpu = "main"
  PROVE  InMain /\ Ends[step] \in Nat /\ Missed \in Nat
<1>1. PICK n \in Nat, cut \in {0, 1}, p \in Nat : LogAt(n, cut, p)
  BY DEF LogSound
<1>2. faults = <<>> /\ Noted = <<>>
  BY DEF LogSound, Noted
<1>3. cut = Ahead /\ p = 0 /\ Shown(p) = 0
  BY <1>1 DEF LogAt, Extent, Shown
<1>4. MainAt(n)
  BY <1>1, <1>2, <1>3 DEF LogAt, Extent, Written, ToPrint, MainAt
<1>5. QED
  BY <1>2, <1>4, EndsNow DEF InMain

LEMMA ToMain ==
  ASSUME InMain
  PROVE  LogSound
<1>1. PICK n \in Nat : MainAt(n)
  BY DEF InMain
<1>2. PICK cut \in {0, 1} : cut = Ahead
  BY DEF Ahead
<1>3. PICK p \in Nat : p = 0
  OBVIOUS
<1>4. cpu = "main" /\ faults = <<>> /\ Noted = <<>> /\ Shown(p) = 0
  BY <1>3 DEF InMain, Noted, Shown
<1>5. Extent(n, cut, p)
  BY <1>1, <1>2, <1>3, StartupAssumption DEF MainAt, Extent
<1>6. Written(n, cut, p)
  BY <1>1, <1>2, <1>3, <1>4 DEF MainAt, Written
<1>7. ToPrint(n, p) /\ Course(n, p)
  BY <1>1, <1>4 DEF MainAt, ToPrint, Course
<1>8. LogAt(n, cut, p)
  BY <1>5, <1>6, <1>7 DEF LogAt
<1>9. QED
  BY <1>4, <1>8 DEF LogSound

----------------------------------------------------------------------------
(* What each step does to the log.                                         *)

\* A character goes to the screen, or from there to the port, in kernel_main ...
LEMMA LogMainPrinting ==
  ASSUME Counts, SetUp, Idle, LogSound, cpu = "main", Show \/ Send,
         UNCHANGED <<step, cpu, faults, spurious>>
  PROVE  LogSound'
<1>1. faults = <<>> /\ Ends[step] \in Nat /\ Missed \in Nat
  BY AtMain DEF InMain
<1>2a. PICK n \in Nat : MainAt(n)
  BY AtMain DEF InMain
<1>2. /\ n + Ahead <= Ends[step] /\ Missed <= n
      /\ step > 0 => Ends[step - 1] <= n
      /\ serial = LogOf(Greeting, n, <<>>, 0)
      /\ screen = ScreenOf(Missed, n + Ahead, 0)
      /\ text = Letters(Kernel, n, Ends[step])
  BY <1>2a DEF MainAt
<1>3. Greeting' = Greeting /\ Missed' = Missed /\ Ends[step'] = Ends[step]
  BY DEF Greeting, Missed
<1>4. Greeting \in Seq(Item) /\ Kernel \in {Kernel, Dying}
  BY Margins
<1>5. PICK e \in Nat : e = Ends[step]
  BY <1>1
<1>6. n < e /\ text # <<>>
  <2>1. CASE Show
    <3>1. text # <<>> /\ n <= e
      BY <1>2, <1>5, <2>1 DEF Show, Ahead
    <3>2. n # e
      BY <1>2, <1>4, <1>5, <3>1, LettersLeft
    <3>3. QED
      BY <3>1, <3>2
  <2>2. CASE Send
    <3>1. n < e
      BY <1>2, <1>5, <2>2 DEF Send, Ahead
    <3>2. QED
      BY <1>2, <1>4, <1>5, <3>1, LettersLess
  <2>3. QED
    BY <2>1, <2>2
<1>7. Head(text) = <<Kernel, n + 1>> /\ Tail(text) = Letters(Kernel, n + 1, e)
  BY <1>2, <1>4, <1>5, <1>6, LettersLess
<1>8. CASE Show
  <2>1. Ahead = 0 /\ Ahead' = 1 /\ UNCHANGED <<text, serial>>
    BY <1>8 DEF Show, Ahead
  <2>2. screen' = Append(ScreenOf(Missed, n, 0), <<Kernel, n + 1>>)
    BY <1>2, <1>7, <1>8, <2>1 DEF Show
  <2>3. screen' = ScreenOf(Missed, n + 1, 0)
    BY <1>1, <1>2, <2>2, ScreenMore
  <2>4. /\ n + Ahead' <= Ends[step'] /\ Missed' <= n
        /\ step' > 0 => Ends[step' - 1] <= n
        /\ serial' = LogOf(Greeting', n, <<>>, 0)
        /\ screen' = ScreenOf(Missed', n + Ahead', 0)
        /\ text' = Letters(Kernel, n, Ends[step'])
    BY <1>2, <1>3, <1>5, <1>6, <2>1, <2>3
  <2>5. InMain'
    BY <1>1, <2>4 DEF InMain, MainAt
  <2>6. InMain' => LogSound'
    BY ToMain, PTL
  <2>7. QED
    BY <2>5, <2>6
<1>9. CASE Send
  <2>1. Ahead = 1 /\ Ahead' = 0 /\ screen' = screen
    BY <1>9 DEF Send, Ahead
  <2>2. PICK m \in Nat : m = n + 1
    OBVIOUS
  <2>3. serial' = LogOf(Greeting, m, <<>>, 0)
    BY <1>2, <1>4, <1>7, <1>9, <2>2, LogMore DEF Send
  <2>4. text' = Letters(Kernel, m, Ends[step])
    BY <1>5, <1>7, <1>9, <2>2 DEF Send
  <2>5. /\ m + Ahead' <= Ends[step'] /\ Missed' <= m
        /\ step' > 0 => Ends[step' - 1] <= m
        /\ serial' = LogOf(Greeting', m, <<>>, 0)
        /\ screen' = ScreenOf(Missed', m + Ahead', 0)
        /\ text' = Letters(Kernel, m, Ends[step'])
    <3>1. m + Ahead' <= Ends[step'] /\ Missed' <= m
      BY <1>1, <1>2, <1>3, <1>5, <1>6, <2>1, <2>2
    <3>2. step' > 0 => Ends[step' - 1] <= m
      <4>1. CASE step > 0
        <5>1. Ends[step - 1] \in Nat
          <6>1. step - 1 \in 0 .. Len(Steps)
            BY <4>1, StepsFacts DEF SetUp
          <6>2. QED
            BY <6>1, EndsFacts
        <5>2. QED
          BY <1>2, <2>2, <4>1, <5>1
      <4>2. QED
        BY <4>1
    <3>3. m + Ahead' = n + Ahead
      BY <2>1, <2>2
    <3>4. QED
      BY <1>2, <1>3, <2>1, <2>3, <2>4, <3>1, <3>2, <3>3
  <2>6. InMain'
    BY <1>1, <2>5 DEF InMain, MainAt
  <2>7. InMain' => LogSound'
    BY ToMain, PTL
  <2>8. QED
    BY <2>6, <2>7
<1>10. QED
  BY <1>8, <1>9

\* ... and in panic.
LEMMA LogPanicPrinting ==
  ASSUME Counts, SetUp, Idle, LogSound, cpu = "panic", Show \/ Send,
         UNCHANGED <<step, cpu, faults, spurious>>
  PROVE  LogSound'
<1>1. PICK n \in Nat, cut \in {0, 1}, p \in Nat : LogAt(n, cut, p)
  BY DEF LogSound
<1>2. /\ Greeting' = Greeting /\ Noted' = Noted /\ Missed' = Missed /\ Ends[step'] = Ends[step]
      /\ Shown(p) = p + Ahead
  BY DEF Greeting, Noted, Missed, Shown
<1>3. /\ Greeting \in Seq(Item) /\ Noted \in Seq(Item) /\ Dying \in {Kernel, Dying}
      /\ Missed \in Nat /\ PanicSize \in Nat
  BY Margins, EndsNow
<1>4. /\ text = Letters(Dying, p, PanicSize) /\ p + Ahead <= PanicSize
      /\ serial = LogOf(Greeting, n, Noted, p)
      /\ screen = ScreenOf(Missed, n + cut, p + Ahead)
      /\ Missed <= n /\ ~Quiet /\ n + cut \in Nat
  BY <1>1, <1>2 DEF LogAt, Extent, Written, ToPrint, Course
<1>5. p < PanicSize /\ text # <<>>
  <2>1. CASE Show
    <3>1. text # <<>> /\ p <= PanicSize
      BY <1>1, <2>1 DEF Show, LogAt, Extent
    <3>2. p # PanicSize
      BY <1>3, <1>4, <3>1, LettersLeft
    <3>3. QED
      BY <1>3, <3>1, <3>2
  <2>2. CASE Send
    <3>1. p < PanicSize
      BY <1>3, <1>4, <2>2 DEF Send, Ahead
    <3>2. QED
      BY <1>3, <1>4, <3>1, LettersLess
  <2>3. QED
    BY <2>1, <2>2
<1>6. Head(text) = <<Dying, p + 1>> /\ Tail(text) = Letters(Dying, p + 1, PanicSize)
  BY <1>3, <1>4, <1>5, LettersLess
<1>7. CASE Show
  <2>1. Ahead = 0 /\ Ahead' = 1 /\ UNCHANGED <<text, serial>>
    BY <1>7 DEF Show, Ahead
  <2>2. screen' = Append(ScreenOf(Missed, n + cut, p), <<Dying, p + 1>>)
    BY <1>4, <1>6, <1>7, <2>1 DEF Show
  <2>3. Missed <= n + cut
    BY <1>3, <1>4
  <2>4. screen' = ScreenOf(Missed, n + cut, p + 1)
    BY <1>3, <1>4, <2>2, <2>3, ScreenDies
  <2>5. Extent(n, cut, p)'
    BY <1>1, <1>2 DEF LogAt, Extent
  <2>6. Written(n, cut, p)'
    <3>1. Shown(p)' = p + 1
      BY <2>1 DEF Shown
    <3>2. QED
      BY <1>2, <1>4, <2>1, <2>4, <3>1 DEF Written
  <2>7. ToPrint(n, p)'
    BY <1>3, <1>4, <1>5, <2>1 DEF ToPrint
  <2>8. Course(n, p)'
    BY <1>4 DEF Course, Quiet
  <2>9. LogAt(n, cut, p)'
    BY <2>5, <2>6, <2>7, <2>8 DEF LogAt
  <2>10. QED
    BY <2>9 DEF LogSound
<1>8. CASE Send
  <2>1. Ahead = 1 /\ Ahead' = 0 /\ screen' = screen
    BY <1>8 DEF Send, Ahead
  <2>2. PICK q \in Nat : q = p + 1
    OBVIOUS
  <2>3. serial' = LogOf(Greeting, n, Noted, q)
    <3>1. serial' = Append(LogOf(Greeting, n, Noted, p), <<Dying, p + 1>>)
      BY <1>4, <1>6, <1>8 DEF Send
    <3>2. Append(LogOf(Greeting, n, Noted, p), <<Dying, p + 1>>) = LogOf(Greeting, n, Noted, p + 1)
      BY <1>3, LogDies
    <3>3. QED
      BY <2>2, <3>1, <3>2
  <2>4. Extent(n, cut, q)'
    <3>1. q <= PanicSize
      BY <1>3, <1>5, <2>2
    <3>2. QED
      BY <1>1, <1>2, <3>1 DEF LogAt, Extent
  <2>5. Written(n, cut, q)'
    <3>1. Shown(q)' = p + Ahead
      BY <2>1, <2>2 DEF Shown
    <3>2. QED
      BY <1>2, <1>4, <2>1, <2>3, <3>1 DEF Written
  <2>6. ToPrint(n, q)'
    <3>1. text' = Letters(Dying, q, PanicSize)
      BY <1>6, <1>8, <2>2 DEF Send
    <3>2. q + Ahead' <= PanicSize
      BY <1>3, <1>5, <2>1, <2>2
    <3>3. QED
      BY <3>1, <3>2 DEF ToPrint
  <2>7. Course(n, q)'
    BY <1>4 DEF Course, Quiet
  <2>8. LogAt(n, cut, q)'
    BY <2>4, <2>5, <2>6, <2>7 DEF LogAt
  <2>9. QED
    BY <2>8 DEF LogSound
<1>9. QED
  BY <1>7, <1>8

\* A step begins when the last one's message is out, and its own is to be printed.
LEMMA LogBegin ==
  ASSUME Counts, SetUp, Idle, LogSound, Begin
  PROVE  LogSound'
<1>1. /\ cpu = "main" /\ cpu' = "main" /\ text = <<>> /\ step' = step + 1
      /\ UNCHANGED <<half, faults>> /\ step + 1 \in 1 .. Len(Steps) /\ step \in 0 .. Len(Steps)
      /\ step < Len(Steps) /\ step' - 1 = step /\ step \in Nat
  BY StepsFacts DEF Begin, SetUp
<1>2. faults = <<>> /\ Ends[step] \in Nat /\ Missed \in Nat /\ Kernel \in {Kernel, Dying}
  BY <1>1, AtMain DEF InMain
<1>3a. PICK n \in Nat : MainAt(n)
  BY <1>1, AtMain DEF InMain
<1>3. /\ n + Ahead <= Ends[step] /\ Missed <= n
      /\ serial = LogOf(Greeting, n, <<>>, 0)
      /\ screen = ScreenOf(Missed, n + Ahead, 0)
      /\ text = Letters(Kernel, n, Ends[step])
  BY <1>3a DEF MainAt
<1>4. n = Ends[step] /\ Ahead = 0
  <2>1. Ahead \in {0, 1}
    BY DEF Ahead
  <2>2. n <= Ends[step]
    BY <1>2, <1>3, <2>1
  <2>3. n = Ends[step]
    BY <1>1, <1>2, <1>3, <2>2, LettersLeft
  <2>4. QED
    BY <1>2, <1>3, <2>1, <2>3
<1>5. PICK f \in Nat : f = Ends[step'] /\ n < f
  BY <1>1, <1>4, EndsFacts
<1>6. Ahead' = 0
  BY <1>1, <1>4 DEF Ahead
<1>7. serial' = LogOf(Greeting', n, <<>>, 0)
  <2>1. serial' = IF Steps[step + 1] = "serial" THEN Append(serial, Hello) ELSE serial
    BY DEF Begin, Initialise, Prepare
  <2>2. Steps[step + 1] = "serial" <=> step = 0
    BY <1>1, StepsFacts
  <2>3. CASE step = 0
    <3>1. n = 0 /\ Greeting = <<>> /\ Greeting' = <<Hello>>
      BY <1>1, <1>4, <2>3, EndsFacts DEF Greeting
    <3>2. serial' = Append(<<>>, Hello)
      BY <1>3, <2>1, <2>2, <2>3, <3>1, LogStarts
    <3>3. QED
      BY <3>1, <3>2, LogStarts
  <2>4. CASE step # 0
    <3>1. Greeting' = Greeting
      BY <1>1, <2>4 DEF Greeting
    <3>2. QED
      BY <1>3, <2>1, <2>2, <2>4, <3>1
  <2>5. QED
    BY <2>3, <2>4
<1>8. screen' = ScreenOf(Missed', n, 0) /\ Missed' <= n
  <2>1. screen' = IF Steps[step + 1] = "terminal" THEN <<>> ELSE screen
    BY DEF Begin, Initialise, Prepare
  <2>2. Steps[step + 1] = "terminal" <=> step = 3
    BY <1>1, StepsFacts
  <2>3. CASE step = 3
    <3>1. Missed' = n
      BY <1>1, <1>4, <2>3 DEF Missed
    <3>2. QED
      BY <2>1, <2>2, <2>3, <3>1, ScreenClears
  <2>4. CASE step # 3
    <3>1. Missed' = Missed
      BY <1>1, <2>4 DEF Missed
    <3>2. screen' = screen /\ n + Ahead = n
      BY <1>4, <2>1, <2>2, <2>4
    <3>3. QED
      BY <1>3, <3>1, <3>2
  <2>5. QED
    BY <2>3, <2>4
<1>9. text' = Letters(Kernel, n, Ends[step'])
  BY <1>1, <1>4 DEF Begin
<1>10. /\ n + Ahead' <= Ends[step'] /\ Missed' <= n
       /\ step' > 0 => Ends[step' - 1] <= n
       /\ screen' = ScreenOf(Missed', n + Ahead', 0)
  BY <1>1, <1>4, <1>5, <1>6, <1>8
<1>11. InMain'
  BY <1>1, <1>2, <1>7, <1>9, <1>10 DEF InMain, MainAt
<1>12. InMain' => LogSound'
  BY ToMain, PTL
<1>13. QED
  BY <1>11, <1>12

\* Behind the last message everything is out.
LEMMA LogFinish ==
  ASSUME Counts, SetUp, Idle, LogSound, Finish
  PROVE  LogSound'
<1>1. /\ cpu = "main" /\ cpu' \in {"shell", "stopped"} /\ text = <<>> /\ step = Len(Steps)
      /\ UNCHANGED <<step, text, half, serial, screen, faults, spurious>>
  BY DEF Finish, log
<1>2. PICK n \in Nat, cut \in {0, 1}, p \in Nat : LogAt(n, cut, p)
  BY DEF LogSound
<1>3. /\ faults = <<>> /\ cut = Ahead /\ p = 0 /\ Shown(p) = 0
      /\ n + cut <= Ends[step] /\ text = Letters(Kernel, n, Ends[step])
  BY <1>1, <1>2 DEF LogSound, LogAt, Extent, ToPrint, Shown
<1>4. Ends[step] \in Nat /\ Kernel \in {Kernel, Dying}
  BY EndsNow
<1>5. n <= Ends[step]
  BY <1>2, <1>3, <1>4
<1>6. n = Ends[step]
  BY <1>1, <1>3, <1>4, <1>5, LettersLeft
<1>7. /\ Greeting' = Greeting /\ Noted' = Noted /\ Missed' = Missed /\ Ahead' = Ahead
      /\ Shown(p)' = Shown(p)
  BY <1>1, <1>3 DEF Greeting, Noted, Missed, Ahead, Shown
<1>8. Extent(n, cut, p)' /\ Written(n, cut, p)' /\ ToPrint(n, p)'
  BY <1>1, <1>2, <1>3, <1>7 DEF LogAt, Extent, Written, ToPrint
<1>9. Course(n, p)'
  BY <1>1, <1>3, <1>6 DEF Course
<1>10. LogAt(n, cut, p)'
  BY <1>8, <1>9 DEF LogAt
<1>11. QED
  BY <1>1, <1>3, <1>10 DEF LogSound

\* Panic's loop follows its whole message.
LEMMA LogPanicStops ==
  ASSUME LogSound, SetUp, PanicStops
  PROVE  LogSound'
<1>1. /\ cpu = "panic" /\ cpu' = "stopped" /\ text = <<>>
      /\ UNCHANGED <<step, text, half, serial, screen, faults, spurious>>
  BY DEF PanicStops, log
<1>2. PICK n \in Nat, cut \in {0, 1}, p \in Nat : LogAt(n, cut, p)
  BY DEF LogSound
<1>3. p <= PanicSize /\ p + Ahead <= PanicSize /\ text = Letters(Dying, p, PanicSize) /\ ~Quiet
  BY <1>1, <1>2 DEF LogAt, Extent, ToPrint, Course
<1>4. PanicSize \in Nat /\ Dying \in {Kernel, Dying}
  BY EndsNow
<1>5. p = PanicSize
  BY <1>1, <1>3, <1>4, LettersLeft
<1>6. Ahead = 0
  BY <1>3, <1>4, <1>5 DEF Ahead
<1>7. /\ Greeting' = Greeting /\ Noted' = Noted /\ Missed' = Missed
      /\ Shown(p)' = Shown(p)
  BY <1>1, <1>6 DEF Greeting, Noted, Missed, Shown
<1>8. Extent(n, cut, p)' /\ Written(n, cut, p)' /\ ToPrint(n, p)' /\ Course(n, p)'
  BY <1>1, <1>2, <1>3, <1>7 DEF LogAt, Extent, Written, ToPrint, Course, Quiet
<1>9. LogAt(n, cut, p)'
  BY <1>8 DEF LogAt
<1>10. QED
  BY <1>1, <1>9 DEF LogSound

\* Into panic: what was being printed is cut off, be it between screen and port.
LEMMA LogCut ==
  ASSUME Counts, SetUp, LogSound, cpu \in {"main", "shell"},
         Panic, half' = FALSE, UNCHANGED <<step, screen>>, ~Quiet',
         Noted' \in Seq(Item), serial' = serial \o Noted'
  PROVE  LogSound'
<1>1. PICK n \in Nat, cut \in {0, 1}, p \in Nat : LogAt(n, cut, p)
  BY DEF LogSound
<1>2. /\ Noted = <<>> /\ p = 0 /\ Shown(p) = 0 /\ Greeting' = Greeting /\ Missed' = Missed
      /\ cpu' = "panic" /\ text' = Letters(Dying, 0, PanicSize) /\ Ahead' = 0 /\ Shown(p)' = 0
  BY <1>1 DEF LogSound, LogAt, Extent, Noted, Shown, Greeting, Missed, Ahead, Panic
<1>3. Greeting \in Seq(Item) /\ PanicSize \in Nat
  BY Margins, EndsNow
<1>4. serial' = LogOf(Greeting, n, Noted', 0)
  <2>1. PICK note \in Seq(Item) : note = Noted'
    OBVIOUS
  <2>2. serial = LogOf(Greeting, n, <<>>, 0)
    BY <1>1, <1>2 DEF LogAt, Written
  <2>3. LogOf(Greeting, n, <<>>, 0) \o note = LogOf(Greeting, n, note, 0)
    BY <1>3, LogNotes
  <2>4. QED
    BY <2>1, <2>2, <2>3
<1>5. Extent(n, cut, p)'
  BY <1>1, <1>2 DEF LogAt, Extent
<1>6. Written(n, cut, p)'
  BY <1>1, <1>2, <1>4 DEF LogAt, Written
<1>7. ToPrint(n, p)' /\ Course(n, p)'
  BY <1>2, <1>3 DEF ToPrint, Course
<1>8. LogAt(n, cut, p)'
  BY <1>5, <1>6, <1>7 DEF LogAt
<1>9. QED
  BY <1>2, <1>8 DEF LogSound

LEMMA LogException ==
  ASSUME Counts, SetUp, LogSound, NEW v \in Exceptions, Exception(v)
  PROVE  LogSound'
<1>1. /\ cpu \in {"main", "shell"} /\ faults' = Append(faults, v) /\ step' = step
      /\ spurious' = spurious
  BY ExceptionEnds
<1>2. faults = <<>> /\ faults' = <<v>> /\ faults' # <<>> /\ faults'[1] = v /\ ~Quiet'
  <2>1. faults = <<>>
    BY <1>1 DEF LogSound
  <2>2. faults' = <<v>>
    BY <1>1, <2>1
  <2>3. QED
    BY <2>1, <2>2 DEF Quiet
<1>3. CASE cpu' = "reset" /\ UNCHANGED <<intf, text, half, ready, serial, screen>>
  <2>1. PICK n \in Nat, cut \in {0, 1}, p \in Nat : LogAt(n, cut, p)
    BY DEF LogSound
  <2>2. /\ Greeting' = Greeting /\ Noted' = Noted /\ Missed' = Missed /\ Ahead' = Ahead
        /\ Shown(p)' = Shown(p)
    BY <1>1, <1>2, <1>3 DEF Greeting, Noted, Missed, Ahead, Shown
  <2>3. Extent(n, cut, p)' /\ Written(n, cut, p)' /\ ToPrint(n, p)' /\ Course(n, p)'
    BY <1>1, <1>2, <1>3, <2>1, <2>2 DEF LogAt, Extent, Written, ToPrint, Course
  <2>4. LogAt(n, cut, p)'
    BY <2>3 DEF LogAt
  <2>5. QED
    BY <1>3, <2>4 DEF LogSound
<1>4. CASE Panic /\ half' = FALSE /\ screen' = screen /\ serial' = serial \o Number(StubOf(v))
  <2>1. Noted' = Number(StubOf(v))
    BY <1>2, <1>4 DEF Noted, Panic
  <2>2. Noted' \in Seq(Item)
    BY <2>1, Margins
  <2>3. QED
    BY <1>1, <1>2, <1>4, <2>1, <2>2, LogCut
<1>5. QED
  BY <1>3, <1>4, ExceptionEnds

LEMMA LogNoise ==
  ASSUME Counts, SetUp, Idle, LogSound, NEW first \in BOOLEAN, Spurious(first)
  PROVE  LogSound'
<1>1. /\ spurious' = spurious + 1 /\ cpu = "shell" /\ Panic /\ half' = FALSE
      /\ UNCHANGED <<step, faults, serial, screen>>
  BY NoisePanics, LogIsLogged
<1>2. ~Quiet'
  BY <1>1 DEF Quiet, Counts
<1>3. Noted' = <<>> /\ serial \in Seq(Item)
  BY <1>1, LogIsLogged DEF LogSound, Noted, Logged
<1>4. serial' = serial \o Noted'
  BY <1>1, <1>3, NothingAdded
<1>5. Noted' \in Seq(Item)
  BY <1>3
<1>6. QED
  BY <1>1, <1>2, <1>4, <1>5, LogCut

LEMMA LogInductive ==
  ASSUME Counts, SetUp, Idle, LogSound, [Next]_vars
  PROVE  LogSound'
<1>1. CASE Begin
  BY <1>1, LogBegin
<1>2. CASE Finish
  BY <1>2, LogFinish
<1>3. CASE PanicStops
  BY <1>3, LogPanicStops
<1>4. CASE Printing
  BY <1>4, LogMainPrinting, LogPanicPrinting DEF Printing
<1>5. CASE Transmit
  BY <1>5, LogKept DEF Transmit
<1>6. CASE \E line \in Lines : Request(line)
  BY <1>6, LogKept DEF Request, log
<1>7. ASSUME NEW line \in Lines, Serve(line)
      PROVE  LogSound'
  <2>1. UNCHANGED <<step, cpu, log, faults, spurious>>
    BY <1>7, OpenLinesHaveHandlers, LogIsLogged DEF Idle, Logged
  <2>2. QED
    BY <2>1, LogKept DEF log
<1>8. CASE \E first \in BOOLEAN : Spurious(first)
  BY <1>8, LogNoise
<1>9. CASE \E v \in Exceptions : Exception(v)
  BY <1>9, LogException
<1>10. CASE UNCHANGED vars
  BY <1>10, LogKept DEF vars, log
<1>11. QED
  BY <1>1, <1>2, <1>3, <1>4, <1>5, <1>6, <1>7, <1>8, <1>9, <1>10 DEF Next, Processor

----------------------------------------------------------------------------
SInv == Counts /\ SetUp /\ Idle /\ LogSound

LEMMA StartInvariant == Spec => []SInv
<1>1. Init => SInv
  <2> SUFFICES ASSUME Init PROVE SInv
    OBVIOUS
  <2>1. Counts /\ SetUp
    BY StepsFacts DEF Init, Counts, SetUp
  <2>2. Idle
    <3>1. (intf <=> cpu = "shell") /\ intf \in BOOLEAN
      BY DEF Init
    <3>2. (idt <=> step >= 2) /\ idt \in BOOLEAN
      <4>1. ~(step >= 2)
        BY DEF Init
      <4>2. idt = FALSE
        BY DEF Init
      <4>3. QED
        BY <4>1, <4>2, Zenon
    <3>3. Len(faults) <= MaxFaults /\ spurious \in 0 .. MaxSpurious
      BY StartupAssumption DEF Init
    <3>4. QED
      BY <3>1, <3>2, <3>3 DEF Init, Idle, States
  <2>3. PICK n \in Nat : n = 0
    OBVIOUS
  <2>4. /\ Ahead = 0 /\ Missed = n /\ Greeting = <<>> /\ Ends[step] = n
        /\ n + Ahead = n /\ PanicSize \in Nat /\ ~(step > 0)
    BY <2>3, EndsFacts, StartupAssumption DEF Init, Ahead, Missed, Greeting
  <2>5. /\ LogOf(<<>>, n, <<>>, 0) = <<>> /\ ScreenOf(n, n, 0) = <<>>
        /\ Letters(Kernel, n, n) = <<>>
    BY <2>3, LogStarts, ScreenClears, NoLetters
  <2>6. InMain
    BY <2>3, <2>4, <2>5 DEF Init, InMain, MainAt
  <2>7. LogSound
    BY <2>6, ToMain
  <2>8. QED
    BY <2>1, <2>2, <2>7 DEF SInv
<1>2. SInv /\ [Next]_vars => SInv'
  BY SetUpInductive, QuietBefore, LogInductive, IdleInductive, LogIsLogged DEF SInv
<1>3. QED
  BY <1>1, <1>2, PTL DEF Spec

\* A kernel that no exception and no noise has touched stops where kernel_main
\* does, with all of its messages in the log, whatever its devices request and
\* whenever they do.
THEOREM DevicesHarmless == Spec => []DevicesNeverPanic
<1>1. SInv => DevicesNeverPanic
  <2> SUFFICES ASSUME SInv, cpu \in {"panic", "stopped", "reset"}, Quiet
               PROVE  /\ cpu = "stopped"
                      /\ serial = <<Hello>> \o Letters(Kernel, 0, Ends[Len(Steps)])
    BY DEF DevicesNeverPanic, Quiet
  <2>1. PICK n \in Nat, cut \in {0, 1}, p \in Nat : LogAt(n, cut, p)
    BY DEF SInv, LogSound
  <2>2. cpu = "stopped" /\ step = Len(Steps) /\ n = Ends[step] /\ p = 0
    BY <2>1 DEF LogAt, Course
  <2>3. Greeting = <<Hello>> /\ Noted = <<>>
    BY <2>2, StepsFacts DEF Greeting, Noted, Quiet
  <2>4. serial = LogOf(<<Hello>>, n, <<>>, 0)
    BY <2>1, <2>2, <2>3 DEF LogAt, Written
  <2>5. QED
    BY <2>2, <2>4, LogStarts
<1>2. QED
  BY <1>1, StartInvariant, PTL

\* The kernel's own account of its start is true, for every set of devices and
\* exceptions, every length of the messages, and whatever comes when, be it between
\* a character's way to the screen and to the port: serial log and screen tell how
\* far the kernel got, the interrupt flag is on in the shell alone, and no line
\* stays in service.
THEOREM StartTold == Spec => []StartSound
<1>1. SInv => StartSound
  <2> SUFFICES ASSUME SInv PROVE StartSound
    OBVIOUS
  <2>1. intf = (cpu = "shell")
    BY Zenon DEF SInv, Idle
  <2>2. TypeOK
    BY <2>1 DEF SInv, Idle, SetUp, TypeOK
  <2>3. NoneLeftInService
    BY DEF SInv, Idle, NoneLeftInService
  <2>4. LogTellsHowFar
    <3>1. PICK n \in Nat, cut \in {0, 1}, p \in Nat : LogAt(n, cut, p)
      BY DEF SInv, LogSound
    <3>2. idt <=> step >= 2
      BY DEF SInv, Idle
    <3>3. Ends[step] \in Nat /\ PanicSize \in Nat
      BY EndsNow DEF SInv
    <3>4. n + cut <= Ends[step] /\ p <= PanicSize
      BY <3>1 DEF LogAt, Extent
    <3>5. n \in 0 .. Ends[step] /\ p \in 0 .. PanicSize
      BY <3>3, <3>4
    <3>6. Printed(n, cut, p)
      BY <3>1 DEF LogAt, Written, Printed, LogOf, ScreenOf, Shown
    <3>7. step > 0 => n >= Ends[step - 1]
      <4>1. step > 0 => Ends[step - 1] \in Nat
        <5>1. step > 0 => step - 1 \in 0 .. Len(Steps)
          BY StepsFacts DEF SInv, SetUp
        <5>2. QED
          BY <5>1, EndsFacts
      <4>2. QED
        BY <3>1, <4>1 DEF LogAt, Extent
    <3>8. cpu \in {"main", "shell", "reset"} => cut = Ahead /\ p = 0
      BY <3>1 DEF LogAt, Extent
    <3>9. QED
      BY <3>2, <3>4, <3>5, <3>6, <3>7, <3>8 DEF LogTellsHowFar
  <2>5. QED
    BY <2>2, <2>3, <2>4 DEF StartSound
<1>2. QED
  BY <1>1, StartInvariant, PTL
=============================================================================
