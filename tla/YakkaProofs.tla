---------------------------- MODULE YakkaProofs -----------------------------
(***************************************************************************)
(* Proofs about Yakka's interpreter for every session, every file and any  *)
(* sizes of its arrays: the tables and frames stay in range, and the       *)
(* capture of a typed block follows the nesting of the lines typed.        *)
(*                                                                         *)
(* The invariant of the frames says nothing of the text a frame reads,     *)
(* which a definition may overwrite under it: a frame stays within the     *)
(* array, and every slot of the array holds a line.                        *)
(***************************************************************************)
EXTENDS Yakka, BasicFacts, FiniteSetTheorems

\* The provers do not know that "" is a string.
Texts     == STRING \cup {""}
Results   == [type : {"number", "string", "none"}, num : Int, str : Texts]
Variables == [name : STRING, value : Results]
Functions == [name : Texts, lines : 0 .. MaxFuncLines, body : [1 .. MaxFuncLines -> Lines]]
Captures  == [active : BOOLEAN, kind : {"if", "repeat", "function"}, times : 0 .. MaxRepeat,
              name : Texts, lines : Seq(Lines), depth : Nat]
Frames    == [body : Nat, from : Nat \ {0}, to : Nat, i : Nat, rounds : Nat]

OneSlot(table) == \A s, u \in DOMAIN table : table[s].name = table[u].name => s = u

\* The lines of a frame lie in what it reads them from.
Within(f) ==
  /\ f.body \in 0 .. Len(funcs) /\ f.rounds \in 1 .. MaxRepeat
  /\ f.i \in f.from .. f.to + 2
  /\ f.to <= IF f.body = 0 THEN Len(program) ELSE MaxFuncLines

Session == /\ way \in {"typed", "file"} /\ script \in Scripts
           /\ at \in 1 .. Len(script) + 1
VarsOK  == vars \in Seq(Variables) /\ Len(vars) <= MaxVars /\ OneSlot(vars)
FuncsOK == funcs \in Seq(Functions) /\ Len(funcs) <= MaxFuncs /\ OneSlot(funcs)
OutOK   == out \in Seq(Results \cup STRING) /\ Len(out) <= MaxOut
CaptureOK == capture \in Captures /\ Len(capture.lines) <= MaxCaptured
ProgramOK == program \in Seq(Lines)
FramesOK  == frames \in Seq(Frames) /\ \A k \in 1 .. Len(frames) : Within(frames[k])

Inv == Session /\ VarsOK /\ FuncsOK /\ OutOK /\ CaptureOK /\ ProgramOK /\ FramesOK

----------------------------------------------------------------------------
LEMMA Limits ==
  /\ MaxVars \in Nat /\ MaxFuncs \in Nat /\ MaxFuncLines \in Nat \ {0} /\ MaxOut \in Nat
  /\ MaxRepeat \in Nat \ {0} /\ MaxCaptured \in Nat /\ MaxText \in Nat /\ MaxCalls \in Nat
BY LimitsAssumption

Kinds == {"let", "print", "if", "repeat", "function", "call", "end", "blank", "comment", "run"}

\* What the kind of a line says of its fields.
LEMMA LineFacts ==
  ASSUME NEW l \in Lines
  PROVE  /\ l.kind \in Kinds
         /\ l.kind \in {"let", "print", "if", "repeat"} => l.expr \in Exprs
         /\ l.kind \in {"let", "function", "call"} => l.name \in STRING
BY DEF Lines, Kinds

LEMMA BlankLine == Blank \in Lines
BY DEF Blank, Lines

LEMMA NumberType ==
  ASSUME NEW n \in Int
  PROVE  Number(n) \in Results
BY DEF Number, Results, Texts

\* The first slot of a name is one of its slots.
LEMMA SlotFacts ==
  ASSUME NEW T, NEW table \in Seq(T), NEW x, SlotsOf(table, x) # {}
  PROVE  /\ Slot(table, x) \in 1 .. Len(table)
         /\ table[Slot(table, x)].name = x
<1>1. SlotsOf(table, x) \in SUBSET Nat
  BY DEF SlotsOf
<1>2. Slot(table, x) \in SlotsOf(table, x)
  BY <1>1, MinIsLeast DEF Slot
<1>. QED BY <1>2 DEF SlotsOf

LEMMA AtomType ==
  ASSUME VarsOK, NEW e \in Atoms
  PROVE  Atom(e) \in Results
<1>1. CASE e.op = "var"
  <2>1. e.name \in STRING /\ Atom(e) = Read(e.name)
    BY <1>1 DEF Atoms, Atom
  <2>2. CASE SlotsOf(vars, e.name) = {}
    BY <2>1, <2>2, NumberType DEF Read
  <2>3. CASE SlotsOf(vars, e.name) # {}
    <3>1. Slot(vars, e.name) \in 1 .. Len(vars)
      BY <2>3, SlotFacts DEF VarsOK
    <3>2. vars[Slot(vars, e.name)] \in Variables
      BY <3>1 DEF VarsOK
    <3>. QED BY <2>1, <2>3, <3>2 DEF Read, Variables
  <2>. QED BY <2>2, <2>3
<1>2. CASE e.op # "var"
  <2>1. e.value \in Values /\ Atom(e) = e.value
    BY <1>2 DEF Atoms, Atom
  <2>2. Values \subseteq Results
    BY DEF Values, Results, Texts
  <2>. QED BY <2>1, <2>2
<1>. QED BY <1>1, <1>2

LEMMA EvalType ==
  ASSUME VarsOK, NEW e \in Exprs
  PROVE  Eval(e) \in Results
<1>1. CASE e \in Atoms
  <2>1. e.op \in {"const", "var"}
    BY <1>1 DEF Atoms
  <2>. QED BY <1>1, <2>1, AtomType DEF Eval
<1>2. CASE e \in [op : {"plus", "greater"}, left : Atoms, right : Int]
  <2>1. e.op \in {"plus", "greater"} /\ e.left \in Atoms /\ e.right \in Int
    BY <1>2
  <2>2. Atom(e.left).num \in Int
    BY <2>1, AtomType DEF Results
  <2>3. CASE e.op = "plus"
    <3>1. Atom(e.left).num + e.right \in Int
      BY <2>1, <2>2
    <3>. QED BY <2>3, <3>1, NumberType DEF Eval
  <2>4. CASE e.op = "greater"
    <3>1. (IF Atom(e.left).num > e.right THEN 1 ELSE 0) \in Int
      OBVIOUS
    <3>. QED BY <2>4, <3>1, NumberType DEF Eval
  <2>. QED BY <2>1, <2>3, <2>4
<1>. QED BY <1>1, <1>2 DEF Exprs

\* A block runs at most as often as the limit says.
LEMMA RoundsType ==
  ASSUME VarsOK, NEW l \in Lines, l.kind \in {"if", "repeat"}
  PROVE  Rounds(l) \in 0 .. MaxRepeat
<1> DEFINE v == Eval(l.expr)
<1>1. v.num \in Int
  BY LineFacts, EvalType DEF Results
<1>2. CASE l.kind = "if"
  BY <1>2, Limits DEF Rounds
<1>3. CASE l.kind # "if"
  <2>1. Rounds(l) = Max({0, Min({MaxRepeat, v.num})})
    BY <1>3 DEF Rounds
  <2> HIDE DEF v
  <2>2. Min({MaxRepeat, v.num}) = IF MaxRepeat <= v.num THEN MaxRepeat ELSE v.num
    BY <1>1, Limits, MinMaxOfTwo
  <2>3. PICK m \in Int : m = Min({MaxRepeat, v.num}) /\ m <= MaxRepeat
    BY <1>1, <2>2, Limits
  <2>4. Max({0, m}) = IF 0 >= m THEN 0 ELSE m
    BY MinMaxOfTwo
  <2>. QED BY <2>1, <2>3, <2>4, Limits
<1>. QED BY <1>2, <1>3

\* The end of a block is behind its head and at most one behind the last line.
LEMMA FindEndRange ==
  ASSUME NEW lines, NEW first \in Nat, NEW last \in Nat, first <= last + 1
  PROVE  FindEnd(lines, first, last) \in first .. last + 1
<1> DEFINE S == {j \in first .. last : Balance(lines, first, j) = -1} \cup {last + 1}
<1>1. S \in SUBSET Nat /\ S # {} /\ S \subseteq first .. last + 1
  OBVIOUS
<1> HIDE DEF S
<1>2. Min(S) \in S
  BY <1>1, MinIsLeast
<1>. QED BY <1>1, <1>2 DEF FindEnd, S

----------------------------------------------------------------------------
(* The tables.                                                             *)

LEMMA SetVariableKeeps ==
  ASSUME VarsOK, NEW x \in STRING, NEW v \in Results, SetVariable(x, v)
  PROVE  VarsOK'
<1>1. CASE SlotsOf(vars, x) # {}
  <2>1. PICK s \in 1 .. Len(vars) : s = Slot(vars, x)
    BY <1>1, SlotFacts DEF VarsOK
  <2>2. vars' = [vars EXCEPT ![s].value = v]
    BY <1>1, <2>1 DEF SetVariable
  <2>3. [vars[s] EXCEPT !.value = v] \in Variables /\ [vars[s] EXCEPT !.value = v].name = vars[s].name
    <3>1. vars[s] \in Variables
      BY DEF VarsOK
    <3>. QED BY <3>1 DEF Variables
  <2>4. vars' \in Seq(Variables) /\ Len(vars') = Len(vars)
    BY <2>2, <2>3 DEF VarsOK
  <2>5. ASSUME NEW k \in 1 .. Len(vars)
        PROVE  vars'[k].name = vars[k].name
    BY <2>2, <2>3 DEF VarsOK
  <2>6. DOMAIN vars' = 1 .. Len(vars) /\ DOMAIN vars = 1 .. Len(vars)
    BY <2>4 DEF VarsOK
  <2>7. OneSlot(vars')
    BY <2>5, <2>6 DEF VarsOK, OneSlot
  <2>. QED BY <2>4, <2>7 DEF VarsOK
<1>2. CASE SlotsOf(vars, x) = {} /\ Len(vars) < MaxVars
  <2> DEFINE e == [name |-> x, value |-> v]
  <2>1. vars' = Append(vars, e)
    BY <1>2 DEF SetVariable
  <2>2. e \in Variables /\ e.name = x
    BY DEF Variables
  <2> HIDE DEF e
  <2>3. /\ vars' \in Seq(Variables) /\ Len(vars') = Len(vars) + 1
        /\ \A k \in 1 .. Len(vars) : vars'[k] = vars[k]
        /\ vars'[Len(vars) + 1] = e
    BY <2>1, <2>2, AppendProperties DEF VarsOK
  <2>4. \A k \in 1 .. Len(vars) : vars[k].name # x
    BY <1>2 DEF SlotsOf, VarsOK
  <2>5. /\ DOMAIN vars' = 1 .. Len(vars) + 1 /\ DOMAIN vars = 1 .. Len(vars)
        /\ Len(vars) \in Nat
    BY <2>3, LenProperties DEF VarsOK
  <2>6. OneSlot(vars')
    <3> SUFFICES ASSUME NEW s \in DOMAIN vars', NEW u \in DOMAIN vars', vars'[s].name = vars'[u].name
                 PROVE  s = u
      BY Zenon DEF OneSlot
    <3>1. CASE s \in 1 .. Len(vars) /\ u \in 1 .. Len(vars)
      BY <2>3, <2>5, <3>1 DEF VarsOK, OneSlot
    <3>2. CASE s = Len(vars) + 1 /\ u \in 1 .. Len(vars)
      BY <2>2, <2>3, <2>4, <3>2
    <3>3. CASE s \in 1 .. Len(vars) /\ u = Len(vars) + 1
      BY <2>2, <2>3, <2>4, <3>3
    <3>4. CASE s = Len(vars) + 1 /\ u = Len(vars) + 1
      BY <3>4
    <3>. QED BY <2>5, <3>1, <3>2, <3>3, <3>4
  <2>. QED BY <1>2, <2>3, <2>5, <2>6, Limits DEF VarsOK
<1>3. CASE SlotsOf(vars, x) = {} /\ ~(Len(vars) < MaxVars)
  <2>1. vars' = vars
    BY <1>3 DEF SetVariable
  <2>. QED BY <2>1 DEF VarsOK
<1>. QED BY <1>1, <1>2, <1>3

LEMMA OverwrittenType ==
  ASSUME NEW body \in [1 .. MaxFuncLines -> Lines], NEW lines \in Seq(Lines)
  PROVE  /\ Kept(Len(lines)) \in 0 .. MaxFuncLines
         /\ Overwritten(body, lines, Kept(Len(lines))) \in [1 .. MaxFuncLines -> Lines]
<1>1. Kept(Len(lines)) \in 0 .. MaxFuncLines /\ Kept(Len(lines)) <= Len(lines)
  BY LenProperties, Limits DEF Kept
<1>2. ASSUME NEW j \in 1 .. MaxFuncLines, j <= Kept(Len(lines))
      PROVE  lines[j] \in Lines
  BY <1>1, <1>2, Limits, ElementOfSeq
<1>. QED BY <1>1, <1>2 DEF Overwritten

LEMMA DefineFunctionKeeps ==
  ASSUME FuncsOK, NEW x \in Texts, NEW lines \in Seq(Lines), DefineFunction(x, lines)
  PROVE  FuncsOK' /\ Len(funcs') >= Len(funcs)
<1> DEFINE n      == Kept(Len(lines))
           unused == [j \in 1 .. MaxFuncLines |-> Blank]
<1>0. Len(funcs) \in Nat /\ DOMAIN funcs = 1 .. Len(funcs)
  BY LenProperties DEF FuncsOK
<1>1. CASE SlotsOf(funcs, x) # {}
  <2>1. PICK s \in 1 .. Len(funcs) : s = Slot(funcs, x)
    BY <1>1, SlotFacts DEF FuncsOK
  <2> DEFINE b == Overwritten(funcs[s].body, lines, n)
             e == [funcs[s] EXCEPT !.lines = n, !.body = b]
  <2>2. funcs' = [funcs EXCEPT ![s].lines = n, ![s].body = Overwritten(@, lines, n)]
    BY <1>1, <2>1 DEF DefineFunction
  <2>3. funcs[s] \in Functions
    BY DEF FuncsOK
  <2>4. n \in 0 .. MaxFuncLines /\ b \in [1 .. MaxFuncLines -> Lines]
    BY <2>3, OverwrittenType DEF Functions
  <2>5. funcs' = [funcs EXCEPT ![s] = e]
    BY <1>0, <2>2, <2>3 DEF Functions
  <2> HIDE DEF n, b
  <2>6. e \in Functions /\ e.name = funcs[s].name
    BY <2>3, <2>4 DEF Functions
  <2> HIDE DEF e
  <2>7. funcs' \in Seq(Functions) /\ Len(funcs') = Len(funcs)
    BY <2>5, <2>6 DEF FuncsOK
  <2>8. ASSUME NEW k \in 1 .. Len(funcs)
        PROVE  funcs'[k].name = funcs[k].name
    BY <1>0, <2>5, <2>6
  <2>9. DOMAIN funcs' = 1 .. Len(funcs)
    BY <2>7
  <2>10. OneSlot(funcs')
    BY <1>0, <2>8, <2>9 DEF FuncsOK, OneSlot
  <2>. QED BY <1>0, <2>7, <2>10 DEF FuncsOK
<1>2. CASE SlotsOf(funcs, x) = {} /\ Len(funcs) < MaxFuncs
  <2> DEFINE b == Overwritten(unused, lines, n)
             e == [name |-> x, lines |-> n, body |-> b]
  <2>1. funcs' = Append(funcs, e)
    BY <1>2 DEF DefineFunction
  <2>2. e \in Functions /\ e.name = x
    <3>1. unused \in [1 .. MaxFuncLines -> Lines]
      BY BlankLine
    <3>2. n \in 0 .. MaxFuncLines /\ b \in [1 .. MaxFuncLines -> Lines]
      BY <3>1, OverwrittenType
    <3> HIDE DEF n, b
    <3>. QED BY <3>2 DEF Functions
  <2> HIDE DEF e
  <2>3. /\ funcs' \in Seq(Functions) /\ Len(funcs') = Len(funcs) + 1
        /\ \A k \in 1 .. Len(funcs) : funcs'[k] = funcs[k]
        /\ funcs'[Len(funcs) + 1] = e
    BY <2>1, <2>2, AppendProperties DEF FuncsOK
  <2>4. \A k \in 1 .. Len(funcs) : funcs[k].name # x
    BY <1>0, <1>2 DEF SlotsOf
  <2>5. DOMAIN funcs' = 1 .. Len(funcs) + 1
    BY <2>3
  <2>6. OneSlot(funcs')
    <3> SUFFICES ASSUME NEW s \in DOMAIN funcs', NEW u \in DOMAIN funcs', funcs'[s].name = funcs'[u].name
                 PROVE  s = u
      BY Zenon DEF OneSlot
    <3>1. CASE s \in 1 .. Len(funcs) /\ u \in 1 .. Len(funcs)
      BY <1>0, <2>3, <3>1 DEF FuncsOK, OneSlot
    <3>2. CASE s = Len(funcs) + 1 /\ u \in 1 .. Len(funcs)
      BY <2>2, <2>3, <2>4, <3>2
    <3>3. CASE s \in 1 .. Len(funcs) /\ u = Len(funcs) + 1
      BY <2>2, <2>3, <2>4, <3>3
    <3>4. CASE s = Len(funcs) + 1 /\ u = Len(funcs) + 1
      BY <3>4
    <3>. QED BY <1>0, <2>5, <3>1, <3>2, <3>3, <3>4
  <2>. QED BY <1>0, <1>2, <2>3, <2>6, Limits DEF FuncsOK
<1>3. CASE SlotsOf(funcs, x) = {} /\ ~(Len(funcs) < MaxFuncs)
  <2>1. funcs' = funcs
    BY <1>3 DEF DefineFunction
  <2>. QED BY <1>0, <2>1 DEF FuncsOK
<1>. QED BY <1>1, <1>2, <1>3

LEMMA PrintedKeeps ==
  ASSUME OutOK, NEW item \in Results \cup STRING, Printed(item)
  PROVE  OutOK'
<1>1. out' = Append(out, item) /\ Len(out) < MaxOut
  BY DEF Printed
<1>2. out' \in Seq(Results \cup STRING) /\ Len(out') = Len(out) + 1
  BY <1>1, AppendProperties DEF OutOK
<1>3. Len(out) \in Nat
  BY LenProperties DEF OutOK
<1>. QED BY <1>1, <1>2, <1>3, Limits DEF OutOK

----------------------------------------------------------------------------
(* The frames.                                                             *)

InRange(fs) == fs \in Seq(Frames) /\ \A k \in 1 .. Len(fs) : Within(fs[k])

\* The table only grows, so a frame that was in range stays there.
LEMMA FramesStay ==
  ASSUME FuncsOK, FuncsOK', Len(funcs') >= Len(funcs), program' = program,
         InRange(frames')
  PROVE  FramesOK'
<1>1. Len(funcs) \in Nat /\ Len(funcs') \in Nat
  BY LenProperties DEF FuncsOK
<1>2. ASSUME NEW k \in 1 .. Len(frames')
      PROVE  Within(frames[k])'
  <2>1. PICK f \in Frames : f = frames'[k]
    BY DEF InRange
  <2>2. Within(f)
    BY <2>1 DEF InRange
  <2>3. f.body \in Nat
    BY DEF Frames
  <2>4. Within(f)'
    BY <1>1, <2>2, <2>3 DEF Within
  <2>. QED BY <2>1, <2>4
<1>. QED BY <1>2 DEF FramesOK, InRange

\* The running frame.
LEMMA TopFacts ==
  ASSUME FramesOK, Running
  PROVE  /\ Len(frames) \in Nat \ {0} /\ Top = frames[Len(frames)]
         /\ Top \in Frames /\ Within(Top)
<1>1. frames \in Seq(Frames) /\ frames # <<>>
  BY DEF FramesOK, Running
<1>2. Len(frames) \in Nat \ {0}
  BY <1>1, EmptySeq, LenProperties
<1>3. Top = frames[Len(frames)]
  BY DEF Top, Last
<1>4. Len(frames) \in 1 .. Len(frames)
  BY <1>2
<1>5. frames[Len(frames)] \in Frames
  BY <1>1, <1>4, ElementOfSeq
<1>. QED BY <1>2, <1>3, <1>4, <1>5 DEF FramesOK

\* What a frame reads is a sequence of lines that reaches to its end.
LEMMA LinesOfFacts ==
  ASSUME FuncsOK, ProgramOK, NEW f \in Frames, Within(f)
  PROVE  /\ LinesOf(f) \in Seq(Lines) /\ Len(LinesOf(f)) \in Nat /\ f.to <= Len(LinesOf(f))
         /\ \A j \in 1 .. f.to : LinesOf(f)[j] \in Lines
<1>0. f.body \in Nat /\ f.to \in Nat
  BY DEF Frames
<1>1. LinesOf(f) \in Seq(Lines) /\ f.to <= Len(LinesOf(f))
  <2>1. CASE f.body = 0
    BY <2>1 DEF LinesOf, Within, ProgramOK
  <2>2. CASE f.body # 0
    <3>1. f.body \in 1 .. Len(funcs)
      <4>1. Len(funcs) \in Nat
        BY LenProperties DEF FuncsOK
      <4>. QED BY <1>0, <2>2, <4>1 DEF Within
    <3>2. funcs[f.body] \in Functions
      BY <3>1, ElementOfSeq DEF FuncsOK
    <3>3. PICK b \in [1 .. MaxFuncLines -> Lines] : b = LinesOf(f)
      BY <2>2, <3>2 DEF LinesOf, Functions
    <3>4. b \in Seq(Lines) /\ Len(b) = MaxFuncLines
      BY Limits
    <3>. QED BY <2>2, <3>3, <3>4 DEF Within
  <2>. QED BY <2>1, <2>2
<1>2. Len(LinesOf(f)) \in Nat
  BY <1>1, LenProperties
<1>3. ASSUME NEW j \in 1 .. f.to
      PROVE  LinesOf(f)[j] \in Lines
  <2>1. j \in 1 .. Len(LinesOf(f))
    BY <1>0, <1>1, <1>2
  <2>. QED BY <1>1, <2>1, ElementOfSeq
<1>. QED BY <1>1, <1>2, <1>3

\* The running frame goes on within its lines.
LEMMA GoOnKeeps ==
  ASSUME FramesOK, Running, NEW i \in Nat, i >= Top.i, i <= Top.to + 2
  PROVE  InRange(GoOn(i)) /\ Len(GoOn(i)) = Len(frames)
<1> DEFINE n == Len(frames)
           e == [frames[n] EXCEPT !.i = i]
<1>1. n \in Nat \ {0} /\ Top = frames[n] /\ Top \in Frames /\ Within(Top)
  BY TopFacts
<1>2. e \in Frames
  BY <1>1 DEF Frames
<1>3. e.body = Top.body /\ e.from = Top.from /\ e.to = Top.to /\ e.rounds = Top.rounds /\ e.i = i
  BY <1>1 DEF Frames
<1>4. Top.from \in Nat /\ Top.to \in Nat /\ Top.i \in Nat
  BY <1>1 DEF Frames
<1>5. Within(e)
  <2> HIDE DEF e
  <2>1. i \in e.from .. e.to + 2
    BY <1>1, <1>3, <1>4 DEF Within
  <2>. QED BY <1>1, <1>3, <2>1 DEF Within
<1>6. GoOn(i) = [frames EXCEPT ![n] = e]
  BY DEF GoOn
<1> HIDE DEF e, n
<1>7. frames \in Seq(Frames) /\ Len(frames) = n
  BY DEF FramesOK, n
<1>8. GoOn(i) \in Seq(Frames) /\ Len(GoOn(i)) = n
  BY <1>1, <1>2, <1>6, <1>7
<1>9. ASSUME NEW k \in 1 .. n
      PROVE  Within(GoOn(i)[k])
  <2>1. DOMAIN frames = 1 .. n
    BY <1>7
  <2>2. CASE k = n
    BY <1>5, <1>6, <2>1, <2>2
  <2>3. CASE k # n
    <3>1. GoOn(i)[k] = frames[k]
      BY <1>6, <2>1, <2>3
    <3>. QED BY <1>7, <3>1 DEF FramesOK
  <2>. QED BY <2>2, <2>3
<1>. QED BY <1>7, <1>8, <1>9 DEF InRange

\* A frame in range on top of frames in range.
LEMMA PushKeeps ==
  ASSUME NEW fs, InRange(fs), NEW f \in Frames, Within(f)
  PROVE  InRange(Append(fs, f)) /\ fs \o <<f>> = Append(fs, f)
<1>1. /\ Append(fs, f) \in Seq(Frames) /\ Len(Append(fs, f)) = Len(fs) + 1
      /\ \A k \in 1 .. Len(fs) : Append(fs, f)[k] = fs[k]
      /\ Append(fs, f)[Len(fs) + 1] = f
  BY AppendProperties DEF InRange
<1>2. Len(fs) \in Nat
  BY LenProperties DEF InRange
<1>3. ASSUME NEW k \in 1 .. Len(fs) + 1
      PROVE  Within(Append(fs, f)[k])
  <2>1. CASE k \in 1 .. Len(fs)
    BY <1>1, <2>1 DEF InRange
  <2>2. CASE k = Len(fs) + 1
    BY <1>1, <2>2
  <2>. QED BY <1>2, <2>1, <2>2
<1>4. fs \o <<f>> = Append(fs, f)
  BY AppendIsConcat DEF InRange
<1>. QED BY <1>1, <1>3, <1>4 DEF InRange

\* A new frame.
LEMMA FrameType ==
  ASSUME NEW body \in Nat, NEW from \in Nat \ {0}, NEW to \in Nat, NEW rounds \in 1 .. MaxRepeat,
         body <= Len(funcs), Len(funcs) \in Nat, from <= to + 2,
         to <= IF body = 0 THEN Len(program) ELSE MaxFuncLines
  PROVE  Frame(body, from, to, rounds) \in Frames /\ Within(Frame(body, from, to, rounds))
<1>1. Frame(body, from, to, rounds) \in Frames
  BY Limits DEF Frame, Frames
<1>2. from \in from .. to + 2
  OBVIOUS
<1>. QED BY <1>1, <1>2 DEF Frame, Within

----------------------------------------------------------------------------
(* A step of the program.                                                  *)

RunState == VarsOK /\ FuncsOK /\ OutOK /\ ProgramOK /\ FramesOK

\* A line that changes nothing but the tables, and leaves the frame on a later line.
LEMMA FramesAfter ==
  ASSUME RunState, VarsOK', FuncsOK', OutOK', Len(funcs') >= Len(funcs), program' = program,
         InRange(frames')
  PROVE  RunState'
<1>1. FramesOK'
  BY FramesStay DEF RunState
<1>. QED BY <1>1 DEF RunState, ProgramOK

LEMMA LineStep ==
  ASSUME RunState, Running, program' = program, ExecuteLine
  PROVE  RunState'
<1> DEFINE f     == Top
           lines == LinesOf(f)
           line  == lines[f.i]
           end   == FindEnd(lines, f.i + 1, f.to)
<1>1. /\ f \in Frames /\ Within(f) /\ f.i <= f.to
      /\ f.i \in Nat \ {0} /\ f.to \in Nat /\ f.body \in Nat
  <2>1. f \in Frames /\ Within(f)
    BY TopFacts DEF RunState
  <2>2. f.i <= f.to
    BY DEF ExecuteLine
  <2>. QED BY <2>1, <2>2 DEF Frames, Within
<1>2. /\ line \in Lines
      /\ lines \in Seq(Lines) /\ f.to <= Len(lines)
      /\ \A j \in 1 .. f.to : lines[j] \in Lines
  <2>1. f.i \in 1 .. f.to
    BY <1>1
  <2>. QED BY <1>1, <2>1, LinesOfFacts DEF RunState
<1>3. end \in f.i + 1 .. f.to + 1
  BY <1>1, FindEndRange
<1>4. /\ InRange(GoOn(f.i + 1)) /\ InRange(GoOn(end + 1))
  <2>1. f.i + 1 \in Nat /\ f.i + 1 >= f.i /\ f.i + 1 <= f.to + 2
    BY <1>1
  <2>2. PICK e \in Nat : e = end + 1 /\ e >= f.i /\ e <= f.to + 2
    BY <1>1, <1>3
  <2>3. InRange(GoOn(e))
    BY <2>2, GoOnKeeps DEF RunState
  <2>. QED BY <2>1, <2>2, <2>3, GoOnKeeps DEF RunState
<1>5. Len(funcs) \in Nat /\ Len(funcs) >= Len(funcs)
  BY LenProperties DEF RunState, FuncsOK
<1>6. UNCHANGED vars => VarsOK'
  BY DEF RunState, VarsOK
<1>7. UNCHANGED funcs => FuncsOK' /\ Len(funcs') >= Len(funcs)
  BY <1>5 DEF RunState, FuncsOK
<1>8. UNCHANGED out => OutOK'
  BY DEF RunState, OutOK
<1>9. \/ /\ line.kind \in {"blank", "comment", "end", "run"}
         /\ frames' = GoOn(f.i + 1)
         /\ UNCHANGED runtime
      \/ /\ line.kind = "let"
         /\ SetVariable(line.name, Eval(line.expr))
         /\ frames' = GoOn(f.i + 1)
         /\ UNCHANGED <<funcs, out>>
      \/ /\ line.kind = "print"
         /\ Printed(Eval(line.expr))
         /\ frames' = GoOn(f.i + 1)
         /\ UNCHANGED <<vars, funcs>>
      \/ /\ line.kind \in {"if", "repeat"}
         /\ frames' = GoOn(end + 1) \o
                        IF Rounds(line) > 0
                        THEN <<Frame(f.body, f.i + 1, end - 1, Rounds(line))>> ELSE <<>>
         /\ UNCHANGED runtime
      \/ /\ line.kind = "function"
         /\ DefineFunction(line.name, SubSeq(lines, f.i + 1, end - 1))
         /\ frames' = GoOn(end + 1)
         /\ UNCHANGED <<vars, out>>
  BY Zenon DEF ExecuteLine
<1> HIDE DEF f, lines, line, end
<1>10. CASE frames' = GoOn(f.i + 1) /\ UNCHANGED runtime
  BY <1>4, <1>6, <1>7, <1>8, <1>10, FramesAfter DEF runtime
<1>11. CASE /\ line.kind = "let"
            /\ SetVariable(line.name, Eval(line.expr))
            /\ frames' = GoOn(f.i + 1)
            /\ UNCHANGED <<funcs, out>>
  <2>1. line.name \in STRING /\ line.expr \in Exprs
    BY <1>2, <1>11, LineFacts
  <2>2. Eval(line.expr) \in Results
    BY <2>1, EvalType DEF RunState
  <2>3. VarsOK'
    BY <1>11, <2>1, <2>2, SetVariableKeeps DEF RunState
  <2>. QED BY <1>4, <1>7, <1>8, <1>11, <2>3, FramesAfter
<1>12. CASE /\ line.kind = "print"
            /\ Printed(Eval(line.expr))
            /\ frames' = GoOn(f.i + 1)
            /\ UNCHANGED <<vars, funcs>>
  <2>1. line.expr \in Exprs
    BY <1>2, <1>12, LineFacts
  <2>2. Eval(line.expr) \in Results
    BY <2>1, EvalType DEF RunState
  <2>3. OutOK'
    BY <1>12, <2>2, PrintedKeeps DEF RunState
  <2>. QED BY <1>4, <1>6, <1>7, <1>12, <2>3, FramesAfter
<1>13. CASE /\ line.kind \in {"if", "repeat"}
            /\ frames' = GoOn(end + 1) \o
                           IF Rounds(line) > 0
                           THEN <<Frame(f.body, f.i + 1, end - 1, Rounds(line))>> ELSE <<>>
            /\ UNCHANGED runtime
  <2>1. Rounds(line) \in 0 .. MaxRepeat
    BY <1>2, <1>13, RoundsType DEF RunState
  <2> DEFINE g == Frame(f.body, f.i + 1, end - 1, Rounds(line))
  <2>2. CASE Rounds(line) > 0
    <3>1. /\ f.i + 1 \in Nat \ {0} /\ end - 1 \in Nat /\ f.i + 1 <= end - 1 + 2 /\ end - 1 <= f.to
          /\ Rounds(line) \in 1 .. MaxRepeat
      BY <1>1, <1>3, <2>1, <2>2, Limits
    <3>2. f.body <= Len(funcs) /\ end - 1 <= IF f.body = 0 THEN Len(program) ELSE MaxFuncLines
      <4>1. f.to <= IF f.body = 0 THEN Len(program) ELSE MaxFuncLines
        BY <1>1 DEF Within
      <4>2. f.body <= Len(funcs)
        BY <1>1, <1>5 DEF Within
      <4>3. Len(program) \in Nat /\ MaxFuncLines \in Nat /\ f.to \in Nat
        BY <1>1, LenProperties, Limits DEF RunState, ProgramOK
      <4>. QED BY <3>1, <4>1, <4>2, <4>3
    <3>3. g \in Frames /\ Within(g)
      BY <1>1, <1>5, <3>1, <3>2, FrameType
    <3> HIDE DEF g
    <3>4. frames' = GoOn(end + 1) \o <<g>>
      BY <1>13, <2>2 DEF g
    <3>5. InRange(frames')
      BY <1>4, <3>3, <3>4, PushKeeps
    <3>. QED BY <1>6, <1>7, <1>8, <1>13, <3>5, FramesAfter DEF runtime
  <2>3. CASE ~(Rounds(line) > 0)
    <3>1. frames' = GoOn(end + 1)
      <4>1. GoOn(end + 1) \o <<>> = GoOn(end + 1)
        BY <1>4, ConcatEmptySeq DEF InRange
      <4>. QED BY <1>13, <2>3, <4>1
    <3>. QED BY <1>4, <1>6, <1>7, <1>8, <1>13, <3>1, FramesAfter DEF runtime
  <2>. QED BY <2>2, <2>3
<1>14. CASE /\ line.kind = "function"
            /\ DefineFunction(line.name, SubSeq(lines, f.i + 1, end - 1))
            /\ frames' = GoOn(end + 1)
            /\ UNCHANGED <<vars, out>>
  <2>1. line.name \in STRING
    BY <1>2, <1>14, LineFacts
  <2>2. SubSeq(lines, f.i + 1, end - 1) \in Seq(Lines)
    <3>1. \A j \in f.i + 1 .. end - 1 : lines[j] \in Lines
      BY <1>1, <1>2, <1>3
    <3>2. f.i + 1 \in Int /\ end - 1 \in Int
      BY <1>1, <1>3
    <3>. QED BY <3>1, <3>2, SubSeqProperties
  <2>3. FuncsOK' /\ Len(funcs') >= Len(funcs)
    <3>1. line.name \in Texts
      BY <2>1 DEF Texts
    <3>. QED BY <1>14, <2>2, <3>1, DefineFunctionKeeps DEF RunState
  <2>. QED BY <1>4, <1>6, <1>8, <1>14, <2>3, FramesAfter
<1>. QED BY <1>9, <1>10, <1>11, <1>12, <1>13, <1>14

LEMMA CallStep ==
  ASSUME RunState, Running, program' = program, ExecuteCall
  PROVE  RunState'
<1> DEFINE f    == Top
           line == LinesOf(f)[f.i]
<1>1. /\ f \in Frames /\ Within(f) /\ f.i <= f.to
      /\ f.i \in Nat \ {0} /\ f.to \in Nat
  <2>1. f \in Frames /\ Within(f)
    BY TopFacts DEF RunState
  <2>2. f.i <= f.to
    BY DEF ExecuteCall
  <2>. QED BY <2>1, <2>2 DEF Frames, Within
<1>2. line \in Lines
  <2>1. f.i \in 1 .. f.to
    BY <1>1
  <2>. QED BY <1>1, <2>1, LinesOfFacts DEF RunState
<1>3. InRange(GoOn(f.i + 1))
  <2>1. f.i + 1 \in Nat /\ f.i + 1 >= f.i /\ f.i + 1 <= f.to + 2
    BY <1>1
  <2>. QED BY <2>1, GoOnKeeps DEF RunState
<1>4. Len(funcs) \in Nat
  BY LenProperties DEF RunState, FuncsOK
<1>5. /\ line.kind = "call" /\ UNCHANGED <<vars, funcs>>
      /\ \/ Printed(line.name) /\ frames' = GoOn(f.i + 1)
         \/ /\ SlotsOf(funcs, line.name) # {}
            /\ frames' = Append(GoOn(f.i + 1),
                                Frame(Slot(funcs, line.name), 1, funcs[Slot(funcs, line.name)].lines, 1))
            /\ UNCHANGED out
  BY DEF ExecuteCall
<1> HIDE DEF f, line
<1>6. VarsOK' /\ FuncsOK' /\ Len(funcs') >= Len(funcs)
  BY <1>4, <1>5 DEF RunState, VarsOK, FuncsOK
<1>7. line.name \in STRING
  BY <1>2, <1>5, LineFacts
<1>8. CASE Printed(line.name) /\ frames' = GoOn(f.i + 1)
  <2>1. OutOK'
    BY <1>7, <1>8, PrintedKeeps DEF RunState
  <2>. QED BY <1>3, <1>6, <1>8, <2>1, FramesAfter
<1>9. CASE /\ SlotsOf(funcs, line.name) # {}
           /\ frames' = Append(GoOn(f.i + 1),
                               Frame(Slot(funcs, line.name), 1, funcs[Slot(funcs, line.name)].lines, 1))
           /\ UNCHANGED out
  <2>1. PICK s \in 1 .. Len(funcs) : s = Slot(funcs, line.name)
    BY <1>9, SlotFacts DEF RunState, FuncsOK
  <2>2. funcs[s].lines \in 0 .. MaxFuncLines
    <3>1. funcs[s] \in Functions
      BY ElementOfSeq DEF RunState, FuncsOK
    <3>. QED BY <3>1 DEF Functions
  <2>3. Frame(s, 1, funcs[s].lines, 1) \in Frames /\ Within(Frame(s, 1, funcs[s].lines, 1))
    BY <1>4, <2>2, FrameType, Limits
  <2>4. frames' = Append(GoOn(f.i + 1), Frame(s, 1, funcs[s].lines, 1))
    BY <1>9, <2>1
  <2>5. InRange(frames')
    BY <1>3, <2>3, <2>4, PushKeeps
  <2>6. OutOK'
    BY <1>9 DEF RunState, OutOK
  <2>. QED BY <1>6, <2>5, <2>6, FramesAfter
<1>. QED BY <1>5, <1>8, <1>9

LEMMA ReturnStep ==
  ASSUME RunState, Running, program' = program, Return
  PROVE  RunState'
<1> DEFINE f == Top
           n == Len(frames)
<1>1. n \in Nat \ {0} /\ f = frames[n] /\ f \in Frames /\ Within(f)
  BY TopFacts DEF RunState
<1>2. /\ UNCHANGED runtime
      /\ frames' = IF f.rounds > 1 THEN [frames EXCEPT ![n] = NextRound(f)] ELSE Front(frames)
  BY DEF Return
<1>3. frames \in Seq(Frames) /\ \A k \in 1 .. n : Within(frames[k])
  BY DEF RunState, FramesOK
<1> HIDE DEF f, n
<1>4. CASE f.rounds > 1
  <2> DEFINE e == NextRound(f)
  <2>1. f.rounds - 1 \in Nat /\ f.rounds - 1 \in 1 .. MaxRepeat
    BY <1>1, <1>4, Limits DEF Within
  <2>2. e \in Frames
    BY <1>1, <2>1 DEF NextRound, Frames
  <2>3. e.body = f.body /\ e.from = f.from /\ e.to = f.to /\ e.i = f.from /\ e.rounds = f.rounds - 1
    BY <1>1 DEF NextRound, Frames
  <2>4. Within(e)
    <3>1. f.from \in f.from .. f.to + 2
      BY <1>1 DEF Within, Frames
    <3> HIDE DEF e
    <3>. QED BY <1>1, <2>1, <2>3, <3>1 DEF Within
  <2> HIDE DEF e
  <2>5. frames' = [frames EXCEPT ![n] = e] /\ n = Len(frames)
    BY <1>2, <1>4 DEF e, n
  <2>6. frames' \in Seq(Frames) /\ Len(frames') = n
    BY <1>1, <1>3, <2>2, <2>5
  <2>7. ASSUME NEW k \in 1 .. n
        PROVE  Within(frames'[k])
    BY <1>3, <2>4, <2>5
  <2>8. InRange(frames')
    BY <2>6, <2>7 DEF InRange
  <2>. QED BY <1>2, <2>8, LenProperties, FramesAfter DEF RunState, runtime, VarsOK, FuncsOK, OutOK
<1>5. CASE ~(f.rounds > 1)
  <2>1. frames' = SubSeq(frames, 1, n - 1)
    BY <1>2, <1>5 DEF Front, n
  <2>2. /\ frames' \in Seq(Frames) /\ Len(frames') = n - 1
        /\ \A k \in 1 .. n - 1 : frames'[k] = frames[k]
    <3>1. n = Len(frames)
      BY DEF n
    <3>. QED BY <1>1, <1>3, <2>1, <3>1
  <2>3. InRange(frames')
    BY <1>1, <1>3, <2>2 DEF InRange
  <2>. QED BY <1>2, <2>3, LenProperties, FramesAfter DEF RunState, runtime, VarsOK, FuncsOK, OutOK
<1>. QED BY <1>4, <1>5

----------------------------------------------------------------------------
(* Open blocks.                                                            *)

Weight(line) == IF Opens(line) THEN 1 ELSE IF Closes(line) THEN -1 ELSE 0

\* One more place to look at.
LEMMA CountNext ==
  ASSUME NEW A, NEW first \in Nat, NEW last \in Nat, first <= last + 1
  PROVE  /\ Cardinality({j \in first .. last : j \in A}) \in Nat
         /\ Cardinality({j \in first .. last + 1 : j \in A})
              = Cardinality({j \in first .. last : j \in A}) + IF last + 1 \in A THEN 1 ELSE 0
<1> DEFINE old == {j \in first .. last : j \in A}
           new == {j \in first .. last + 1 : j \in A}
<1>1. IsFiniteSet(old) /\ Cardinality(old) \in Nat
  <2>1. IsFiniteSet(first .. last)
    BY FS_Interval
  <2>2. old \subseteq first .. last
    OBVIOUS
  <2>3. IsFiniteSet(old)
    BY <2>1, <2>2, FS_Subset
  <2>. QED BY <2>3, FS_CardinalityType
<1>2. CASE last + 1 \in A
  <2>1. new = old \cup {last + 1} /\ last + 1 \notin old
    BY <1>2
  <2>. QED BY <1>1, <1>2, <2>1, FS_AddElement
<1>3. CASE last + 1 \notin A
  <2>1. new = old
    BY <1>3
  <2>. QED BY <1>1, <1>3, <2>1
<1>. QED BY <1>2, <1>3, <1>1

LEMMA BalanceNext ==
  ASSUME NEW lines, NEW first \in Nat, NEW last \in Nat, first <= last + 1
  PROVE  /\ Balance(lines, first, last) \in Int
         /\ Balance(lines, first, last + 1) = Balance(lines, first, last) + Weight(lines[last + 1])
<1> DEFINE up   == {j \in Nat : Opens(lines[j])}
           down == {j \in Nat : Closes(lines[j])}
<1>1. /\ {j \in first .. last : Opens(lines[j])} = {j \in first .. last : j \in up}
      /\ {j \in first .. last + 1 : Opens(lines[j])} = {j \in first .. last + 1 : j \in up}
      /\ {j \in first .. last : Closes(lines[j])} = {j \in first .. last : j \in down}
      /\ {j \in first .. last + 1 : Closes(lines[j])} = {j \in first .. last + 1 : j \in down}
  OBVIOUS
<1>2. /\ (last + 1 \in up <=> Opens(lines[last + 1]))
      /\ (last + 1 \in down <=> Closes(lines[last + 1]))
  OBVIOUS
<1>3. ~(Opens(lines[last + 1]) /\ Closes(lines[last + 1]))
  BY DEF Opens, Closes
<1> HIDE DEF up, down
<1> DEFINE a == Cardinality({j \in first .. last : j \in up})
           b == Cardinality({j \in first .. last : j \in down})
           c == Cardinality({j \in first .. last + 1 : j \in up})
           d == Cardinality({j \in first .. last + 1 : j \in down})
<1>4. a \in Nat /\ b \in Nat
  BY CountNext
<1>5. c = a + (IF last + 1 \in up THEN 1 ELSE 0) /\ d = b + (IF last + 1 \in down THEN 1 ELSE 0)
  BY CountNext
<1>6. Balance(lines, first, last) = a - b /\ Balance(lines, first, last + 1) = c - d
  BY <1>1 DEF Balance
<1> HIDE DEF a, b, c, d
<1>. QED BY <1>2, <1>3, <1>4, <1>5, <1>6 DEF Weight

\* No line, no balance.
LEMMA BalanceOfNone ==
  ASSUME NEW lines, NEW n \in Nat
  PROVE  Balance(lines, n + 1, n) = 0
<1>1. {j \in n + 1 .. n : Opens(lines[j])} = {} /\ {j \in n + 1 .. n : Closes(lines[j])} = {}
  OBVIOUS
<1>2. Cardinality({}) = 0
  BY FS_EmptySet
<1>3. Balance(lines, n + 1, n) = Cardinality({}) - Cardinality({})
  BY <1>1, Zenon DEF Balance
<1>. QED BY <1>2, <1>3

\* m blocks are open after n lines: the largest balance of a tail of them.
OpenIs(lines, n, m) ==
  /\ m \in Nat
  /\ m = 0 \/ \E s \in 1 .. n : Balance(lines, s, n) = m
  /\ \A s \in 1 .. n : Balance(lines, s, n) <= m

LEMMA OpenIsOpen ==
  ASSUME NEW lines, NEW n \in Nat, NEW m, OpenIs(lines, n, m)
  PROVE  OpenBlocks(lines, n) = m
<1> DEFINE S == {0} \cup {Balance(lines, s, n) : s \in 1 .. n}
<1>1. S \subseteq Int
  <2>1. ASSUME NEW s \in 1 .. n
        PROVE  Balance(lines, s, n) \in Int
    <3>1. s \in Nat /\ s <= n + 1
      OBVIOUS
    <3>. QED BY <3>1, BalanceNext
  <2>. QED BY <2>1
<1>2. m \in S /\ \A y \in S : m >= y
  <2>1. m \in S
    BY DEF OpenIs
  <2>2. ASSUME NEW s \in 1 .. n
        PROVE  m >= Balance(lines, s, n)
    <3>1. Balance(lines, s, n) <= m /\ m \in Int
      BY DEF OpenIs
    <3>2. Balance(lines, s, n) \in Int
      BY <1>1
    <3>. QED BY <3>1, <3>2
  <2>3. m >= 0
    BY DEF OpenIs
  <2>. QED BY <2>1, <2>2, <2>3
<1> HIDE DEF S
<1>3. \A x \in S : (\A y \in S : x >= y) => x = m
  BY <1>1, <1>2
<1>4. Max(S) = m
  BY <1>2, <1>3 DEF Max
<1>. QED BY <1>4 DEF OpenBlocks, S

LEMMA OpenAtFirst == \A lines : OpenIs(lines, 0, 0)
BY DEF OpenIs

\* One more line: a block is opened, one is closed if one is open, or neither.
LEMMA OpenNext ==
  ASSUME NEW lines, NEW n \in Nat, NEW m, OpenIs(lines, n, m)
  PROVE  OpenIs(lines, n + 1,
           IF Opens(lines[n + 1]) THEN m + 1
           ELSE IF Closes(lines[n + 1]) /\ m > 0 THEN m - 1 ELSE m)
<1> DEFINE w == Weight(lines[n + 1])
           k == IF Opens(lines[n + 1]) THEN m + 1
                ELSE IF Closes(lines[n + 1]) /\ m > 0 THEN m - 1 ELSE m
<1>1. m \in Nat /\ w \in {-1, 0, 1}
  BY DEF OpenIs, Weight
<1>2. ASSUME NEW s \in 1 .. n
      PROVE  Balance(lines, s, n) \in Int /\ Balance(lines, s, n + 1) = Balance(lines, s, n) + w
  BY BalanceNext
<1>3. Balance(lines, n + 1, n + 1) = w
  <2>1. Balance(lines, n + 1, n + 1) = Balance(lines, n + 1, n) + w
    BY BalanceNext
  <2>. QED BY <1>1, <2>1, BalanceOfNone
<1>4. k = IF m + w >= 0 THEN m + w ELSE 0
  BY <1>1 DEF Weight, Opens, Closes
<1> HIDE DEF w, k
<1>5. k \in Nat
  BY <1>1, <1>4
<1>6. k = 0 \/ \E s \in 1 .. n + 1 : Balance(lines, s, n + 1) = k
  <2>1. CASE m = 0
    <3>1. k # 0 => k = w
      BY <1>1, <1>4, <2>1
    <3>2. n + 1 \in 1 .. n + 1
      OBVIOUS
    <3>. QED BY <1>3, <3>1, <3>2
  <2>2. CASE m # 0
    <3>1. PICK s \in 1 .. n : Balance(lines, s, n) = m
      BY <2>2 DEF OpenIs
    <3>2. k = m + w
      BY <1>1, <1>4, <2>2
    <3>3. Balance(lines, s, n + 1) = k /\ s \in 1 .. n + 1
      BY <1>2, <3>1, <3>2
    <3>. QED BY <3>3
  <2>. QED BY <2>1, <2>2
<1>7. ASSUME NEW s \in 1 .. n + 1
      PROVE  Balance(lines, s, n + 1) <= k
  <2>1. CASE s = n + 1
    BY <1>1, <1>3, <1>4, <2>1
  <2>2. CASE s \in 1 .. n
    <3>1. Balance(lines, s, n) <= m
      BY <2>2 DEF OpenIs
    <3>. QED BY <1>1, <1>2, <1>4, <2>2, <3>1
  <2>. QED BY <2>1, <2>2
<1>8. OpenIs(lines, n + 1, k)
  BY <1>5, <1>6, <1>7 DEF OpenIs
<1>. QED BY <1>8 DEF k

----------------------------------------------------------------------------
(* Lines entered.                                                          *)

StartedNow == ProgramOK /\ FuncsOK /\ \E r \in 0 .. MaxRepeat : frames = Started(program, r)

LEMMA StartedKeeps == StartedNow => FramesOK
<1> SUFFICES ASSUME ProgramOK, FuncsOK, NEW r \in 0 .. MaxRepeat, frames = Started(program, r)
             PROVE  FramesOK
  BY DEF StartedNow
<1>1. Len(program) \in Nat /\ Len(funcs) \in Nat
  BY LenProperties DEF ProgramOK, FuncsOK
<1>2. CASE r > 0
  <2> DEFINE f == Frame(0, 1, Len(program), r)
  <2>1. f \in Frames /\ Within(f)
    <3>1. r \in 1 .. MaxRepeat
      BY <1>2, Limits
    <3>. QED BY <1>1, <3>1, FrameType
  <2> HIDE DEF f
  <2>2. frames = <<f>>
    BY <1>2 DEF Started, f
  <2>. QED BY <2>1, <2>2 DEF FramesOK
<1>3. CASE ~(r > 0)
  <2>1. frames = <<>>
    BY <1>3 DEF Started
  <2>. QED BY <2>1 DEF FramesOK
<1>. QED BY <1>2, <1>3

Restarted == frames' = frames \/ \E r \in 0 .. MaxRepeat : frames' = Started(program', r)

LEMMA EnterFrames ==
  ASSUME ~Running, ProgramOK', FuncsOK', Restarted
  PROVE  FramesOK'
<1>1. CASE frames' = frames
  <2>1. frames' = <<>>
    BY <1>1 DEF Running
  <2>. QED BY <2>1 DEF FramesOK
<1>2. CASE \E r \in 0 .. MaxRepeat : frames' = Started(program', r)
  <2>1. StartedNow'
    BY <1>2 DEF StartedNow
  <2>2. StartedNow' => FramesOK'
    BY StartedKeeps, PTL
  <2>. QED BY <2>1, <2>2
<1>. QED BY <1>1, <1>2 DEF Restarted

\* The part of the invariant that entering a line changes.
Kept3 == VarsOK /\ FuncsOK /\ OutOK /\ CaptureOK /\ ProgramOK

LEMMA RunTextKeeps ==
  ASSUME Kept3, NEW lines \in Seq(Lines), RunText(lines)
  PROVE  Kept3' /\ Restarted
<1> DEFINE m    == Min({MaxText, Len(lines)})
           text == SubSeq(lines, 1, m)
<1>1. Len(lines) \in Nat
  BY LenProperties
<1>2. m \in Int /\ m <= Len(lines)
  BY <1>1, Limits, MinMaxOfTwo
<1>3. text \in Seq(Lines)
  <2> HIDE DEF m
  <2>1. \A j \in 1 .. m : lines[j] \in Lines
    BY <1>1, <1>2
  <2>. QED BY <1>2, <2>1, SubSeqProperties
<1>4. program' = text /\ frames' = Started(program', 1) /\ UNCHANGED <<capture, runtime>>
  BY DEF RunText
<1> HIDE DEF text
<1>5. Restarted
  BY <1>4, Limits DEF Restarted
<1>. QED BY <1>3, <1>4, <1>5 DEF Kept3, VarsOK, FuncsOK, OutOK, CaptureOK, ProgramOK, runtime

LEMMA FinishKeeps ==
  ASSUME Kept3, FinishCapture
  PROVE  Kept3' /\ Restarted
<1>1. /\ capture \in Captures /\ capture.lines \in Seq(Lines) /\ capture.name \in Texts
      /\ capture.times \in 0 .. MaxRepeat
  BY DEF Kept3, CaptureOK, Captures
<1>2. capture' = [capture EXCEPT !.active = FALSE] /\ program' = capture.lines
  BY DEF FinishCapture
<1>3. CaptureOK'
  <2>1. capture' \in Captures /\ capture'.lines = capture.lines
    BY <1>1, <1>2 DEF Captures
  <2>. QED BY <2>1 DEF Kept3, CaptureOK
<1>4. ProgramOK'
  BY <1>1, <1>2 DEF ProgramOK
<1>5. CASE capture.kind = "function"
  <2>1. DefineFunction(capture.name, capture.lines) /\ UNCHANGED <<frames, vars, out>>
    BY <1>5 DEF FinishCapture
  <2>2. FuncsOK'
    BY <1>1, <2>1, DefineFunctionKeeps DEF Kept3
  <2>. QED BY <1>3, <1>4, <2>1, <2>2 DEF Kept3, VarsOK, OutOK, Restarted
<1>6. CASE capture.kind # "function"
  <2>1. frames' = Started(program', capture.times) /\ UNCHANGED runtime
    BY <1>2, <1>6 DEF FinishCapture
  <2>. QED BY <1>1, <1>3, <1>4, <2>1 DEF Kept3, VarsOK, FuncsOK, OutOK, Restarted, runtime
<1>. QED BY <1>5, <1>6

LEMMA FeedKeeps ==
  ASSUME Kept3, NEW line \in Lines, FeedLine(line)
  PROVE  Kept3' /\ Restarted
<1>1. /\ capture \in Captures /\ capture.lines \in Seq(Lines) /\ capture.depth \in Nat
      /\ Len(capture.lines) \in Nat /\ Len(capture.lines) <= MaxCaptured
  BY LenProperties DEF Kept3, CaptureOK, Captures
<1>2. CASE UNCHANGED <<program, frames, runtime>> /\ CaptureOK'
  BY <1>2 DEF Kept3, VarsOK, FuncsOK, OutOK, ProgramOK, Restarted, runtime
<1>3. CASE line.kind = "blank" /\ UNCHANGED <<capture, program, frames, runtime>>
  <2>1. CaptureOK'
    BY <1>3 DEF Kept3, CaptureOK
  <2>. QED BY <1>2, <1>3, <2>1
<1>4. CASE CaptureEnd
  <2>1. CASE FinishCapture
    BY <2>1, FinishKeeps
  <2>2. CASE /\ capture.depth # 0
             /\ capture' = [capture EXCEPT !.depth = @ - 1]
             /\ UNCHANGED <<program, frames, runtime>>
    <3>1. capture.depth - 1 \in Nat
      BY <1>1, <2>2
    <3>2. capture' \in Captures /\ capture'.lines = capture.lines
      BY <1>1, <2>2, <3>1 DEF Captures
    <3>. QED BY <1>1, <1>2, <2>2, <3>2 DEF CaptureOK
  <2>. QED BY <1>4, <2>1, <2>2 DEF CaptureEnd
<1>5. CASE CaptureLine(line)
  <2> DEFINE d  == IF Opens(line) THEN capture.depth + 1 ELSE capture.depth
             ls == IF Len(capture.lines) < MaxCaptured THEN Append(capture.lines, line) ELSE capture.lines
  <2>1. d \in Nat
    BY <1>1
  <2>2. ls \in Seq(Lines) /\ Len(ls) <= MaxCaptured
    <3>1. Append(capture.lines, line) \in Seq(Lines) /\ Len(Append(capture.lines, line)) = Len(capture.lines) + 1
      BY <1>1, AppendProperties
    <3>. QED BY <1>1, <3>1, Limits
  <2>3. capture' = [capture EXCEPT !.depth = d, !.lines = ls] /\ UNCHANGED <<program, frames, runtime>>
    BY <1>1, <1>5 DEF CaptureLine, Captures
  <2> HIDE DEF d, ls
  <2>4. capture' \in Captures /\ capture'.lines = ls
    BY <1>1, <2>1, <2>2, <2>3 DEF Captures
  <2>. QED BY <1>2, <2>2, <2>3, <2>4 DEF CaptureOK
<1>6. CASE Opens(line) /\ StartCapture(line)
  <2>1. line.kind \in {"if", "repeat", "function"}
    BY <1>6 DEF Opens
  <2> DEFINE times == IF line.kind = "function" THEN 0 ELSE Rounds(line)
             name  == IF line.kind = "function" THEN line.name ELSE ""
  <2>2. times \in 0 .. MaxRepeat
    BY <2>1, RoundsType, Limits DEF Kept3
  <2>3. name \in Texts
    BY <2>1, LineFacts DEF Texts
  <2>4. /\ capture' = [active |-> TRUE, kind |-> line.kind, times |-> times, name |-> name,
                       lines |-> <<>>, depth |-> 0]
        /\ UNCHANGED <<program, frames, runtime>>
    BY <1>6 DEF StartCapture
  <2> HIDE DEF times, name
  <2>5. capture' \in Captures /\ capture'.lines = <<>>
    BY <2>1, <2>2, <2>3, <2>4 DEF Captures
  <2>. QED BY <1>2, <2>4, <2>5, Limits DEF CaptureOK
<1>7. CASE program' = <<line>> /\ frames' = Started(<<line>>, 1) /\ UNCHANGED <<capture, runtime>>
  <2>1. program' \in Seq(Lines)
    BY <1>7
  <2>2. Restarted
    BY <1>7, Limits DEF Restarted
  <2>. QED BY <1>7, <2>1, <2>2 DEF Kept3, VarsOK, FuncsOK, OutOK, CaptureOK, ProgramOK, runtime
<1>. QED BY <1>3, <1>4, <1>5, <1>6, <1>7 DEF FeedLine

\* The capture is in step with the lines typed.
Nested ==
  way = "typed" =>
    OpenIs(script, at - 1, IF capture.active THEN capture.depth + 1 ELSE 0)

\* Blocks open after a line, when m were open before it.
OpenAfter(line, m) ==
  IF Opens(line) THEN m + 1 ELSE IF Closes(line) /\ m > 0 THEN m - 1 ELSE m

Depth(c) == IF c.active THEN c.depth + 1 ELSE 0

\* feed_one_line keeps count of the blocks that are open.
LEMMA FeedCounts ==
  ASSUME CaptureOK, NEW line \in Lines, FeedLine(line)
  PROVE  Depth(capture') = OpenAfter(line, Depth(capture))
<1>1. capture \in Captures /\ capture.depth \in Nat /\ capture.active \in BOOLEAN
  BY DEF CaptureOK, Captures
<1>2. CASE line.kind = "blank" /\ UNCHANGED <<capture, program, frames, runtime>>
  <2>1. ~Opens(line) /\ ~Closes(line)
    BY <1>2 DEF Opens, Closes
  <2>. QED BY <1>2, <2>1 DEF Depth, OpenAfter
<1>3. CASE capture.active /\ Closes(line) /\ CaptureEnd
  <2>1. ~Opens(line)
    BY <1>3 DEF Opens, Closes
  <2>2. CASE capture.depth = 0 /\ FinishCapture
    <3>1. capture' = [capture EXCEPT !.active = FALSE]
      BY <2>2 DEF FinishCapture
    <3>2. capture'.active = FALSE
      BY <1>1, <3>1 DEF Captures
    <3>. QED BY <1>3, <2>1, <2>2, <3>2 DEF Depth, OpenAfter
  <2>3. CASE capture.depth # 0 /\ capture' = [capture EXCEPT !.depth = @ - 1]
    <3>1. capture'.active = capture.active /\ capture'.depth = capture.depth - 1
      BY <1>1, <2>3 DEF Captures
    <3>. QED BY <1>1, <1>3, <2>1, <2>3, <3>1 DEF Depth, OpenAfter
  <2>. QED BY <1>3, <2>2, <2>3 DEF CaptureEnd
<1>4. CASE capture.active /\ ~Closes(line) /\ CaptureLine(line)
  <2> DEFINE d  == IF Opens(line) THEN capture.depth + 1 ELSE capture.depth
             ls == IF Len(capture.lines) < MaxCaptured THEN Append(capture.lines, line) ELSE capture.lines
  <2>1. capture' = [capture EXCEPT !.depth = d, !.lines = ls]
    BY <1>1, <1>4 DEF CaptureLine, Captures
  <2> HIDE DEF d, ls
  <2>2. capture'.active = capture.active /\ capture'.depth = d
    BY <1>1, <2>1 DEF Captures
  <2>. QED BY <1>1, <1>4, <2>2 DEF Depth, OpenAfter, d
<1>5. CASE ~capture.active /\ Opens(line) /\ StartCapture(line)
  <2>1. capture'.active = TRUE /\ capture'.depth = 0
    BY <1>5 DEF StartCapture
  <2>. QED BY <1>5, <2>1 DEF Depth, OpenAfter
<1>6. CASE ~capture.active /\ ~Opens(line) /\ UNCHANGED <<capture, runtime>>
  BY <1>6 DEF Depth, OpenAfter
<1>. QED BY <1>2, <1>3, <1>4, <1>5, <1>6 DEF FeedLine

----------------------------------------------------------------------------
(* The theorems.                                                           *)

LEMMA EnterStep ==
  ASSUME Inv, Nested, Enter
  PROVE  Inv' /\ Nested'
<1>1. /\ ~Running /\ way' = way /\ script' = script
      /\ RunScript \/ TypeLine
      /\ way \in {"typed", "file"} /\ script \in Scripts /\ at \in 1 .. Len(script) + 1
  BY DEF Enter, Inv, Session
<1>2. script \in Seq(Lines) /\ RunFile \in Seq(Lines) /\ Len(script) \in Nat
  BY <1>1, ScriptAssumption, LenProperties
<1>3. Kept3
  BY DEF Inv, Kept3
<1>4. ASSUME Kept3', Restarted, at' \in 1 .. Len(script) + 1
      PROVE  Inv'
  <2>1. FramesOK'
    BY <1>1, <1>4, EnterFrames DEF Kept3
  <2>. QED BY <1>1, <1>4, <2>1 DEF Inv, Kept3, Session
<1>5. CASE RunScript
  <2>1. RunText(script) /\ at' = Len(script) + 1 /\ way = "file"
    BY <1>5 DEF RunScript
  <2>2. Kept3' /\ Restarted
    BY <1>2, <1>3, <2>1, RunTextKeeps
  <2>3. at' \in 1 .. Len(script) + 1
    BY <1>2, <2>1
  <2>4. way' # "typed"
    BY <1>1, <2>1
  <2>. QED BY <1>4, <2>2, <2>3, <2>4 DEF Nested
<1>6. CASE TypeLine
  <2> DEFINE line == script[at]
             m    == Depth(capture)
  <2>1. /\ at <= Len(script) /\ at' = at + 1 /\ way = "typed"
        /\ IF line.kind = "run" THEN RunText(RunFile) ELSE FeedLine(line)
    BY <1>6 DEF TypeLine
  <2>2. at \in 1 .. Len(script) /\ line \in Lines
    BY <1>1, <1>2, <2>1
  <2>3. at' \in 1 .. Len(script) + 1 /\ at - 1 \in Nat /\ at - 1 + 1 = at /\ at' - 1 = at
    BY <1>2, <2>1, <2>2
  <2>4. OpenIs(script, at - 1, m)
    BY <2>1 DEF Nested, Depth
  <2>5. OpenIs(script, at, OpenAfter(line, m))
    <3>1. PICK n \in Nat : n = at - 1
      BY <2>3
    <3>2. n + 1 = at
      BY <2>3, <3>1
    <3>3. OpenIs(script, n + 1, OpenAfter(script[n + 1], m))
      BY <2>4, <3>1, OpenNext DEF OpenAfter
    <3>. QED BY <3>2, <3>3
  <2> HIDE DEF line
  <2>6. Kept3' /\ Restarted /\ Depth(capture') = OpenAfter(line, m)
    <3>1. CASE line.kind = "run"
      <4>1. RunText(RunFile)
        BY <2>1, <3>1
      <4>2. Kept3' /\ Restarted
        BY <1>2, <1>3, <4>1, RunTextKeeps
      <4>3. capture' = capture
        BY <4>1 DEF RunText
      <4>4. ~Opens(line) /\ ~Closes(line)
        BY <3>1 DEF Opens, Closes
      <4>. QED BY <4>2, <4>3, <4>4 DEF OpenAfter
    <3>2. CASE line.kind # "run"
      <4>1. FeedLine(line)
        BY <2>1, <3>2
      <4>. QED BY <1>3, <2>2, <4>1, FeedKeeps, FeedCounts DEF Kept3
    <3>. QED BY <3>1, <3>2
  <2>7. Inv'
    BY <1>4, <2>3, <2>6
  <2>8. OpenIs(script', at' - 1, Depth(capture'))
    BY <1>1, <2>3, <2>5, <2>6
  <2>9. Nested'
    BY <2>8 DEF Nested, Depth
  <2>. QED BY <2>7, <2>9
<1>. QED BY <1>1, <1>5, <1>6

LEMMA ExecuteStep ==
  ASSUME Inv, Nested, Execute
  PROVE  Inv' /\ Nested'
<1>1. /\ Running
      /\ ExecuteLine \/ ExecuteCall \/ Return
      /\ UNCHANGED <<way, script, at, capture, program>>
  BY DEF Execute
<1>2. RunState
  BY DEF Inv, RunState
<1>3. RunState'
  BY <1>1, <1>2, LineStep, CallStep, ReturnStep
<1>4. Session' /\ CaptureOK'
  BY <1>1 DEF Inv, Session, CaptureOK
<1>5. Nested'
  BY <1>1 DEF Nested
<1>. QED BY <1>3, <1>4, <1>5 DEF Inv, RunState

LEMMA InitInv == Init => Inv /\ Nested
<1> SUFFICES ASSUME Init PROVE Inv /\ Nested
  OBVIOUS
<1>1. /\ way \in {"typed", "file"} /\ script \in Scripts /\ at = 1 /\ capture = Idle
      /\ program = <<>> /\ frames = <<>> /\ vars = <<>> /\ funcs = <<>> /\ out = <<>>
  BY DEF Init, RuntimeInit
<1>2. Session
  <2>1. Len(script) \in Nat
    BY <1>1, ScriptAssumption, LenProperties
  <2>. QED BY <1>1, <2>1 DEF Session
<1>3. VarsOK /\ FuncsOK /\ OutOK
  BY <1>1, Limits DEF VarsOK, FuncsOK, OutOK, OneSlot
<1>4. CaptureOK
  <2>1. 0 \in 0 .. MaxRepeat /\ "" \in Texts /\ <<>> \in Seq(Lines)
    BY Limits DEF Texts
  <2>2. Idle \in Captures
    BY <2>1 DEF Idle, Captures
  <2>3. Idle.lines = <<>>
    BY DEF Idle
  <2>. QED BY <1>1, <2>2, <2>3, Limits DEF CaptureOK
<1>5. ProgramOK /\ FramesOK
  BY <1>1 DEF ProgramOK, FramesOK
<1>6. Nested
  <2>1. ~Idle.active
    BY DEF Idle
  <2>2. ~capture.active /\ at - 1 = 0
    BY <1>1, <2>1
  <2>. QED BY <2>2, OpenAtFirst DEF Nested
<1>. QED BY <1>2, <1>3, <1>4, <1>5, <1>6 DEF Inv

LEMMA InvHolds == Spec => [](Inv /\ Nested)
<1>1. Inv /\ Nested /\ UNCHANGED state => Inv' /\ Nested'
  <2> SUFFICES ASSUME Inv, Nested, UNCHANGED state PROVE Inv' /\ Nested'
    OBVIOUS
  <2>1. UNCHANGED <<way, script, at, capture, program, frames, vars, funcs, out>>
    BY DEF state
  <2>2. Session' /\ CaptureOK' /\ ProgramOK' /\ Nested'
    BY <2>1 DEF Inv, Session, CaptureOK, ProgramOK, Nested
  <2>3. VarsOK' /\ FuncsOK' /\ OutOK'
    BY <2>1 DEF Inv, VarsOK, FuncsOK, OutOK
  <2>4. FramesOK'
    BY <2>1 DEF Inv, FramesOK, Within
  <2>. QED BY <2>2, <2>3, <2>4 DEF Inv
<1>2. Inv /\ Nested /\ Next => Inv' /\ Nested'
  BY EnterStep, ExecuteStep DEF Next
<1>. QED BY <1>1, <1>2, InitInv, PTL DEF Spec

LEMMA InvTypeOK == Inv => TypeOK
<1> SUFFICES ASSUME Inv PROVE TypeOK
  OBVIOUS
<1>1. way \in {"typed", "file"} /\ script \in Scripts /\ at \in 1 .. Len(script) + 1
  BY DEF Inv, Session
<1>2. Len(vars) <= MaxVars /\ Len(funcs) <= MaxFuncs /\ Len(out) <= MaxOut
  BY DEF Inv, VarsOK, FuncsOK, OutOK
<1>3. \A table \in {vars, funcs} : \A s \in DOMAIN table : SlotsOf(table, table[s].name) = {s}
  <2>1. ASSUME NEW table, OneSlot(table), NEW s \in DOMAIN table
        PROVE  SlotsOf(table, table[s].name) = {s}
    BY <2>1 DEF OneSlot, SlotsOf
  <2>. QED BY <2>1 DEF Inv, VarsOK, FuncsOK
<1>4. \A s \in DOMAIN funcs : funcs[s].lines \in 0 .. MaxFuncLines
  <2>1. ASSUME NEW s \in DOMAIN funcs
        PROVE  funcs[s].lines \in 0 .. MaxFuncLines
    <3>1. funcs[s] \in Functions
      BY DEF Inv, FuncsOK
    <3>. QED BY <3>1 DEF Functions
  <2>. QED BY <2>1
<1>5. /\ capture.active \in BOOLEAN /\ capture.times \in 0 .. MaxRepeat
      /\ Len(capture.lines) <= MaxCaptured /\ capture.depth \in Nat
  BY DEF Inv, CaptureOK, Captures
<1>6. \A k \in DOMAIN frames :
        LET f == frames[k]
        IN  /\ f.body \in 0 .. Len(funcs) /\ f.rounds \in 1 .. MaxRepeat \cup {1}
            /\ f.from >= 1 /\ f.i \in f.from .. f.to + 2
            /\ f.to <= IF f.body = 0 THEN Len(program) ELSE MaxFuncLines
  <2>1. ASSUME NEW k \in DOMAIN frames
        PROVE  Within(frames[k]) /\ frames[k].from >= 1
    <3>1. frames[k] \in Frames /\ k \in 1 .. Len(frames)
      BY DEF Inv, FramesOK
    <3>. QED BY <3>1 DEF Inv, FramesOK, Frames
  <2>. QED BY <2>1 DEF Within
<1>. QED BY <1>1, <1>2, <1>3, <1>4, <1>5, <1>6 DEF TypeOK

LEMMA NestedFollows == Inv /\ Nested => CaptureFollowsNesting
<1> SUFFICES ASSUME Inv, Nested, way = "typed"
             PROVE  /\ capture.active <=> OpenBlocks(script, at - 1) > 0
                    /\ capture.active => capture.depth = OpenBlocks(script, at - 1) - 1
  BY DEF CaptureFollowsNesting
<1>1. at - 1 \in Nat /\ capture.depth \in Nat /\ capture.active \in BOOLEAN
  BY DEF Inv, Session, CaptureOK, Captures
<1>2. OpenBlocks(script, at - 1) = IF capture.active THEN capture.depth + 1 ELSE 0
  BY <1>1, OpenIsOpen DEF Nested
<1>3. CASE capture.active
  BY <1>1, <1>2, <1>3
<1>4. CASE ~capture.active
  BY <1>1, <1>2, <1>4
<1>. QED BY <1>1, <1>3, <1>4

\* Whatever is typed or run, Yakka's tables and frames stay in range, and the
\* capture is open exactly while a block of the typed lines is, and knows how deep.
THEOREM YakkaSafe == Spec => []YakkaSound
<1>. QED BY InvHolds, InvTypeOK, NestedFollows, PTL DEF YakkaSound
=============================================================================
