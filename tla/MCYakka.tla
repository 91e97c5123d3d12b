------------------------------ MODULE MCYakka -------------------------------
(***************************************************************************)
(* Yakka checked against the meaning its block structure gives a program.  *)
(* The meaning knows no frames, indices or tables: a block is the lines up *)
(* to the end that balances its head, a call runs the body the function    *)
(* had when it was called, and variables and functions are maps.           *)
(***************************************************************************)
EXTENDS Yakka

\* A map with a value put in, unless the name is new and there is no room.
Put(map, name, value, limit) ==
  IF name \in DOMAIN map \/ Cardinality(DOMAIN map) < limit
  THEN [n \in DOMAIN map \cup {name} |-> IF n = name THEN value ELSE map[n]]
  ELSE map

ValueIn(env, a) ==
  IF a.op = "var" THEN IF a.name \in DOMAIN env.vars THEN env.vars[a.name] ELSE Number(0)
                  ELSE a.value

ValueOf(env, e) ==
  CASE e.op = "plus"    -> Number(ValueIn(env, e.left).num + e.right)
    [] e.op = "greater" -> Number(IF ValueIn(env, e.left).num > e.right THEN 1 ELSE 0)
    [] OTHER            -> ValueIn(env, e)

TimesOf(env, line) ==
  LET v == ValueOf(env, line.expr)
  IN  IF line.kind = "if" THEN IF Truthy(v) THEN 1 ELSE 0
      ELSE CHOOSE n \in 0 .. MaxRepeat :
             n = v.num \/ (v.num < 0 /\ n = 0) \/ (v.num > MaxRepeat /\ n = MaxRepeat)

\* The length of the prefix of rest that ends with the end of the block before it.
BlockLength(rest) ==
  Min({n \in 1 .. Len(rest) :
         Len(SelectSeq(SubSeq(rest, 1, n), Closes)) > Len(SelectSeq(SubSeq(rest, 1, n), Opens))})

\* running: the functions whose calls have not returned; clash: one of them was
\* defined again meanwhile, or calls went deeper than the stack.
RECURSIVE Means(_, _)
RECURSIVE MeansTimes(_, _, _)
Means(lines, env) ==
  IF lines = <<>> \/ env.clash THEN env
  ELSE
  LET line   == Head(lines)
      rest   == Tail(lines)
      length == BlockLength(rest)
      body   == SubSeq(rest, 1, length - 1)
      behind == SubSeq(rest, length + 1, Len(rest))
  IN
  CASE line.kind = "let" ->
         Means(rest, [env EXCEPT !.vars = Put(@, line.name, ValueOf(env, line.expr), MaxVars)])
    [] line.kind = "print" ->
         Means(rest, [env EXCEPT !.out = Append(@, ValueOf(env, line.expr))])
    [] line.kind \in {"if", "repeat"} ->
         Means(behind, MeansTimes(body, TimesOf(env, line), env))
    [] line.kind = "function" ->
         Means(behind, [env EXCEPT !.funs = Put(@, line.name, body, MaxFuncs),
                                   !.clash = @ \/ line.name \in ToSet(env.running)])
    [] line.kind = "call" /\ line.name \in DOMAIN env.funs ->
         LET called == Means(env.funs[line.name],
                             [env EXCEPT !.running = Append(@, line.name),
                                         !.clash = @ \/ Len(env.running) >= MaxCalls])
         IN  Means(rest, [called EXCEPT !.running = env.running])
    [] line.kind = "call" /\ line.name \notin DOMAIN env.funs ->
         Means(rest, [env EXCEPT !.out = Append(@, line.name)])
    [] OTHER -> Means(rest, env)

MeansTimes(lines, n, env) ==
  IF n = 0 THEN env ELSE MeansTimes(lines, n - 1, Means(lines, env))

Nothing == [n \in {} |-> None]
Meaning(lines) ==
  Means(lines, [vars |-> Nothing, funs |-> Nothing, out |-> <<>>, running |-> <<>>,
                clash |-> FALSE])

----------------------------------------------------------------------------
\* Every block of the lines is closed, and fits the array that holds it.
Closed(lines) == \A i \in DOMAIN lines :
  Opens(lines[i]) => \E j \in i .. Len(lines) : Balance(lines, i, j) = 0
Room(line) == Min({IF line.kind = "function" THEN MaxFuncLines ELSE MaxText,
                   IF way = "typed" THEN MaxCaptured ELSE MaxText})
Fits(lines) == \A i \in DOMAIN lines :
  Opens(lines[i]) => FindEnd(lines, i + 1, Len(lines)) - i - 1 <= Room(lines[i])

\* No block stands within another.
Flat(lines) == \A i \in DOMAIN lines :
  Opens(lines[i]) => OpenBlocks(lines, i - 1) = 0

\* A file run between two typed lines, where no block is open.
RunsBetween == \A i \in DOMAIN script : script[i].kind = "run" => OpenBlocks(script, i) = 0
Entered ==
  IF way = "file" THEN script
  ELSE FlattenSeq([i \in DOMAIN script |->
         IF script[i].kind = "run" THEN RunFile ELSE <<script[i]>>])

Agrees(env) ==
  /\ out = env.out
  /\ {v.name : v \in ToSet(vars)} = DOMAIN env.vars
  /\ \A x \in DOMAIN env.vars : Read(x) = env.vars[x]

\* What a session prints and leaves in the variables is what its block
\* structure means: from a file for all programs whose blocks are closed, typed
\* for those whose blocks do not nest.  Redefining a function while it runs is
\* the one way for a call to read other lines than its function had.
RunsAsMeant ==
  Done /\ Closed(Entered) /\ Fits(Entered) /\ (way = "file" \/ (Flat(Entered) /\ RunsBetween))
    => LET meaning == Meaning(Entered) IN meaning.clash \/ Agrees(meaning)

\* A block that is typed means what it means in a file: it ends at its own end,
\* as docs/YAKKA.md shows its statements, also inside another block.
TypedRunsAsFile ==
  Done /\ Closed(Entered) /\ Fits(Entered) /\ RunsBetween
    => LET meaning == Meaning(Entered) IN meaning.clash \/ Agrees(meaning)

----------------------------------------------------------------------------
(* Sessions.                                                               *)

x == Var("x")
Up == Let("x", Plus(x, 1))
Some == {Up, Show(x), If(x), Repeat(Const(Number(2))), FunctionOf("f"), Call("f"), End}
UpTo(n) == UNION {[1 .. k -> Some] : k \in 1 .. n}

\* Longer ones: nesting, calls in calls, redefinition of running functions,
\* full tables, full captures, counts out of range and lines without effect.
Chosen ==
  { << FunctionOf("f"), Up, If(x), Show(x), End, End, Call("f"), Call("f") >>,
    << Repeat(Const(Number(2))), Up, Repeat(Const(Number(2))), Show(x), End, End, Show(x) >>,
    << FunctionOf("f"), Up, End, FunctionOf("g"), Call("f"), Call("f"), End, Call("g"), Show(x) >>,
    << FunctionOf("f"), FunctionOf("f"), Up, End, Show(x), End, Call("f"), Call("f"), Show(x) >>,
    << FunctionOf("f"), Call("g"), Show(x), End, FunctionOf("g"), FunctionOf("f"), Up, End, End,
       Call("f"), Call("f") >>,
    << FunctionOf("f"), Up, End, FunctionOf("g"), End, FunctionOf("h"), Up, End, Call("h"), Show(x) >>,
    << Up, Let("y", x), Let("z", Const(Number(1))), Show(Var("z")), Let("y", Const(String("s"))),
       If(Var("y")), Show(Var("y")), End >>,
    << If(Const(Number(1))), Up, Up, Comment, Up, Up, Show(x), End, Show(x) >>,
    << FunctionOf("f"), Up, Up, Up, Up, Up, End, Call("f"), Show(x) >>,
    << Repeat(Const(Number(-1))), Show(x), End, Repeat(Const(Number(9))), Up, End, Show(x) >>,
    << Repeat(Const(String("s"))), Up, End, Show(Const(None)), If(Const(None)), Up, End, Show(x) >>,
    << Command, Blank, Show(x), If(Greater(x, 0)), Command, Show(x), End >>,
    << FunctionOf("f"), Command, Show(x), End, Command, Call("f") >>,
    << FunctionOf("f"), Up, Call("f"), End, Call("f") >> }

Of5 == {s \in [1 .. 5 -> Some] : Closed(s) /\ \E i \in 1 .. 5 : Opens(s[i])}
Sessions == UpTo(4) \cup Of5 \cup Chosen \cup {SelfTest}
File == << Up, If(x), Show(x), End >>
=============================================================================
