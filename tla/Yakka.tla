------------------------------- MODULE Yakka --------------------------------
(***************************************************************************)
(* Yakka's interpreter, src/yakka/interpreter/interpreter.cpp, and the two *)
(* ways to it: a file run as one text, and lines typed at the shell one    *)
(* after the other, where a block is captured until its end is typed.      *)
(*                                                                         *)
(* The code runs blocks and calls by recursion of execute_program.  Here   *)
(* its activations are a stack of frames, and a step runs one line of the  *)
(* last of them.  A frame reads its lines where the code's pointers point: *)
(* in the text or, during a call, in the function table, which a           *)
(* definition can overwrite under it.                                      *)
(***************************************************************************)
EXTENDS YakkaRuntime

CONSTANTS MaxRepeat,     \* the most rounds of a repeat, 10000
          MaxCaptured,   \* lines a capture holds, 64
          MaxText,       \* lines of a text that are run, 256
          MaxCalls,      \* calls the kernel's stack has room for; a bound
          Scripts,       \* what a session enters
          RunFile        \* the file a command of the session runs

ASSUME LimitsAssumption ==
  /\ {MaxVars, MaxFuncs, MaxFuncLines, MaxOut, MaxRepeat, MaxCaptured, MaxText, MaxCalls}
       \subseteq Nat
  /\ MaxFuncLines > 0 /\ MaxRepeat > 0

ASSUME ScriptAssumption == Scripts \subseteq Seq(Lines) /\ RunFile \in Seq(Lines)

VARIABLES way,           \* "typed" or "file": how the script is entered
          script,        \* the lines of the session
          at,            \* the next of them
          capture,       \* the Capture of the interpreter
          program,       \* the lines being run: a text, a capture or a line
          frames         \* activations of execute_program, the running one last

state == <<way, script, at, capture, program, frames, vars, funcs, out>>

Idle == [active |-> FALSE, kind |-> "if", times |-> 0, name |-> "", lines |-> <<>>, depth |-> 0]

Opens(line)  == line.kind \in {"if", "repeat", "function"}
Closes(line) == line.kind = "end"

\* Blocks opened less blocks closed by lines first .. last.
Balance(lines, first, last) ==
  Cardinality({j \in first .. last : Opens(lines[j])})
    - Cardinality({j \in first .. last : Closes(lines[j])})

\* find_end: where the block whose body starts at first is closed, or behind the
\* last line.  Mutant: the first end closes it.
FindFirstEnd(lines, first, last) ==
  Min({j \in first .. last : Closes(lines[j])} \cup {last + 1})
FindEnd(lines, first, last) ==
  Min({j \in first .. last : Balance(lines, first, j) = -1} \cup {last + 1})

\* Rounds of a block: a condition as 0 or 1, a count within its limits.
Rounds(line) ==
  LET v == Eval(line.expr)
  IN  IF line.kind = "if" THEN IF Truthy(v) THEN 1 ELSE 0
      ELSE Max({0, Min({MaxRepeat, v.num})})

----------------------------------------------------------------------------
(* execute_program, one line at a time.                                    *)

Running == frames # <<>>
Top     == Last(frames)

\* The lines a frame's pointers see now: body 0 is the program.
LinesOf(f) == IF f.body = 0 THEN program ELSE funcs[f.body].body

Frame(body, from, to, rounds) ==
  [body |-> body, from |-> from, to |-> to, i |-> from, rounds |-> rounds]

\* The frames while a program runs rounds times over; no frame if it runs none.
Started(lines, rounds) == IF rounds > 0 THEN <<Frame(0, 1, Len(lines), rounds)>> ELSE <<>>

\* The running frame goes on at line i.
GoOn(i) == [frames EXCEPT ![Len(frames)].i = i]

ExecuteLine ==
  LET f     == Top
      lines == LinesOf(f)
      line  == lines[f.i]
      end   == FindEnd(lines, f.i + 1, f.to)
  IN
  /\ f.i <= f.to
  /\ \/ /\ line.kind \in {"blank", "comment", "end", "run"}
        /\ frames' = GoOn(f.i + 1)
        /\ UNCHANGED runtime
     \/ /\ line.kind = "let"
        /\ SetVariable(line.name, Eval(line.expr))
        /\ frames' = GoOn(f.i + 1)
        /\ UNCHANGED <<funcs, out>>
     \/ /\ line.kind = "print"
        /\ Printed(Eval(line.expr))
        /\ frames' = GoOn(f.i + 1)
        /\ UNCHANGED <<vars, funcs>>
     \/ /\ line.kind \in {"if", "repeat"}
        /\ frames' = GoOn(end + 1) \o
                       IF Rounds(line) > 0
                       THEN <<Frame(f.body, f.i + 1, end - 1, Rounds(line))>> ELSE <<>>
        /\ UNCHANGED runtime
     \/ /\ line.kind = "function"
        /\ DefineFunction(line.name, SubSeq(lines, f.i + 1, end - 1))
        /\ frames' = GoOn(end + 1)
        /\ UNCHANGED <<vars, out>>

\* An expression that is a call: call_builtin falls through to
\* runtime_call_function, which runs the lines of the table.
CallsRunning == Cardinality({k \in DOMAIN frames : frames[k].body # 0 /\ frames[k].from = 1})

ExecuteCall ==
  LET f    == Top
      line == LinesOf(f)[f.i]
  IN
  /\ f.i <= f.to
  /\ line.kind = "call"
  /\ \/ /\ SlotsOf(funcs, line.name) = {}
        /\ Printed(line.name)
        /\ frames' = GoOn(f.i + 1)
     \/ /\ SlotsOf(funcs, line.name) # {}
        /\ CallsRunning < MaxCalls
        /\ LET s == Slot(funcs, line.name)
           IN  frames' = Append(GoOn(f.i + 1), Frame(s, 1, funcs[s].lines, 1))
        /\ UNCHANGED out
  /\ UNCHANGED <<vars, funcs>>

\* The next round of a repeat.  Mutant: the rounds are not counted.
RoundAgain(f) == [f EXCEPT !.i = f.from]
NextRound(f)  == [f EXCEPT !.i = f.from, !.rounds = @ - 1]

\* The end of the lines: the next round, or back to the caller.

Return ==
  LET f == Top
  IN
  /\ f.i > f.to
  /\ frames' = IF f.rounds > 1 THEN [frames EXCEPT ![Len(frames)] = NextRound(f)]
                               ELSE Front(frames)
  /\ UNCHANGED runtime

Execute ==
  /\ Running
  /\ ExecuteLine \/ ExecuteCall \/ Return
  /\ UNCHANGED <<way, script, at, capture, program>>

----------------------------------------------------------------------------
(* Entering lines.                                                         *)

\* yakka_run_text.
RunText(lines) ==
  LET text == SubSeq(lines, 1, Min({MaxText, Len(lines)}))
  IN  /\ program' = text
      /\ frames' = Started(text, 1)
      /\ UNCHANGED <<capture, runtime>>

RunScript ==
  /\ way = "file" /\ at = 1
  /\ RunText(script)
  /\ at' = Len(script) + 1

\* finish_capture.
FinishCapture ==
  /\ capture' = [capture EXCEPT !.active = FALSE]
  /\ program' = capture.lines
  /\ IF capture.kind = "function"
     THEN /\ DefineFunction(capture.name, capture.lines)
          /\ UNCHANGED <<frames, vars, out>>
     ELSE /\ frames' = Started(capture.lines, capture.times)
          /\ UNCHANGED runtime

\* A line of a block is stored, unless the capture is full or the line is the end
\* of an inner block, which is only counted.  Mutant: the opening of an inner
\* block is not counted.
CaptureUncounted(line) ==
  /\ capture' = [capture EXCEPT !.lines = IF Len(@) < MaxCaptured THEN Append(@, line) ELSE @]
  /\ UNCHANGED <<program, frames, runtime>>

CaptureLine(line) ==
  /\ capture' = [capture EXCEPT
       !.depth = IF Opens(line) THEN @ + 1 ELSE @,
       !.lines = IF Len(@) < MaxCaptured THEN Append(@, line) ELSE @]
  /\ UNCHANGED <<program, frames, runtime>>

CaptureEnd ==
  \/ capture.depth = 0 /\ FinishCapture
  \/ /\ capture.depth # 0
     /\ capture' = [capture EXCEPT !.depth = @ - 1]
     /\ UNCHANGED <<program, frames, runtime>>

StartCapture(line) ==
  /\ capture' = [active |-> TRUE, kind |-> line.kind,
                 times |-> IF line.kind = "function" THEN 0 ELSE Rounds(line),
                 name |-> IF line.kind = "function" THEN line.name ELSE "",
                 lines |-> <<>>, depth |-> 0]
  /\ UNCHANGED <<program, frames, runtime>>

\* feed_one_line.
FeedLine(line) ==
  \/ /\ line.kind = "blank"
     /\ UNCHANGED <<capture, program, frames, runtime>>
  \/ /\ capture.active /\ line.kind # "blank"
     /\ IF Closes(line) THEN CaptureEnd ELSE CaptureLine(line)
  \/ /\ ~capture.active /\ Opens(line)
     /\ StartCapture(line)
  \/ /\ ~capture.active /\ ~Opens(line) /\ line.kind # "blank"
     /\ program' = <<line>>
     /\ frames' = Started(<<line>>, 1)
     /\ UNCHANGED <<capture, runtime>>

\* The shell tries a line as a command first, captured block or not.
TypeLine ==
  /\ way = "typed" /\ at <= Len(script)
  /\ LET line == script[at]
     IN  IF line.kind = "run" THEN RunText(RunFile) ELSE FeedLine(line)
  /\ at' = at + 1

Enter ==
  /\ ~Running
  /\ RunScript \/ TypeLine
  /\ UNCHANGED <<way, script>>

----------------------------------------------------------------------------
Init ==
  /\ way \in {"typed", "file"}
  /\ script \in Scripts
  /\ at = 1
  /\ capture = Idle
  /\ program = <<>> /\ frames = <<>>
  /\ RuntimeInit

Next == Execute \/ Enter

Spec == Init /\ [][Next]_state

\* The interpreter runs in the call of the shell, and nothing preempts it but
\* interrupts, so a line that can be run is run.  Nobody has to type.
FairSpec == Spec /\ WF_state(Execute)

----------------------------------------------------------------------------
(* Properties.                                                             *)

\* The session is entered and nothing runs.
Done == at > Len(script) /\ ~Running

\* A call the stack has no room for: the run ends here.
StackLimit ==
  /\ Running /\ Top.i <= Top.to /\ CallsRunning = MaxCalls
  /\ LinesOf(Top)[Top.i].kind = "call"

\* The tables are within their limits, a name has one slot, and every frame
\* stays within the lines it was given, which lie in the text or in the array
\* of a function.
TypeOK ==
  /\ way \in {"typed", "file"} /\ script \in Scripts /\ at \in 1 .. Len(script) + 1
  /\ Len(vars) <= MaxVars /\ Len(funcs) <= MaxFuncs /\ Len(out) <= MaxOut
  /\ \A table \in {vars, funcs} : \A s \in DOMAIN table : SlotsOf(table, table[s].name) = {s}
  /\ \A s \in DOMAIN funcs : funcs[s].lines \in 0 .. MaxFuncLines
  /\ capture.active \in BOOLEAN /\ capture.times \in 0 .. MaxRepeat
  /\ Len(capture.lines) <= MaxCaptured /\ capture.depth \in Nat
  /\ \A k \in DOMAIN frames :
       LET f == frames[k]
       IN  /\ f.body \in 0 .. Len(funcs) /\ f.rounds \in 1 .. MaxRepeat \cup {1}
           /\ f.from >= 1 /\ f.i \in f.from .. f.to + 2
           /\ f.to <= IF f.body = 0 THEN Len(program) ELSE MaxFuncLines

\* How many blocks are open after the first n lines: ends that close nothing
\* do not count.
OpenBlocks(lines, n) == Max({0} \cup {Balance(lines, s, n) : s \in 1 .. n})

\* The interpreter captures exactly while a block of the typed lines is open,
\* and its depth is the number of blocks open inside that one, whatever the
\* capture dropped for want of room and whatever commands ran in between
\* (feed_one_line, which counts, against find_end, which searches).
CaptureFollowsNesting ==
  way = "typed" =>
    /\ capture.active <=> OpenBlocks(script, at - 1) > 0
    /\ capture.active => capture.depth = OpenBlocks(script, at - 1) - 1

\* The interpreter's tables and frames stay in range and its capture in step.
YakkaSound == TypeOK /\ CaptureFollowsNesting

\* The shell gets the keyboard back: whatever blocks are left open, ends left
\* over and functions redefined, no statement runs for ever, unless calls run
\* out of stack (execute_program's indices, repeat's limit).
Halts == []<>(~Running \/ StackLimit)

\* The program of yakka_self_test.
SelfTest ==
  << Let("x", Plus(Const(Number(2)), 3)), Show(Var("x")),
     If(Greater(Var("x"), 4)), Show(Var("ok")), End,
     FunctionOf("hello"), Show(Var("fn")), End,
     Call("hello") >>
=============================================================================
