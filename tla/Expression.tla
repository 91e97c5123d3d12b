----------------------------- MODULE Expression -----------------------------
(***************************************************************************)
(* The expressions of Yakka: the recursive descent of                      *)
(* src/yakka/parser/parser.cpp, which computes values as it reads, and the *)
(* library it calls, src/yakka/stdlib/stdlib.cpp.                          *)
(*                                                                         *)
(* The activations of parse_or down to parse_primary are a stack of what   *)
(* they wait for: the right side of an operator, the operand of a minus, a *)
(* closing bracket, the next argument.  print is a keyword of the lexer,   *)
(* so call_builtin never gets its name.                                    *)
(***************************************************************************)
EXTENDS Lexer

CONSTANTS Sources,       \* lines to evaluate
          Word,          \* values of a long
          MaxArgs,       \* arguments a call keeps, 8
          Files,         \* files there are at first: path -> content
          MaxFiles,      \* files there is room for
          Functions,     \* functions defined; each adds 1 to the variable x
          Answers,       \* lines typed for input()
          Times          \* results of time(); a bound

ASSUME ExpressionAssumption ==
  /\ Word \in Nat /\ Word % 2 = 0 /\ Word > 0
  /\ {MaxArgs, MaxFiles} \subseteq Nat

Texts == Seq(Char)

ASSUME InputAssumption ==
  /\ {Sources, Answers} \subseteq SUBSET Texts /\ Times \subseteq Int
  /\ IsFiniteSet(DOMAIN Files) /\ Cardinality(DOMAIN Files) <= MaxFiles
  /\ \A path \in DOMAIN Files : Files[path] \in Texts

VARIABLES source,        \* the line
          line,          \* its tokens
          at,            \* the current one
          stack,         \* what the activations wait for, the innermost last
          mode,          \* "operand", "value", "close", "done" or "undefined"
          value,         \* the value returned last
          had_error,     \* had_error
          vars, files,   \* variables, files
          log            \* calls made: name, arguments, result and what they left

reading == <<source, line, at, stack, mode, value, had_error>>
effects == <<vars, files, log>>

----------------------------------------------------------------------------
(* Values.                                                                 *)

Wrap(n)   == ((n + Word \div 2) % Word) - Word \div 2
Long(n) == [type |-> "number", num |-> Wrap(n), str |-> <<>>]
Truth(b)  == Long(IF b THEN 1 ELSE 0)
Text(s)   == [type |-> "string", num |-> 0, str |-> SubSeq(s, 1, Min({Len(s), MaxStr}))]

Truthy(v) == IF v.type = "number" THEN v.num # 0 ELSE v.str # <<>>

Abs(n) == IF n < 0 THEN -n ELSE n

\* kitoa with base 10.
Decimal[k \in Nat] == IF k < 10 THEN <<Digit[k + 1]>>
                                ELSE Append(Decimal[k \div 10], Digit[(k % 10) + 1])
Kitoa(n) == IF n < 0 THEN <<"-">> \o Decimal[-n] ELSE Decimal[n]

\* value_to_string.
AsText(v) == IF v.type = "string" THEN v.str ELSE Kitoa(v.num)

\* kstrcmp: the first difference, the NUL counted.
CompareText(s, t) ==
  LET a == Append(Codes(s), 0)
      b == Append(Codes(t), 0)
      apart == {i \in 1 .. Min({Len(a), Len(b)}) : a[i] # b[i]}
  IN  IF apart = {} THEN 0 ELSE a[Min(apart)] - b[Min(apart)]

\* value_compare.
AnyText(a, b) == "string" \in {a.type, b.type}
Compare(a, b) == IF AnyText(a, b) THEN CompareText(AsText(a), AsText(b)) ELSE a.num - b.num

\* Division in C rounds to zero.
Quotient(a, b) ==
  IF (a < 0) = (b < 0) THEN Abs(a) \div Abs(b) ELSE -(Abs(a) \div Abs(b))

\* What binary_value has no outcome for: a text joined past its array, and the
\* one quotient that is no long.
Undefined(a, op, b) ==
  \/ op = "+" /\ AnyText(a, b) /\ Len(AsText(a)) + Len(AsText(b)) > MaxStr
  \/ op \in {"/", "%"} /\ a.num = -(Word \div 2) /\ b.num = -1

\* binary_value, and the two words of parse_or and parse_and, which look at
\* both sides after both are computed.
Binary(a, op, b) ==
  CASE op = "+" /\ AnyText(a, b) -> Text(AsText(a) \o AsText(b))
    [] op = "+" /\ ~AnyText(a, b) -> Long(a.num + b.num)
    [] op = "-" -> Long(a.num - b.num)
    [] op = "*" -> Long(a.num * b.num)
    [] op = "/" -> Long(IF b.num = 0 THEN 0 ELSE Quotient(a.num, b.num))
    [] op = "%" -> Long(IF b.num = 0 THEN 0 ELSE a.num - b.num * Quotient(a.num, b.num))
    [] op \in {"==", "="} -> Truth(Compare(a, b) = 0)
    [] op = "!=" -> Truth(Compare(a, b) # 0)
    [] op = "<"  -> Truth(Compare(a, b) < 0)
    [] op = ">"  -> Truth(Compare(a, b) > 0)
    [] op = "<=" -> Truth(Compare(a, b) <= 0)
    [] op = ">=" -> Truth(Compare(a, b) >= 0)
    [] op = "or"  -> Truth(Truthy(a) \/ Truthy(b))
    [] op = "and" -> Truth(Truthy(a) /\ Truthy(b))

Negated(v) == IF v.type = "number" THEN Long(-v.num) ELSE v

----------------------------------------------------------------------------
(* call_builtin: the outcomes of a call.                                   *)

Outcome(v) == [value |-> v, vars |-> vars, files |-> files]

\* string_transform.
Mapped(s, from, to) ==
  [i \in 1 .. Len(s) |-> IF s[i] \in ToSet(from)
                         THEN to[CHOOSE n \in 1 .. 26 : from[n] = s[i]] ELSE s[i]]

\* fs_write_file as the library sees it; RamDisk has all its failures.  Mutant:
\* an existing file keeps its content.
WrittenOnce(args) ==
  LET path == AsText(args[1])
      new  == path \notin DOMAIN files
  IN  IF path = <<>> \/ (new /\ Cardinality(DOMAIN files) >= MaxFiles) THEN Outcome(Long(0))
      ELSE [Outcome(Long(1)) EXCEPT !.files =
              [p \in DOMAIN files \cup {path} |-> IF new /\ p = path THEN AsText(args[2]) ELSE files[p]]]

Written(args) ==
  LET path == AsText(args[1])
      new  == path \notin DOMAIN files
  IN  IF path = <<>> \/ (new /\ Cardinality(DOMAIN files) >= MaxFiles) THEN Outcome(Long(0))
      ELSE [Outcome(Long(1)) EXCEPT !.files =
              [p \in DOMAIN files \cup {path} |-> IF p = path THEN AsText(args[2]) ELSE files[p]]]

ReadFile(path) == IF path \in DOMAIN files THEN files[path] ELSE <<>>

Deleted(path) ==
  IF path \in DOMAIN files
  THEN [Outcome(Long(1)) EXCEPT !.files = [p \in DOMAIN files \ {path} |-> files[p]]]
  ELSE Outcome(Long(0))

\* random_long: what is left by a modulus, 100 without a proper one.
Modulus(args) == IF args # <<>> /\ args[1].num > 0 THEN args[1].num ELSE 100

Variable(name) == IF name \in DOMAIN vars THEN vars[name] ELSE Long(0)
Counted == [n \in DOMAIN vars \cup {"x"} |-> IF n = "x" THEN Binary(Variable("x"), "+", Long(1))
                                                        ELSE vars[n]]

Builtins == {"input", "read", "write", "delete", "random", "time", "length", "upper", "lower"}

Calls(name, args) ==
  LET given == args # <<>>
      first == args[1]
  IN
  CASE name = "input"  -> {Outcome(Text(s)) : s \in Answers}
    [] name = "read"   -> {Outcome(Text(IF given THEN ReadFile(AsText(first)) ELSE <<>>))}
    [] name = "write"  -> {IF Len(args) >= 2 THEN Written(args) ELSE Outcome(Long(0))}
    [] name = "delete" -> {IF given THEN Deleted(AsText(first)) ELSE Outcome(Long(0))}
    [] name = "random" -> {Outcome(Long(n)) : n \in 0 .. Modulus(args) - 1}
    [] name = "time"   -> {Outcome(Long(n)) : n \in Times}
    [] name = "length" -> {Outcome(Long(IF given THEN Len(AsText(first)) ELSE 0))}
    [] name = "upper"  -> {Outcome(IF given THEN Text(Mapped(AsText(first), Lower, Upper)) ELSE Long(0))}
    [] name = "lower"  -> {Outcome(IF given THEN Text(Mapped(AsText(first), Upper, Lower)) ELSE Long(0))}
    [] name \in Functions \ Builtins -> {[Outcome(Long(0)) EXCEPT !.vars = Counted]}
    [] OTHER -> {Outcome(Long(0))}

----------------------------------------------------------------------------
(* Tokens.                                                                 *)

End == [type |-> "end"]
Token(i) == IF i <= Len(line) THEN line[i] ELSE End
Current == Token(at)
Advanced == Min({at + 1, Len(line) + 1})

\* How tightly an operator binds.  Mutant: comparisons bind like sums.
Tightness(type, name) ==
  CASE type = "ident" /\ name = "or"  -> 1
    [] type = "ident" /\ name = "and" -> 2
    [] type \in {"==", "=", "!=", "<", ">", "<=", ">="} -> 3
    [] type \in {"+", "-"} -> 4
    [] type \in {"*", "/", "%"} -> 5
    [] OTHER -> 0
NameOf(token) == IF token.type = "ident" THEN token.name ELSE ""
LevelLoose(token) == LET n == Tightness(token.type, NameOf(token)) IN IF n = 3 THEN 4 ELSE n
Level(token) == Tightness(token.type, NameOf(token))
Operator(token) == IF token.type = "ident" THEN token.name ELSE token.type

----------------------------------------------------------------------------
(* The parser.                                                             *)

Binds(op, left, level) == [kind |-> "binary", level |-> level, op |-> op, left |-> left]
Minus       == [kind |-> "minus", level |-> 6]
Paren       == [kind |-> "paren", level |-> 0]
Call(n, as) == [kind |-> "call", level |-> 0, name |-> n, args |-> as]

Pending == IF stack = <<>> THEN 0 ELSE Last(stack).level
Waits(kind) == stack # <<>> /\ Last(stack).kind = kind

Yield(v) == value' = v /\ mode' = "value"

\* After a bracket or a comma of a call: another argument, or its end.  Mutant:
\* always an argument.
AlwaysArgument(i) == "operand"
ArgumentOrClose(i) == IF Token(i).type \in {")", "end"} THEN "close" ELSE "operand"

\* parse_unary and parse_primary.
Literal ==
  /\ Current.type \in {"number", "string"}
  /\ Yield(IF Current.type = "number" THEN Long(Current.num) ELSE Text(Current.text))
  /\ at' = Advanced
  /\ UNCHANGED <<stack, had_error>>

Negate ==
  /\ Current.type = "-" /\ ~Waits("minus")
  /\ stack' = Append(stack, Minus)
  /\ at' = Advanced
  /\ UNCHANGED <<mode, value, had_error>>

Open ==
  /\ Current.type = "("
  /\ stack' = Append(stack, Paren)
  /\ at' = Advanced
  /\ UNCHANGED <<mode, value, had_error>>

ReadVariable ==
  /\ Current.type = "ident" /\ Token(at + 1).type # "("
  /\ Yield(Variable(Current.name))
  /\ at' = Advanced
  /\ UNCHANGED <<stack, had_error>>

OpenCall ==
  /\ Current.type = "ident" /\ Token(at + 1).type = "("
  /\ stack' = Append(stack, Call(Current.name, <<>>))
  /\ at' = at + 2
  /\ mode' = ArgumentOrClose(at + 2)
  /\ UNCHANGED <<value, had_error>>

Unexpected ==
  /\ Current.type \notin {"number", "string", "(", "ident"}
  /\ Current.type = "-" => Waits("minus")
  /\ had_error' = TRUE
  /\ Yield(Long(0))
  /\ at' = Advanced
  /\ UNCHANGED stack

Operand ==
  /\ mode = "operand"
  /\ Literal \/ Negate \/ Open \/ ReadVariable \/ OpenCall \/ Unexpected
  /\ UNCHANGED <<source, line, effects>>

\* The loops of parse_or to parse_mul: an operator that binds tighter than what
\* is waited for takes the value as its left side, else what waits gets it.
Shift ==
  /\ Level(Current) > Pending
  /\ stack' = Append(stack, Binds(Operator(Current), value, Level(Current)))
  /\ mode' = "operand"
  /\ at' = Advanced
  /\ UNCHANGED <<value, had_error>>

Combine ==
  /\ Pending > 0 /\ Level(Current) <= Pending
  /\ LET f == Last(stack)
     IN  \/ /\ f.kind = "minus"
            /\ Yield(Negated(value))
         \/ /\ f.kind = "binary" /\ ~Undefined(f.left, f.op, value)
            /\ Yield(Binary(f.left, f.op, value))
         \/ /\ f.kind = "binary" /\ Undefined(f.left, f.op, value)
            /\ mode' = "undefined"
            /\ UNCHANGED value
  /\ stack' = Front(stack)
  /\ UNCHANGED <<at, had_error>>

\* A closing bracket that is missing is an error, and nothing else.
Closed ==
  IF Current.type = ")" THEN at' = Advanced /\ UNCHANGED had_error
                        ELSE had_error' = TRUE /\ UNCHANGED at

Close ==
  /\ Waits("paren") /\ Level(Current) = 0
  /\ Closed
  /\ stack' = Front(stack)
  /\ UNCHANGED <<mode, value>>

\* Mutant: arguments are kept without a limit.
ArgumentUnlimited ==
  /\ Waits("call") /\ Level(Current) = 0
  /\ stack' = [stack EXCEPT ![Len(stack)].args = Append(@, value)]
  /\ IF Current.type = "," THEN at' = Advanced /\ mode' = ArgumentOrClose(at + 1)
                           ELSE mode' = "close" /\ UNCHANGED at
  /\ UNCHANGED <<value, had_error>>

Argument ==
  /\ Waits("call") /\ Level(Current) = 0
  /\ stack' = [stack EXCEPT ![Len(stack)].args = IF Len(@) < MaxArgs THEN Append(@, value) ELSE @]
  /\ IF Current.type = "," THEN at' = Advanced /\ mode' = ArgumentOrClose(at + 1)
                           ELSE mode' = "close" /\ UNCHANGED at
  /\ UNCHANGED <<value, had_error>>

Finish ==
  /\ stack = <<>> /\ Level(Current) = 0
  /\ mode' = "done"
  /\ UNCHANGED <<at, stack, value, had_error>>

Value ==
  /\ mode = "value"
  /\ Shift \/ Combine \/ Close \/ Argument \/ Finish
  /\ UNCHANGED <<source, line, effects>>

\* The call is made whether its bracket was closed or not.
MakeCall ==
  /\ mode = "close"
  /\ Closed
  /\ stack' = Front(stack)
  /\ LET f == Last(stack)
     IN \E o \in Calls(f.name, f.args) :
          /\ Yield(o.value)
          /\ vars' = o.vars /\ files' = o.files
          /\ log' = Append(log, [name |-> f.name, args |-> f.args, value |-> o.value,
                                 vars |-> o.vars, files |-> o.files])
  /\ UNCHANGED <<source, line>>

----------------------------------------------------------------------------
Init ==
  /\ source \in Sources /\ line = Tokens(source)
  /\ at = 1 /\ stack = <<>> /\ mode = "operand"
  /\ value = Long(0) /\ had_error = FALSE
  /\ vars = [n \in {"x"} |-> Long(2)] /\ files = Files
  /\ log = <<>>

Next == Operand \/ Value \/ MakeCall

Spec == Init /\ [][Next]_<<reading, effects>>

----------------------------------------------------------------------------
(* Properties.                                                             *)

Values == {v \in [type : {"number", "string"}, num : -(Word \div 2) .. Word \div 2 - 1,
                  str : Texts] : Len(v.str) <= MaxStr}

\* Numbers stay longs, texts within their arrays and calls within theirs, and
\* levels rise from bracket to bracket.
TypeOK ==
  /\ at \in 1 .. Len(line) + 1
  /\ mode \in {"operand", "value", "close", "done", "undefined"}
  /\ had_error \in BOOLEAN
  /\ value \in Values /\ \A n \in DOMAIN vars : vars[n] \in Values
  /\ Cardinality(DOMAIN files) <= MaxFiles
  /\ \A k \in DOMAIN stack :
       LET f == stack[k]
       IN  /\ f.kind = "call" => Len(f.args) <= MaxArgs
           /\ f.kind = "binary" => /\ f.left \in Values
                                   /\ k > 1 => stack[k - 1].level < f.level

\* The calls that touch a file.
Touches(entry, path) ==
  /\ entry.name \in {"write", "delete"} /\ entry.args # <<>>
  /\ AsText(entry.args[1]) = path /\ entry.value = Long(1)

\* What the first n calls leave in a file.
Left(n, path) ==
  LET touched == {m \in 1 .. n : Touches(log[m], path)}
      last    == log[Max(touched)]
  IN  IF touched = {} THEN IF path \in DOMAIN Files THEN Files[path] ELSE <<>>
      ELSE IF last.name = "write" THEN AsText(last.args[2]) ELSE <<>>

\* read() gives back what the last successful write() of that path put there,
\* or what was there before the line, cut to what a value holds, and nothing
\* once it is deleted; the number 1 and the text "1" are one path (call_builtin
\* turns every path into a text).
ReadsWhatWasWritten ==
  \A n \in DOMAIN log :
    log[n].name = "read" /\ log[n].args # <<>> =>
      log[n].value = Text(Left(n - 1, AsText(log[n].args[1])))

\* The parser's values, its stack and the files it wrote.
ParserSound == TypeOK /\ ReadsWhatWasWritten

\* A token is all it can be: it stops where its characters do, or at its limit.
Complete(s) ==
  LET t    == s.token
      ends == s.to > Len(source)
  IN
  CASE t.type = "number" -> s.to - s.from <= MaxDigits
                              /\ (s.to - s.from = MaxDigits \/ ends \/ source[s.to] \notin Digits)
    [] t.type \in {"ident", "keyword"} ->
         s.to - s.from <= MaxName
           /\ (s.to - s.from = MaxName \/ ends \/ source[s.to] \notin IdentChars)
    [] t.type = "string" -> Len(t.text) <= MaxStr
                              /\ (Len(t.text) = MaxStr \/ ends \/ source[s.to - 1] = Quote)
    [] OTHER -> s.to - s.from = 2 \/ ends \/ <<source[s.from], source[s.to]>> \notin Pairs

\* The tokens and the blanks between them make up the line.  None stops early or
\* runs past its array, so a number, a name or a text is cut only at its limit,
\* and the rest of it is then read as the next tokens (number, string and
\* identifier of the lexer).
TokensMakeUpLine ==
  LET scans == Scans(source)
      end(n) == IF n = 0 THEN 1 ELSE scans[n].to
  IN  /\ \A n \in DOMAIN scans :
           /\ Complete(scans[n]) /\ source[scans[n].from] \notin Blanks
           /\ end(n - 1) <= scans[n].from
           /\ \A i \in end(n - 1) .. scans[n].from - 1 : source[i] \in Blanks
      /\ \A i \in end(Len(scans)) .. Len(source) : source[i] \in Blanks
=============================================================================
