---------------------------- MODULE MCExpression ----------------------------
(***************************************************************************)
(* Expressions checked against their grammar.  The grammar knows no stack: *)
(* what is computed last is the last of the loosest operators outside all  *)
(* brackets, and its sides are expressions again.                          *)
(***************************************************************************)
EXTENDS Expression

----------------------------------------------------------------------------
\* Brackets open before and at position i.
Depth(s, i) ==
  Cardinality({j \in 1 .. i : s[j].type = "("}) - Cardinality({j \in 1 .. i : s[j].type = ")"})

\* The operators from the loosest to the tightest; 0 for other tokens.
Groups == << {"or"}, {"and"}, {"==", "=", "!=", "<", ">", "<=", ">="}, {"+", "-"}, {"*", "/", "%"} >>
Rank(token) == Max({0} \cup {n \in DOMAIN Groups : Operator(token) \in Groups[n]})

\* Positions where an operator joins two operands: an operand ends before it.
Joins(s) ==
  LET joint[i \in 1 .. Len(s)] ==
        /\ i > 1 /\ Rank(s[i]) > 0
        /\ ~joint[i - 1] /\ s[i - 1].type \in {"number", "string", "ident", ")"}
  IN  {i \in 1 .. Len(s) : joint[i] /\ Depth(s, i) = 0}

\* The bracket at i is closed by the last token.
Encloses(s, i) ==
  /\ i < Len(s) /\ s[i].type = "(" /\ s[Len(s)].type = ")"
  /\ \A j \in i .. Len(s) - 1 : Depth(s, j) > 0
  /\ Depth(s, Len(s)) = 0

\* The parts of an argument list; a comma may end it.
Parts(s) ==
  LET commas == {0} \cup {j \in 1 .. Len(s) : s[j].type = "," /\ Depth(s, j) = 0}
      from(n) == CHOOSE j \in commas : Cardinality({c \in commas : c < j}) = n - 1
      to(n)   == IF n = Cardinality(commas) THEN Len(s) + 1 ELSE from(n + 1)
      all == [n \in 1 .. Cardinality(commas) |-> SubSeq(s, from(n) + 1, to(n) - 1)]
  IN  IF Last(all) = <<>> THEN Front(all) ELSE all

\* env: what the calls so far have left, and how many of the log they are.
\* The log says what a call gave; the grammar, which calls there are.
RECURSIVE Denotes(_, _)
RECURSIVE AllDenote(_, _)
Ungrammatical(env) == [grammatical |-> FALSE, value |-> Long(0), env |-> env]
Denotes(s, env) ==
  LET yields(v, e) == [grammatical |-> TRUE, value |-> v, env |-> e]
      joints == Joins(s)
  IN
  IF s = <<>> THEN Ungrammatical(env)
  ELSE IF joints # {} THEN
    LET loosest == Min({Rank(s[i]) : i \in joints})
        i == Max({j \in joints : Rank(s[j]) = loosest})
        l == Denotes(SubSeq(s, 1, i - 1), env)
        r == Denotes(SubSeq(s, i + 1, Len(s)), l.env)
    IN  [r EXCEPT !.value = Binary(l.value, Operator(s[i]), @), !.grammatical = @ /\ l.grammatical]
  ELSE IF Len(s) = 1 THEN
    CASE s[1].type = "number" -> yields(Long(s[1].num), env)
      [] s[1].type = "string" -> yields(Text(s[1].text), env)
      [] s[1].type = "ident"  -> yields(IF s[1].name \in DOMAIN env.vars THEN env.vars[s[1].name]
                                                                          ELSE Long(0), env)
      [] OTHER -> Ungrammatical(env)
  ELSE IF s[1].type = "-" /\ s[2].type # "-" THEN
    LET v == Denotes(Tail(s), env) IN [v EXCEPT !.value = Negated(@)]
  ELSE IF Encloses(s, 1) THEN Denotes(SubSeq(s, 2, Len(s) - 1), env)
  ELSE IF s[1].type = "ident" /\ Encloses(s, 2) THEN
    LET as   == AllDenote(Parts(SubSeq(s, 3, Len(s) - 1)), env)
        n    == as.env.calls + 1
        kept == SubSeq(as.value, 1, Min({MaxArgs, Len(as.value)}))
    IN  IF ~as.grammatical THEN Ungrammatical(env)
        ELSE IF n > Len(log) \/ log[n].name # s[1].name \/ log[n].args # kept
        THEN yields(Long(0), [as.env EXCEPT !.agrees = FALSE])
        ELSE yields(log[n].value, [as.env EXCEPT !.calls = n, !.vars = log[n].vars])
  ELSE Ungrammatical(env)

AllDenote(parts, env) ==
  IF parts = <<>> THEN [grammatical |-> TRUE, value |-> <<>>, env |-> env]
  ELSE LET first == Denotes(Head(parts), env)
           rest  == AllDenote(Tail(parts), first.env)
       IN  [rest EXCEPT !.value = <<first.value>> \o @, !.grammatical = @ /\ first.grammatical]

Meaning(s) == Denotes(s, [vars |-> [n \in {"x"} |-> Long(2)], calls |-> 0, agrees |-> TRUE])

\* A line evaluated without an error is an expression up to where it was read,
\* its value is what precedence, association and brackets make of it, and the
\* calls made are the calls written, in order, each once, with the values their
\* arguments then had: also those behind an "and" that is false, and those of
\* arguments that are dropped.
ValueIsMeaning ==
  mode = "done" /\ ~had_error =>
    LET m == Meaning(SubSeq(line, 1, at - 1))
    IN  /\ m.grammatical /\ m.env.agrees
        /\ m.value = value /\ m.env.calls = Len(log) /\ m.env.vars = vars

\* Every expression is read to its end without an error.
ExpressionsAreRead ==
  mode = "done" /\ Meaning(line).grammatical => ~had_error /\ at = Len(line) + 1

----------------------------------------------------------------------------
(* Lines.                                                                  *)

Words == {"3", "x", "f", "(", ")", ",", "-", "+", "*", " or "}
Few   == {"3", "f", "(", ")", ",", "-"}
UpTo(n, set) == UNION {[1 .. k -> set] : k \in 1 .. n}

\* Two and three operands with every operator between them.
Operators == {"==", "=", "!=", "<", ">", "<=", ">=", "+", "-", "*", "/", "%", " or ", " and "}
Operands  == {"0", "7", "x", "\"7\"", "\"\""}
Chains ==
  {<<a, o, b>> : a, b \in Operands, o \in Operators}
    \cup {<<a, o, "5", p, b>> : a, b \in {"0", "x", "\"7\""}, o, p \in Operators}
    \cup {<<"2", o, "-x", p, "7", q, "x">> : o, p, q \in Operators}

Chosen ==
  { "f() + x * f() + x", "x + f() + x and 0 and f(x)", "g(1, f(), f(), x) * x",
    "g(f(x,), -(x + 1))", "write(1, \"aB\") + length(read(\"1\"))",
    "write(\"b\", x) + delete(\"b\") + read(\"b\")",
    "write(1, x) + write(2, x) + read(2) + read(1)", "write(1, x) write(1, 3)",
    "g(write(1, x), write(1, 3), read(1)) + read(1)",
    "read(\"a\") == read()", "upper(\"aB\") + lower(\"aB\")",
    "upper() + lower() + length() + write(x)", "delete() + length(12) + upper(-x)",
    "input() + input()", "random(3) * random(2) + time()", "random() < 0",
    "(-15 - 15 - 2) / -1", "(-15 - 15 - 2) % -1", "-15 % 4 * 9 / -2", "7 - 9 * 9",
    "-\"aB\" + \"a\" + x + \"B\"", "f(1x) + x",
    "\"abcdef\" + 1", "abcdef1 + x", "1234 + 12", "! x", "x ! 3", "print(3)", "let", "\t3\t+ x", "" }

Lists == UpTo(4, Words) \cup UpTo(6, Few) \cup Chains
AllSources == {Chars(FoldLeft(LAMBDA s, t : s \o t, "", list)) : list \in Lists}
                \cup {Chars(s) : s \in Chosen}
SomeFiles  == [p \in {<<"a">>} |-> Chars("abcdef")]
TypedLines == {<<>>, <<"1">>, <<"a", "b">>}
====
