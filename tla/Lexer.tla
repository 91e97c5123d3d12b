------------------------------- MODULE Lexer --------------------------------
(***************************************************************************)
(* The lexer of Yakka, src/yakka/lexer/lexer.cpp.  The parser asks for a   *)
(* token at a time, but nothing it does changes what the next one is, so a *)
(* line is read as the sequence of all its tokens.                         *)
(***************************************************************************)
EXTENDS Characters

CONSTANTS MaxDigits,     \* digits of a number, 31
          MaxName,       \* characters of a name, 127
          MaxStr,        \* characters of a text, 127
          IntWord        \* values of an int

ASSUME LexerAssumption ==
  /\ {MaxDigits, MaxName, MaxStr, IntWord} \subseteq Nat \ {0}
  /\ IntWord % 2 = 0

Blanks     == {" ", "\t", "\r"}
Digits     == ToSet(Digit)
Alphas     == ToSet(Lower) \cup ToSet(Upper) \cup {"_"}
IdentChars == Alphas \cup Digits
Quotable   == Char \ {Quote}

Keywords == {"let", "print", "if", "repeat", "function", "end"}
Twofold  == [c \in {"=", "!", "<", ">"} |-> CASE c = "=" -> "==" [] c = "!" -> "!="
                                              [] c = "<" -> "<=" [] c = ">" -> ">="]
Pairs    == {<<c, "=">> : c \in DOMAIN Twofold}
Singles  == {"+", "-", "*", "/", "%", "(", ")", ",", "=", "<", ">"}

----------------------------------------------------------------------------
\* Where the run of characters of a class that starts at i stops, after limit
\* characters at the latest.  Mutant: the limit takes one character more.
RunEndLate(src, i, class, limit) ==
  Min({j \in i .. Len(src) + 1 : j > Len(src) \/ src[j] \notin class \/ j = i + limit + 1})
RunEnd(src, i, class, limit) ==
  Min({j \in i .. Len(src) + 1 : j > Len(src) \/ src[j] \notin class \/ j = i + limit})

\* katoi: the value of the digits in an int.
WrapInt(n) == ((n + IntWord \div 2) % IntWord) - IntWord \div 2
DigitOf(c) == (CHOOSE d \in 1 .. 10 : Digit[d] = c) - 1
Katoi(s)   ==
  LET upto[n \in 0 .. Len(s)] == IF n = 0 THEN 0 ELSE WrapInt(10 * upto[n - 1] + DigitOf(s[n]))
  IN  upto[Len(s)]

\* A token and the place behind it.
Scanned(token, to) == [token |-> token, to |-> to]

Number(src, i) ==
  LET to == RunEnd(src, i, Digits, MaxDigits)
  IN  Scanned([type |-> "number", num |-> Katoi(SubSeq(src, i, to - 1))], to)

\* string: a quote that is missing is not missed.
String(src, i) ==
  LET to == RunEnd(src, i + 1, Quotable, MaxStr)
  IN  Scanned([type |-> "string", text |-> SubSeq(src, i + 1, to - 1)],
              IF to <= Len(src) /\ src[to] = Quote THEN to + 1 ELSE to)

Identifier(src, i) ==
  LET to   == RunEnd(src, i, IdentChars, MaxName)
      name == Spelled(SubSeq(src, i, to - 1))
  IN  Scanned([type |-> IF name \in Keywords THEN "keyword" ELSE "ident", name |-> name], to)

Sign(src, i) ==
  IF i < Len(src) /\ <<src[i], src[i + 1]>> \in Pairs
  THEN Scanned([type |-> Twofold[src[i]]], i + 2)
  ELSE Scanned([type |-> IF src[i] \in Singles THEN src[i] ELSE "unknown"], i + 1)

\* next, from a place where no blank stands.
Scan(src, i) ==
  CASE src[i] \in Digits -> Number(src, i)
    [] src[i] = Quote    -> String(src, i)
    [] src[i] \in Alphas -> Identifier(src, i)
    [] OTHER             -> Sign(src, i)

\* skip_spaces.
PastBlanks(src, i) ==
  Min({j \in i .. Len(src) + 1 : j > Len(src) \/ src[j] \notin Blanks})

\* The tokens of a line with their places, up to the End of the lexer.
Scans(src) ==
  LET from[i \in 1 .. Len(src) + 1] ==
        LET at == PastBlanks(src, i)
        IN  IF at > Len(src) THEN <<>>
            ELSE LET s == Scan(src, at)
                 IN  <<[token |-> s.token, from |-> at, to |-> s.to]>> \o from[s.to]
  IN  from[1]

Tokens(src) == LET scans == Scans(src) IN [n \in DOMAIN scans |-> scans[n].token]
=============================================================================
