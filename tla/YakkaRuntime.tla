---------------------------- MODULE YakkaRuntime ----------------------------
(***************************************************************************)
(* The state a Yakka program works on, src/yakka/runtime/runtime.cpp: the  *)
(* table of variables, the table of functions and what has been printed;   *)
(* and the values of src/yakka/parser/parser.cpp.                          *)
(*                                                                         *)
(* Slots are taken from the lowest and never given back, so a table is the *)
(* sequence of its used slots.  A line is a record whose kind is the word  *)
(* it starts with; its text is abstracted to its name and expression.      *)
(***************************************************************************)
EXTENDS Integers, SequencesExt

CONSTANTS MaxVars,       \* MAX_VARS
          MaxFuncs,      \* MAX_FUNCS
          MaxFuncLines,  \* MAX_FUNC_LINES
          MaxOut         \* bound on what is printed; no program checked reaches it

VARIABLES vars,          \* variables: sequence of [name, value]
          funcs,         \* functions: sequence of [name, lines, body]
          out            \* values printed and names of functions not found

runtime == <<vars, funcs, out>>

----------------------------------------------------------------------------
(* Values and expressions.                                                 *)

Number(n)  == [type |-> "number", num |-> n, str |-> ""]
String(s)  == [type |-> "string", num |-> 0, str |-> s]
None       == [type |-> "none", num |-> 0, str |-> ""]

Truthy(v) == CASE v.type = "number" -> v.num # 0
               [] v.type = "string" -> v.str # ""
               [] OTHER             -> FALSE

\* The slots of a table that hold a name; the code takes the first.
SlotsOf(table, name) == {s \in DOMAIN table : table[s].name = name}
Slot(table, name)    == Min(SlotsOf(table, name))

\* runtime_get_variable, with the 0 parse_primary gives an unset variable.
Read(name) == IF SlotsOf(vars, name) = {} THEN Number(0)
                                          ELSE vars[Slot(vars, name)].value

\* parse_expression on the expressions of the programs checked: a constant, a
\* variable, a sum or a comparison of numbers, or none (a bare print).
Const(v)      == [op |-> "const", value |-> v]
Var(x)        == [op |-> "var", name |-> x]
Plus(e, n)    == [op |-> "plus", left |-> e, right |-> n]
Greater(e, n) == [op |-> "greater", left |-> e, right |-> n]

Atom(e) == IF e.op = "var" THEN Read(e.name) ELSE e.value

Eval(e) ==
  CASE e.op = "plus"    -> Number(Atom(e.left).num + e.right)
    [] e.op = "greater" -> Number(IF Atom(e.left).num > e.right THEN 1 ELSE 0)
    [] OTHER            -> Atom(e)

----------------------------------------------------------------------------
(* Lines.                                                                  *)

Let(x, e)      == [kind |-> "let", name |-> x, expr |-> e]
Show(e)        == [kind |-> "print", expr |-> e]
If(e)          == [kind |-> "if", expr |-> e]
Repeat(e)      == [kind |-> "repeat", expr |-> e]
FunctionOf(f)  == [kind |-> "function", name |-> f]
Call(f)        == [kind |-> "call", name |-> f]
End            == [kind |-> "end"]
Blank          == [kind |-> "blank"]
Comment        == [kind |-> "comment"]
Command        == [kind |-> "run"]

\* Everything a value, an expression and a line can be.
Values == [type : {"number", "string", "none"}, num : Int, str : STRING]
Atoms  == [op : {"const"}, value : Values] \cup [op : {"var"}, name : STRING]
Exprs  == Atoms \cup [op : {"plus", "greater"}, left : Atoms, right : Int]
Lines  == [kind : {"let"}, name : STRING, expr : Exprs]
            \cup [kind : {"print", "if", "repeat"}, expr : Exprs]
            \cup [kind : {"function", "call"}, name : STRING]
            \cup [kind : {"end", "blank", "comment", "run"}]

----------------------------------------------------------------------------
(* Operations.                                                             *)

RuntimeInit == vars = <<>> /\ funcs = <<>> /\ out = <<>>

\* runtime_set_variable.  A new name finds no slot when the table is full.
SetVariable(name, value) ==
  vars' = IF SlotsOf(vars, name) # {} THEN [vars EXCEPT ![Slot(vars, name)].value = value]
          ELSE IF Len(vars) < MaxVars THEN Append(vars, [name |-> name, value |-> value])
          ELSE vars

\* A body with the first n of some lines copied over it.
Overwritten(body, lines, n) ==
  [j \in 1 .. MaxFuncLines |-> IF j <= n THEN lines[j] ELSE body[j]]

\* The number of lines a function keeps of count lines.  Mutant: all are counted.
CountsAll(count) == count
Kept(count)      == IF count < MaxFuncLines THEN count ELSE MaxFuncLines

\* runtime_define_function.  Lines behind the new ones keep the old text.
DefineFunction(name, lines) ==
  LET n      == Kept(Len(lines))
      unused == [j \in 1 .. MaxFuncLines |-> Blank]
  IN  funcs' = IF SlotsOf(funcs, name) # {}
               THEN LET s == Slot(funcs, name)
                    IN  [funcs EXCEPT ![s].lines = n, ![s].body = Overwritten(@, lines, n)]
               ELSE IF Len(funcs) < MaxFuncs
               THEN Append(funcs, [name |-> name, lines |-> n,
                                   body |-> Overwritten(unused, lines, n)])
               ELSE funcs

\* runtime_print_value, and the message of call_builtin for an unknown name.
Printed(item) ==
  /\ Len(out) < MaxOut
  /\ out' = Append(out, item)
=============================================================================
