--------------------------- MODULE MCIfExpression ---------------------------
(***************************************************************************)
(* The instance of IfChecks: expressions of two operators, with macros     *)
(* that hold an operator, name each other or themselves, or take a value,  *)
(* with a line behind them that begins with a parenthesis; and every text  *)
(* of up to four words, over several lines, alone and as the rest of the   *)
(* file behind the parenthesis of a call.                                  *)
(***************************************************************************)
EXTENDS IfChecks

Macro(param, tree, parens) == [param |-> param, tree |-> tree, parens |-> parens]

MCNumbers == "0" :> 0 @@ "1" :> 1 @@ "2" :> 2 @@ "3" :> 3 @@ "max" :> 127 @@ "huge" :> 255
MCSupported == {<<"__has_builtin", "yes">>, <<"__has_include", "yes">>}

N(x) == Num(x)
M == Id("M")
V == Id("V")
Calls == {Call(Id("F"), <<e>>) : e \in {N("2"), M, Bin("+", N("1"), N("1"))}}
Defineds == {Pre("defined", M), Call(Id("defined"), <<V>>)}
MCProbes == {Call(Id(p), <<Id(a)>>) : p \in {"__has_builtin", "__has_include"}, a \in {"yes", "no"}}

BinaryOperators == {"||", "&&", "|", "^", "&", "==", "!=", "<", ">", "<=", ">=", "<<", ">>", "+", "-", "*", "/", "%"}
UnaryOperators == {"!", "~", "-", "+"}

\* Two binary operators in both orders; one from each level.
Levelled == {"||", "&&", "|", "^", "&", "==", "<", "<<", "-", "/", "%"}
Rows == {Bin(o, Bin(p, N("3"), N("2")), N("1")) : o \in BinaryOperators, p \in BinaryOperators}
Nested == {Bin(o, N(a), Bin(p, N("3"), N(b))) : o \in BinaryOperators, p \in Levelled, a \in {"0", "1"}, b \in {"0", "2"}}
Edges ==
  {Pre(u, Pre(w, N(a))) : u \in UnaryOperators, w \in UnaryOperators, a \in {"0", "2", "max"}}
  \cup {Bin(o, Bin("-", Pre("-", N("max")), N("1")), Pre("-", N("1"))) : o \in {"/", "%", "+"}}
  \cup {Pre("-", Bin("-", Pre("-", N("max")), N("1"))), Bin("+", N("max"), N("1")), N("huge")}
Conditionals ==
  {Cond(c, a, b) : c \in {V, N("2"), Bin("-", N("1"), N("1"))}, a \in {N("1"), Bin("/", N("3"), N("0")), Cond(N("0"), N("1"), N("2"))},
                   b \in {N("3"), Cond(V, N("1"), N("0"))}}
ClosedExpressions == Rows \cup Nested \cup Edges \cup Conditionals \cup MCProbes

Operands == {M, V, Pre("-", M)} \cup Calls \cup Defineds
Named ==
  {Bin(o, a, b) : o \in {"||", "&&", "-", "/"}, a \in Operands, b \in Operands}
  \cup {Bin(o, d, Bin("/", N("3"), x)) : o \in {"||", "&&"}, d \in Defineds, x \in {M, V}}
  \cup {Cond(a, b, N("3")) : a \in Operands, b \in Operands}
  \cup Operands \cup {Pre("!", Id("F")), Bin("-", N("3"), Id("F"))}

Bodies ==
  {Macro({}, t, FALSE) : t \in {N("2"), V, M, Call(Id("F"), <<N("1")>>)}}
  \cup {Macro({}, t, p) : t \in {Pre("-", N("2")), Bin("-", N("3"), N("1")), Bin("||", N("1"), Bin("/", N("1"), N("0"))),
                                  Cond(N("0"), N("1"), N("2"))},
                         p \in BOOLEAN}
Others == {Macro({}, t, FALSE) : t \in {N("0"), N("1"), Id("M")}}
Adds == Macro({"x"}, Bin("+", V, Id("x")), TRUE)
Functional == {Adds, Macro({"x"}, Bin("*", Id("x"), N("3")), TRUE), Macro({"x"}, Id("x"), FALSE)}

Environments ==
  {<<>>} \cup {"M" :> m @@ "F" :> f : m \in Bodies, f \in Functional}
         \cup {"M" :> m @@ "F" :> Adds @@ "V" :> v : m \in Bodies, v \in Others}
\* The line behind an expression begins with what would close a call.
NextLine == {<<EndOfLine, ")", "1">>}

UpTo4(words) == UNION {[1 .. n -> words] : n \in 0 .. 4}
Words == {"1", "(", ")", "-", "?", ":", EndOfLine}
ArgumentWords == {"1", "F", "(", ")", ",", "-", EndOfLine}
Texts == UpTo4(Words)
CallTexts == {<<"F", "(">> \o ts : ts \in UpTo4(ArgumentWords)}

MCInputs ==
  ({<<>>} \X ClosedExpressions \X NextLine) \cup (Environments \X Named \X NextLine)
  \cup ({<<>>} \X {Absent} \X Texts) \cup ({"F" :> Adds} \X {Absent} \X CallTexts)

\* Every expression has a derivation.
ASSUME /\ \A t \in ClosedExpressions : IsDerivation(LineOf(<<>>, t, <<EndOfLine>>))
       /\ LET env == "M" :> Macro({}, N("2"), TRUE) @@ "F" :> Macro({"x"}, Id("x"), FALSE)
          IN \A t \in Named : IsDerivation(LineOf(env, t, <<EndOfLine>>))
=============================================================================
