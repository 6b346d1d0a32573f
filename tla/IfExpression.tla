----------------------------- MODULE IfExpression -----------------------------
(***************************************************************************)
(* The expression of an #if in frontend/preprocessor.rs: the arithmetic    *)
(* and the operands of the grammar that IfReading reads.  A macro is an    *)
(* operand: its value is found by reading its expansion on its own.  The   *)
(* arithmetic here is meant for the constants of IfReading, Values for     *)
(* Ints, Calculated for Computed, CalculatedUnary for ComputedUnary, and   *)
(* Stops for Refused.                                                      *)
(***************************************************************************)
EXTENDS IfReading, SequencesExt, FiniteSets, Bitwise

CONSTANTS
  Numbers,   \* the value that each number is written with
  IntBits,   \* the width of a value, 64 in the code
  Supported  \* the pairs of a feature probe and its argument that are answered with 1

ASSUME IfExpressionAssumption == IntBits \in {2, 4, 8, 16}

Operators ==
  {"(", ")", ",", "?", ":", "||", "&&", "|", "^", "&", "==", "!=", "<", ">", "<=", ">=", "<<", ">>",
   "+", "-", "*", "/", "%", "!", "~", "\n"}
IsIdentifier(t) == t \notin Operators \cup DOMAIN Numbers
Probes == {"__has_attribute", "__has_builtin", "__has_feature", "__has_extension",
           "__has_include", "__has_include_next"}

\* A macro has no parameter list or one parameter, and a body of tokens.
IsFunctionLike(macro) == macro.param # {}

-----------------------------------------------------------------------------
(* Values are of type i64, here of IntBits bits; they wrap.                *)

Word == 2 ^ IntBits
Most == 2 ^ (IntBits - 1) - 1
Values == -Most - 1 .. Most
Wrapped(x) == ((x + Most + 1) % Word) - Most - 1
Unsigned(x) == x % Word
Truth(b) == IF b THEN 1 ELSE 0
Quotient(a, b) ==
  LET Size(x) == IF x < 0 THEN -x ELSE x
  IN IF (a < 0) = (b < 0) THEN Size(a) \div Size(b) ELSE -(Size(a) \div Size(b))

\* A number that does not fit reads as 0.
parse_int_literal(t) == IF Numbers[t] > Most THEN 0 ELSE Numbers[t]

Overflows(a, b) == a = -Most - 1 /\ b = -1
Calculated(op, a, b) ==
  CASE op = "|" -> Wrapped(Unsigned(a) | Unsigned(b))
    [] op = "^" -> Wrapped(Unsigned(a) ^^ Unsigned(b))
    [] op = "&" -> Wrapped(Unsigned(a) & Unsigned(b))
    [] op = "==" -> Truth(a = b)
    [] op = "!=" -> Truth(a # b)
    [] op = "<" -> Truth(a < b)
    [] op = ">" -> Truth(a > b)
    [] op = "<=" -> Truth(a <= b)
    [] op = ">=" -> Truth(a >= b)
    [] op = "<<" -> Wrapped(a * 2 ^ (b % IntBits))
    [] op = ">>" -> a \div 2 ^ (b % IntBits)
    [] op = "+" -> Wrapped(a + b)
    [] op = "-" -> Wrapped(a - b)
    [] op = "*" -> Wrapped(a * b)
    [] op = "/" -> Quotient(a, b)
    [] op = "%" -> a - b * Quotient(a, b)

CalculatedUnary(op, a) ==
  CASE op = "!" -> Truth(a = 0)
    [] op = "~" -> -a - 1
    [] op = "-" -> Wrapped(-a)
    [] op = "+" -> a

\* Division by zero is an error, and i64::MIN / -1 a panic.
Stops(op, a, b) ==
  IF op \notin {"/", "%"} THEN "ok" ELSE IF b = 0 THEN "error" ELSE IF Overflows(a, b) THEN "panic" ELSE "ok"

-----------------------------------------------------------------------------
(* Expansion of a macro's body (see MacroExpansion).                       *)

Depth(ts, i, j) ==
  LET Among(t) == Len(SelectSeq(SubSeq(ts, i, j), LAMBDA u : u = t)) IN Among("(") - Among(")")

\* The place of the parenthesis that closes the one at i, or the place behind the last token.
Closing(ts, i) == Min({j \in i .. Len(ts) : Depth(ts, i, j) = 0} \cup {Len(ts) + 1})

\* What the call whose parenthesis is at i gives to the parameter, as a set of at most one: the
\* tokens up to a comma or its closing parenthesis, on whatever lines they stand.  What neither
\* of these ends is dropped.
Given(ts, i) ==
  LET ends == {j \in i .. Len(ts) : Depth(ts, i, j) = 0 \/ (Depth(ts, i, j) = 1 /\ ts[j] = ",")}
  IN IF ends = {} THEN {} ELSE {SelectSeq(SubSeq(ts, i + 1, Min(ends) - 1), LAMBDA t : t # EndOfLine)}

\* A parameter to which nothing is given stays.
Substituted(macro, given) ==
  FlattenSeq([i \in DOMAIN macro.body |->
                IF macro.body[i] \in macro.param /\ given # {} THEN CHOOSE ts \in given : TRUE ELSE <<macro.body[i]>>])

\* hidden: the object-like macros whose expansion this is part of.
RECURSIVE expand_macro_tokens(_, _, _)
expand_macro_tokens(macros, ts, hidden) ==
  IF ts = <<>> THEN <<>> ELSE
  LET t == Head(ts)
      Rest(i) == expand_macro_tokens(macros, SubSeq(ts, i + 1, Len(ts)), hidden)
      called == Len(ts) > 1 /\ ts[2] = "("
      replaced == Substituted(macros[t], Given(ts, 2))
  IN CASE t \notin DOMAIN macros \ hidden -> <<t>> \o Rest(1)
       [] ~IsFunctionLike(macros[t]) -> expand_macro_tokens(macros, macros[t].body, hidden \cup {t}) \o Rest(1)
       [] called -> expand_macro_tokens(macros, replaced, hidden) \o Rest(Closing(ts, 2))
       [] OTHER -> <<t>> \o Rest(1)

-----------------------------------------------------------------------------
(* The operands.  chain: the macros whose values are being found.          *)

RECURSIVE operand_values(_, _, _)

\* Mutant: a macro that cannot be evaluated is 0.
eval_if_macro_tokens_zero(macros, name, ts, chain, next) ==
  CASE name \in chain -> Failed("endless")
    [] ts = <<>> -> Value(0, next)
    [] OTHER -> LET line == Append(ts, EndOfLine)
                    x == ReadAs(1, line, operand_values(macros, line, chain \cup {name}))
                IN IF x.st = "ok" THEN Value(x.value, next) ELSE Value(0, next)

\* A macro's expansion is an expression without ?: at its top; what follows the expression is
\* ignored.  A name that is left in it and that is a macro is expanded again.
eval_if_macro_tokens(macros, name, ts, chain, next) ==
  CASE name \in chain -> Failed("endless")
    [] ts = <<>> -> Value(0, next)
    [] OTHER -> LET line == Append(ts, EndOfLine)
                    x == ReadAs(1, line, operand_values(macros, line, chain \cup {name}))
                IN IF x.st = "ok" THEN Value(x.value, next) ELSE x

parse_defined(macros, ts, i) ==
  LET paren == ts[i + 1] = "("
      j == IF paren THEN i + 2 ELSE i + 1
  IN IF ~IsIdentifier(ts[j]) THEN Failed("error")
       ELSE Value(Truth(ts[j] \in DOMAIN macros), IF paren /\ ts[j + 1] = ")" THEN j + 2 ELSE j + 1)

parse_feature_probe(ts, i) ==
  IF ts[i + 1] = "(" /\ Len(ts) >= i + 3 /\ ts[i + 3] = ")"
    THEN Value(Truth(<<ts[i], ts[i + 2]>> \in Supported), i + 4) ELSE Failed("error")

\* A call that nothing closes takes the rest of the file with it.
parse_if_macro(macros, ts, i, chain) ==
  LET macro == macros[ts[i]]
      behind == Min({Closing(ts, i + 1) + 1, Len(ts)})
      Evaluated(body, next) ==
        eval_if_macro_tokens(macros, ts[i], expand_macro_tokens(macros, body, {}), chain, next)
  IN CASE ~IsFunctionLike(macro) -> Evaluated(macro.body, i + 1)
       [] ts[i + 1] = "(" -> Evaluated(Substituted(macro, Given(ts, i + 1)), behind)
       [] OTHER -> Value(1, i + 1)

parse_if_operand(macros, ts, i, chain) ==
  CASE ts[i] = "defined" -> parse_defined(macros, ts, i)
    [] ts[i] \in DOMAIN Numbers -> Value(parse_int_literal(ts[i]), i + 1)
    [] ts[i] \in Probes -> parse_feature_probe(ts, i)
    [] ts[i] \in DOMAIN macros -> parse_if_macro(macros, ts, i, chain)
    [] IsIdentifier(ts[i]) -> Value(0, i + 1)
    [] OTHER -> Failed("error")

operand_values(macros, ts, chain) == [i \in DOMAIN ts |-> parse_if_operand(macros, ts, i, chain)]

\* What parse_if_expression reads: the tokens of the file from the expression on, whose last
\* EndOfLine is the end of the file, and the outcomes of the operands in it.
ExpressionLine(macros, tokens) ==
  LET line == Append(tokens, EndOfLine)
  IN [tokens |-> line, operands |-> operand_values(macros, line, {})]
=============================================================================
