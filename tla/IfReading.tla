------------------------------ MODULE IfReading ------------------------------
(***************************************************************************)
(* The grammar of an #if's expression in frontend/preprocessor.rs: the     *)
(* parse functions from ?: down to the unary operators and parentheses,    *)
(* which read and evaluate in one go.  What stands between the operators,  *)
(* operands, and the arithmetic are given (see IfExpression).  White space *)
(* is left out: it is skipped in front of every token.  The tokens are     *)
(* those of the file from the expression on.  Every line of it ends in     *)
(* EndOfLine, and the last EndOfLine stands for the end of the file.       *)
(***************************************************************************)
EXTENDS Integers, Sequences

CONSTANTS
  Ints,                 \* what a value can be, 0 and 1 among them
  Computed(_, _, _),    \* the value of a binary operator, other than || and &&, and two values
  ComputedUnary(_, _),  \* the value of a unary operator and a value
  Refused(_, _, _)      \* "ok", or what two values of a binary operator end the reading with

EndOfLine == "\n"

(***************************************************************************)
(* The outcome of reading an expression: a value and the place behind it,  *)
(* an error, a panic (i64::MIN / -1), or no end (the stack overflows).     *)
(***************************************************************************)
Outcome(st, value, at) == [st |-> st, value |-> value, at |-> at]
Value(value, at) == Outcome("ok", value, at)
Failed(st) == Outcome(st, 0, 0)

\* Mutant: & holds tighter than ==.
Levels_and ==
  << {"||"}, {"&&"}, {"|"}, {"^"}, {"=="}, {"&", "!="}, {"<", ">", "<=", ">="}, {"<<", ">>"},
     {"+", "-"}, {"*", "/", "%"} >>

\* The binary operators from the loosest to the tightest: parse_if_or, parse_if_and, ...,
\* parse_if_multiplicative.  A conditional is of level 0, a unary operator of UnaryOps.
Levels ==
  << {"||"}, {"&&"}, {"|"}, {"^"}, {"&"}, {"==", "!="}, {"<", ">", "<=", ">="}, {"<<", ">>"},
     {"+", "-"}, {"*", "/", "%"} >>
Conditional == 0
Equality == 6
Comparison == 7
UnaryOps == 11
PrefixOps == {"!", "~", "-", "+"}

\* Both operands of || and && have been evaluated.
Combined(op, a, b) ==
  IF op = "||" THEN (IF a # 0 \/ b # 0 THEN 1 ELSE 0)
  ELSE IF op = "&&" THEN (IF a # 0 /\ b # 0 THEN 1 ELSE 0)
  ELSE Computed(op, a, b)
Ends(op, a, b) == IF op \in {"||", "&&"} THEN "ok" ELSE Refused(op, a, b)

Operated(op, left, right) ==
  IF right.st # "ok" THEN right
  ELSE IF Ends(op, left.value, right.value) # "ok" THEN Failed(Ends(op, left.value, right.value))
  ELSE Value(Combined(op, left.value, right.value), right.at)

-----------------------------------------------------------------------------
(* The parse functions call each other through read, which has the outcome *)
(* of every part of the line: what a level reads from a place on, where    *)
(* left has the value of what it has read in front of the place, if any.   *)

Part(level, at, left) == [level |-> level, at |-> at, left |-> left]
Parts(tokens) == [level : Conditional .. UnaryOps, at : DOMAIN tokens, left : SUBSET Ints]
From(level, at) == Part(level, at, {})
Behind(level, left) == Part(level, left.at, {left.value})

\* Mutant: the closing parenthesis may stand on the next line.
parse_if_primary_next(read, tokens, operands, i) ==
  LET inner == read[From(Conditional, i + 1)]
      at == IF tokens[inner.at] = EndOfLine /\ inner.at < Len(tokens) THEN inner.at + 1 ELSE inner.at
  IN IF tokens[i] # "(" THEN operands[i]
     ELSE IF inner.st # "ok" THEN inner
     ELSE IF tokens[at] # ")" THEN Failed("error")
     ELSE Value(inner.value, at + 1)

parse_if_primary(read, tokens, operands, i) ==
  LET inner == read[From(Conditional, i + 1)]
  IN IF tokens[i] # "(" THEN operands[i]
     ELSE IF inner.st # "ok" THEN inner
     ELSE IF tokens[inner.at] # ")" THEN Failed("error")
     ELSE Value(inner.value, inner.at + 1)

parse_if_unary(read, tokens, operands, i) ==
  LET x == read[From(UnaryOps, i + 1)]
  IN IF tokens[i] \notin PrefixOps THEN parse_if_primary(read, tokens, operands, i)
     ELSE IF x.st # "ok" THEN x
     ELSE Value(ComputedUnary(tokens[i], x.value), x.at)

\* The first operand of a level, and what the loop over its operators makes of it.
parse_if_binary(read, level, i) ==
  LET first == read[From(level + 1, i)]
  IN IF first.st # "ok" THEN first ELSE read[Behind(level, first)]

\* Mutant: a row is read from the right at every level.
RightLevel_same(level) == level

\* The right operand of an equality is an equality.
RightLevel(level) == IF level = Equality THEN level ELSE level + 1

\* One turn of the loop; there is no loop over equalities, and none over comparisons.
parse_if_operators(read, tokens, level, left) ==
  LET right == read[From(RightLevel(level), left.at + 1)]
      both == Operated(tokens[left.at], left, right)
  IN IF tokens[left.at] \notin Levels[level] THEN left
     ELSE IF both.st # "ok" \/ level \in {Equality, Comparison} THEN both
     ELSE read[Behind(level, both)]

\* Mutant: the place is put back to the beginning.
parse_if_conditional_back(read, tokens, i) ==
  LET condition == read[From(1, i)]
      yes == read[From(Conditional, condition.at + 1)]
      no == read[From(Conditional, yes.at + 1)]
  IN IF condition.st # "ok" THEN condition
     ELSE IF tokens[condition.at] # "?" THEN condition
     ELSE IF yes.st # "ok" THEN yes
     ELSE IF tokens[yes.at] # ":" THEN Failed("error")
     ELSE IF no.st # "ok" THEN no
     ELSE Value(IF condition.value # 0 THEN yes.value ELSE no.value, i)

\* Both alternatives are read and evaluated.
parse_if_conditional(read, tokens, i) ==
  LET condition == read[From(1, i)]
      yes == read[From(Conditional, condition.at + 1)]
      no == read[From(Conditional, yes.at + 1)]
  IN IF condition.st # "ok" THEN condition
     ELSE IF tokens[condition.at] # "?" THEN condition
     ELSE IF yes.st # "ok" THEN yes
     ELSE IF tokens[yes.at] # ":" THEN Failed("error")
     ELSE IF no.st # "ok" THEN no
     ELSE Value(IF condition.value # 0 THEN yes.value ELSE no.value, no.at)

parse_if(read, tokens, operands, part) ==
  IF part.level = Conditional THEN parse_if_conditional(read, tokens, part.at)
  ELSE IF part.level = UnaryOps THEN parse_if_unary(read, tokens, operands, part.at)
  ELSE IF part.left = {} THEN parse_if_binary(read, part.level, part.at)
  ELSE parse_if_operators(read, tokens, part.level, Value(CHOOSE v \in part.left : TRUE, part.at))

\* operands[i] is the outcome of reading what stands at place i, where it is no operator and no
\* parenthesis.
Reading(tokens, operands) ==
  LET read[part \in Parts(tokens)] == parse_if(read, tokens, operands, part)
  IN read

\* What level reads from the beginning on.
ReadAs(level, tokens, operands) == Reading(tokens, operands)[From(level, 1)]
=============================================================================
