------------------------------ MODULE IfGrammar ------------------------------
(***************************************************************************)
(* What IfReading owes to a line: to read it as the grammar of ISO C (6.5, *)
(* 6.10.1) derives it.  A derivation is given with the line, as nodes that *)
(* each derive a part of its tokens from the nodes below them, and with    *)
(* what each node means: the set of the value that C gives it, which is    *)
(* empty where C gives it none.                                            *)
(***************************************************************************)
EXTENDS IfReading

CONSTANT Lines  \* records of tokens (those of the line, and behind them those of the rest of the file),
                \* the outcomes of the operands, nodes, and the root of the nodes

VARIABLES
  line,   \* the line that is read
  result  \* the set of the outcome, empty before

grammarVars == <<line, result>>

Init == line \in Lines /\ result = {}
Read ==
  /\ result = {}
  /\ result' = {ReadAs(Conditional, line.tokens, line.operands)}
  /\ UNCHANGED line
Spec == Init /\ [][Read]_grammarVars

-----------------------------------------------------------------------------
(* The arithmetic and the lines.                                           *)

BinaryOps == UNION {Levels[l] : l \in DOMAIN Levels}

ASSUME ArithmeticAssumption ==
  /\ {0, 1} \subseteq Ints
  /\ \A op \in BinaryOps, a, b \in Ints :
       Ends(op, a, b) = "ok" => Combined(op, a, b) \in Ints
  /\ \A op \in PrefixOps, a \in Ints : ComputedUnary(op, a) \in Ints

\* What can be read ends behind the place where it begins, and not behind the last place.
IsOutcomeOf(x, i, last) ==
  /\ x = Outcome(x.st, x.value, x.at)
  /\ x.value \in Ints
  /\ x.st = "ok" => x.at \in i + 1 .. last

IsLine(l) ==
  /\ l.tokens \in Seq(STRING) /\ l.tokens # <<>>
  /\ l.tokens[Len(l.tokens)] = EndOfLine
  /\ \A i \in DOMAIN l.tokens : IsOutcomeOf(l.operands[i], i, Len(l.tokens))

\* The place where the line ends.
LineEnd(l) ==
  CHOOSE i \in DOMAIN l.tokens : l.tokens[i] = EndOfLine /\ \A j \in 1 .. i - 1 : l.tokens[j] # EndOfLine

\* No operand on the line goes on behind it, as a call does that is not closed on the line.
OperandsEnd(l) ==
  \A i \in 1 .. LineEnd(l) : l.operands[i].st = "ok" => l.operands[i].at <= LineEnd(l)

ASSUME LinesAssumption == \A l \in Lines : IsLine(l)

-----------------------------------------------------------------------------
(* Derivations: 6.5.3 to 6.5.15, as far as an #if has them.                *)

\* The binary operators of 6.5.5 to 6.5.14.
Sections ==
  << {"*", "/", "%"}, {"+", "-"}, {"<<", ">>"}, {"<", ">", "<=", ">="}, {"==", "!="},
     {"&"}, {"^"}, {"|"}, {"&&"}, {"||"} >>

Kid(l, n, i) == l.nodes[l.nodes[n].kids[i]]
Below(l, n, i) == l.nodes[n].kids[i] \in {m \in DOMAIN l.nodes : m < n}

IsOperand(l, n) ==
  LET node == l.nodes[n]
      x == l.operands[node.first]
  IN /\ node.op = "operand" /\ node.level = UnaryOps + 1
     /\ l.tokens[node.first] \notin PrefixOps \cup {"("}
     /\ x.st = "ok" => node.behind = x.at
     /\ node.means \subseteq IF x.st = "ok" THEN {x.value} ELSE {}

IsParenthesized(l, n) ==
  LET node == l.nodes[n]
      inner == Kid(l, n, 1)
  IN /\ node.op = "()" /\ node.level = UnaryOps + 1 /\ Below(l, n, 1)
     /\ l.tokens[node.first] = "(" /\ inner.first = node.first + 1
     /\ l.tokens[inner.behind] = ")" /\ node.behind = inner.behind + 1
     /\ node.means \subseteq inner.means

IsUnary(l, n) ==
  LET node == l.nodes[n]
      x == Kid(l, n, 1)
  IN /\ node.op = "pre" /\ node.level = UnaryOps /\ Below(l, n, 1)
     /\ l.tokens[node.first] \in PrefixOps /\ x.first = node.first + 1
     /\ x.level >= UnaryOps /\ node.behind = x.behind
     /\ node.means \subseteq {ComputedUnary(l.tokens[node.first], a) : a \in x.means}

\* The right operand of && and || has a say only where the left one leaves it open.
Means(op, left, right) ==
  IF op = "||" THEN UNION {IF a # 0 THEN {1} ELSE {IF b # 0 THEN 1 ELSE 0 : b \in right} : a \in left}
  ELSE IF op = "&&" THEN UNION {IF a # 0 THEN {IF b # 0 THEN 1 ELSE 0 : b \in right} ELSE {0} : a \in left}
  ELSE {Computed(op, p[1], p[2]) : p \in {q \in left \X right : Refused(op, q[1], q[2]) = "ok"}}

IsBinary(l, n) ==
  LET node == l.nodes[n]
      left == Kid(l, n, 1)
      right == Kid(l, n, 2)
      op == l.tokens[left.behind]
  IN /\ node.op = "bin" /\ node.level \in DOMAIN Sections /\ Below(l, n, 1) /\ Below(l, n, 2)
     /\ op \in Sections[UnaryOps - node.level]
     /\ left.first = node.first /\ left.level >= node.level
     /\ right.first = left.behind + 1 /\ right.level > node.level
     /\ node.behind = right.behind
     /\ node.means \subseteq Means(op, left.means, right.means)

IsConditional(l, n) ==
  LET node == l.nodes[n]
      condition == Kid(l, n, 1)
      yes == Kid(l, n, 2)
      no == Kid(l, n, 3)
  IN /\ node.op = "cond" /\ node.level = Conditional /\ \A i \in 1 .. 3 : Below(l, n, i)
     /\ condition.first = node.first /\ condition.level > Conditional
     /\ l.tokens[condition.behind] = "?" /\ yes.first = condition.behind + 1
     /\ l.tokens[yes.behind] = ":" /\ no.first = yes.behind + 1
     /\ node.behind = no.behind
     /\ node.means \subseteq UNION {IF a # 0 THEN yes.means ELSE no.means : a \in condition.means}

\* The nodes derive the line from its first token to its last.
IsDerivation(l) ==
  /\ DOMAIN l.nodes \subseteq Nat /\ l.root \in DOMAIN l.nodes
  /\ \A n \in DOMAIN l.nodes :
       /\ l.nodes[n].first \in DOMAIN l.tokens /\ l.nodes[n].behind \in DOMAIN l.tokens
       /\ \/ IsOperand(l, n) \/ IsParenthesized(l, n) \/ IsUnary(l, n)
          \/ IsBinary(l, n) \/ IsConditional(l, n)
  /\ l.nodes[l.root].first = 1 /\ l.nodes[l.root].behind = LineEnd(l)

\* Neither equalities nor comparisons stand in a row without parentheses.
NoRows(l) ==
  \A n \in DOMAIN l.nodes :
    l.nodes[n].op = "bin" /\ l.nodes[n].level \in {Equality, Comparison} =>
      Kid(l, n, 1).level > l.nodes[n].level

IsReadAsC(l) == IsDerivation(l) /\ NoRows(l)

-----------------------------------------------------------------------------
(* Properties.                                                             *)

\* Whatever stands on a line, if it can be read then it ends in the file; and it ends on the line
\* itself unless one of the operands there does not.
TypeOK ==
  \A x \in result :
    IsOutcomeOf(x, 1, IF OperandsEnd(line) THEN LineEnd(line) ELSE Len(line.tokens))

\* A line with a value wherever C might want one is read to its end, and has that value.
ReadsAsDerived ==
  (IsReadAsC(line) /\ \A n \in DOMAIN line.nodes : line.nodes[n].means # {}) =>
    \A x \in result : x.st = "ok" /\ {x.value} = line.nodes[line.root].means

\* Whatever C leaves out, a line that can be read is read to its end, and has no other value than
\* that of C.
NoOtherValue ==
  IsReadAsC(line) =>
    \A x \in result :
      x.st = "ok" => x.at = LineEnd(line) /\ line.nodes[line.root].means \subseteq {x.value}
=============================================================================
