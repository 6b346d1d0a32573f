------------------------------- MODULE IfChecks -------------------------------
(***************************************************************************)
(* What an #if owes to its expression: the value that C gives it (6.10.1). *)
(* IfGrammar reads the lines that IfExpression makes of the texts of       *)
(* expressions, and texts that are no expressions.  The reference replaces *)
(* macros in the tree of an expression and takes the value of the result   *)
(* (CSyntax), which leaves out what && and || and ?: do not evaluate.      *)
(***************************************************************************)
EXTENDS IfExpression, IfGrammar, CSyntax

CONSTANTS
  Inputs  \* triples of macros, an expression and the tokens of the file behind it; the macros are a
          \* function from names to records of a parameter (a set of one, or none), a tree, and whether
          \* there are parentheses around it; an absent expression leaves what the tokens are

VARIABLES
  environment, expression  \* what is evaluated; the expression may be absent

ifVars == <<environment, expression, line, result>>

Body(macro) == IF macro.parens THEN <<"(">> \o Text(macro.tree) \o <<")">> ELSE Text(macro.tree)
Stored(env) == [x \in DOMAIN env |-> [param |-> env[x].param, body |-> Body(env[x])]]

-----------------------------------------------------------------------------
(* The line of a tree, with the derivation of its text.                    *)

IsDefined(t) == \/ t.op = "pre" /\ t.name = "defined"
                \/ t.op = "call" /\ t.kids[1].name = "defined"

GrammarLevel(t) ==
  CASE t.op = "cond" -> Conditional
    [] t.op = "bin" -> Level(t) - BinaryLevel("||") + 1
    [] t.op = "pre" /\ ~IsDefined(t) -> UnaryOps
    [] OTHER -> UnaryOps + 1

\* g, the nodes so far and the place behind them, with the nodes of tree t, which stands in
\* parentheses where the level asks for them.
RECURSIVE Derived(_, _, _, _)
Derived(l, g, t, level) ==
  LET own == GrammarLevel(t)
      Root(h) == Len(h.nodes)
      Meaning(h) == h.nodes[Root(h)].means
      Passed(h, n) == [h EXCEPT !.at = @ + n]
      Node(h, op, kids, means) ==
        [h EXCEPT !.nodes = Append(@, [op |-> op, level |-> IF op = "()" THEN UnaryOps + 1 ELSE own,
                                       kids |-> kids, first |-> g.at, behind |-> h.at, means |-> means])]
      operand == l.operands[g.at]
  IN CASE own < level ->
            LET x == Derived(l, Passed(g, 1), t, Conditional)
            IN Node(Passed(x, 1), "()", <<Root(x)>>, Meaning(x))
       [] own = Conditional ->
            LET x == Derived(l, g, t.kids[1], 1)
                y == Derived(l, Passed(x, 1), t.kids[2], Conditional)
                z == Derived(l, Passed(y, 1), t.kids[3], Conditional)
            IN Node(z, "cond", <<Root(x), Root(y), Root(z)>>,
                    UNION {IF v # 0 THEN Meaning(y) ELSE Meaning(z) : v \in Meaning(x)})
       [] own \in DOMAIN Sections ->
            LET x == Derived(l, g, t.kids[1], own)
                y == Derived(l, Passed(x, 1), t.kids[2], own + 1)
            IN Node(y, "bin", <<Root(x), Root(y)>>, Means(t.name, Meaning(x), Meaning(y)))
       [] own = UnaryOps ->
            LET x == Derived(l, Passed(g, 1), t.kids[1], UnaryOps)
            IN Node(x, "pre", <<Root(x)>>, {ComputedUnary(t.name, v) : v \in Meaning(x)})
       [] OTHER ->
            Node(Passed(g, Len(Text(t))), "operand", <<>>, IF operand.st = "ok" THEN {operand.value} ELSE {})

LineOf(env, t, rest) ==
  LET l == ExpressionLine(Stored(env), IF t = Absent THEN rest ELSE Text(t) \o rest)
      nodes == IF t = Absent THEN <<>> ELSE Derived(l, [nodes |-> <<>>, at |-> 1], t, Conditional).nodes
  IN l @@ [nodes |-> nodes, root |-> Len(nodes)]

IfLines == {LineOf(input[1], input[2], input[3]) : input \in Inputs}

-----------------------------------------------------------------------------
\* Init, for the lines of IfLines.
IfInit ==
  /\ \E input \in Inputs :
       /\ environment = input[1] /\ expression = input[2]
       /\ line = LineOf(input[1], input[2], input[3])
  /\ result = {}
Evaluate == Read /\ UNCHANGED <<environment, expression>>
IfSpec == IfInit /\ [][Evaluate]_ifVars

-----------------------------------------------------------------------------
(* The reference.                                                          *)

RECURSIVE Filled(_, _, _)
Filled(t, names, arg) ==
  IF t.op = "id" /\ t.name \in names THEN arg
    ELSE [t EXCEPT !.kids = [i \in DOMAIN @ |-> Filled(@[i], names, arg)]]

IsProbe(t) == t.op = "call" /\ t.kids[1].name \in Probes
Answer(b) == Num(IF b THEN "1" ELSE "0")

\* Macros are replaced, but not within themselves; names that are left are 0.
RECURSIVE Replaced(_, _, _)
Replaced(env, t, hidden) ==
  LET name == IF t.op = "call" THEN t.kids[1].name ELSE t.name
      macro == env[name]
      Inner(tree) == Replaced(env, tree, hidden \cup {name})
  IN CASE IsDefined(t) -> Answer(Last(t.kids).name \in DOMAIN env)
       [] IsProbe(t) -> Answer(<<name, t.kids[2].name>> \in Supported)
       [] t.op = "id" -> IF name \in DOMAIN env \ hidden /\ macro.param = {} THEN Inner(macro.tree) ELSE Num("0")
       [] t.op = "call" -> IF name \notin DOMAIN env THEN Absent ELSE Inner(Filled(macro.tree, macro.param, t.kids[2]))
       [] OTHER -> [t EXCEPT !.kids = [i \in DOMAIN @ |-> Replaced(env, @[i], hidden)]]

RECURSIVE Subtrees(_)
Subtrees(t) == {t} \cup UNION {Subtrees(t.kids[i]) : i \in DOMAIN t.kids}

\* The macros that a macro leads to.
RECURSIVE Leads(_, _)
Leads(env, names) ==
  LET more == names \cup {t.name : t \in {u \in UNION {Subtrees(env[x].tree) : x \in names} : u.op = "id"}}
      found == more \cap DOMAIN env
  IN IF found = names THEN names ELSE Leads(env, found)
NamesIn(env, t) == {u.name : u \in {v \in Subtrees(t) : v.op = "id"}} \cap DOMAIN env

Closed(t) == Level(t) >= UnaryLevel

\* A row of comparisons, or of equalities, without parentheses.
InARow(t) ==
  t.op = "bin" /\ t.kids[1].op = "bin" /\ BinaryLevel(t.name) \in {9, 10} /\ Level(t.kids[1]) = Level(t)

CalledNames(env) == {x \in DOMAIN env : env[x].param # {}}

\* Where the code reads an expression as C does: rows are left out, macros that are not one operand,
\* that lead to themselves, or that are called without parentheses, and numbers that do not fit.
TameTree(env, t) ==
  \A u \in Subtrees(t) :
    /\ ~InARow(u)
    /\ u.op = "num" => Numbers[u.name] <= Most
    /\ u.op = "call" => \A i \in DOMAIN u.kids : Closed(u.kids[i])
    /\ ~IsDefined(u) /\ ~IsProbe(u) =>
         \A i \in DOMAIN u.kids :
           u.kids[i].op = "id" => (u.op = "call" /\ i = 1) = (u.kids[i].name \in CalledNames(env))
TameMacro(env, x) ==
  /\ env[x].parens \/ Closed(env[x].tree)
  /\ TameTree(env, Expr(env[x].tree))
  /\ x \notin Leads(env, NamesIn(env, env[x].tree))
Tame(env, t) == TameTree(env, Expr(t)) /\ \A x \in Leads(env, NamesIn(env, t)) : TameMacro(env, x)

\* What can be evaluated fits, and shifts are by less than the width.
Fitting(t) ==
  \A u \in Subtrees(t) :
    /\ \A v \in Constant(u, Numbers, <<>>) : v \in -Most .. Most
    /\ (u.op = "bin" /\ u.name \in {"<<", ">>"}) => \A v \in Constant(u.kids[2], Numbers, <<>>) : v < IntBits

DividesByZero(t) ==
  \E u \in Subtrees(t) : u.op = "bin" /\ u.name \in {"/", "%"} /\ Constant(u.kids[2], Numbers, <<>>) = {0}

meaning == Replaced(environment, expression, {})
IsTame == Tame(environment, expression) /\ Fitting(meaning)

-----------------------------------------------------------------------------
\* A tame expression that C gives a value, wherever it is evaluated or not, gets that value, and
\* nothing on its line is ignored.
EvaluatesAsC ==
  \A r \in result :
    (IsTame /\ \A u \in Subtrees(meaning) : Constant(u, Numbers, <<>>) # {}) =>
      /\ r.st = "ok" /\ {r.value} = Constant(meaning, Numbers, <<>>)
      /\ r.at = Len(Text(expression)) + 1

\* A tame expression is never taken for another value than that of C: what && and || and ?: do not
\* evaluate may at most make it an error, if it divides by zero.
RefusesOrAgrees ==
  \A r \in result :
    (IsTame /\ Constant(meaning, Numbers, <<>>) # {}) =>
      IF r.st = "ok" THEN {r.value} = Constant(meaning, Numbers, <<>>)
        ELSE r.st = "error" /\ DividesByZero(meaning)
=============================================================================
