------------------------------ MODULE CSyntax ------------------------------
(***************************************************************************)
(* Programs of C as trees, and the text of a tree: the grammar of ISO C    *)
(* (6.5, 6.7, 6.8), with parentheses where the grammar needs them and      *)
(* nowhere else.  The reference that the parser is compared with.          *)
(***************************************************************************)
EXTENDS Integers, Sequences, SequencesExt, Bitwise, TLC

Tree(op, name, kids) == [op |-> op, name |-> name, kids |-> kids]

Absent      == Tree("absent", "", <<>>)
Id(x)       == Tree("id", x, <<>>)
Num(t)      == Tree("num", t, <<>>)
Bin(o, a, b)    == Tree("bin", o, <<a, b>>)
Pre(o, a)       == Tree("pre", o, <<a>>)
Cond(c, a, b)   == Tree("cond", "", <<c, a, b>>)
Assign(o, a, b) == Tree("assign", o, <<a, b>>)
Comma(a, b)     == Tree("comma", "", <<a, b>>)
Call(f, args)   == Tree("call", "", <<f>> \o args)
Index(a, i)     == Tree("index", "", <<a, i>>)
Member(o, a, f) == Tree("member", o, <<a, Id(f)>>)
Cast(t, a)      == Tree("cast", t, <<a>>)
SizeofExpr(a)   == Tree("sizeof", "", <<a>>)
SizeofType(t)   == Tree("sizeof", t, <<>>)
Literal(t, es)  == Tree("literal", t, es)

Expr(e)       == Tree("expr", "", <<e>>)
Return(e)     == Tree("return", "", <<e>>)
Block(items)  == Tree("block", "", items)
If(c, a)      == Tree("if", "", <<c, a>>)
IfElse(c, a, b)  == Tree("if", "", <<c, a, b>>)
While(c, a)      == Tree("while", "", <<c, a>>)
Do(a, c)         == Tree("do", "", <<a, c>>)
For(i, c, n, a)  == Tree("for", "", <<i, c, n, a>>)
Switch(c, a)     == Tree("switch", "", <<c, a>>)
Case(e)          == Tree("case", "", <<e>>)
CaseRange(e, f)  == Tree("case", "", <<e, f>>)
Default          == Tree("default", "", <<>>)
Label(l, a)      == Tree("label", l, <<a>>)
Goto(l)          == Tree("goto", l, <<>>)
Break            == Tree("break", "", <<>>)
Continue         == Tree("continue", "", <<>>)
Empty            == Tree("empty", "", <<>>)

\* Types that are written with several words.
Words2 ==
  "struct s" :> <<"struct", "s">> @@ "struct t" :> <<"struct", "t">> @@ "static int" :> <<"static", "int">>
  @@ "static inline int" :> <<"static", "inline", "int">> @@ "static char" :> <<"static", "char">>
  @@ "static struct s" :> <<"static", "struct", "s">>
Spelled(t) == IF t \in DOMAIN Words2 THEN Words2[t] ELSE <<t>>

\* A declaration of base type t; the declarators are of names, pointers and arrays.
Decl(t, ds)     == Tree("decl", t, ds)
Name(x)         == Tree("name", x, <<>>)
Pointer(d)      == Tree("pointer", "", <<d>>)
Array(d, e)     == Tree("array", "", <<d, e>>)
InitOf(d, e)     == Tree("init", "", <<d, e>>)
InitList(es)    == Tree("list", "", es)
Field(f, e)     == Tree("field", f, <<e>>)  \* the value of one member in a list
Function(t, f, params, body) == Tree("function", t, <<Name(f), Tree("params", "", params), body>>)
Prototype(t, f, params) == Function(t, f, params, Absent)
Callback(f, params) == Tree("callback", f, params)  \* a pointer to a function
Typedef(t, d)   == Tree("typedef", t, <<d>>)
Param(t, ds)    == Tree("param", t, ds)
Struct(tag, members) == Tree("struct", tag, members)
Bits(d, e)      == Tree("bits", "", <<d, e>>)
Enum(cs)        == Tree("enum", "", cs)
Enumerator(x, e) == Tree("enumerator", x, e)  \* e: no expression, or one

-----------------------------------------------------------------------------
(* The values of constant expressions (6.6), as far as they fit a word.    *)

Holds(b) == IF b THEN 1 ELSE 0
Towards0(a, b) ==
  LET Size(x) == IF x < 0 THEN -x ELSE x
  IN IF (a < 0) = (b < 0) THEN Size(a) \div Size(b) ELSE -(Size(a) \div Size(b))

\* The sets of values of an operator that is undefined are empty.
Apply(o, a, b) ==
  CASE o = "+" -> {a + b}
    [] o = "-" -> {a - b}
    [] o = "*" -> {a * b}
    [] o = "/" -> IF b = 0 THEN {} ELSE {Towards0(a, b)}
    [] o = "%" -> IF b = 0 THEN {} ELSE {a - b * Towards0(a, b)}
    [] o = "<<" -> IF b < 0 \/ a < 0 THEN {} ELSE {a * 2 ^ b}
    [] o = ">>" -> IF b < 0 \/ a < 0 THEN {} ELSE {a \div 2 ^ b}
    [] o \in {"&", "|", "^"} ->
         IF a < 0 \/ b < 0 THEN {} ELSE {CASE o = "&" -> a & b [] o = "|" -> a | b [] o = "^" -> a ^^ b}
    [] o = "==" -> {Holds(a = b)}
    [] o = "!=" -> {Holds(a # b)}
    [] o = "<" -> {Holds(a < b)}
    [] o = ">" -> {Holds(a > b)}
    [] o = "<=" -> {Holds(a <= b)}
    [] o = ">=" -> {Holds(a >= b)}

ApplyPre(o, a) ==
  CASE o = "-" -> -a
    [] o = "+" -> a
    [] o = "~" -> -a - 1
    [] o = "!" -> Holds(a = 0)

\* What numbers and names stand for is given by functions.
RECURSIVE Constant(_, _, _)
Constant(t, numbers, names) ==
  LET V(i) == Constant(t.kids[i], numbers, names)
  IN CASE t.op = "num" -> {numbers[t.name]}
       [] t.op = "id" -> IF t.name \in DOMAIN names THEN names[t.name] ELSE {}
       [] t.op = "pre" -> {ApplyPre(t.name, a) : a \in V(1)}
       [] t.op = "bin" /\ t.name = "&&" ->
            UNION {IF a = 0 THEN {0} ELSE {Holds(b # 0) : b \in V(2)} : a \in V(1)}
       [] t.op = "bin" /\ t.name = "||" ->
            UNION {IF a # 0 THEN {1} ELSE {Holds(b # 0) : b \in V(2)} : a \in V(1)}
       [] t.op = "bin" -> UNION {Apply(t.name, a, b) : a \in V(1), b \in V(2)}
       [] t.op = "cond" -> UNION {IF a # 0 THEN V(2) ELSE V(3) : a \in V(1)}
       [] OTHER -> {}

-----------------------------------------------------------------------------
BinaryLevel(o) ==
  CASE o = "||" -> 4  [] o = "&&" -> 5  [] o = "|" -> 6  [] o = "^" -> 7  [] o = "&" -> 8
    [] o \in {"==", "!="} -> 9
    [] o \in {"<", ">", "<=", ">="} -> 10
    [] o \in {"<<", ">>"} -> 11
    [] o \in {"+", "-"} -> 12
    [] o \in {"*", "/", "%"} -> 13

\* How tightly an expression holds together.
CastLevel    == 14
UnaryLevel   == 15
PostfixLevel == 16
Level(t) ==
  CASE t.op = "comma" -> 1
    [] t.op = "assign" -> 2
    [] t.op = "cond" -> 3
    [] t.op = "bin" -> BinaryLevel(t.name)
    [] t.op = "cast" -> CastLevel
    [] t.op \in {"pre", "sizeof"} -> UnaryLevel
    [] t.op \in {"call", "index", "member", "literal"} -> PostfixLevel
    [] OTHER -> PostfixLevel + 1

Separated(texts, sep) ==
  FlattenSeq([i \in DOMAIN texts |-> IF i = 1 THEN texts[i] ELSE <<sep>> \o texts[i]])

\* An if without else in front of an else, which the text would give the else.
RECURSIVE OpenIf(_), DanglingElse(_)
OpenIf(t) ==
  \/ t.op = "if" /\ (Len(t.kids) = 2 \/ OpenIf(t.kids[3]))
  \/ t.op \in {"while", "for", "label"} /\ OpenIf(t.kids[Len(t.kids)])
DanglingElse(t) ==
  \/ t.op = "if" /\ Len(t.kids) = 3 /\ OpenIf(t.kids[2])
  \/ \E i \in DOMAIN t.kids : DanglingElse(t.kids[i])

RECURSIVE Text(_)

\* An operand that must hold together as tightly as the level says.
Operand(t, level) == IF Level(t) < level THEN <<"(">> \o Text(t) \o <<")">> ELSE Text(t)

ExpressionText(t) ==
  LET k == t.kids
  IN CASE t.op \in {"id", "num"} -> <<t.name>>
       [] t.op = "bin" -> Operand(k[1], Level(t)) \o <<t.name>> \o Operand(k[2], Level(t) + 1)
       [] t.op = "pre" ->
            <<t.name>> \o Operand(k[1], IF t.name \in {"++", "--"} THEN UnaryLevel ELSE CastLevel)
       [] t.op = "cond" -> Operand(k[1], 4) \o <<"?">> \o Text(k[2]) \o <<":">> \o Operand(k[3], 3)
       [] t.op = "assign" -> Operand(k[1], UnaryLevel) \o <<t.name>> \o Operand(k[2], 2)
       [] t.op = "comma" -> Operand(k[1], 1) \o <<",">> \o Operand(k[2], 2)
       [] t.op = "call" ->
            Operand(k[1], PostfixLevel) \o <<"(">>
              \o Separated([i \in DOMAIN Tail(k) |-> Operand(k[i + 1], 2)], ",") \o <<")">>
       [] t.op = "index" -> Operand(k[1], PostfixLevel) \o <<"[">> \o Text(k[2]) \o <<"]">>
       [] t.op = "member" -> Operand(k[1], PostfixLevel) \o <<t.name, k[2].name>>
       [] t.op = "cast" -> <<"(">> \o Spelled(t.name) \o <<")">> \o Operand(k[1], CastLevel)
       [] t.op = "sizeof" -> IF k = <<>> THEN <<"sizeof", "(">> \o Spelled(t.name) \o <<")">>
                               ELSE <<"sizeof">> \o Operand(k[1], UnaryLevel)
       [] t.op = "literal" -> <<"(">> \o Spelled(t.name) \o <<")">> \o Text(InitList(k))

StatementText(t) ==
  LET k == t.kids
  IN CASE t.op = "expr" -> Text(k[1]) \o <<";">>
       [] t.op = "return" -> <<"return">> \o Text(k[1]) \o <<";">>
       [] t.op = "block" -> <<"{">> \o FlattenSeq([i \in DOMAIN k |-> Text(k[i])]) \o <<"}">>
       [] t.op = "if" ->
            <<"if", "(">> \o Text(k[1]) \o <<")">> \o Text(k[2])
              \o IF Len(k) = 3 THEN <<"else">> \o Text(k[3]) ELSE <<>>
       [] t.op \in {"while", "switch"} -> <<t.op, "(">> \o Text(k[1]) \o <<")">> \o Text(k[2])
       [] t.op = "do" -> <<"do">> \o Text(k[1]) \o <<"while", "(">> \o Text(k[2]) \o <<")", ";">>
       [] t.op = "for" ->
            <<"for", "(">> \o Text(k[1]) \o (IF k[1].op = "decl" THEN <<>> ELSE <<";">>)
              \o Text(k[2]) \o <<";">> \o Text(k[3]) \o <<")">> \o Text(k[4])
       [] t.op = "case" ->
            <<"case">> \o Text(k[1])
              \o (IF Len(k) = 2 THEN <<"...">> \o Text(k[2]) ELSE <<>>) \o <<":">>
       [] t.op = "default" -> <<"default", ":">>
       [] t.op = "label" -> <<t.name, ":">> \o Text(k[1])
       [] t.op = "goto" -> <<"goto", t.name, ";">>
       [] t.op \in {"break", "continue"} -> <<t.op, ";">>
       [] t.op = "empty" -> <<";">>

\* An array of pointers is written without parentheses, a pointer to an array with them.
DeclarationText(t) ==
  LET k == t.kids
  IN CASE t.op = "name" -> <<t.name>>
       [] t.op = "pointer" -> <<"*">> \o Text(k[1])
       [] t.op = "array" ->
            (IF k[1].op = "pointer" THEN <<"(">> \o Text(k[1]) \o <<")">> ELSE Text(k[1]))
              \o <<"[">> \o Text(k[2]) \o <<"]">>
       [] t.op = "init" ->
            Text(k[1]) \o <<"=">> \o (IF k[2].op = "list" THEN Text(k[2]) ELSE Operand(k[2], 2))
       [] t.op = "list" ->
            <<"{">> \o Separated([i \in DOMAIN k |-> IF k[i].op \in {"list", "field"} THEN Text(k[i])
                                                       ELSE Operand(k[i], 2)], ",") \o <<"}">>
       [] t.op = "field" -> <<".", t.name, "=">> \o Operand(k[1], 2)
       [] t.op = "decl" -> Spelled(t.name) \o Separated([i \in DOMAIN k |-> Text(k[i])], ",") \o <<";">>
       [] t.op = "struct" ->
            <<"struct", t.name, "{">> \o FlattenSeq([i \in DOMAIN k |-> Text(k[i])]) \o <<"}", ";">>
       [] t.op = "bits" -> Text(k[1]) \o <<":">> \o Operand(k[2], 3)
       [] t.op = "enum" ->
            <<"enum", "{">> \o Separated([i \in DOMAIN k |-> Text(k[i])], ",") \o <<"}", ";">>
       [] t.op = "enumerator" ->
            <<t.name>> \o (IF k = <<>> THEN <<>> ELSE <<"=">> \o Operand(k[1], 3))
       [] t.op = "typedef" -> <<"typedef", t.name>> \o Text(k[1]) \o <<";">>
       [] t.op = "param" -> Spelled(t.name) \o FlattenSeq([i \in DOMAIN k |-> Text(k[i])])
       [] t.op = "params" ->
            IF k = <<>> THEN <<"void">> ELSE Separated([i \in DOMAIN k |-> Text(k[i])], ",")
       [] t.op = "function" ->
            Spelled(t.name) \o Text(k[1]) \o <<"(">> \o Text(k[2]) \o <<")">>
              \o IF k[3] = Absent THEN <<";">> ELSE Text(k[3])
       [] t.op = "callback" ->
            <<"(", "*", t.name, ")", "(">> \o Separated([i \in DOMAIN k |-> Text(k[i])], ",") \o <<")">>

Text(t) ==
  CASE t.op = "absent" -> <<>>
    [] t.op \in {"id", "num", "bin", "pre", "cond", "assign", "comma", "call", "index", "member",
                 "cast", "sizeof", "literal"} -> ExpressionText(t)
    [] t.op \in {"name", "pointer", "array", "init", "list", "field", "decl", "typedef", "param", "params", "callback",
                 "struct", "bits", "enum", "enumerator", "function"} -> DeclarationText(t)
    [] OTHER -> StatementText(t)
=============================================================================
