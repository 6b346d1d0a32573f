------------------------------ MODULE MCParser ------------------------------
(* Small programs of every form the parser knows, and short runs of tokens. *)
EXTENDS ParserChecks

Digits == <<"0", "1", "2", "3">>
MCLiterals ==
  [t \in {"0", "1", "2", "3", "'c'", "\"s\""} |->
     CASE t = "'c'" -> [kind |-> "CharConstant", value |-> 99]
       [] t = "\"s\"" -> [kind |-> "StringLiteral", value |-> 0]
       [] OTHER -> [kind |-> "IntConstant", value |-> (CHOOSE i \in DOMAIN Digits : Digits[i] = t) - 1]]

\* Statements in a function.
InFunction(body) == <<Function("int", "f", <<>>, Block(body))>>

A == Id("a")
N == Num("1")
Atoms == {A, N}

\* Expressions of one operator over expressions E, one of its operands from F.
OverE(E, F) ==
  {Bin(o, x, y) : o \in {"+", "*", "<", "&&"}, x \in E, y \in F}
  \cup {Bin(o, y, x) : o \in {"-", "+", "*", "<", "&"}, x \in E, y \in F}
  \cup {Pre(o, x) : o \in {"-", "!", "*"}, x \in E}
  \cup {Cond(x, y, N) : x \in E, y \in F} \cup {Cond(N, y, x) : x \in E, y \in F}
  \cup {Assign(o, A, x) : o \in {"=", "+="}, x \in E}
  \cup {Cast("int", x) : x \in E}
  \cup {Call(Id("f"), <<x, y>>) : x \in E, y \in Atoms}
  \cup {Index(A, x) : x \in E}
  \cup {Member("->", Id("p"), "m"), Call(Id("f"), <<>>), SizeofType("int")}
  \cup {SizeofExpr(x) : x \in Atoms}
  \cup {Comma(x, y) : x \in Atoms, y \in Atoms}

ExpressionPrograms ==
  {InFunction(<<Return(e)>>) : e \in {x \in OverE(OverE(Atoms, Atoms), Atoms) : Tame(x)}}

\* Declarations in a block.
ArrayInit == InitOf(Array(Name("a"), Num("2")), InitList(<<N, Num("2")>>))
Declarators ==
  {Name("a"), Pointer(Name("a")), Pointer(Pointer(Name("a"))), Array(Name("a"), N),
   Array(Pointer(Name("a")), N), Pointer(Array(Name("a"), N)),
   InitOf(Name("a"), Assign("=", Id("b"), N)), InitOf(Pointer(Name("a")), Pre("&", Id("b"))),
   InitOf(Name("a"), Comma(N, N)), ArrayInit}
Declarations ==
  {Decl("int", <<d>>) : d \in Declarators} \cup {Decl("int", <<d, e>>) : d \in Declarators, e \in Declarators}
  \cup {Decl("char", <<Name("a"), ArrayInit, Name("b")>>)}

Simple ==
  {Expr(Assign("=", A, N)), Return(A), Empty, Break, Goto("l"), Block(<<>>), Label("l", Empty)}

\* Statements of one more level over statements S.
OverS(S) ==
  UNION {
    {If(A, s) : s \in S},
    {IfElse(A, s, t) : s \in S, t \in S},
    {While(A, s) : s \in S},
    {Do(s, A) : s \in S},
    {For(i, c, n, s) : i \in {Absent, A, Decl("int", <<InitOf(Name("i"), N)>>)},
                       c \in {Absent, N}, n \in {Absent, A}, s \in S},
    {Switch(A, Block(<<Case(N), s, CaseRange(Num("1"), Num("2")), t, Default, Break>>)) :
       s \in S, t \in S},
    {Label("l", s) : s \in S},
    {Block(<<s, t>>) : s \in S, t \in S}}

StatementPrograms ==
  {InFunction(<<s, Return(N)>>) : s \in Declarations \cup {x \in OverS(Simple) : ~DanglingElse(x)}}
  \cup {InFunction(<<s>>) :
          s \in {x \in OverS({If(A, Break), IfElse(A, Break, Continue), While(A, Continue), Do(Empty, A)} \cup {Block(<<Break, Empty>>)}) :
                   ~DanglingElse(x)}}

Parameters2 == {<<>>} \cup {<<p>> : p \in {Param("int", <<Name("x")>>), Param("char", <<Pointer(Name("p"))>>)}}
                      \cup {<<Param("int", <<Name("x")>>), Param("char", <<Array(Name("p"), N)>>), Param("int", <<>>)>>}
FilePrograms ==
  {<<Function(t, f, ps, Block(<<Return(N)>>)), d>> :
     t \in {"int", "void"}, f \in {"f"}, ps \in Parameters2,
     d \in {Decl("int", <<x>>) : x \in Declarators}
           \cup {Decl("int", <<x, y>>) : x \in {Name("a"), Pointer(Name("a"))}, y \in {Name("b"), Array(Name("b"), N)}}}
  \cup {<<Typedef(t, d), Function("t", "f", <<Param("t", <<Name("x")>>)>>,
                             Block(<<Decl("t", <<Name("b")>>), Expr(Cast("t", A)), Return(SizeofType("t"))>>))>> :
          t \in {"int", "char", "long"}, d \in {Name("t"), Pointer(Name("t"))}}

\* Enumerators, bounds and widths; parts of constants have no sign (see the README).
Constants1 == {N, Num("2"), Bin("+", N, Num("3")), Bin("-", Num("3"), N), Bin("<<", N, Num("2")),
               Bin("/", Num("3"), Num("2")), Pre("!", Num("0")), Cond(N, Num("2"), Num("3")),
               Bin("&&", N, Num("0")), Bin("|", N, Num("2")), Bin("*", Bin("+", N, N), Num("3")),
               Bin("<", Bin("+", N, N), Num("3"))}
ConstantPrograms ==
  {<<Enum(<<Enumerator("x", <<e>>), Enumerator("y", <<>>)>>),
     Decl("int", <<Array(Name("a"), Bin("+", Id("y"), e))>>)>> : e \in Constants1}
  \cup {<<Enum(<<Enumerator("x", <<>>), Enumerator("y", <<>>), Enumerator("z", <<Id("y")>>)>>)>>}
  \cup {<<Struct("s", <<Decl("int", <<Name("a"), Bits(Name("b"), e)>>), Decl("char", <<d>>)>>)>> :
          e \in Constants1, d \in {Pointer(Name("p")), Array(Name("c"), N)}}

\* More nodes and names than the arena has room for.
LongPrograms == {InFunction([i \in 1 .. 9 |-> If(A, Expr(Bin("+", A, N)))])}

MCPrograms ==
  ExpressionPrograms \cup StatementPrograms \cup FilePrograms \cup ConstantPrograms \cup LongPrograms

Alphabet == {"int", "a", "b", "*", "(", ")", "{", "}", ";", ",", "=", "1", "if", "else", "+", "[", "]",
             ":", "?", "typedef"}

\* Extensions of GNU C, and what the parser knows besides the programs.
Packed == <<"__attribute__", "(", "(", "packed", ",", "aligned", "(", "2", ",", "\"s\"", ")", ")", ")">>
Extensions ==
  {<<"asm", "(", "\"s\"", ":", "\"s\"", "(", "a", ")", ":", "\"s\"", "(", "1", ")", ":", "\"s\"", ")", ";">>,
   <<"asm", "volatile", "(", "\"s\"", ":", ":", ":", ":", "l", ")", ";">>,
   <<"asm", "(", "\"s\"", "\"s\"", ")", ";">>, <<"asm", "(", "a", ")", ";">>,
   Packed \o <<";">>, <<"int", "a">> \o Packed \o <<",", "b", ";">>,
   <<"struct">> \o Packed \o <<"s", "{", "int", "a">> \o Packed \o <<";", "}", "b", ";">>,
   <<"union", "u", "{", "int", ":", "3", ";", "char", "c", "[", "2", "]", ";", "}", "b", ";">>,
   <<"__extension__", "int", "a", ";">>, <<"__extension__", "a", "+", "b", ";">>,
   <<"typeof", "(", "a", ")", "b", ";">>, <<"typeof", "(", "int", ")", "b", ";">>,
   <<"__builtin_offsetof", "(", "struct", "s", "*", ",", "a", ")", ";">>,
   <<"(", "{", "int", "a", ";", "a", ";", "}", ")", ";">>,
   <<"a", "=", "(", "struct", "s", ")", "{", "1", ",", "2", "}", ";">>,
   <<"int", "a", "[", "]", "=", "{", "[", "1", "]", "=", "2", ",", ".", "b", "=", "a", "}", ";">>,
   <<"__label__", "a", ",", "b", ";">>, <<"goto", "*", "a", ";">>, <<"goto", "1", ";">>,
   <<"a", "=", "\"s\"", "\"s\"", "+", "'c'", ";">>, <<"a", "->", "1", ";">>, <<"a", "++", ";", "--", "b", ";">>,
   <<"static", "inline", "const", "unsigned", "long", "long", "a", ";">>,
   <<"int", "(", "*", "a", ")", "(", "int", ",", "...", ")", ";">>,
   <<"int", "a", "asm", "(", "\"s\"", ")", ";">>}

MCInputs ==
  {<<"int", "f", "(", "void", ")", "{", x, y, z>> : x \in Alphabet, y \in Alphabet, z \in Alphabet}
  \cup {<<x, y, z>> : x \in Alphabet, y \in Alphabet, z \in Alphabet}
  \cup {x \o <<"int", "d", ";">> : x \in Extensions}
  \cup {<<"int", "f", "(", "a", ")", "{">> \o x \o y \o <<"}", "int", "d", ";">> :
          x \in Extensions, y \in {<<>>, <<"a", ";">>, <<"int", "a", ";">>}}

\* Operators of the same strength.
LeftPrograms == {InFunction(<<Return(Bin("-", Bin("-", A, N), N))>>)}
NoInputs == {}
=============================================================================
