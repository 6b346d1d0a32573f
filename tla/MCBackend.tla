------------------------------ MODULE MCBackend ------------------------------
(* Small programs of the forms that the backend compiles as C has them.     *)
EXTENDS BackendChecks

Digits == <<"0", "1", "2", "3", "4", "5", "6", "7", "8", "9">>
MCLiterals ==
  [t \in ToSet(Digits) \cup {"'c'", "\"s\""} |->
     CASE t = "'c'" -> [kind |-> "CharConstant", value |-> 3]
       [] t = "\"s\"" -> [kind |-> "StringLiteral", value |-> 0]
       [] OTHER -> [kind |-> "IntConstant", value |-> (CHOOSE i \in DOMAIN Digits : Digits[i] = t) - 1]]
MCNumbers == [t \in DOMAIN MCLiterals |-> MCLiterals[t].value]
MCTexts == "\"s\"" :> <<3, 1>>

A == Id("a")
B == Id("b")
S == Id("s")
Zero0 == Num("0")
N == Num("1")
Two == Num("2")
Three == Num("3")
AB == <<Param("int", <<Name("a")>>), Param("int", <<Name("b")>>)>>
F(body) == Function("int", "f", AB, Block(body))

Add(x, e) == Expr(Assign("+=", x, e))
Set(x, e) == Expr(Assign("=", x, e))
Local(t, d) == Decl(t, <<d>>)
Started0(t, x, e) == Local(t, InitOf(Name(x), e))

\* f starts with s = 0 and returns s.
Summing(body) == F(<<Started0("int", "s", Zero0)>> \o body \o <<Return(S)>>)

-----------------------------------------------------------------------------
Exprs == {Bin(o, x, y) : o \in {"+", "-", "*", "/", "%", "&", "|", "^", "<<"}, x \in {A, N}, y \in {B, Two}}
ExpressionPrograms == {<<F(<<Return(e)>>)>> : e \in Exprs}

\* Chars: what is stored is cut to 3 bits, and has a sign when it is read.
CharPrograms ==
  {<<F(<<Local("char", Name("c")), Expr(Assign("=", Id("c"), e)), Return(Bin(o, Id("c"), B))>>)>> :
     e \in {A, Bin("+", A, Three)}, o \in {"+", "*"}}
  \cup {<<F(<<Local("char", Name("c")), Set(Id("c"), A), Expr(Assign(o, Id("c"), B)), Return(Id("c"))>>)>> : o \in {"+=", "-="}}

-----------------------------------------------------------------------------
(* Control flow.                                                           *)
Bodies ==
  {<<Add(S, B)>>,
   <<If(Bin("==", A, N), Break), Add(S, B)>>,
   <<If(Bin("==", A, N), Continue), Add(S, B)>>,
   <<Switch(A, Block(<<Case(N), Add(S, N), Break, Case(Two), Continue, Default, Add(S, Two)>>)), Add(S, B)>>}

Down == Expr(Assign("-=", A, N))
Positive(x) == Bin(">", x, Zero0)
Loops(body) ==
  {While(Positive(A), Block(<<Down>> \o body)),
   Do(Block(<<Down>> \o body), Positive(A)),
   For(Assign("=", S, N), Positive(A), Assign("-=", A, N), Block(body)),
   For(Absent, Absent, Assign("-=", A, N), Block(<<If(Bin("<=", A, Zero0), Break)>> \o body))}
LoopPrograms == {<<Summing(<<l>>)>> : l \in UNION {Loops(body) : body \in Bodies}}

\* Loops within loops: how an inner one ends does not end the outer one.
Outer(x) ==
  {<<For(Assign("=", B, Three), Positive(B), Assign("-=", B, N), Block(<<x, If(Bin("==", B, Two), jump), Add(S, N)>>))>> :
     jump \in {Break, Continue}}
NestedPrograms == {<<Summing(o)>> : o \in UNION {Outer(l) : l \in UNION {Loops(body) : body \in Bodies}}}

\* Which cases fall into the next one, and where default is.
Cases(p, b) ==
  LET End(i) == IF i \in b THEN <<Break>> ELSE <<>>
      c == <<<<Case(Zero0), Add(S, N)>> \o End(1), <<CaseRange(N, Three), Add(S, Two)>> \o End(2),
             <<Default, Add(S, Num("4"))>> \o End(3)>>
  IN FlattenSeq([i \in 1 .. 3 |-> c[p[i]]])
SwitchPrograms ==
  {<<Summing(<<Switch(A, Block(Cases(p, b)))>>)>> : p \in {<<1, 2, 3>>, <<3, 1, 2>>, <<2, 3, 1>>}, b \in SUBSET (1 .. 3)}

GotoPrograms ==
  {<<Summing(<<Label("again", Add(S, B)), Down, If(Positive(A), Goto("again"))>>)>>,
   <<Summing(<<If(A, Goto("out")), Add(S, N), Label("out", Add(S, Two))>>)>>,
   <<Summing(<<While(Positive(A), Block(<<For(Absent, Absent, Absent, Block(<<Down, If(Bin("==", A, N), Goto("out")),
                                                                   If(Bin("<", A, N), Break)>>)), Add(S, N)>>)),
               Label("out", Add(S, Two))>>)>>,
   <<F(<<IfElse(A, Return(N), Return(Two))>>)>>,
   <<F(<<If(A, If(B, Return(N))), IfElse(B, Return(Two), Block(<<Add(A, N), Return(A)>>))>>)>>,
   <<F(<<Do(If(A, Return(B)), Zero0), Return(N)>>)>>}

\* A name is that of the innermost scope that declares it.
Inner(x, body) == Block(<<Started0("int", x, Three)>> \o body)
ShadowPrograms ==
  {<<Summing(<<Inner(x, <<Add(Id(x), N), Inner(y, <<Add(S, Id(x)), Add(Id(y), Two)>>), Add(S, Id(y))>>), Add(S, A), Add(S, B)>>)>> :
     x \in {"a", "b", "s"}, y \in {"a", "b", "s"}}
  \cup {<<Summing(<<While(Positive(A), Block(<<Down, Inner("a", <<If(Bin("==", A, Three), jump), Add(S, A)>>), Add(S, B)>>)), Add(S, A)>>)>> :
          jump \in {Break, Continue}}

-----------------------------------------------------------------------------
(* Several functions.  g may be declared before, and f may call itself.    *)
G(t, params, body) == Function(t, "g", params, Block(body))
PA == <<Param("int", <<Name("a")>>)>>
PC == <<Param("char", <<Name("a")>>)>>
GA == Call(Id("g"), <<A>>)
FunctionPrograms ==
  {<<G(t, PA, <<Return(Bin("+", A, N))>>), F(<<Return(Bin(o, GA, B))>>)>> : t \in {"int", "char", "static int", "static inline int"}, o \in {"-", "*"}}
  \cup {<<Prototype(t, "g", PA), F(<<Return(Bin("-", B, GA))>>), G(t, PA, <<Add(A, A), Return(A)>>)>> : t \in {"int", "char", "static int"}}
  \cup {<<F(<<If(Bin("<=", A, Zero0), Return(B)), Return(Bin("+", Call(Id("f"), <<Bin("-", A, N), B>>), Two))>>)>>,
        <<G("int", <<Param("int", <<Pointer(Name("a"))>>)>>, <<Return(Bin("+", Pre("*", A), Two))>>), F(<<Add(B, Call(Id("g"), <<Pre("&", B)>>)), Return(B)>>)>>,
        <<G("int", <<Param("int", <<Callback("k", PA)>>), PA[1]>>, <<Return(Bin("*", Call(Id("k"), <<A>>), Two))>>),
          Function("int", "h", PA, Block(<<Return(Bin("+", A, N))>>)), F(<<Return(Bin("+", Call(Id("g"), <<Id("h"), A>>), B))>>)>>,
        <<G("int", PA, <<If(Bin("<", A, N), Return(Zero0)), Return(Call(Id("h"), <<Bin("-", A, N)>>))>>),
          Prototype("int", "h", PA)>>
          \o <<Function("int", "h", PA, Block(<<If(Bin("<", A, N), Return(N)), Return(Call(Id("g"), <<Bin("-", A, N)>>))>>)), F(<<Return(GA)>>)>>}

\* Static functions that lead to each other, in a chain, in a circle, or from nowhere.
CallH == Call(Id("h"), <<Bin("-", A, N)>>)
ChainPrograms ==
  LET H(t, items) == Function(t, "h", PA, Block(items))
      U(t, e) == Function(t, "u", PA, Block(<<Return(e)>>))
      ends == If(Bin("<", A, N), Return(N))
  IN {<<H(t, <<Return(Bin("*", A, Two))>>), G(t, PA, <<Return(Bin("+", CallH, N))>>),
        U(t, e), F(<<Return(Bin("-", GA, B))>>)>> :
          t \in {"static int", "static inline int"}, e \in {CallH, GA, Call(Id("u"), <<A>>)}}
     \cup {<<Prototype("static int", "h", PA), G("static int", PA, <<ends, Return(CallH)>>),
             H("static int", <<ends, Return(Bin("+", Call(Id("g"), <<Bin("-", A, N)>>), N))>>), F(<<Return(Bin("*", e, B))>>)>> :
               e \in {GA, CallH, Bin("+", GA, CallH)}}

\* Variables of the file keep what a call has left in them.
Counter == G("int", <<>>, <<Add(Id("n"), N), Return(Id("n"))>>)
GN == Call(Id("g"), <<>>)
GlobalPrograms ==
  {<<Decl(t, <<d>>), Counter, F(<<Add(A, GN), Add(B, GN), Return(Bin("+", Bin("*", A, B), Id("n")))>>)>> :
     t \in {"int", "static int"}, d \in {Name("n"), InitOf(Name("n"), Two)}}
  \cup {<<Decl("int", <<InitOf(Array(Name("n"), Three), InitList(l))>>), F(<<Set(Index(Id("n"), N), B), Return(Bin("+", Index(Id("n"), Zero0), Index(Id("n"), A)))>>)>> :
          l \in {<<N, Two, Three>>, <<Two>>}}

ArrayPrograms ==
  {<<F(<<Local(t, Array(Name("s"), Three)), Set(Index(S, Zero0), A), Set(Index(S, N), B), Set(Index(S, Two), Bin("+", A, B)),
         Set(Index(S, i), Bin("*", Index(S, Two), Two)), Return(Bin("-", Bin("+", Index(S, Zero0), B), Index(S, j)))>>)>> :
     t \in {"int", "char"}, i \in {Zero0, N, A}, j \in {N, Two}}

StructPrograms ==
  LET x == Member(".", Id("v"), "x")
      y == Member(".", Id("v"), "y")
      px == Member("->", Id("p"), "x")
      py == Member("->", Id("p"), "y")
      def(tx, dx) == Struct("s", <<Decl(tx, <<dx>>), Decl("int", <<Name("y")>>)>>)
      plain(t) == def(t, Name("x"))
      passed == G("int", <<Param("struct s", <<Pointer(Name("p"))>>)>>, <<Add(py, px), Set(px, N), Return(py)>>)
  IN {<<plain(t), F(<<Local("struct s", Name("v")), Set(x, A), Set(y, B), Set(x, Bin("+", x, y)), Return(Bin("-", x, y))>>)>> : t \in {"int", "char"}}
     \cup {<<plain(t), passed, F(<<Local("struct s", Name("v")), Set(x, A), Set(y, B), Return(Bin("+", Call(Id("g"), <<Pre("&", Id("v"))>>), x))>>)>> : t \in {"int", "char"}}
     \cup {<<plain("int"), Struct("t", <<Decl("char", <<Name("c")>>), Decl("struct s", <<Name("i")>>), Decl("struct s", <<Pointer(Name("q"))>>)>>),
             F(<<Local("struct t", Name("w")), Local("struct s", Name("v")),
                 Set(Member(".", Member(".", Id("w"), "i"), "y"), A), Set(Member(".", Id("w"), "q"), Pre("&", Id("v"))),
                 Set(Member("->", Member(".", Id("w"), "q"), "y"), B),
                 Return(Bin("-", y, Member(".", Member(".", Id("w"), "i"), "y")))>>)>>}
     \cup {<<Struct("s", <<Decl("int", <<Bits(Name("x"), Two)>>), Decl("int", <<Bits(Name("y"), Three)>>), Decl("int", <<Name("z")>>)>>),
             Decl("struct s", <<Name("v")>>), F(<<Set(m, A), Set(n, B), Return(Bin("+", x, y))>>)>> : m \in {x, y}, n \in {x, y}}

StaticPrograms ==
  {<<G("int", <<>>, <<Local("static int", Name("n")), Add(Id("n"), N), Return(Id("n"))>>),
     F(<<Add(A, GN), Add(B, GN), Return(Bin("+", Bin("*", A, B), GN))>>)>>,
   <<G("int", <<>>, <<Local("static int", Name("n")), Add(Id("n"), N), Return(Id("n"))>>),
     F(<<Local("static int", Name("k")), Add(Id("k"), A), Add(B, GN), Return(Bin("+", Bin("*", A, B), Id("k")))>>)>>}
  \cup {<<Struct("s", <<Decl(t, <<Name("x")>>), Decl("int", <<Name("y")>>)>>),
          G("int", <<>>, <<Local("static struct s", InitOf(Name("v"), InitList(<<Two, Three>>))),
                           Add(Member(".", Id("v"), "y"), Member(".", Id("v"), "x")), Return(Member(".", Id("v"), "y"))>>),
          F(<<Add(A, GN), Return(Bin("-", A, GN))>>)>> : t \in {"int", "char"}}

LiteralPrograms ==
  LET x == Member(".", Id("v"), "x")
      y == Member(".", Id("v"), "y")
      def == Struct("s", <<Decl("int", <<Name("x")>>), Decl("int", <<Name("y")>>)>>)
      lists == {<<Field("x", A), Field("y", B)>>, <<Field("y", A), Field("x", Bin("+", B, N))>>}
  IN {<<def, F(<<Started0("struct s", "v", InitList(l)), Return(Bin("-", x, y))>>)>> : l \in lists}
     \cup {<<def, F(<<Local("struct s", Name("v")), Set(Id("v"), Literal("struct s", l)), Return(Bin("-", x, y))>>)>> : l \in lists}
     \cup {<<def, F(<<Local("struct s", Name("v")), Local("struct s", Name("w")), Set(Member(".", Id("w"), "x"), A), Set(Member(".", Id("w"), "y"), B),
                      Set(Id("v"), Id("w")), Set(Member(".", Id("w"), "y"), N), Return(Bin("-", x, y))>>)>>,
           <<F(<<Return(Bin("+", Literal("int", <<A>>), B))>>)>>}

BuiltinPrograms ==
  {<<F(<<Return(Bin("+", Call(Id(b), <<e>>), B))>>)>> :
     b \in BuiltinNames \ {"__builtin_expect", "__builtin_choose_expr"}, e \in {A, Bin("-", A, Three)}}
  \cup {<<F(<<If(Call(Id("__builtin_expect"), <<A, N>>), Return(B)), Return(Call(Id("__builtin_choose_expr"), <<c, A, B>>))>>)>> : c \in {Zero0, N}}

ListPrograms ==
  LET dot(v, f) == Member(".", v, f)
      arrow(f) == Member("->", Id("p"), f)
      U == Id("u")
      V == Id("v")
  IN {<<Struct("s", <<Decl(t, <<Name("x")>>), Decl("struct s", <<Pointer(Name("next"))>>)>>),
        Summing(<<Local("struct s", Name("u")), Local("struct s", Name("v")), Local("struct s", Pointer(Name("p"))),
                  Set(dot(U, "x"), A), Set(dot(V, "x"), B), Set(dot(U, "next"), Pre("&", V)), Set(dot(V, "next"), Zero0),
                  Set(Id("p"), Pre("&", U)),
                  While(Id("p"), Block(<<Add(S, arrow("x")), Set(Id("p"), arrow("next"))>>))>>)>> : t \in {"int", "char"}}
     \cup {<<Struct("s", <<Decl("char", <<Name("x")>>), Decl("int", <<Name("y")>>)>>),
             F(<<Local("struct s", Array(Name("v"), Two)), Set(dot(Index(V, Zero0), "y"), A), Set(dot(Index(V, N), "y"), B),
                 Set(dot(Index(V, N), "x"), N), Set(dot(Index(V, Zero0), "x"), N),
                 Return(Bin("-", dot(Index(V, Zero0), "y"), dot(Index(V, N), "y")))>>)>>}

SizePrograms ==
  LET C(d) == Decl("char", <<d>>)
      I(d) == Decl("int", <<d>>)
      members == {<<C(Name("x")), I(Name("y")), C(Name("z"))>>, <<C(Name("x")), Decl("struct s", <<Pointer(Name("y"))>>)>>,
                  <<I(Name("x")), C(Array(Name("y"), Three))>>, <<C(Name("x"))>>}
  IN {<<Struct("s", m), Struct("t", <<C(Name("c")), Decl("struct s", <<Name("i")>>), C(Name("d"))>>), F(<<Return(e)>>)>> :
        m \in members, e \in {SizeofType("struct s"), SizeofType("struct t"), SizeofType("char")}}

\* g is declared and nowhere defined.
MissingPrograms ==
  {<<Prototype(t, "g", PA), F(<<If(A, Return(B)), Return(GA)>>)>> : t \in {"int", "static int", "static char"}}

MCPrograms ==
  ExpressionPrograms \cup CharPrograms \cup LoopPrograms \cup NestedPrograms \cup SwitchPrograms \cup GotoPrograms
  \cup ShadowPrograms \cup FunctionPrograms \cup ChainPrograms \cup GlobalPrograms \cup ArrayPrograms \cup StructPrograms
  \cup StaticPrograms \cup LiteralPrograms \cup BuiltinPrograms \cup ListPrograms \cup MissingPrograms \cup SizePrograms
MCBuiltins == BuiltinNames
MCArgs == {-2, 0, 1, 3}
MCOrders == {<<"s", "t">>, <<"t", "s">>}
=============================================================================
