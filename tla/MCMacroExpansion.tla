-------------------------- MODULE MCMacroExpansion --------------------------
(* Instances of MacroExpansion for TLC: small files of macros that name    *)
(* each other, and of calls of them.                                       *)
EXTENDS CMacros

A == <<"A">>
B == <<"B">>
F == <<"F">>
G == <<"G">>
A1 == <<"A", "1">>
x == <<"x">>
y == <<"y">>
one == <<"1">>
plus == <<"+">>
AllNames == {A, B, F, G, A1}

\* White space follows the name of an object-like macro and is part of its body.
Obj(n, body) ==
  [op |-> "define", name |-> n, macro |-> [params |-> None, rest |-> {}, body |-> <<Space>> \o body]]
Fun(n, ps, body) == [op |-> "define", name |-> n, macro |-> [params |-> ps, rest |-> {}, body |-> body]]
Variadic(n, ps, body) ==
  [op |-> "define", name |-> n, macro |-> [params |-> ps, rest |-> {VaArgs}, body |-> body]]
Undef(n) == [op |-> "undef", name |-> n]
Text(ts) == [op |-> "text", tokens |-> ts]
Call1(f, a) == <<f, LParen>> \o a \o <<RParen>>
Call2(f, a, b) == <<f, LParen>> \o a \o <<Comma>> \o b \o <<RParen>>

ObjA == {Obj(A, <<one>>), Obj(A, <<B>>), Obj(A, <<A, plus, A>>), Obj(A, Call1(F, <<one>>))}
ObjB == {Obj(B, <<>>), Obj(B, <<A>>), Obj(B, Call2(G, <<A>>, <<B>>))}
FunF ==
  {Fun(F, <<x>>, <<x>>), Fun(F, <<x>>, <<A, plus, x>>), Fun(F, <<x>>, <<Hash, x>>),
   Fun(F, <<x>>, <<x, HashHash, one>>), Fun(F, <<x>>, Call2(G, <<x>>, <<one>>))}
FunG ==
  {Fun(G, <<x, y>>, <<y, Space, B, x>>), Fun(G, <<x, y>>, <<x, plus, Hash, y>>),
   Variadic(G, <<x>>, <<x, plus>> \o Call1(F, <<VaArgs>>)), Variadic(G, <<>>, <<Hash, VaArgs>>)}
Args == {<<>>, <<A>>, <<B, Space, one>>, Call1(F, <<A>>), <<LParen, A, Comma, B, RParen>>}

CallsOfF == {Call1(F, a) : a \in Args}
CallsOfG == {Call2(G, a, b) : a \in Args \ {<<>>}, b \in Args} \cup {Call1(G, <<A>>)}
Others == {<<A, plus, B, F>>, <<F, Space>> \o Call1(F, <<B>>), <<F, LParen, A, Comma, B>>}

Files ==
  {<<a, b, f, g, Text(t)>> : a \in ObjA, b \in ObjB, f \in FunF, g \in FunG,
                             t \in CallsOfF \cup CallsOfG \cup Others}
    \cup {<<Obj(A1, <<plus>>), g, f, b, a, Text(t), Undef(A), Text(t)>> :
            a \in ObjA, b \in ObjB, f \in FunF, g \in FunG, t \in CallsOfF \cup Others}

EndingFiles == {p \in Files : Ends(p)}
=============================================================================
