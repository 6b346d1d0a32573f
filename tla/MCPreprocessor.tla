--------------------------- MODULE MCPreprocessor ---------------------------
(***************************************************************************)
(* The instance of Preprocessor: a main file and two headers.  Either the *)
(* main file is any sequence of five conditionals, or the files include    *)
(* each other in every way, in every setting.                              *)
(***************************************************************************)
EXTENDS Preprocessor, TLC

CONSTANTS Main, A, B, M, Given, NameMain, NameA, NameB, NameX

Ln(op, arg) == [op |-> op, arg |-> arg, value |-> 0]
Define(v) == [op |-> "define", arg |-> M, value |-> v]

FirstLines == {Define(1), Ln("ifdef", M), Ln("if", M)}
MacroLines ==
  {Ln("text", M), Define(1), Ln("undef", M), Ln("ifdef", M), Ln("ifndef", M), Ln("if", M),
   Ln("elif", M), Ln("elif", None), Ln("else", None), Ln("endif", None)}

\* A file and two headers.  NameX names nothing, A names header A by its full path, and
\* Given, by which the main file was given, leads nowhere from the files' own directory.
ThreeFiles == {Main, A, B}
ThreePaths == {NameMain, NameA, NameB, NameX, A, Given}
FoundFiles ==
  [f \in ThreeFiles |->
     [p \in ThreePaths |-> CASE p = NameMain -> Main [] p \in {NameA, A} -> A
                             [] p = NameB -> B [] OTHER -> None]]
Include(p) == Ln("include", p)
Mains ==
  {<<x, Ln("text", M), y, Ln("text", M)>> :
     x \in {Include(NameA), Include(A), Include(NameB), Include(NameX)},
     y \in {Include(NameA), Include(NameB), Include(NameMain), Include(Given), Include(None)}}
HeadersA ==
  {<<x, y>> : x \in {Include(NameMain), Include(NameB), Define(1), Ln("other", None)},
              y \in {Include(A), Include(NameB), Include(Given), Ln("text", M), Ln("error", None), Ln("endif", None)}}
HeadersB ==
  {<<x, y>> : x \in {Include(NameA), Define(1), Ln("ifdef", M), Ln("ifdef", None)},
              y \in {Include(NameMain), Ln("text", M), Ln("undef", M), Ln("if", None), Ln("error", None)}}
Inclusions == {(Main :> m) @@ (A :> a) @@ (B :> b) : m \in Mains, a \in HeadersA, b \in HeadersB}
AllSettings == [allow_missing_includes : BOOLEAN, db_works : BOOLEAN]

\* The main file alone, with nothing to include.
Conditionals ==
  {(Main :> <<l>> \o m) @@ (A :> <<>>) @@ (B :> <<>>) : l \in FirstLines, m \in [1 .. 4 -> MacroLines]}
Plain == [allow_missing_includes |-> FALSE, db_works |-> TRUE]
AllTexts == Conditionals \cup Inclusions

MCInit ==
  /\ Init
  /\ texts[A] = <<>> => setting = Plain
MCSpec == MCInit /\ [][Next]_vars
=============================================================================
