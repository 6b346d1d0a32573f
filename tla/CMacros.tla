------------------------------- MODULE CMacros -------------------------------
(***************************************************************************)
(* What the C standard says of macros (6.10.3), by the well-known          *)
(* algorithm with hide sets: each token carries the names it may no longer *)
(* expand to.  White space separates tokens and is otherwise left out.     *)
(***************************************************************************)
EXTENDS MacroExpansion

Invalid == [t |-> <<"invalid">>, hs |-> {}]
Fresh(tokens) == [k \in DOMAIN tokens |-> [t |-> tokens[k], hs |-> {}]]
Plain(ts) == [k \in DOMAIN ts |-> ts[k].t]
Strip(tokens) == SelectSeq(tokens, LAMBDA t : t # Space)

\* The definitions that hold at line l of program p.
LastDirective(p, n, l) ==
  Max({k \in 1 .. l - 1 : p[k].op # "text" /\ p[k].name = n} \cup {0})

Definitions(p, l) ==
  [n \in Names |->
     LET k == LastDirective(p, n, l)
     IN IF k = 0 \/ p[k].op = "undef" THEN None
        ELSE [p[k].macro EXCEPT !.body = Strip(@)]]

\* ts begins behind an opening parenthesis: the arguments up to the one that closes it,
\* and what follows.
CArguments(ts) ==
  LET Next1(a, h) ==
        CASE a.closed -> [a EXCEPT !.after = Append(@, h)]
          [] ~a.closed /\ h.t = RParen /\ a.depth = 0 -> [a EXCEPT !.closed = TRUE, !.paren = h]
          [] ~a.closed /\ h.t = Comma /\ a.depth = 0 -> [a EXCEPT !.args = Append(@, <<>>)]
          [] OTHER ->
               [a EXCEPT !.args = Append(Front(@), Append(Last(@), h)),
                         !.depth = @ + (IF h.t = LParen THEN 1 ELSE IF h.t = RParen THEN -1 ELSE 0)]
  IN FoldLeft(Next1, [closed |-> FALSE, paren |-> None, depth |-> 0, args |-> <<<<>>>>, after |-> <<>>], ts)

\* The arguments are as many as the parameters; the last one has the rest of them.
Fits(m, args) ==
  \/ Len(args) = Len(m.params)
  \/ Len(args) = 1 /\ args[1] = <<>> /\ m.params = <<>>
  \/ m.rest # {} /\ Len(args) >= Len(m.params)

\* What the code calls an argument, raw.
Raw(m, args, t) ==
  IF HasParam(m, t) THEN args[Place(m, t)]
  ELSE FlattenSeq([a \in 1 .. Len(args) - Len(m.params) |->
         (IF a = 1 THEN <<>> ELSE Fresh(<<Comma>>)) \o args[Len(m.params) + a]])

IsParam(m, t) == HasParam(m, t) \/ t \in m.rest
OrPlacemarker(ts) == IF ts = <<>> THEN Fresh(<<<<>>>>) ELSE ts
Join(l, r) == [t |-> l.t \o r.t, hs |-> l.hs \cap r.hs]

RECURSIVE CExpand(_, _), CSubstitute(_, _, _)

\* Parameters that are operands of # and ## are taken as they are written, others are
\* expanded on their own.
CSubstitute(d, m, args) ==
  LET b == m.body
      Next1(a, k) ==
        IF a.skip THEN [a EXCEPT !.skip = FALSE]
        ELSE IF b[k] = Hash /\ k < Len(b) /\ IsParam(m, b[k + 1])
          THEN [out |-> a.out \o Fresh(<<stringify_arg(Plain(Raw(m, args, b[k + 1])))>>), skip |-> TRUE]
        ELSE IF b[k] = HashHash
          THEN LET r == IF IsParam(m, b[k + 1]) THEN OrPlacemarker(Raw(m, args, b[k + 1]))
                        ELSE Fresh(<<b[k + 1]>>)
               IN [out |-> Front(a.out) \o <<Join(Last(a.out), Head(r))>> \o Tail(r), skip |-> TRUE]
        ELSE IF IsParam(m, b[k])
          THEN IF k < Len(b) /\ b[k + 1] = HashHash
                 THEN [a EXCEPT !.out = @ \o OrPlacemarker(Raw(m, args, b[k]))]
                 ELSE [a EXCEPT !.out = @ \o CExpand(d, Raw(m, args, b[k]))]
        ELSE [a EXCEPT !.out = @ \o Fresh(<<b[k]>>)]
  IN SelectSeq(FoldLeftDomain(Next1, [out |-> <<>>, skip |-> FALSE], b).out, LAMBDA h : h.t # <<>>)

Hide(hs, ts) == [k \in DOMAIN ts |-> [ts[k] EXCEPT !.hs = @ \cup hs]]

CExpand(d, ts) ==
  IF ts = <<>> THEN <<>>
  ELSE LET h == Head(ts)
           m == d[h.t]
           call == CArguments(SubSeq(ts, 3, Len(ts)))
       IN IF h.t \notin Names \/ h.t \in h.hs THEN <<h>> \o CExpand(d, Tail(ts))
          ELSE IF m = None THEN <<h>> \o CExpand(d, Tail(ts))
          ELSE IF IsObject(m)
            THEN CExpand(d, Hide(h.hs \cup {h.t}, Fresh(m.body)) \o Tail(ts))
          ELSE IF Len(ts) = 1 \/ ts[2].t # LParen THEN <<h>> \o CExpand(d, Tail(ts))
          ELSE IF ~call.closed \/ ~Fits(m, call.args) THEN <<Invalid>>
          ELSE CExpand(d, Hide((h.hs \cap call.paren.hs) \cup {h.t}, CSubstitute(d, m, call.args))
                            \o call.after)

Expansion(p, l) ==
  IF p[l].op = "text" THEN Plain(CExpand(Definitions(p, l), Fresh(Strip(p[l].tokens)))) ELSE <<>>

CResult(p) == FlattenSeq([l \in DOMAIN p |-> Expansion(p, l)])

\* Tokens without white space between them, nor within a string.
Spelled(tokens) ==
  LET s == Strip(tokens) IN [k \in DOMAIN s |-> SelectSeq(s[k], LAMBDA c : c # " ")]

\* The text is expanded as the standard says, if the standard says anything.
AsC ==
  status = "done" =>
    LET want == CResult(program)
    IN Invalid.t \notin ToSet(want) => Spelled(output) = Spelled(want)

-----------------------------------------------------------------------------
(* Programs for which the code's two ways to expand, at the definition and *)
(* at the use, and its order, substitution before arguments, are as good   *)
(* as those of the standard.                                               *)

DefinitionLines(p) == {k \in DOMAIN p : p[k].op = "define"}
Mentions(p, k) == Names \cap ToSet(p[k].macro.body)

\* The names that the bodies of n lead to, in as many steps as there are lines.
Reaches(p) ==
  LET next == [n \in Names |-> UNION {Mentions(p, k) : k \in {d \in DefinitionLines(p) : p[d].name = n}}]
      Further(r, k) == [n \in Names |-> r[n] \cup UNION {next[o] : o \in r[n]}]
  IN FoldLeftDomain(Further, next, p)

FunctionLines(p) == {k \in DefinitionLines(p) : ~IsObject(p[k].macro)}
Functions(p) == {p[k].name : k \in FunctionLines(p)}

\* No function-like macro leads to itself: the stack does not hide those.
Ends(p) == LET r == Reaches(p) IN \A f \in Functions(p) : f \notin r[f]

\* No name leads to itself, but for an object-like macro that only itself names.
Layered(p) ==
  LET r == Reaches(p)
  IN \A n \in Names : n \in r[n] => r[n] = {n} /\ \A o \in Names \ {n} : n \notin r[o]

DirectiveLines(p) == {k \in DOMAIN p : p[k].op # "text"}

\* What a body mentions is not defined anew or taken away behind it.
Settled(p) ==
  \A k \in DefinitionLines(p), l \in DirectiveLines(p) :
    k < l /\ p[l].name \in Mentions(p, k) =>
      \A j \in DirectiveLines(p) : j < l => p[j].name # p[l].name

Operates(p, k) == {Hash, HashHash} \cap ToSet(p[k].macro.body) # {}
Pastes(p, k) == HashHash \in ToSet(p[k].macro.body)

\* A macro with # or ## is called from the text only, where its arguments are not
\* replaced before it has them.
OperandsFromText(p) ==
  \A k, l \in DefinitionLines(p) : Operates(p, k) => p[k].name \notin Mentions(p, l)

HasEmptyArgument(ts) ==
  \E k \in 1 .. Len(ts) - 1 : ts[k] \in {LParen, Comma} /\ ts[k + 1] \in {Comma, RParen}

\* ## has tokens to join, none of them a parenthesis, and the last one of the variable arguments is not dropped.
ArgumentsWritten(p) ==
  \A k \in DefinitionLines(p), l \in DOMAIN p : p[l].op = "text" =>
    /\ Pastes(p, k) =>
         /\ Space \notin ToSet(p[k].macro.body) \cup ToSet(p[l].tokens)
         /\ Len(SelectSeq(p[l].tokens, LAMBDA t : t = LParen)) <= 1
    /\ Pastes(p, k) \/ p[k].macro.rest # {} => ~HasEmptyArgument(p[l].tokens)

\* The name of a function-like macro is called within the body or the argument that it
\* stands in, or not at all.
CallsAtOnce(p) ==
  /\ \A l \in DefinitionLines(p) : \A k \in DOMAIN p[l].macro.body :
       p[l].macro.body[k] \in Functions(p) =>
         k < Len(p[l].macro.body) /\ p[l].macro.body[k + 1] = LParen
  /\ \A l \in DOMAIN p : p[l].op = "text" =>
       \A k \in 1 .. Len(p[l].tokens) - 1 :
         p[l].tokens[k] \in Functions(p) => p[l].tokens[k + 1] \notin {Comma, RParen}

Tame(p) ==
  Layered(p) /\ Ends(p) /\ Settled(p) /\ OperandsFromText(p) /\ ArgumentsWritten(p) /\ CallsAtOnce(p)

\* A tame program is expanded as the standard says: the eager expansion at #define, the
\* names taken off the stack, arguments, # and ## make no difference there.
TameAsC == status = "done" /\ Tame(program) => AsC
=============================================================================
