----------------------------- MODULE CSemantics -----------------------------
(***************************************************************************)
(* What the programs of CSyntax do (ISO C, 6.5, 6.7, 6.8): an interpreter  *)
(* of trees that knows no instructions.  Objects are cells, one for each   *)
(* scalar, and the address of an object is the number of its first cell.   *)
(* The reference that compiled programs are compared with.                 *)
(***************************************************************************)
EXTENDS CSyntax, IR

CONSTANT Numbers  \* what the constants of the text stand for

-----------------------------------------------------------------------------
(* Types: int, char, pointers, arrays and structs by their tags.           *)

PointerTo(t)  == [t |-> "ptr", to |-> t]
StructOf(tag) == [t |-> "struct", tag |-> tag]
BaseType(words) ==
  LET w == Spelled(words)
  IN CASE "struct" \in ToSet(w) -> StructOf(Last(w))
       [] Last(w) = "char" -> I8
       [] Last(w) = "void" -> Void
       [] OTHER -> I32

RECURSIVE DeclaredAs(_, _), DeclaredName(_)
DeclaredAs(d, t) ==
  CASE d.op = "pointer" -> DeclaredAs(d.kids[1], PointerTo(t))
    [] d.op = "array" -> DeclaredAs(d.kids[1], ArrayType(t, Numbers[d.kids[2].name]))
    [] d.op \in {"init", "bits"} -> DeclaredAs(d.kids[1], t)
    [] d.op = "callback" -> PointerTo([t |-> "function", ret |-> t])
    [] OTHER -> t
DeclaredName(d) == IF d.op \in {"name", "callback"} THEN d.name ELSE DeclaredName(d.kids[1])

\* The members of structs by tag: names and types, and the bits of bit-fields.
MembersOf(program) ==
  LET structs == SelectSeq(program, LAMBDA t : t.op = "struct")
      Member1(word, d) ==
        [name |-> DeclaredName(d), t |-> DeclaredAs(d, BaseType(word)),
         bits |-> IF d.op = "bits" THEN Numbers[d.kids[2].name] ELSE 0]
      Members1(t) ==
        FlattenSeq([i \in DOMAIN t.kids |->
                      [j \in DOMAIN t.kids[i].kids |-> Member1(t.kids[i].name, t.kids[i].kids[j])]])
  IN [tag \in {t.name : t \in ToSet(structs)} |->
        Members1(CHOOSE t \in ToSet(structs) : t.name = tag)]

\* The type of an object as it is laid out in bytes; a bit-field has no place of its own.
RECURSIVE Layout(_, _)
Layout(tags, t) ==
  CASE IsPtr(t) -> Ptr
    [] IsArray(t) -> ArrayType(Layout(tags, t.of), t.n)
    [] IsStruct(t) -> StructType([i \in DOMAIN tags[t.tag] |-> Layout(tags, tags[t.tag][i].t)])
    [] OTHER -> t

RECURSIVE Cells(_, _)
Cells(tags, t) ==
  CASE IsArray(t) -> t.n * Cells(tags, t.of)
    [] IsStruct(t) -> FoldLeft(LAMBDA n, x : n + Cells(tags, x.t), 0, tags[t.tag])
    [] OTHER -> 1

\* What the cells of an object hold, and the first cell of a member.
RECURSIVE Scalars(_, _)
Scalars(tags, t) ==
  CASE IsArray(t) -> FlattenSeq([i \in 1 .. t.n |-> Scalars(tags, t.of)])
    [] IsStruct(t) -> FlattenSeq([i \in DOMAIN tags[t.tag] |-> Scalars(tags, tags[t.tag][i].t)])
    [] OTHER -> <<t>>
MemberIn(members, name) == CHOOSE i \in DOMAIN members : members[i].name = name
MemberStart(tags, members, i) == FoldLeft(LAMBDA n, x : n + Cells(tags, x.t), 0, SubSeq(members, 1, i - 1))

-----------------------------------------------------------------------------
(* A run.  cells: the memory; env: where the names are, and their types;   *)
(* out: how a statement ended, label: where a goto goes; v, t: the last    *)
(* value and its type; a, bits: the last object, whose type is in t.       *)

NotSet == 10 ^ 6  \* what no object holds, and what is in front of each object
Edge   == NotSet + 1
Going(m) == m.st = "ok"
Undefined(m) == [m EXCEPT !.st = "undefined"]
Then(m, Op(_)) == IF Going(m) THEN Op(m) ELSE m
Result(m, v, t) == [m EXCEPT !.v = v, !.t = t]
Found(m, a, t, bits) == [m EXCEPT !.a = a, !.t = t, !.bits = bits]

\* An object of type t, with cells in front of it that are no object's.
NewObject(m, name, t) ==
  LET edge == [i \in 1 .. 4 |-> Edge]
      a == Len(m.cells) + Len(edge) + 1
  IN [m EXCEPT !.cells = @ \o edge \o [i \in 1 .. Cells(m.tags, t) |-> NotSet],
               !.a = a, !.t = t, !.bits = 0, !.env = [x \in {name} |-> [a |-> a, t |-> t]] @@ @]

\* A value as an object of type t holds it; that of a bit-field has no sign.
Fit(v, t, bits) ==
  CASE bits > 0 -> v % 2 ^ bits
    [] IsInt(t) -> Wrap(v, t.bits)
    [] OTHER -> v
Keeping(m, a, t, bits, v) ==
  CASE IsStruct(t) -> [m EXCEPT !.cells = [i \in DOMAIN @ |-> IF i - a + 1 \in DOMAIN v THEN v[i - a + 1] ELSE @[i]],
                                !.v = v, !.t = t]
    [] a \notin DOMAIN m.cells \/ v = NotSet \/ m.cells[a] = Edge -> Undefined(m)
    [] OTHER -> [m EXCEPT !.cells[a] = Fit(v, t, bits), !.v = Fit(v, t, bits), !.t = t]
Fetched(m) ==
  CASE IsArray(m.t) -> Result(m, m.a, PointerTo(m.t.of))
    [] IsStruct(m.t) -> Result(m, SubSeq(m.cells, m.a, m.a + Cells(m.tags, m.t) - 1), m.t)
    [] m.a \notin DOMAIN m.cells \/ m.cells[m.a] \in {NotSet, Edge} -> Undefined(m)
    [] OTHER -> Result(m, m.cells[m.a], m.t)

\* Arithmetic on ints, and on a pointer and an int.
Calculated(m, o, a, at, b) ==
  LET moved == IsPtr(at) /\ o \in {"+", "-"}
      Kept1(fit) == IF fit = {} THEN Undefined(m)
                      ELSE Result(m, CHOOSE v \in fit : TRUE, IF moved THEN at ELSE I32)
  IN Kept1({v \in Apply(o, a, IF moved THEN b * Cells(m.tags, at.to) ELSE b) :
              IsPtr(at) \/ Wrap(v, I32.bits) = v})

\* "value" of an expression, "place" of one that is an lvalue, "statement", or "again" for a loop
\* that has begun and a block that is entered at a label.
RECURSIVE Does(_, _, _)

DoesAll(m, args) ==
  LET Took(r, vs) == [m |-> r, vs |-> Append(vs, r.v)]
  IN FoldLeft(LAMBDA p, e : Took(Does("value", p.m, e), p.vs), [m |-> m, vs |-> <<>>], args)

Calling(m, fn, vs) ==
  LET params == fn.kids[2].kids
      Passed(r, i) == Keeping(r, r.a, r.t, 0, vs[i])
      Bound(r, i, d) == Passed(NewObject(r, DeclaredName(d), DeclaredAs(d, BaseType(params[i].name))), i)
      Left(r, t) == [r EXCEPT !.env = m.env, !.out = "next", !.t = t,
                              !.v = IF r.out = "return" THEN Fit(r.v, t, 0) ELSE NotSet]
  IN Then(Does("statement",
               FoldLeft(LAMBDA r, i : Then(r, LAMBDA q : Bound(q, i, params[i].kids[1])),
                        [m EXCEPT !.env = m.globals], [i \in DOMAIN params |-> i]),
               fn.kids[3]),
          LAMBDA r : Left(r, BaseType(fn.name)))

\* The builtins of GNU C that count the bits of an int and turn its bytes around.
BuiltinNames == {"__builtin_abs", "__builtin_expect", "__builtin_ffs", "__builtin_popcount", "__builtin_clz",
                 "__builtin_ctz", "__builtin_bswap32", "__builtin_choose_expr"}
BuiltinValue(o, vs) ==
  LET width == I32.bits
      ones == {i \in 0 .. width - 1 : ((vs[1] % 2 ^ width) \div 2 ^ i) % 2 = 1}
  IN CASE o = "__builtin_abs" -> {IF vs[1] < 0 THEN -vs[1] ELSE vs[1]}
       [] o = "__builtin_expect" -> {vs[1]}
       [] o = "__builtin_ffs" -> {IF ones = {} THEN 0 ELSE Min(ones) + 1}
       [] o = "__builtin_popcount" -> {Cardinality(ones)}
       [] o = "__builtin_clz" -> {width - 1 - i : i \in IF ones = {} THEN {} ELSE {Max(ones)}}
       [] o = "__builtin_ctz" -> IF ones = {} THEN {} ELSE {Min(ones)}
       [] o = "__builtin_bswap32" -> {Wrap(Number(Reverse(Bytes(vs[1], I32)), 1), width)}
       [] o = "__builtin_choose_expr" -> {IF vs[1] # 0 THEN vs[2] ELSE vs[3]}

\* The object at a of type t is filled: an item goes to the next cell, or to the member that it
\* names, and what no item goes to is zero.
Filled(m, a, t, items) ==
  LET kinds == Scalars(m.tags, t)
      Place(i) == IF items[i].op = "field" THEN MemberStart(m.tags, m.tags[t.tag], MemberIn(m.tags[t.tag], items[i].name)) + 1 ELSE i
      Value1(i) == IF items[i].op = "field" THEN items[i].kids[1] ELSE items[i]
      Put1(r, i) == Then(Does("value", r, Value1(i)), LAMBDA v : Keeping(v, a + Place(i) - 1, kinds[Place(i)], 0, v.v))
      Zeros == FoldLeft(LAMBDA r, i : Keeping(r, a + i - 1, kinds[i], 0, 0), m, [i \in DOMAIN kinds |-> i])
  IN Found(FoldLeft(Put1, Zeros, [i \in DOMAIN items |-> i]), a, t, 0)

\* The operation of a compound assignment.
Plain(o) == SubSeq(o, 1, Len(o) - 1)

ValueOfTree(m, e) ==
  LET k == e.kids
      Val(r, i) == Does("value", r, k[i])
      Right(b, l) == Calculated(b, e.name, l.v, l.t, b.v)
      Truth1(r) == Result(r, Holds(r.v # 0), I32)
      Updated(c, l) == Keeping(c, l.a, l.t, l.bits, c.v)
      Changed(l, r, o, old, v) == Then(Calculated(r, o, old.v, old.t, v), LAMBDA c : Updated(c, l))
      Compound(l, r, o, v) == Then(Fetched([r EXCEPT !.a = l.a, !.t = l.t]), LAMBDA old : Changed(l, r, o, old, v))
      Stored(r, l) == IF e.name = "=" THEN Updated(r, l) ELSE Compound(l, r, Plain(e.name), r.v)
      Known(x) == x.op = "id" /\ x.name \in DOMAIN m.fns /\ x.name \notin DOMAIN m.env
      Called(p) ==
        IF k[1].name \in BuiltinNames
          THEN IF BuiltinValue(k[1].name, p.vs) = {} THEN Undefined(p.m)
                 ELSE Then(p.m, LAMBDA r : Result(r, CHOOSE v \in BuiltinValue(k[1].name, p.vs) : TRUE, I32))
        ELSE IF Known(k[1]) THEN Then(p.m, LAMBDA r : Calling(r, r.fns[k[1].name], p.vs))
          ELSE Then(Does("value", p.m, k[1]), LAMBDA r : Calling(r, r.fns[r.names[-r.v]], p.vs))
  IN CASE e.op = "num" -> Result(m, Numbers[e.name], I32)
       [] e.op = "id" /\ e.name \notin DOMAIN m.env ->
            IF e.name \notin DOMAIN m.fns THEN Undefined(m)
              ELSE Result(m, -(CHOOSE i \in DOMAIN m.names : m.names[i] = e.name), PointerTo(Void))
       [] e.op = "bin" ->
            Then(Val(m, 1),
                 LAMBDA l : CASE e.name \notin {"&&", "||"} -> Then(Val(l, 2), LAMBDA b : Right(b, l))
                              [] (e.name = "&&") = (l.v = 0) -> Truth1(l)
                              [] OTHER -> Then(Val(l, 2), Truth1))
       [] e.op = "pre" /\ e.name \in {"&", "++", "--"} ->
            Then(Does("place", m, k[1]),
                 LAMBDA l : IF e.name = "&" THEN Result(l, l.a, PointerTo(l.t))
                              ELSE Compound(l, l, Plain(e.name), 1))
       [] e.op = "pre" /\ e.name # "*" ->
            Then(Val(m, 1), LAMBDA r : Result(r, Wrap(ApplyPre(e.name, r.v), I32.bits), I32))
       [] e.op = "cond" -> Then(Val(m, 1), LAMBDA c : Val(c, IF c.v # 0 THEN 2 ELSE 3))
       [] e.op = "assign" -> Then(Does("place", m, k[1]), LAMBDA l : Then(Val(l, 2), LAMBDA r : Stored(r, l)))
       [] e.op = "comma" -> Val(Val(m, 1), 2)
       [] e.op = "call" -> Called(DoesAll(m, Tail(k)))
       [] e.op = "cast" -> Then(Val(m, 1), LAMBDA r : Result(r, Fit(r.v, BaseType(e.name), 0), BaseType(e.name)))
       [] e.op = "sizeof" ->
            IF k = <<>> THEN Result(m, SizeOf(Layout(m.tags, BaseType(e.name))), I32)
              ELSE Then(Does("place", m, k[1]), LAMBDA r : Result(m, SizeOf(Layout(m.tags, r.t)), I32))
       [] e.op = "literal" -> Then(Filled(NewObject(m, "", BaseType(e.name)), Len(m.cells) + 5, BaseType(e.name), k), Fetched)
       [] OTHER -> Then(Does("place", m, e), Fetched)

PlaceOfTree(m, e) ==
  LET k == e.kids
      MemberOf(r, a, members) ==
        LET i == MemberIn(members, k[2].name)
        IN Found(r, a + MemberStart(r.tags, members, i), members[i].t, members[i].bits)
      Indexed1(r, base) == Found(r, base.v + r.v * Cells(r.tags, base.t.to), base.t.to, 0)
  IN CASE e.op = "id" -> Found(m, m.env[e.name].a, m.env[e.name].t, 0)
       [] e.op = "pre" -> Then(Does("value", m, k[1]), LAMBDA r : Found(r, r.v, r.t.to, 0))
       [] e.op = "index" ->
            Then(Does("value", m, k[1]), LAMBDA base : Then(Does("value", base, k[2]), LAMBDA r : Indexed1(r, base)))
       [] e.op = "member" ->
            Then(Does(IF e.name = "->" THEN "value" ELSE "place", m, k[1]),
                 LAMBDA r : IF e.name = "->" THEN MemberOf(r, r.v, r.tags[r.t.to.tag]) ELSE MemberOf(r, r.a, r.tags[r.t.tag]))

\* A declarator, with what it is initialized by.
DeclareOne(m, t, d) ==
  LET Set(r) == IF d.kids[2].op = "list" THEN Filled(r, r.a, r.t, d.kids[2].kids)
                  ELSE Then(Does("value", r, d.kids[2]), LAMBDA v : Keeping(v, r.a, r.t, 0, v.v))
      Made(r) == IF d.op = "init" THEN Set(r) ELSE r
  IN Then(m, LAMBDA r : Made(NewObject(r, DeclaredName(d), DeclaredAs(d, t))))

\* An object that is static is made the first time, and starts with zeros; two of them have
\* different declarators.
ZeroFilled(cells) == [i \in DOMAIN cells |-> IF cells[i] = NotSet THEN 0 ELSE cells[i]]
DeclareStatic(m, t, d) ==
  LET Kept1(r) == [r EXCEPT !.statics = (d :> r.env[DeclaredName(d)]) @@ @,
                            !.cells = SubSeq(@, 1, Len(m.cells)) \o ZeroFilled(SubSeq(@, Len(m.cells) + 1, Len(@)))]
      Again(r) == [r EXCEPT !.env = (DeclaredName(d) :> r.statics[d]) @@ @]
  IN Then(m, LAMBDA r : IF d \in DOMAIN r.statics THEN Again(r) ELSE Then(DeclareOne(r, t, d), Kept1))

\* The items of a block from the first on, or from the label that a goto names.
ItemsOf(m, items) ==
  LET Entered(r, t) ==
        IF r.out = "goto" /\ t.op = "label" /\ t.name = r.label THEN [r EXCEPT !.out = "next"] ELSE r
      One(r, t) == IF r.out = "next" THEN Does("statement", r, t) ELSE r
  IN FoldLeft(LAMBDA r, t : Then(r, LAMBDA q : One(Entered(q, t), t)), m, items)

BlockOf(m, t) ==
  LET Again(r) == r.out = "goto" /\ \E i \in DOMAIN t.kids : t.kids[i].op = "label" /\ t.kids[i].name = r.label
  IN Then(ItemsOf(m, t.kids), LAMBDA r : IF Again(r) THEN Does("again", r, t) ELSE r)

\* The parts of a loop are the statement in front, the condition, the step and the body.
LoopParts(t) ==
  LET k == t.kids
  IN CASE t.op = "while" -> <<Absent, k[1], Absent, k[2]>>
       [] t.op = "do" -> <<Absent, k[2], Absent, k[1]>>
       [] t.op = "for" -> k
LoopOf(m, t, p) ==
  LET Test(r) == IF p[2] = Absent THEN Result(r, 1, I32) ELSE Does("value", r, p[2])
      Step1(r) == IF p[3] = Absent THEN r ELSE Does("value", r, p[3])
      Ended1(r) ==
        CASE r.out = "break" -> [r EXCEPT !.out = "next"]
          [] r.out \in {"next", "continue"} -> Does("again", Step1([r EXCEPT !.out = "next"]), t)
          [] OTHER -> r
      Body1(r) == Then(Does("statement", r, p[4]), Ended1)
  IN IF t.op = "do" /\ m.out = "begin" THEN Body1([m EXCEPT !.out = "next"])
       ELSE Then(Test([m EXCEPT !.out = "next"]), LAMBDA c : IF c.v # 0 THEN Body1(c) ELSE c)

SwitchOf(m, items) ==
  LET Is(c) == c[1] <= m.v /\ m.v <= c[Len(c)]
      hits == {i \in DOMAIN items :
                 items[i].op = "case" /\ Is([j \in DOMAIN items[i].kids |-> Numbers[items[i].kids[j].name]])}
      others == {i \in DOMAIN items : items[i].op = "default"}
      starts == IF hits # {} THEN hits ELSE others \cup {Len(items) + 1}
      Ended1(r) == IF r.out = "break" THEN [r EXCEPT !.out = "next"] ELSE r
  IN Then(ItemsOf(m, SubSeq(items, CHOOSE i \in starts : \A j \in starts : i <= j, Len(items))), Ended1)

StatementOf(m, t) ==
  LET k == t.kids
      In(r) == CASE k[1].op = "decl" -> Does("statement", r, k[1])
                 [] k[1] = Absent -> r
                 [] OTHER -> Does("value", r, k[1])
      InBlock(r) == [r EXCEPT !.env = m.env]
      Ending(r, how) == Then(r, LAMBDA q : [q EXCEPT !.out = how])
      Begun(r) == Does("again", Ending(r, "begin"), t)
  IN CASE t.op \in {"absent", "empty", "case", "default"} -> m
       [] t.op \in {"expr", "return"} -> Ending(In(m), IF t.op = "expr" THEN "next" ELSE "return")
       [] t.op = "block" -> Then(BlockOf(m, t), InBlock)
       [] t.op = "decl" /\ "static" \in ToSet(Spelled(t.name)) ->
            FoldLeft(LAMBDA r, d : DeclareStatic(r, BaseType(t.name), d), m, k)
       [] t.op = "decl" -> FoldLeft(LAMBDA r, d : DeclareOne(r, BaseType(t.name), d), m, k)
       [] t.op = "if" ->
            Then(In(m), LAMBDA c : CASE c.v # 0 -> Does("statement", c, k[2])
                                     [] c.v = 0 /\ Len(k) = 3 -> Does("statement", c, k[3])
                                     [] OTHER -> c)
       [] t.op \in {"while", "do", "for"} -> Then(Begun(IF t.op = "for" THEN In(m) ELSE m), InBlock)
       [] t.op = "switch" -> Then(Then(In(m), LAMBDA c : SwitchOf(c, k[2].kids)), InBlock)
       [] t.op = "label" -> Does("statement", m, k[1])
       [] t.op = "goto" -> [m EXCEPT !.label = t.name, !.out = "goto"]
       [] t.op \in {"break", "continue"} -> [m EXCEPT !.out = t.op]

Does(what, m, t) ==
  CASE ~Going(m) -> m
    [] m.left = 0 -> [m EXCEPT !.st = "slow"]
    [] what = "value" -> ValueOfTree(m, t)
    [] what = "place" -> PlaceOfTree(m, t)
    [] what = "statement" -> StatementOf([m EXCEPT !.left = @ - 1], t)
    [] what = "again" /\ t.op = "block" -> BlockOf([m EXCEPT !.left = @ - 1], t)
    [] what = "again" -> LoopOf([m EXCEPT !.left = @ - 1], t, LoopParts(t))

\* A program at its start: the variables of the file hold what they are initialized by, or zeros.
Unstarted(program) ==
  LET defs == SelectSeq(program, LAMBDA t : t.op = "function" /\ t.kids[3] # Absent)
      names == [i \in DOMAIN defs |-> defs[i].kids[1].name]
  IN [cells |-> <<>>, env |-> <<>>, globals |-> <<>>, statics |-> <<>>,
      tags |-> MembersOf(program), names |-> names,
      fns |-> [x \in ToSet(names) |-> defs[CHOOSE i \in DOMAIN defs : names[i] = x]],
      st |-> "ok", v |-> 0, t |-> I32, a |-> 0, bits |-> 0, out |-> "next", label |-> "", left |-> Fuel]
Started(program) ==
  FoldLeft(LAMBDA r, t : IF t.op = "decl" THEN Does("statement", r, t) ELSE r, Unstarted(program), program)

\* What calling f does.
CallEntry(m, f, args) == Calling([m EXCEPT !.globals = m.env, !.cells = ZeroFilled(@)], m.fns[f], args)
Means(program, f, args) == Outcome(CallEntry(Started(program), f, args))
=============================================================================
