------------------------------ MODULE Statements ------------------------------
(***************************************************************************)
(* Statements and block-scope declarations in backend/llvm.rs: the blocks  *)
(* that control flow is built from, the scopes of names, and the variables *)
(* of a function.  Inline assembly and computed gotos are left out.        *)
(***************************************************************************)
EXTENDS Lowering

CONSTANT MAX_CASE_RANGE_EXPANSION  \* the values that one case range is expanded to

-----------------------------------------------------------------------------
(* Scopes: what a name meant before an open scope declared it, in a set.   *)

push_scope(s) == IF Fine(s) THEN [s EXCEPT !.scopes = Append(@, Empty0)] ELSE s

\* Mutant: the names that the scope has hidden stay hidden.
pop_forgetting(s) == IF Fine(s) THEN [s EXCEPT !.scopes = Front(@)] ELSE s

pop_scope(s) ==
  IF ~Fine(s) \/ s.scopes = <<>> THEN s
  ELSE [s EXCEPT !.scopes = Front(@), !.vars = Restored(@, Last(s.scopes))]

insert_scoped_variable(s, name, binding) ==
  IF ~Fine(s) THEN s
  ELSE [s EXCEPT !.vars = Put(@, name, binding), !.scopes = HidInLast(@, s.vars, name)]

-----------------------------------------------------------------------------
(* Blocks.                                                                 *)

AppendBlocks(s, count) ==
  IF Fine(s) THEN [s EXCEPT !.fns[s.fn].blocks = @ \o [i \in 1 .. count |-> <<>>]] ELSE s
NewBlock(s) == Len(Blocks(s)) + 1
PositionAt(s, b) == IF Fine(s) THEN [s EXCEPT !.at = b] ELSE s

\* A block ends in a terminator, whatever else is in front of it.
Ended(s, b)   == Blocks(s)[b] # <<>> /\ Last(Blocks(s)[b]).op \in Terminators
Jump(s, b)    == Perform(s, "br", <<>>, <<b>>)
\* Mutant: a block that has ended gets a second terminator.
FallInto_always(s, b) == Jump(s, b)

FallInto(s, b) == IF Fine(s) /\ ~Ended(s, s.at) THEN Jump(s, b) ELSE s
Branch(s, c, yes, no) == Perform(s, "condbr", <<c>>, <<yes, no>>)
Ret(s, v)     == Perform(s, "ret", <<v>>, <<>>)
RetVoid(s)    == Perform(s, "ret", <<>>, <<>>)

\* The blocks that break and continue go to.
Entering(s, break, continue) ==
  IF Fine(s) THEN [s EXCEPT !.breaks = @ \o break, !.continues = @ \o continue] ELSE s
\* Mutant: a loop that ends leaves the block that continue goes to.
Leaving_breaks(s) == IF Fine(s) THEN [s EXCEPT !.breaks = Front(@)] ELSE s

Leaving(s) == IF Fine(s) THEN [s EXCEPT !.breaks = Front(@), !.continues = Front(@)] ELSE s

\* An error is passed over, and what was to be lowered has no value.
Tried(s) == IF s.st = "err" THEN [s EXCEPT !.st = "ok", !.v = NoValue] ELSE s

-----------------------------------------------------------------------------
(* Statements are lowered through Exec: "stmt" is lower_stmt, "value" is   *)
(* lower_expr, which statements use in many places.                        *)

RECURSIVE Exec(_, _, _)

\* What fails in a block is left out of it.
lower_compound(s, n) ==
  pop_scope(FoldLeft(LAMBDA r, c : Dropped(Exec("stmt", r, c)), push_scope(s), Children(n)))

\* A part that may be absent, behind which control goes to block next.
Part(s, n, next) == FallInto(IF IsNode(n) THEN Exec("stmt", s, n) ELSE s, next)

lower_if_stmt(s, n) ==
  LET cond_wrap == ast[ast[n].child]
      body_wrap == ast[cond_wrap.next]
      Arms(r, b) ==
        PositionAt(Part(PositionAt(Part(PositionAt(r, b), body_wrap.child, b + 2), b + 1), body_wrap.next, b + 2),
                   b + 2)
      Tested(c) == IF Fine(c) THEN Arms(Branch(AppendBlocks(c, 3), c.v, NewBlock(c), NewBlock(c) + 1), NewBlock(c)) ELSE c
      Condition(c) == IF Some(c) THEN Tested(coerce_to_bool(c, c.v)) ELSE Error(c)
  IN Condition(Exec("value", s, cond_wrap.child))

\* The block that decides whether a loop goes on; it does where there is no condition.
LoopCondition(s, cond, body, end) ==
  LET Tested(c) == Branch(c, c.v, body, end)
      Decided(c) ==
        CASE ~Fine(c) -> c
          [] Some(c) -> Tested(coerce_to_bool(c, c.v))
          [] OTHER -> Jump(c, body)
  IN IF IsNode(cond) THEN Decided(Exec("value", s, cond)) ELSE Jump(s, body)

\* What fails in the body of a loop is left out of it.
LoopBody(s, n, next) == FallInto(IF IsNode(n) THEN Dropped(Exec("stmt", s, n)) ELSE s, next)

lower_while_stmt(s, n) ==
  LET wrap == ast[ast[n].child]
      do == ast[n].data = 1
      cond == IF do THEN wrap.next ELSE wrap.child
      body == IF do THEN ast[n].child ELSE wrap.next
      Looped(r, b) ==
        LoopBody(PositionAt(LoopCondition(PositionAt(r, b), cond, b + 1, b + 2), b + 1), body, b)
      Entered(r, b) == Jump(Entering(r, <<b + 2>>, <<b>>), IF do THEN b + 1 ELSE b)
      Whole(b) == PositionAt(Leaving(Looped(Entered(AppendBlocks(s, 3), b), b)), b + 2)
  IN Whole(NewBlock(s))

\* Mutant: continue goes to the condition, as in a while.
EnterFor_while(s, b) == Jump(Entering(AppendBlocks(s, 4), <<b + 3>>, <<b>>), b)

\* The four blocks of a for are the condition, the increment, the body and the end.
EnterFor(s, b) == Jump(Entering(AppendBlocks(s, 4), <<b + 3>>, <<b + 1>>), b)

lower_for_stmt(s, n) ==
  LET init_wrap == ast[ast[n].child]
      cond_wrap == ast[init_wrap.next]
      incr_wrap == ast[cond_wrap.next]
      Back(r, b) == IF Fine(r) /\ ~Ended(r, b + 1) THEN Jump(r, b) ELSE r
      Incremented(r, b) == Back(IF IsNode(incr_wrap.child) THEN Exec("value", r, incr_wrap.child) ELSE r, b)
      Looped(r, b) ==
        LoopBody(PositionAt(LoopCondition(PositionAt(r, b), cond_wrap.child, b + 2, b + 3), b + 2),
                 incr_wrap.next, b + 1)
      Whole(r, b) ==
        PositionAt(Leaving(Incremented(PositionAt(Looped(EnterFor(r, b), b), b + 1), b)), b + 3)
      Started(r) == IF Fine(r) THEN Whole(r, NewBlock(r)) ELSE r
  IN Started(IF IsNode(init_wrap.child) THEN Exec("stmt", s, init_wrap.child) ELSE s)

-----------------------------------------------------------------------------
(* switch.  Only labels on the level of its body count; p holds the state, *)
(* the cases found so far as pairs of a value and a block, and the blocks  *)
(* of the labels.                                                          *)

CaseBlock(p, n, cases) ==
  [p EXCEPT !.cases = @ \o cases, !.where = Put(@, n, p.b)]
NewCase(p) == [p EXCEPT !.s = AppendBlocks(p.s, 1), !.b = NewBlock(p.s)]

\* A value that is no integer, or none, is taken for 0.
CaseLabel(p, n, t) ==
  LET Found(v) == CaseBlock([p EXCEPT !.s = v], n, <<[v |-> v.v, to |-> p.b]>>)
      Sized(v) == IF Some(v) /\ IsInt(v.v.t) THEN Resize(v, "sext", v.v, t) ELSE With(v, Zero(t))
  IN IF IsNode(ast[n].child) THEN Found(Sized(Tried(Exec("value", p.s, ast[n].child)))) ELSE CaseBlock(p, n, <<>>)

\* Of a range, each value up to the limit; its ends are taken without their sign.
CaseRangeLabel(p, n, t) ==
  LET Low(v) == IF v.k = "const" THEN Pattern(v.n, v.t.bits) ELSE 0
      Count(lo, hi) == IF hi >= lo THEN Min({hi - lo + 1, MAX_CASE_RANGE_EXPANSION}) ELSE 1
      Values(lo, hi) == [i \in 1 .. Count(lo, hi) |-> [v |-> Const(t, lo + i - 1), to |-> p.b]]
      Both(lo, r) ==
        CaseBlock([p EXCEPT !.s = r], n,
                  IF Some(r) /\ IsInt(lo.t) /\ IsInt(r.v.t) THEN Values(Low(lo), Low(r.v)) ELSE <<>>)
      High(r) == Both(r.v, Tried(Exec("value", r, ast[n].data)))
  IN High(Tried(Exec("value", p.s, ast[n].child)))

SwitchLabel(p, n, t) ==
  CASE KindAt(n) = "case" -> CaseLabel(NewCase(p), n, t)
    [] KindAt(n) = "case_range" -> CaseRangeLabel(NewCase(p), n, t)
    [] KindAt(n) = "default" -> [p EXCEPT !.where = Put(@, n, p.default)]
    [] OTHER -> p

\* Of the cases of one value the first counts; all that are no constants are taken for one.
Distinct(cases) ==
  LET Key(c) == IF c.v.k = "const" THEN Pattern(c.v.n, c.v.t.bits) ELSE 2 ^ I64.bits - 1
      First2(i) == \A j \in 1 .. i - 1 : Key(cases[j]) # Key(cases[i])
      kept == SelectSeq([i \in DOMAIN cases |-> i], First2)
  IN [i \in DOMAIN kept |-> cases[kept[i]]]

\* Mutant: control does not fall from one case into the next.
FallToLabel_never(s, b, end) == PositionAt(FallInto(s, end), b)

\* Control that comes to a label goes on behind it.
FallToLabel(s, b, end) == PositionAt(FallInto(s, b), b)

\* The body, whose labels are at these blocks; the last of it goes to the end.
SwitchBody(s, body, where, end) ==
  LET Item0(r, c) == IF c \in DOMAIN where THEN FallToLabel(r, where[c], end) ELSE Dropped(Exec("stmt", r, c))
  IN FallInto(pop_scope(FoldLeft(Item0, push_scope(s), body)), end)

\* Blocks of labels that have not ended go to the end.
CloseLabel(s, b, end) == IF Fine(s) /\ ~Ended(s, b) THEN Jump(PositionAt(s, b), end) ELSE s
CloseLabels(s, body, p, end) ==
  FoldLeft(LAMBDA q, c : IF c \in DOMAIN p.where THEN CloseLabel(q, p.where[c], end) ELSE q,
           CloseLabel(s, p.default, end), body)
LeaveSwitch(s, end) == PositionAt(IF Fine(s) THEN [s EXCEPT !.breaks = Front(@)] ELSE s, end)

lower_switch_stmt(s, n) ==
  LET cond_wrap == ast[ast[n].child]
      body == IF KindAt(cond_wrap.next) = "compound" THEN Children(cond_wrap.next) ELSE Siblings(cond_wrap.next)
      Walked(r, p, end) == LeaveSwitch(CloseLabels(SwitchBody(r, body, p.where, end), body, p, end), end)
      Built(p, x, cases, end) ==
        Walked(Entering(Perform(p.s, "switch", <<x>> \o [i \in DOMAIN cases |-> cases[i].v],
                                <<p.default>> \o [i \in DOMAIN cases |-> cases[i].to]), <<end>>, <<>>),
               p, end)
      Labelled(p, x, end) == IF Fine(p.s) THEN Built(p, x, Distinct(p.cases), end) ELSE p.s
      Start0(r, b) == [s |-> AppendBlocks(r, 2), cases |-> <<>>, where |-> Empty0, b |-> b, default |-> b + 1]
      Switched(r, b) ==
        Labelled(FoldLeft(LAMBDA p, c : SwitchLabel(p, c, r.v.t), Start0(r, b), body), r.v, b)
      Condition(c) == IF Fine(c) THEN Switched(c, NewBlock(c)) ELSE c
      Number0(c) ==
        CASE ~Some(c) -> Error(c)
          [] IsRecord(c.v.t) -> Number32(c, 0)
          [] OTHER -> AsWord(c, c.v)
  IN Condition(Number0(Exec("value", s, cond_wrap.child)))

-----------------------------------------------------------------------------
(* Jumps.                                                                  *)

\* The block of a label, which a goto or the label itself makes.
LabelBlock(s, name) ==
  IF name \in DOMAIN s.labels \/ ~Fine(s) THEN s
    ELSE [AppendBlocks(s, 1) EXCEPT !.labels = Put(s.labels, name, NewBlock(s))]

lower_goto_stmt(s, n) ==
  LET name == ast[n].name
      To(r) == IF Fine(r) THEN Jump(r, r.labels[name]) ELSE r
  IN IF name = "" THEN s ELSE To(LabelBlock(s, name))

lower_labeled_stmt(s, n) ==
  LET name == ast[n].name
      Placed(r) == IF Fine(r) THEN PositionAt(FallInto(r, r.labels[name]), r.labels[name]) ELSE r
      Inner(r) == IF IsNode(ast[n].child) THEN Exec("stmt", r, ast[n].child) ELSE r
  IN Inner(IF name = "" THEN s ELSE Placed(LabelBlock(s, name)))

lower_break_continue(s, n) ==
  LET targets == IF KindAt(n) = "break" THEN s.breaks ELSE s.continues
  IN IF targets = <<>> THEN s ELSE Jump(s, Last(targets))

\* What is returned has the function's type: numbers are converted, and what cannot be is zero,
\* or is not returned at all.
ReturnValue(s, x) ==
  CASE ~Fine(s) -> s
    [] IsPtr(s.ret) /\ IsPtr(x.t) -> Ret(s, x)
    [] IsPtr(s.ret) /\ IsInt(x.t) -> LET p == ToPointer(s, x) IN Ret(p, p.v)
    [] IsPtr(s.ret) -> Ret(s, Zero(Ptr))
    [] IsStruct(s.ret) -> Ret(s, IF IsStruct(x.t) THEN x ELSE Zero(s.ret))
    [] IsInt(x.t) /\ IsInt(s.ret) -> LET w == Resize(s, "sext", x, s.ret) IN Ret(w, w.v)
    [] IsInt(x.t) -> Ret(s, x)
    [] IsPtr(x.t) /\ IsInt(s.ret) -> LET w == CastTo(s, "ptrtoint", x, s.ret) IN Ret(w, w.v)
    [] OTHER -> s

\* Where there is no value, or no expression, zero is returned.
ReturnZero(s) == Ret(s, Zero(IF IsArray(s.ret) THEN I32 ELSE s.ret))
ReturnEmpty(s) == IF IsArray(s.ret) THEN Panic(s) ELSE Ret(s, Zero(s.ret))

\* A function of no type evaluates the expression and returns nothing.
lower_return_stmt(s, n) ==
  LET c == ast[n].child
      Returned(r) ==
        CASE ~Fine(r) -> r
          [] Some(r) -> ReturnValue(r, r.v)
          [] OTHER -> ReturnZero(r)
  IN CASE s.ret = Void -> RetVoid(IF IsNode(c) THEN Dropped(Exec("value", s, c)) ELSE s)
       [] IsNode(c) -> Returned(Exec("value", s, c))
       [] OTHER -> ReturnEmpty(s)

-----------------------------------------------------------------------------
(* Variables of a function.                                                *)

\* The words in front of the type of a declaration.
SkippedWords == {"extern", "static", "auto", "register", "_Thread_local", "const", "restrict", "volatile"}
SpecOf(n) == First(SelectSeq(Children(n), LAMBDA c : KindAt(c) \notin SkippedWords))
IsStatic(n) ==
  LET c == Children(n)
  IN \E i \in DOMAIN c : KindAt(c[i]) = "static" /\ \A j \in 1 .. i : KindAt(c[j]) \in SkippedWords

DeclaredType(s, spec) ==
  CASE KindAt(spec) \notin RecordKinds -> node_kind_to_llvm_type(KindAt(spec))
    [] ast[spec].name \in DOMAIN s.structs -> s.structs[ast[spec].name].type
    [] ast[spec].child # NULL -> build_struct_llvm_type(s, spec)
    [] OTHER -> I8

Tagged(spec) == KindAt(spec) \in RecordKinds /\ ast[spec].name # ""

\* What is known of a variable's struct: its fields, what it points to and the struct's tag.
KnowFields(s, spec, name, type, info) ==
  [s EXCEPT !.fields = IF info = {} THEN @ ELSE Put(@, name, The(info).names),
            !.ptrs = IF info # {} /\ IsPtr(type) THEN Put(@, name, The(info).type) ELSE @,
            !.tags = IF Tagged(spec) THEN Put(@, name, ast[spec].name) ELSE @]
KnowStruct(s, spec, name, type) ==
  IF Fine(s) THEN KnowFields(s, spec, name, type, struct_info_for_spec(s, spec)) ELSE s
KnowBytes(s, spec, name, type, init) ==
  IF Fine(s) /\ IsPtr(type) /\ (KindAt(spec) \in {"char", "_Bool"} \/ subtree_has_byte_pointer_ident(s, init))
    THEN [s EXCEPT !.bytep = @ \cup {name}] ELSE s

\* The value that a variable starts with; that of an array is left out.
StorePointer(s, p) == StoreAt(s, s.v, p)
StoreInitial(s, type, p) ==
  CASE ~Some(s) -> s
    [] types_compatible(type, s.v) -> StoreAt(s, s.v, p)
    [] IsPtr(type) /\ IsInt(s.v.t) -> StorePointer(ToPointer(s, s.v), p)
    [] OTHER -> s
InitVariable(s, name, type, p, init) ==
  CASE ~Fine(s) \/ IsArray(type) \/ ~IsNode(init) -> s
    [] KindAt(init) = "designated" /\ IsStruct(type) ->
         lower_designated_init_into_struct(LAMBDA r, c : Exec("value", r, c), s, init, p, type, At0(s.fields, name))
    [] KindAt(init) = "designated" -> s
    [] OTHER -> StoreInitial(Exec("value", s, init), type, p)

\* A variable on the stack, which the state's value points to.
BindLocal(s, spec, name, b, init, with) ==
  InitVariable(KnowBytes(insert_scoped_variable(KnowStruct(s, spec, name, b.type), name, b), spec, name, b.type, init),
               name, b.type, b.ptr, IF with THEN init ELSE NULL)
NewLocal(s, spec, name, type, fn, init, with) ==
  BindLocal(s, spec, name, Binding(s.v, type, fn), init, with)

\* with is whether the declaration says that it starts with the initializer.
LocalVariable(s, spec, base, d, init, with) ==
  IF Fine(s) /\ find_ident_name_in(d) # ""
    THEN NewLocal(build_entry_alloca(s, declarator_llvm_type(d, base)), spec, find_ident_name_in(d),
                  declarator_llvm_type(d, base), function_type_from_declarator(s, d, base, KindAt(spec)), init, with)
    ELSE s

-----------------------------------------------------------------------------
(* Variables that are static in a function: globals of their own, whose    *)
(* structs are initialized by constants and names.  Other initializers are *)
(* left out by the code.                                                   *)

\* Where the fields of a struct are, or those of the structs in an array, and their types.
FieldSlots(type, from) ==
  [i \in DOMAIN type.fields |-> [start |-> from + FieldStart(type.fields, i), t |-> type.fields[i]]]
Slots(type) ==
  CASE IsStruct(type) -> FieldSlots(type, 0)
    [] IsArray(type) /\ IsStruct(type.of) ->
         FlattenSeq([e \in 1 .. type.n |-> FieldSlots(type.of, (e - 1) * SizeOf(type.of))])
    [] OTHER -> <<>>

\* What an item gives a field of type t: functions have addresses, and in arrays other globals.
StaticValue(s, item, t, globals) ==
  LET name == ast[item].name
      zero == IF IsPtr(t) \/ IsRecord(t) THEN Zero(t) ELSE Zero(I32)
  IN CASE KindAt(item) = "ident" /\ name \in DOMAIN s.fns -> With(s, Global(name))
       [] KindAt(item) = "ident" /\ globals /\ name \in DOMAIN s.globals -> With(s, Global(name))
       [] KindAt(item) = "ident" -> With(s, zero)
       [] KindAt(item) \in {"int_const", "char_const"} /\ IsInt(t) -> With(s, Const(t, ast[item].data))
       [] KindAt(item) = "string" -> lower_string_const(s, item)
       [] OTHER -> With(s, Zero(t))

\* Global name holds that value from start on.  One of another type makes an invalid module.
StaticField(s, name, slot) ==
  LET Over(bytes, new) ==
        [k \in DOMAIN bytes |-> IF k - slot.start \in DOMAIN new THEN new[k - slot.start] ELSE bytes[k]]
  IN CASE ~Fine(s) -> s
       [] s.v.t # slot.t -> Panic(s)
       [] s.v.k = "global" -> [s EXCEPT !.globals[name].refs = Put(@, slot.start, s.v.name)]
       [] IsRecord(slot.t) -> s
       [] OTHER -> [s EXCEPT !.globals[name].bytes = Over(@, Bytes(s.v.n, slot.t))]

StaticItems(s, name, type, items) ==
  LET slots == Slots(type)
  IN FoldLeft(LAMBDA r, i : StaticField(StaticValue(r, items[i], slots[i].t, IsArray(type)), name, slots[i]),
              s, [i \in 1 .. Min({Len(slots), Len(items)}) |-> i])

\* An array of structs without a length has as many as there are items for.
StaticType(type, items) ==
  LET fields == IF IsArray(type) /\ IsStruct(type.of) THEN Len(type.of.fields) ELSE 0
  IN IF fields > 0 /\ type.n = 0 /\ Len(items) >= fields
       THEN ArrayType(type.of, Len(items) \div fields) ELSE type

\* Later functions know the variable, too.
BindStatic(s, spec, name, b) ==
  IF Fine(s) THEN [insert_scoped_variable(s, name, b) EXCEPT
                     !.gvars = Put(@, name, b),
                     !.gtags = IF Tagged(spec) THEN Put(@, name, ast[spec].name) ELSE @]
    ELSE s
NewStatic(s, spec, name, global, type, fn, items) ==
  KnowBytes(BindStatic(KnowStruct(StaticItems([s EXCEPT !.counter = @ + 1,
                                                        !.globals = Put(@, global, ZeroGlobal(type))],
                                              global, type, items),
                                  spec, name, type),
                       spec, name, Binding(Global(global), type, fn)),
            spec, name, type, NULL)
StaticVariable(s, spec, base, d, items) ==
  IF Fine(s) /\ find_ident_name_in(d) # ""
    THEN NewStatic(s, spec, find_ident_name_in(d), find_ident_name_in(d) \o ".static." \o ToString(s.counter),
                   StaticType(declarator_llvm_type(d, base), items),
                   function_type_from_declarator(s, d, base, KindAt(spec)), items)
    ELSE s

Variable(s, spec, static, base, d, with) ==
  IF static
    THEN StaticVariable(s, spec, base, d,
                        IF with \/ IsStruct(declarator_llvm_type(d, base)) THEN Following(d) ELSE <<>>)
    ELSE LocalVariable(s, spec, base, d, ast[d].next, with)

\* The declarators of a declaration; behind one that is static and has no initializer no other
\* counts, and what follows it is taken for its values.
PlainKinds == DeclaratorKinds \cup {"ident"}
InitDeclarator(s, spec, static, c) ==
  IF Fine(s) /\ KindAt(c) \in PlainKinds \cup {"assign"}
    THEN Variable(s, spec, static, DeclaredType(s, spec), IF KindAt(c) = "assign" THEN ast[c].child ELSE c,
                  KindAt(c) = "assign")
    ELSE s
lower_var_decl(s, n) ==
  LET all == Children(n)
      last == SelectInSeq(all, LAMBDA c : KindAt(c) \in PlainKinds /\ find_ident_name_in(c) # "")
  IN IF KindAt(SpecOf(n)) = "typedef" THEN s
       ELSE FoldLeft(LAMBDA r, c : InitDeclarator(r, SpecOf(n), IsStatic(n), c), s,
                     IF IsStatic(n) /\ last > 0 THEN SubSeq(all, 1, last) ELSE all)

\* A declaration of declarations.
lower_decl(s, n) ==
  FoldLeft(LAMBDA r, c : IF KindAt(c) = "var_decl" THEN Dropped(Exec("stmt", r, c)) ELSE r, s, Children(n))

-----------------------------------------------------------------------------
lower_expr_stmt(s, n) == IF IsNode(ast[n].child) THEN Exec("value", s, ast[n].child) ELSE s

\* What does nothing where a statement stands.
NoStatements ==
  TypeKinds \cup StorageWords
  \cup {"empty", "case", "case_range", "default", "bitfield", "param", "struct_decl", "enum_const",
        "attribute", "extension"}

lower_stmt(s, n) ==
  LET k == KindAt(n)
  IN CASE ~IsNode(n) \/ k \in NoStatements -> s
       [] k = "decl" -> lower_decl(s, n)
       [] k = "var_decl" -> lower_var_decl(s, n)
       [] k = "compound" -> lower_compound(s, n)
       [] k = "if" -> lower_if_stmt(s, n)
       [] k = "while" -> lower_while_stmt(s, n)
       [] k = "for" -> lower_for_stmt(s, n)
       [] k = "return" -> lower_return_stmt(s, n)
       [] k = "expr_stmt" -> lower_expr_stmt(s, n)
       [] k \in {"break", "continue"} -> lower_break_continue(s, n)
       [] k = "goto" -> lower_goto_stmt(s, n)
       [] k = "switch" -> lower_switch_stmt(s, n)
       [] k = "label" -> lower_labeled_stmt(s, n)
       [] OTHER -> Exec("value", s, n)

Exec(what, s, n) ==
  CASE ~Fine(s) -> s
    [] what = "value" -> Lower("value", s, n)
    [] what = "stmt" -> lower_stmt(s, n)
=============================================================================
