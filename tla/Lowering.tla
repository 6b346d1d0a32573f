------------------------------ MODULE Lowering ------------------------------
(***************************************************************************)
(* Expressions in backend/llvm.rs: the instructions that a node of the     *)
(* tree becomes.  Floating point, atomics and the addresses of labels are  *)
(* left out.                                                               *)
(*                                                                         *)
(* A function that lowers a node takes the backend's state and returns the *)
(* one it leaves, with the value (NoValue for None) in v; what finds an    *)
(* lvalue leaves its address in v and its type in t.  In a state that is   *)
(* not "ok" nothing is done any more, as ? returns at once.                *)
(***************************************************************************)
EXTENDS BackendTypes, Scopes

CONSTANTS
  PPNames,  \* the identifiers that start with pp or pz
  ZNames,   \* those that start with z
  Texts     \* the bytes of string literals

-----------------------------------------------------------------------------
(* The backend's state.                                                    *)

\* structs: struct_tag_types, _fields, _gep_info and _field_fn_types by tag; order: the tags as
\* the hash maps go through them; fns, globals: the module; callable: functions; vars, gvars:
\* variables and global_variables; ptrs: pointer_struct_types; fields: struct_fields; tags, gtags:
\* var_struct_tag and global_struct_tags; bytep: byte_pointer_vars; scopes: what the open scopes
\* hide; breaks, continues: blocks; labels: label_blocks; fn, at: function and block that are
\* built; ret: current_return_type; reach: reachable_functions; bits: last_bitfield_access.
BackendStart(order) ==
  [structs |-> Empty0, order |-> order, fns |-> Empty0, globals |-> Empty0, callable |-> {},
   vars |-> Empty0, gvars |-> Empty0, ptrs |-> Empty0, fields |-> Empty0, tags |-> Empty0,
   gtags |-> Empty0, bytep |-> {}, aliases |-> {}, statics |-> {}, reach |-> {}, scopes |-> <<>>,
   breaks |-> <<>>, continues |-> <<>>, labels |-> Empty0, fn |-> "", at |-> 0, ret |-> Void,
   counter |-> 0, st |-> "ok", v |-> NoValue, t |-> Void, bits |-> <<>>]

Fine(s)      == s.st = "ok"
Error(s)     == IF Fine(s) THEN [s EXCEPT !.st = "err"] ELSE s
Panic(s)     == IF Fine(s) THEN [s EXCEPT !.st = "panic"] ELSE s
Dropped(s)   == IF s.st = "err" THEN [s EXCEPT !.st = "ok"] ELSE s
With(s, v)   == IF Fine(s) THEN [s EXCEPT !.v = v] ELSE s
Nothing(s)   == With(s, NoValue)
Number32(s, n) == With(s, Const(I32, n))
Some(s)      == Fine(s) /\ s.v.k # "none"

Drop(f, x)   == [z \in DOMAIN f \ {x} |-> f[z]]
Binding(ptr, type, fn) == [ptr |-> ptr, type |-> type, fn |-> fn]

-----------------------------------------------------------------------------
(* Instructions.  What is constant is calculated at once.                  *)

Blocks(s) == s.fns[s.fn].blocks
Emit(s, op, t, args, name, to) ==
  LET reg == s.fns[s.fn].regs + 1
  IN IF ~Fine(s) THEN s
       ELSE [s EXCEPT !.fns[s.fn].regs = reg, !.v = Reg(IF op = "alloca" THEN Ptr ELSE t, reg),
                      !.fns[s.fn].blocks[s.at] = Append(@, Instr(op, t, reg, args, name, to))]

\* What has no value leaves the last one.
Perform(s, op, args, to) == With(Emit(s, op, Void, args, "", to), s.v)

build_entry_alloca(s, t) ==
  LET reg == s.fns[s.fn].regs + 1
  IN IF ~Fine(s) THEN s
       ELSE [s EXCEPT !.fns[s.fn].regs = reg, !.v = Reg(Ptr, reg),
                      !.fns[s.fn].blocks[1] = <<Instr("alloca", t, reg, <<>>, "", <<>>)>> \o @]

LoadAs(s, t, p)   == Emit(s, "load", t, <<p>>, "", <<>>)
StoreAt(s, v, p)  == Perform(s, "store", <<v, p>>, <<>>)
Gep(s, size, p, i) == Emit(s, "gep", Ptr, <<p, i>>, "", <<size>>)

\* The i-th field of a struct, and an element of an array.
StructGep(s, t, p, i) ==
  IF i \in DOMAIN t.fields
    THEN [Gep(s, FieldStart(t.fields, i), p, Const(I32, 1)) EXCEPT !.t = t.fields[i]] ELSE Error(s)
ElementGep(s, t, p, i) == [Gep(s, SizeOf(t), p, i) EXCEPT !.t = t]

IsConst(x) == x.k = "const" /\ IsInt(x.t)
IsZero(x)  == IsConst(x) /\ x.n = 0
Compute(s, op, a, b) ==
  LET Computed(t, known) ==
        IF known = {} THEN Emit(s, "bin", t, <<a, b>>, op, <<>>) ELSE With(s, Const(t, The(known)))
  IN IF ~Fine(s) THEN s
       ELSE Computed(IF op \in Comparisons THEN I1 ELSE a.t,
                     IF IsConst(a) /\ IsConst(b) THEN Calculate(op, a.t.bits, a.n, b.n) ELSE {})

CastTo(s, op, x, t) ==
  CASE ~Fine(s) -> s
    [] x.t = t -> With(s, x)
    [] x.k = "const" -> With(s, Const(t, Convert(op, x.n, x.t, t)))
    [] OTHER -> Emit(s, "cast", t, <<x>>, op, <<>>)

\* An integer of another width: extended by op, or truncated.
Resize(s, op, x, t) ==
  CASE ~Fine(s) -> s
    [] x.t.bits < t.bits -> CastTo(s, op, x, t)
    [] OTHER -> CastTo(s, "trunc", x, t)

Select(s, c, a, b) ==
  IF IsConst(c) /\ a.k = "const" /\ b.k = "const" THEN With(s, IF c.n # 0 THEN a ELSE b)
    ELSE Emit(s, "select", a.t, <<c, a, b>>, "", <<>>)

\* An integer of 64 bits for a pointer, or an integer that is extended by op to at least that.
AsWord(s, x) == IF IsPtr(x.t) THEN CastTo(s, "ptrtoint", x, I64) ELSE With(s, x)
ToPointer(s, x) ==
  IF IsZero(x) THEN With(s, Zero(Ptr)) ELSE CastTo(s, "inttoptr", x, Ptr)

NotZero(w) == Compute(w, "ne", w.v, Zero(w.v.t))
coerce_to_bool(s, x) ==
  CASE ~Fine(s) -> s
    [] IsInt(x.t) /\ x.t = I1 -> With(s, x)
    [] IsInt(x.t) \/ IsPtr(x.t) -> NotZero(AsWord(s, x))
    [] OTHER -> Error(s)

\* An int variable takes an integer of any width, as it is.
types_compatible(t, x) == t.t = x.t.t

-----------------------------------------------------------------------------
(* Operators.                                                              *)

SignedOps ==
  "+" :> "add" @@ "-" :> "sub" @@ "*" :> "mul" @@ "/" :> "sdiv" @@ "%" :> "srem" @@ "==" :> "eq"
  @@ "!=" :> "ne" @@ "<" :> "slt" @@ ">" :> "sgt" @@ "<=" :> "sle" @@ ">=" :> "sge" @@ "&&" :> "and"
  @@ "||" :> "or" @@ "&" :> "and" @@ "|" :> "or" @@ "^" :> "xor" @@ "<<" :> "shl" @@ ">>" :> "lshr"
PointerOps ==
  "+" :> "add" @@ "-" :> "sub" @@ "==" :> "eq" @@ "!=" :> "ne" @@ "<" :> "ult" @@ ">" :> "ugt"
  @@ "<=" :> "ule" @@ ">=" :> "uge"
AssignOps ==
  "+=" :> "add" @@ "-=" :> "sub" @@ "*=" :> "mul" @@ "/=" :> "sdiv" @@ "%=" :> "srem" @@ "&=" :> "and"
  @@ "|=" :> "or" @@ "^=" :> "xor" @@ "<<=" :> "shl" @@ ">>=" :> "lshr"

ComputeBoth(l, op, r) == Compute(r, op, l.v, r.v)
Together(l, how, op, b, w) == ComputeBoth(l, op, CastTo(l, how, b, w))

\* Mutant: the narrower operand is zero-extended.
Arithmetic_unsigned(s, op, a, b) ==
  LET w == IF a.t.bits < b.t.bits THEN b.t ELSE a.t
  IN IF Fine(s) THEN Together(CastTo(s, "zext", a, w), "zext", op, b, w) ELSE s

\* The narrower operand is sign-extended.
Arithmetic(s, op, a, b) ==
  LET w == IF a.t.bits < b.t.bits THEN b.t ELSE a.t
  IN IF Fine(s) THEN Together(CastTo(s, "sext", a, w), "sext", op, b, w) ELSE s

\* An operation with a pointer is one on words, and its result is not a pointer any more.
PointerWord(s, x) ==
  IF IsRecord(x.t) THEN Error(s) ELSE CastTo(s, IF IsPtr(x.t) THEN "ptrtoint" ELSE "zext", x, I64)
PointerBoth(l, op, r) == IF op \in DOMAIN PointerOps THEN ComputeBoth(l, PointerOps[op], r) ELSE Error(r)
PointerRight(l, op, b) == PointerBoth(l, op, PointerWord(l, b))
PointerArithmetic(s, op, a, b) == PointerRight(PointerWord(s, a), op, b)

\* A pointer moves by bytes, and the distance of two pointers is an integer.
MovedBy(l, i) == Gep(i, 1, l, i.v)
AssignWords(a, op, moves, b) ==
  CASE moves -> ComputeBoth(a, "sub", b)
    [] Fine(b) /\ IsInt(a.v.t) /\ IsInt(b.v.t) /\ op \in DOMAIN AssignOps ->
         Arithmetic(b, AssignOps[op], a.v, b.v)
    [] OTHER -> Error(b)
AssignRight(a, op, moves, r) == AssignWords(a, op, moves, AsWord(a, r))
apply_assignment_op(s, op, l, r) ==
  LET moves == IsPtr(l.t) /\ op \in {"+=", "-="}
  IN CASE ~Fine(s) -> s
       [] op = "=" -> With(s, r)
       [] moves /\ IsInt(r.t) -> MovedBy(l, IF op = "-=" THEN Compute(s, "sub", Zero(r.t), r) ELSE With(s, r))
       [] moves /\ IsRecord(r.t) -> Error(s)
       [] OTHER -> AssignRight(AsWord(s, l), op, moves, r)

-----------------------------------------------------------------------------
(* The functions that lower nodes call each other through Lower: "value"   *)
(* is lower_expr, "lvalue" lower_lvalue_ptr, "member" lower_member_access_ *)
(* ptr and "element" lower_array_element_ptr.                              *)

RECURSIVE Lower(_, _, _)

\* Names.

lower_ident(s, n) ==
  LET name == ast[n].name
      b == s.vars[name]
  IN CASE name \in DOMAIN s.vars /\ IsArray(b.type) -> Gep(s, 0, b.ptr, Zero(I32))
       [] name \in DOMAIN s.vars -> LoadAs(s, b.type, b.ptr)
       [] name \in s.callable -> With(s, Global(name))
       [] OTHER -> Nothing(s)

\* Every literal is a global of its own.
lower_string_const(s, n) ==
  LET name == ".str" \o ToString(Cardinality(DOMAIN s.globals))
  IN IF ~Fine(s) THEN s
       ELSE With([s EXCEPT !.globals = Put(@, name, GlobalOf(Append(Texts[ast[n].name], 0)))],
                 Global(name))

\* The struct that a name is known to point to.
PointedStruct(s, name) == At0(s.ptrs, name)
TagsOf(s, name) ==
  IF name \in DOMAIN s.tags THEN {s.tags[name]} ELSE At0(s.gtags, name)
TypesOfTags(s, T) == {s.structs[tag].type : tag \in T \cap DOMAIN s.structs}
BindingsOf(s, name) == IF name \in DOMAIN s.vars THEN {s.vars[name]} ELSE At0(s.gvars, name)

\* What *p is an object of, where the variable p says so.
Pointee(s, n) ==
  LET name == ast[n].name
      pointer == name \in DOMAIN s.vars /\ IsPtr(s.vars[name].type)
  IN CASE KindAt(n) # "ident" -> I32
       [] name \in DOMAIN s.ptrs -> s.ptrs[name]
       [] pointer /\ name \in PPNames -> Ptr
       [] pointer /\ name \in s.bytep \cup ZNames -> I8
       [] OTHER -> I32

-----------------------------------------------------------------------------
(* Operators of the language.                                              *)

lower_binop(s, n) ==
  LET wrapper == ast[ast[n].child]
      op == ast[n].name
      Both(a, b) ==
        CASE ~Some(b) -> Error(b)
          [] IsPtr(a.v.t) \/ IsPtr(b.v.t) -> PointerArithmetic(b, op, a.v, b.v)
          [] IsRecord(a.v.t) \/ IsRecord(b.v.t) -> Error(b)
          [] OTHER -> Arithmetic(b, SignedOps[op], a.v, b.v)
      Left(a) == IF Some(a) THEN Both(a, Lower("value", a, wrapper.next)) ELSE Error(a)
  IN Left(Lower("value", s, wrapper.child))

\* ++ and --, in front or behind: the result is the new value.
lower_step(s, n) ==
  LET c == ast[n].child
      up == ast[n].name = "++"
      name == IF KindAt(c) = "ident" THEN ast[c].name ELSE ""
      structs == IF PointedStruct(s, name) # {} THEN PointedStruct(s, name)
                   ELSE TypesOfTags(s, At0(s.tags, name))
      size == IF structs = {} THEN 1 ELSE SizeOf(The(structs))
      Stored(a, u) == With(StoreAt(u, u.v, a.v), u.v)
      Stepped(a, b) ==
        CASE ~Fine(b) -> b
          [] IsInt(b.v.t) -> Stored(a, Compute(b, IF up THEN "add" ELSE "sub", b.v, Const(b.v.t, 1)))
          [] IsPtr(b.v.t) -> Stored(a, Gep(b, size, b.v, Const(I64, IF up THEN 1 ELSE -1)))
          [] OTHER -> Error(b)
      Step(a) == IF Some(a) THEN Stepped(a, LoadAs(a, a.t, a.v)) ELSE Error(a)
  IN Step(Lower("lvalue", s, c))

lower_unop(s, n) ==
  LET c == ast[n].child
      op == ast[n].name
      Address(a, p) == IF Some(p) THEN p ELSE With(p, a.v)
      Word0(w) == Compute(w, "sub", Zero(w.v.t), w.v)
      Opposite(w) == Compute(w, "eq", w.v, Zero(w.v.t))
      Applied(a) ==
        CASE ~Some(a) -> Error(a)
          [] op = "-" -> IF IsRecord(a.v.t) THEN Panic(a) ELSE Word0(AsWord(a, a.v))
          [] op = "!" -> IF IsRecord(a.v.t) THEN a ELSE Opposite(AsWord(a, a.v))
          [] op = "~" -> IF IsInt(a.v.t) THEN Compute(a, "xor", a.v, Const(a.v.t, -1)) ELSE a
          [] op = "&" -> Address(a, Lower("lvalue", a, c))
          [] op = "*" -> IF IsPtr(a.v.t) THEN LoadAs(a, Pointee(a, c), a.v) ELSE a
          [] OTHER -> Error(a)
  IN IF op \in {"++", "--"} THEN lower_step(s, n) ELSE Applied(Lower("value", s, c))

\* Both branches are evaluated; where their types differ the first is the result.
lower_cond_expr(s, n) ==
  LET wrapper == ast[ast[n].next]
      Chosen(b, x, y) ==
        CASE ~Fine(y) -> y
          [] Some(x) /\ Some(y) /\ x.v.t = y.v.t -> Select(y, b.v, x.v, y.v)
          [] Some(x) -> With(y, x.v)
          [] OTHER -> y
      Then(b, x) == Chosen(b, x, Lower("value", x, wrapper.next))
      Tested(b) == Then(b, Lower("value", b, wrapper.child))
      Condition(c) == IF Some(c) THEN Tested(coerce_to_bool(c, c.v)) ELSE c
  IN Condition(Lower("value", s, ast[n].child))

lower_comma_expr(s, n) == Lower("value", Lower("value", s, ast[n].child), ast[n].next)

\* Types in front of the operand are skipped; nothing is converted.
lower_cast_expr(s, n) ==
  LET chain == Children(n)
      operand == {i \in 2 .. Len(chain) : KindAt(chain[i]) \notin TypeKinds}
  IN IF chain = <<>> THEN Nothing(s)
       ELSE Lower("value", s, IF operand = {} THEN chain[1] ELSE chain[Min(operand)])

\* The size of an element or a member is that of its lvalue, whose instructions stay.
lower_sizeof_expr(s, n) ==
  LET node == IF KindAt(ast[n].child) = "sizeof" THEN ast[ast[n].child] ELSE ast[n]
      c == node.child
      Size0(r, size) == With(r, Const(I64, size))
      Of(r) == Size0(Dropped(r), IF Some(r) THEN llvm_type_size_bytes(r.t) ELSE 4)
  IN CASE ~IsNode(ast[n].child) -> Size0(s, 4)
       [] node.data = 0 -> Size0(s, sizeof_type_from_ast(s, c))
       [] KindAt(c) = "string" -> Size0(s, Len(Texts[ast[c].name]) + 1)
       [] KindAt(c) = "ident" /\ ast[c].name \in DOMAIN s.vars ->
            Size0(s, llvm_type_size_bytes(s.vars[ast[c].name].type))
       [] KindAt(c) = "index" -> Of(Lower("element", s, c))
       [] KindAt(c) = "member" -> [Of(Lower("member", s, c)) EXCEPT !.bits = s.bits]
       [] OTHER -> Size0(s, 4)

-----------------------------------------------------------------------------
(* Lvalues.                                                                *)

\* Where the name is one of a field, its number; 0 for none.
Position(names, field) == SelectInSeq(names, LAMBDA x : x = field)

\* The first tag, as the hash map has them, of a struct with these fields that has one so named.
FirstTag(s, Test(_)) ==
  LET found == SelectSeq(s.order, LAMBDA tag : tag \in DOMAIN s.structs /\ Test(s.structs[tag]))
  IN IF found = <<>> THEN {} ELSE {s.structs[found[1]]}
StructsOf(s, type, field) ==
  FirstTag(s, LAMBDA e : e.type = type /\ Position(e.names, field) > 0)

\* The field of a variable's struct: what is known of its tag counts, then the field's place in
\* the tag's names or the variable's, or the first.
FieldOf(s, name, field) ==
  LET entries == {s.structs[tag] : tag \in TagsOf(s, name) \cap DOMAIN s.structs}
      geps == UNION {At0(e.geps, field) : e \in entries}
      places == {Position(e.names, field) : e \in entries} \ {0}
      own == {Position(f, field) : f \in At0(s.fields, name)} \ {0}
  IN CASE geps # {} -> The(geps)
       [] places # {} -> [at |-> The(places), bits |-> <<>>]
       [] own # {} -> [at |-> The(own), bits |-> <<>>]
       [] OTHER -> [at |-> 1, bits |-> <<>>]

\* v.field and v->field of a variable.
member_of_variable(s, name, field, arrow) ==
  LET f == FieldOf(s, name, field)
      b == The(BindingsOf(s, name))
      structs == IF PointedStruct(s, name) # {} THEN PointedStruct(s, name)
                   ELSE TypesOfTags(s, At0(s.tags, name))
      found == [s EXCEPT !.bits = f.bits]
      Through(p) == StructGep(p, The(structs), p.v, f.at)
  IN CASE ~Fine(s) -> s
       [] BindingsOf(s, name) = {} -> Nothing(found)
       [] arrow /\ structs = {} -> Nothing(found)
       [] arrow -> Through(LoadAs(found, Ptr, b.ptr))
       [] ~IsStruct(b.type) -> Nothing(found)
       [] OTHER -> StructGep(found, b.type, b.ptr, f.at)

\* Structs of one or two fields that no tag is known for: an anonymous union's fields by name.
UnnamedField(type, field) ==
  CASE Len(type.fields) = 1 -> {1}
    [] Len(type.fields) = 2 /\ field = "pHash" -> {1}
    [] Len(type.fields) = 2 /\ field = "pDestructor" -> {2}
    [] OTHER -> {}

\* Of an element or a member, base, whose struct is looked up by its layout.
member_of_lvalue(base, field, element) ==
  LET known == StructsOf(base, base.t, field)
      unnamed == IF element THEN {} ELSE UnnamedField(base.t, field)
  IN CASE ~Some(base) -> base
       [] IsStruct(base.t) /\ known # {} ->
            StructGep(base, base.t, base.v, Position(The(known).names, field))
       [] IsStruct(base.t) /\ unnamed # {} -> StructGep(base, base.t, base.v, The(unnamed))
       [] IsPtr(base.t) /\ ~element -> base
       [] OTHER -> Nothing(base)

RECURSIVE find_member_access_root_var(_)
find_member_access_root_var(n) ==
  CASE KindAt(ast[n].child) = "ident" -> ast[ast[n].child].name
    [] KindAt(ast[n].child) = "member" -> find_member_access_root_var(ast[n].child)
    [] OTHER -> ""

\* (a->b)->field: taken for a field of the struct that the variable a points to.
member_of_pointer(base, c, field) ==
  LET origin == find_member_access_root_var(c)
      same == origin \in DOMAIN base.ptrs /\ origin \in DOMAIN base.fields
      any == FirstTag(base, LAMBDA e : Position(e.names, field) > 0)
      place == Position(base.fields[origin], field)
  IN CASE ~Fine(base) -> base
       [] ~IsPtr(base.v.t) \/ KindAt(c) # "member" -> Nothing(base)
       [] same -> StructGep(base, base.ptrs[origin], base.v, IF place = 0 THEN 1 ELSE place)
       [] any # {} -> StructGep(base, The(any).type, base.v, Position(The(any).names, field))
       [] OTHER -> Nothing(base)

lower_member_access_ptr(s, n) ==
  LET c == ast[n].child
      field == ast[n].name
      arrow == ast[n].data = 1
      r == [s EXCEPT !.bits = <<>>]
  IN CASE KindAt(c) = "ident" -> member_of_variable(r, ast[c].name, field, arrow)
       [] arrow -> member_of_pointer(Lower("value", r, c), c, field)
       [] KindAt(c) = "index" -> member_of_lvalue(Lower("element", r, c), field, TRUE)
       [] KindAt(c) = "member" -> member_of_lvalue(Lower("member", r, c), field, FALSE)
       [] OTHER -> Nothing(r)

\* What p[i] is an object of, where the variable p says so.
Indexed(s, n) ==
  LET name == ast[n].name
  IN CASE KindAt(n) # "ident" \/ name \notin DOMAIN s.vars -> I32
       [] ~IsPtr(s.vars[name].type) -> I32
       [] name \in DOMAIN s.ptrs -> s.ptrs[name]
       [] name \in PPNames -> Ptr
       [] OTHER -> I8

\* An array is indexed where it is, or else in a copy; a pointer from where it points to.
lower_array_element_ptr(s, n) ==
  LET c == ast[n].child
      variable == KindAt(c) = "ident" /\ ast[c].name \in DOMAIN s.vars
      b == s.vars[ast[c].name]
      Copied(v, i, p) == ElementGep(StoreAt(p, v, p.v), v.t.of, p.v, i)
      Based(i, v) ==
        CASE ~Some(v) -> v
          [] IsPtr(v.v.t) -> ElementGep(v, Indexed(v, c), v.v, i)
          [] IsArray(v.v.t) -> Copied(v.v, i, Emit(v, "alloca", v.v.t, <<>>, "", <<>>))
          [] OTHER -> Nothing(v)
      Placed(i, l) ==
        IF Some(l) /\ IsArray(l.t) THEN ElementGep(l, l.t.of, l.v, i) ELSE Based(i, Lower("value", l, c))
      At1(i) ==
        CASE ~Fine(i) -> i
          [] ~IsInt(i.v.t) -> Nothing(i)
          [] variable /\ IsArray(b.type) -> ElementGep(i, b.type.of, b.ptr, i.v)
          [] OTHER -> Placed(i.v, Lower("lvalue", i, c))
  IN At1(Lower("value", s, ast[n].next))

\* What a pointer is stored to through has the type of a pointer, whatever it points to.
lower_lvalue_ptr(s, n) ==
  LET name == ast[n].name
      b == s.vars[name]
      r == [s EXCEPT !.bits = <<>>]
      Deref(p) == IF Fine(p) /\ IsPtr(p.v.t) THEN [p EXCEPT !.t = Ptr] ELSE Nothing(p)
  IN CASE KindAt(n) = "ident" /\ name \in DOMAIN s.vars /\ IsArray(b.type) ->
            ElementGep(r, b.type.of, b.ptr, Zero(I32))
       [] KindAt(n) = "ident" /\ name \in DOMAIN s.vars -> [With(r, b.ptr) EXCEPT !.t = b.type]
       [] KindAt(n) = "unop" /\ ast[n].name = "*" -> Deref(Lower("value", r, ast[n].child))
       [] KindAt(n) = "index" -> Lower("element", r, n)
       [] KindAt(n) = "member" -> Lower("member", r, n)
       [] OTHER -> Nothing(r)

\* The bits of a bit-field in its unit, which is loaded.
Mask(width) == 2 ^ width - 1
Shifted(u, op, t, by) == IF by > 0 THEN Compute(u, op, u.v, Const(t, by)) ELSE u
Masked(u, t, mask) == Compute(u, "and", u.v, Const(t, mask))
FieldBits(s, bits) == IF Fine(s) THEN Masked(Shifted(s, "lshr", s.v.t, bits[1]), s.v.t, Mask(bits[2])) ELSE s

lower_member_access(s, n) ==
  LET Unit(p, u) == IF p.bits = <<>> THEN u ELSE FieldBits([u EXCEPT !.bits = <<>>], p.bits)
      Read(p) == IF Some(p) THEN Unit(p, LoadAs(p, p.t, p.v)) ELSE p
  IN Read(Lower("member", s, n))

lower_array_index(s, n) ==
  LET Read(p) == IF Some(p) THEN LoadAs(p, p.t, p.v) ELSE p
  IN Read(Lower("element", s, n))

-----------------------------------------------------------------------------
(* Assignment.                                                             *)

\* A name that is known to point to bytes occurs in the tree at n.
subtree_has_byte_pointer_ident(s, n) ==
  \E m \in ToSet(Below(ast, n)) : KindAt(m) = "ident" /\ ast[m].name \in s.bytep \cup ZNames

\* Mutant: the other bits of the unit are not kept.
StoreBits(p, new, r) == With(StoreAt(r, r.v, p.v), new)
InsertBits_clearing(p, x, bits) ==
  LET Placed(m) == StoreBits(p, m.v, Shifted(m, "shl", p.t, bits[1]))
  IN IF Fine(x) THEN Placed(Masked(x, p.t, Mask(bits[2]))) ELSE x

\* The bits at p become those of x, as wide as the unit: it is loaded, changed and stored.
JoinBits(p, kept, new, m) == StoreBits(p, new, Compute(m, "or", kept, m.v))
PlaceBits(p, kept, m, at) == JoinBits(p, kept, m.v, Shifted(m, "shl", p.t, at))
WidenBits(p, c, x) ==
  CASE ~Fine(c) -> c
    [] ~IsInt(x.t) -> With(c, Zero(p.t))
    [] x.t.bits > p.t.bits /\ ~IsConst(x) -> Panic(c)  \* no such instruction
    [] OTHER -> CastTo(c, "zext", x, p.t)
ClearedUnit(p, c, x, bits) == PlaceBits(p, c.v, Masked(WidenBits(p, c, x), p.t, Mask(bits[2])), bits[1])
InsertBits(p, x, bits) ==
  IF Fine(x) THEN ClearedUnit(p, Masked(LoadAs(x, p.t, p.v), p.t, -1 - Mask(bits[2]) * 2 ^ bits[1]), x.v, bits)
    ELSE x

\* The right operand comes first; the result is loaded from where it has been stored.
KnowByteStore(s, n, p) ==
  IF KindAt(ast[n].child) = "ident" /\ IsPtr(p.t) /\ subtree_has_byte_pointer_ident(s, ast[n].next)
    THEN [s EXCEPT !.bytep = @ \cup {ast[ast[n].child].name}] ELSE s
StoreResult(p, n, x) ==
  LoadAs(IF Fine(x) /\ types_compatible(p.t, x.v) THEN KnowByteStore(StoreAt(x, x.v, p.v), n, p) ELSE x, p.t, p.v)
ConvertedFor(p, x) ==
  CASE ~Fine(x) -> x
    [] IsInt(p.t) /\ IsInt(x.v.t) -> Resize(x, "sext", x.v, p.t)
    [] IsPtr(p.t) /\ IsInt(x.v.t) -> ToPointer(x, x.v)
    [] OTHER -> x

\* The value that the operator makes of the old one, which is bits of a unit or the whole.
OldValue(p, bits) == IF bits = <<>> THEN LoadAs(p, p.t, p.v) ELSE FieldBits(LoadAs(p, p.t, p.v), bits)
UpdatedBy(c, op, r) == apply_assignment_op(c, op, c.v, r)
Assign0(p, n, x, bits) == IF bits = <<>> THEN StoreResult(p, n, ConvertedFor(p, x)) ELSE InsertBits(p, x, bits)
AssignAt(p, n, r, bits) ==
  Assign0(p, n, IF ast[n].name = "=" THEN With(p, r) ELSE UpdatedBy(OldValue(p, bits), ast[n].name, r), bits)
AssignTo(r, n, p) ==
  CASE ~Fine(p) -> p
    [] ~Some(p) -> With(p, r)
    [] OTHER -> AssignAt(IF p.bits = <<>> THEN p ELSE [p EXCEPT !.bits = <<>>], n, r, p.bits)
lower_assign_expr(s, n) ==
  LET Assigned(r) == IF Some(r) THEN AssignTo(r.v, n, Lower("lvalue", r, ast[n].child)) ELSE r
  IN Assigned(Lower("value", s, ast[n].next))

-----------------------------------------------------------------------------
(* Calls.                                                                  *)

\* The state after the arguments, and their values; one that has none is left out.
Args(s, nodes) ==
  LET Expression(a) == IF KindAt(a) = "arg" THEN ast[a].child ELSE a
      Copy(p, v, r) == [s |-> StoreAt(r, v, r.v), args |-> Append(p.args, r.v)]
      Took(p, r, decays) ==
        CASE ~Some(r) -> [p EXCEPT !.s = r]
          [] decays /\ IsArray(r.v.t) -> Copy(p, r.v, Emit(r, "alloca", r.v.t, <<>>, "", <<>>))
          [] OTHER -> [s |-> r, args |-> Append(p.args, r.v)]
      Arg(p, a) == Took(p, Lower("value", p.s, Expression(a)), KindAt(a) = "arg")
  IN FoldLeft(Arg, [s |-> s, args |-> <<>>], nodes)

TypesOfValues(args) ==
  [i \in DOMAIN args |-> IF IsInt(args[i].t) \/ IsPtr(args[i].t) THEN args[i].t ELSE I32]

\* Arguments as a function takes them: those missing are zero, pointers and integers are converted
\* to each other and integers to their width.
CoerceArg(s, x, t) ==
  CASE ~Fine(s) -> s
    [] IsPtr(x.t) /\ IsInt(t) -> CastTo(s, "ptrtoint", x, t)
    [] IsInt(x.t) /\ IsPtr(t) -> CastTo(s, "inttoptr", x, Ptr)
    [] IsInt(x.t) /\ IsInt(t) -> Resize(s, "zext", x, t)
    [] OTHER -> With(s, x)
CoerceArgs(s, args, params) ==
  LET missing == [i \in 1 .. Len(params) - Len(args) |->
                    IF IsPtr(params[Len(args) + i]) THEN Zero(Ptr) ELSE Zero(I32)]
      Took(p, r, i) == [s |-> r, args |-> [p.args EXCEPT ![i] = r.v]]
      Coerced(p, i) == Took(p, CoerceArg(p.s, p.args[i], params[i]), i)
  IN FoldLeft(Coerced, [s |-> s, args |-> args \o missing], [i \in DOMAIN params |-> i])

NewFunction(type, blocks) ==
  [ret |-> type.ret, params |-> type.params, more |-> type.more, blocks |-> blocks,
   regs |-> Len(type.params)]
Declared(s, name, type) ==
  IF Fine(s) THEN [s EXCEPT !.fns = Put(@, name, NewFunction(type, <<>>)), !.callable = @ \cup {name}]
    ELSE s

\* What a call gives: what the function returns, or what stands for nothing.
CallOf(s, name, args) ==
  LET r == Emit(s, "call", s.fns[name].ret, args, name, <<>>)
  IN IF s.fns[name].ret = Void THEN Number32(r, 0) ELSE r
IndirectCall(s, type, f, args, nothing) ==
  LET r == Emit(s, "indirect", type.ret, <<f>> \o args, "", <<>>)
  IN IF type.ret = Void THEN With(r, nothing) ELSE r

\* A function that is not known returns an int and takes what it is given.
call_function(s, name, args) ==
  LET known == [s EXCEPT !.callable = @ \cup {name}]
      Called(p) == IF Fine(p.s) THEN CallOf(p.s, name, p.args) ELSE p.s
  IN CASE ~Fine(s) -> s
       [] name \in DOMAIN s.fns -> Called(CoerceArgs(known, args, s.fns[name].params))
       [] OTHER -> CallOf(Declared(s, name, FnType(I32, TypesOfValues(args), FALSE)), name, args)

call_variable(s, name, args) ==
  LET b == s.vars[name]
      type == IF b.fn = {} THEN FnType(I32, TypesOfValues(args), TRUE) ELSE The(b.fn)
      Called(f) == IF Fine(f) THEN IndirectCall(f, type, f.v, args, Const(I32, 0)) ELSE f
      Loaded0(l) ==
        CASE ~Fine(l) -> l
          [] IsPtr(l.v.t) -> Called(l)
          [] IsInt(l.v.t) -> Called(CastTo(l, "inttoptr", l.v, Ptr))
          [] OTHER -> call_function(l, name, args)
  IN Loaded0(LoadAs(s, b.type, b.ptr))

\* The struct that a member access is into, and the type of the function its field points to.
RECURSIVE MemberStruct(_, _)
MemberStruct(s, n) ==
  LET c == ast[n].child
      name == ast[c].name
      held == {b.type : b \in BindingsOf(s, name)}
      FieldsOf(t) ==
        UNION {{t.fields[i] : i \in {Position(e.names, ast[c].name)} \cap DOMAIN t.fields} :
                 e \in FirstTag(s, LAMBDA x : x.type = t)}
  IN CASE KindAt(c) = "ident" /\ ast[n].data = 1 /\ name \in DOMAIN s.ptrs -> {s.ptrs[name]}
       [] KindAt(c) = "ident" /\ ast[n].data = 0 /\ \E t \in held : IsStruct(t) -> held
       [] KindAt(c) = "ident" -> TypesOfTags(s, TagsOf(s, name))
       [] KindAt(c) = "member" -> {t \in UNION {FieldsOf(u) : u \in MemberStruct(s, c)} : IsStruct(t)}
       [] OTHER -> {}
function_type_for_member_access(s, n) ==
  UNION {At0(e.fns, ast[n].name) :
           e \in UNION {FirstTag(s, LAMBDA x : x.type = t) : t \in MemberStruct(s, n)}}

\* A callee that is no name: a pointer to a function, which is taken to return a pointer.
call_value(s, c, args) ==
  LET known == IF KindAt(c) = "member" THEN function_type_for_member_access(s, c) ELSE {}
      type == IF known = {} THEN FnType(Ptr, TypesOfValues(args), FALSE) ELSE The(known)
  IN CASE ~Some(s) -> s
       [] IsPtr(s.v.t) -> IndirectCall(s, type, s.v, args, Zero(Ptr))
       [] OTHER -> Nothing(s)

FirstArg(s, args) ==
  IF args = <<>> \/ IsRecord(args[1].t) THEN Number32(s, 0) ELSE With(s, args[1])

\* The name of a type in place of a function is a conversion, which does nothing.
lower_call_expr(s, n) ==
  LET c == ast[n].child
      name == IF KindAt(c) = "ident" THEN ast[c].name ELSE ""
      Call0(p) ==
        CASE ~Fine(p.s) -> p.s
          [] name = "" -> call_value(Lower("value", p.s, c), c, p.args)
          [] name \in {"va_start", "va_end", "va_copy"} -> Number32(p.s, 0)
          [] name \in s.aliases \cup {"u8"} -> FirstArg(p.s, p.args)
          [] name \in DOMAIN s.vars -> call_variable(p.s, name, p.args)
          [] OTHER -> call_function(p.s, name, p.args)
  IN Call0(Args(s, IF IsNode(c) THEN Following(c) ELSE <<>>))

-----------------------------------------------------------------------------
(* The builtins of GNU C.                                                  *)

\* What a type argument is compared by.
RECURSIVE lower_builtin_type_signature(_)
lower_builtin_type_signature(n) ==
  LET k == KindAt(n)
      Inner == lower_builtin_type_signature(ast[n].child)
  IN CASE ~IsNode(n) -> <<>>
       [] k = "ident" -> <<"ident", ast[n].name>>
       [] k \in {"signed", "unsigned"} -> <<"int">>
       [] k \in {"void", "int", "char", "short", "long", "_Bool"} -> <<k>>
       [] k \in RecordKinds -> <<k, ast[n].name>>
       [] k \in {"pointer", "array"} /\ Inner # <<>> -> <<k, ToString(IF k = "array" THEN ast[n].data ELSE 0)>> \o Inner
       [] OTHER -> Inner

lower_builtin_int_constant(n) == IF KindAt(n) = "int_const" THEN {ast[n].data} ELSE {}

\* An instruction on one integer that LLVM has as a function; 0 where there is no integer.
IntrinsicOf(s, name, args) ==
  IF args = <<>> \/ ~IsInt(args[1].t) THEN Number32(s, 0)
    ELSE Emit(s, "intrinsic", args[1].t, <<args[1]>>, name, <<>>)
Intrinsics ==
  "__builtin_clz" :> "ctlz" @@ "__builtin_ctz" :> "cttz" @@ "__builtin_popcount" :> "ctpop"
  @@ "__builtin_bswap32" :> "bswap"

\* The number of the lowest bit that is set, from 1, and 0 for none.
builtin_ffs(s, args) ==
  LET x == args[1]
      Tested(p, z) == Select(z, z.v, Zero(x.t), p.v)
      Added(p) == Tested(p, Compute(p, "eq", x, Zero(x.t)))
      Counted(c) == Added(Compute(c, "add", c.v, Const(x.t, 1)))
  IN IF args = <<>> \/ ~IsInt(x.t) THEN Number32(s, 0) ELSE Counted(IntrinsicOf(s, "cttz0", args))

builtin_abs(s, args) ==
  LET x == args[1]
      Tested(m, z) == Select(z, z.v, m, x)
      Opposite(m) == Tested(m.v, Compute(m, "slt", x, Zero(x.t)))
  IN IF args = <<>> \/ ~IsInt(x.t) THEN Number32(s, 0) ELSE Opposite(Compute(s, "sub", Zero(x.t), x))

\* No overflow is ever found.
builtin_overflow(s, op, args) ==
  LET Stored(r) == Number32(StoreAt(r, r.v, args[3]), 0)
  IN IF Len(args) >= 3 /\ IsInt(args[1].t) /\ IsInt(args[2].t) /\ IsPtr(args[3].t)
       THEN Stored(Arithmetic(s, op, args[1], args[2])) ELSE Number32(s, 0)
Overflows ==
  "__builtin_add_overflow" :> "add" @@ "__builtin_sub_overflow" :> "sub" @@ "__builtin_mul_overflow" :> "mul"

builtin_choose_expr(s, nodes, args) ==
  LET constants == lower_builtin_int_constant(nodes[1]) \cup {args[i].n : i \in {j \in {1} : IsConst(args[j])}}
      chosen == IF constants = {} \/ The(constants) # 0 THEN args[2] ELSE args[3]
  IN IF Len(args) >= 3 /\ ~IsRecord(chosen.t) THEN With(s, chosen) ELSE Nothing(s)

builtin_alloca(s, args) ==
  Emit(s, "alloca", I8, IF args # <<>> /\ IsInt(args[1].t) THEN <<args[1]>> ELSE <<>>, "", <<>>)

\* Others are functions of that name, with any arguments.
builtin_function(s, name, args) ==
  LET copies == name \in {"__builtin_memcpy", "__builtin_memset", "__builtin_strlen"}
      type == IF copies THEN FnType(I64, [i \in DOMAIN args |-> IF IsRecord(args[i].t) THEN I64 ELSE args[i].t], FALSE)
                ELSE FnType(I32, <<>>, TRUE)
  IN CASE ~Fine(s) -> s
       [] name \in s.callable -> CallOf(s, name, args)
       [] OTHER -> CallOf(Declared(s, name, type), name, args)

lower_builtin_call(s, n) ==
  LET name == ast[n].name
      nodes == Children(n)
      First1(p) == IF p.args = <<>> \/ IsRecord(p.args[1].t) THEN Nothing(p.s) ELSE With(p.s, p.args[1])
      Signature(i) == IF i \in DOMAIN nodes THEN lower_builtin_type_signature(nodes[i]) ELSE <<>>
      ObjectKind(args) == IF Len(args) >= 2 /\ IsConst(args[2]) THEN args[2].n ELSE 0
      Built(p) ==
        CASE ~Fine(p.s) -> p.s
          [] name \in {"__builtin_expect", "__builtin_expect_with_probability", "__builtin_assume_aligned"} -> First1(p)
          [] name = "__builtin_constant_p" ->
               Number32(p.s, Truth(KindAt(ast[n].child) \in {"int_const", "char_const", "string"}))
          [] name = "__builtin_offsetof" -> With(p.s, Zero(I64))
          [] name = "__builtin_types_compatible_p" ->
               Number32(p.s, Truth(Signature(1) # <<>> /\ Signature(1) = Signature(2)))
          [] name = "__builtin_unreachable" -> Nothing(Perform(p.s, "unreachable", <<>>, <<>>))
          [] name = "__builtin_trap" ->
               Nothing(Perform(Perform(p.s, "trap", <<>>, <<>>), "unreachable", <<>>, <<>>))
          [] name \in DOMAIN Intrinsics -> IntrinsicOf(p.s, Intrinsics[name], p.args)
          [] name = "__builtin_ffs" -> builtin_ffs(p.s, p.args)
          [] name = "__builtin_abs" -> builtin_abs(p.s, p.args)
          [] name = "__builtin_object_size" -> With(p.s, Const(I64, IF ObjectKind(p.args) \in {0, 1} THEN -1 ELSE 0))
          [] name \in {"__builtin_frame_address", "__builtin_return_address"} -> With(p.s, Zero(Ptr))
          [] name = "__builtin_prefetch" -> Number32(p.s, 0)
          [] name = "__builtin_choose_expr" -> builtin_choose_expr(p.s, nodes, p.args)
          [] name = "__builtin_alloca" -> builtin_alloca(p.s, p.args)
          [] name \in DOMAIN Overflows -> builtin_overflow(p.s, Overflows[name], p.args)
          [] OTHER -> builtin_function(p.s, name, p.args)
  IN Built(Args(s, nodes))

-----------------------------------------------------------------------------
(* Initializers and literals of structs and arrays.                        *)

\* The first part of a designated initializer that is an expression.
Expressions ==
  {"ident", "int_const", "char_const", "string", "binop", "unop", "ternary", "call", "index", "member",
   "cast", "sizeof", "comma", "assign", "arg"}
lower_designated_init(s, n) ==
  LET values == SelectSeq(Children(n), LAMBDA c : KindAt(c) \in Expressions)
  IN IF values = <<>> THEN Nothing(s) ELSE Lower("value", s, values[1])

\* The designated initializers from first on are stored into the struct at p: under the names that
\* are given, or those of the first tag with so many fields.  A name that is none is the first field.
lower_designated_init_into_struct(Expr0(_, _), s, first, p, type, names) ==
  LET guess == {e.names : e \in FirstTag(s, LAMBDA x : Len(x.names) = Len(type.fields))}
      all == names \cup (IF names = {} THEN guess ELSE {})
      place(d) == IF all = {} THEN 0 ELSE Position(The(all), ast[d].name)
      Stored(v, g) == StoreAt(g, v, g.v)
      Valued(d, r) ==
        IF Some(r) THEN Stored(r.v, StructGep(r, type, p, IF place(d) = 0 THEN 1 ELSE place(d))) ELSE r
      Field(r, d) == Valued(d, Expr0(r, ast[d].child))
      fields == SelectSeq(Siblings(first), LAMBDA d : /\ KindAt(d) = "designated" /\ ast[d].name # ""
                                                      /\ ast[d].child # NULL)
  IN FoldLeft(Field, s, fields)

maybe_cast(s, x, t) ==
  IF Fine(s) /\ IsInt(x.t) /\ IsInt(t) THEN Resize(s, "sext", x, t) ELSE With(s, x)

\* The type of a compound literal, whose elements may give the length of an array.
LiteralType(s, n, info) ==
  LET spec == ast[n].child
      base == node_kind_to_llvm_type(IF IsNode(spec) THEN KindAt(spec) ELSE "int")
      Length(a) == IF ast[a].data > 0 THEN ast[a].data ELSE Len(Siblings(ast[n].data))
      Sized(arrays) == IF arrays = <<>> THEN base ELSE ArrayType(base, Length(arrays[1]))
  IN CASE info # {} -> The(info).type
       [] KindAt(spec) \in RecordKinds -> build_struct_llvm_type(s, spec)
       [] OTHER -> Sized(SelectSeq(Siblings(spec), LAMBDA c : KindAt(c) = "array"))

\* The object at p is filled; one that is a struct without designators gets its first value only.
FillLiteral(s, inits, p, type, info) ==
  LET Stored(v, g) == StoreAt(g, v, g.v)
      Cast0(i, c) == IF Fine(c) THEN Stored(c.v, Gep(c, SizeOf(type.of), p, Const(I64, i - 1))) ELSE c
      Valued(i, r) == IF Some(r) THEN Cast0(i, maybe_cast(r, r.v, type.of)) ELSE r
      Element(r, i) == Valued(i, Lower("value", r, inits[i]))
      Single(r) == IF Some(r) THEN StoreAt(r, r.v, p) ELSE r
  IN CASE inits = <<>> -> s
       [] KindAt(inits[1]) = "designated" /\ IsStruct(type) ->
            lower_designated_init_into_struct(LAMBDA r, c : Lower("value", r, c), s, inits[1], p, type,
                                              {i.names : i \in info})
       [] KindAt(inits[1]) = "designated" -> s
       [] IsArray(type) -> FoldLeft(Element, s, [i \in DOMAIN inits |-> i])
       [] OTHER -> Single(Lower("value", s, inits[1]))

\* A literal is an object of the function, which is filled and loaded.
lower_compound_literal(s, n) ==
  LET Read0(r, type, info) == LoadAs(FillLiteral(r, Siblings(ast[n].data), r.v, type, info), type, r.v)
      Typed(type, info) == Read0(build_entry_alloca(s, type), type, info)
      Known(info) == Typed(LiteralType(s, n, info), info)
  IN Known(IF IsNode(ast[n].child) THEN struct_info_for_spec(s, ast[n].child) ELSE {})

\* The values of a chain, one after the other: what is no expression has none.
lower_stmt_expr(s, n) == FoldLeft(LAMBDA r, c : Lower("value", r, c), Nothing(s), Children(n))

lower_expr(s, n) ==
  LET k == KindAt(n)
  IN CASE k \in {"wrap", "arg", "typeof", "extension"} -> Lower("value", s, ast[n].child)
       [] k = "ident" -> lower_ident(s, n)
       [] k = "int_const" -> With(s, Const(I32, ast[n].data))
       [] k = "char_const" -> With(s, Const(I8, ast[n].data))
       [] k = "string" -> lower_string_const(s, n)
       [] k = "binop" -> lower_binop(s, n)
       [] k = "unop" -> lower_unop(s, n)
       [] k = "ternary" -> lower_cond_expr(s, n)
       [] k = "call" -> lower_call_expr(s, n)
       [] k = "index" -> lower_array_index(s, n)
       [] k = "member" -> lower_member_access(s, n)
       [] k = "cast" -> lower_cast_expr(s, n)
       [] k = "sizeof" -> lower_sizeof_expr(s, n)
       [] k = "comma" -> lower_comma_expr(s, n)
       [] k = "assign" -> lower_assign_expr(s, n)
       [] k = "stmt_expr" -> lower_stmt_expr(s, n)
       [] k = "builtin" -> lower_builtin_call(s, n)
       [] k = "designated" -> lower_designated_init(s, n)
       [] k = "compound_literal" -> lower_compound_literal(s, n)
       [] OTHER -> Nothing(s)

Lower(what, s, n) ==
  CASE ~Fine(s) -> s
    [] what = "value" -> lower_expr(s, n)
    [] what = "lvalue" -> lower_lvalue_ptr(s, n)
    [] what = "member" -> lower_member_access_ptr(s, n)
    [] what = "element" -> lower_array_element_ptr(s, n)
=============================================================================
