---------------------------- MODULE BackendTypes ----------------------------
(***************************************************************************)
(* The types of backend/llvm.rs: what the specifiers and declarators of a  *)
(* tree become in LLVM, the structs that are registered by tag, and the    *)
(* sizes that sizeof is computed from.  Floating point and packed structs  *)
(* are left out.                                                           *)
(***************************************************************************)
EXTENDS Parser, IR

\* The tree that the parser made: the nodes, by the kinds, names and data the parser gives them.
ast == parser.nodes

IsNode(n)   == n \in DOMAIN ast
KindAt(n)   == IF IsNode(n) THEN ast[n].kind ELSE ""
Siblings(n) == Chain(ast, n)
Children(n) == IF IsNode(n) THEN Siblings(ast[n].child) ELSE <<>>
Following(n) == Siblings(ast[n].next)
First(q)    == IF q = <<>> THEN NULL ELSE q[1]

RecordKinds     == {"struct", "union"}
DeclaratorKinds == {"pointer", "array", "func"}

\* Kinds 1..6, 16 and 83, and those with short, long, signed and unsigned.
BaseKinds == RecordKinds \cup {"void", "int", "char", "enum"}
SpecKinds == BaseKinds \cup {"va_list"}
WideKinds == SpecKinds \cup {"short", "long", "signed", "unsigned"}

-----------------------------------------------------------------------------
(* Names and constants in the tree.                                        *)

\* The first name that Name finds at one of these nodes.
FirstName(q, Name(_)) ==
  LET names == SelectSeq([i \in DOMAIN q |-> Name(q[i])], LAMBDA x : x # "")
  IN IF names = <<>> THEN "" ELSE names[1]

\* The first name below n, through declarators and init-declarators.
RECURSIVE find_ident_name(_)
find_ident_name(n) ==
  LET NameAt(c) ==
        CASE KindAt(c) = "ident" -> ast[c].name
          [] KindAt(c) \in DeclaratorKinds \cup {"assign"} -> find_ident_name(c)
          [] OTHER -> ""
  IN FirstName(Children(n), NameAt)

find_ident_name_in(n) ==
  CASE KindAt(n) = "ident" -> ast[n].name
    [] KindAt(n) \in DeclaratorKinds -> find_ident_name(n)
    [] OTHER -> ""

\* The function declarator in n or below it, and the outermost declarator; NULL for none.
RECURSIVE find_function_declarator(_), find_function_declarator_root(_)
find_function_declarator(n) ==
  LET found == SelectSeq([i \in DOMAIN Children(n) |-> find_function_declarator(Children(n)[i])],
                         LAMBDA m : m # NULL)
  IN CASE KindAt(n) = "func" -> n
       [] KindAt(n) \in {"pointer", "array", "assign", "decl", "var_decl", "func_def", "param",
                         "compound"} -> First(found)
       [] OTHER -> NULL
find_function_declarator_root(n) ==
  LET found == SelectSeq([i \in DOMAIN Children(n) |-> find_function_declarator_root(Children(n)[i])],
                         LAMBDA m : m # NULL)
  IN IF KindAt(n) \in DeclaratorKinds THEN n ELSE First(found)

\* The value of a constant expression, in a set.
RECURSIVE eval_const_int_expr(_)
eval_const_int_expr(n) ==
  LET wrapper == ast[ast[n].child]
  IN CASE KindAt(n) = "wrap" -> eval_const_int_expr(ast[n].child)
       [] KindAt(n) \in {"int_const", "char_const"} -> {ast[n].data}
       [] KindAt(n) = "unop" /\ ast[n].name \in {"-", "!", "~"} ->
            {CASE ast[n].name = "-" -> -v
               [] ast[n].name = "!" -> Truth(v = 0)
               [] OTHER -> -v - 1 : v \in eval_const_int_expr(ast[n].child)}
       [] KindAt(n) = "binop" ->
            UNION {CASE ast[n].name \in {"/", "%"} /\ b = 0 -> {}
                     [] ast[n].name = "&&" -> {Arith("&", a, b)}
                     [] ast[n].name = "||" -> {Arith("|", a, b)}
                     [] ast[n].name \in {"==", "!=", "<", ">", "<=", ">="} -> {}
                     [] OTHER -> {Arith(ast[n].name, a, b)} :
                     a \in eval_const_int_expr(wrapper.child), b \in eval_const_int_expr(wrapper.next)}
       [] OTHER -> {}

\* The length of an array declarator, in a set; there is none for [].
infer_array_declarator_len(n) ==
  IF ast[n].data > 0 THEN {ast[n].data} ELSE {v \in eval_const_int_expr(ast[n].child) : v > 0}

-----------------------------------------------------------------------------
(* Types.                                                                  *)

node_kind_to_llvm_type(kind) ==
  CASE kind \in {"void", "char"} -> I8
    [] kind \in {"pointer", "va_list"} -> Ptr
    [] kind = "short" -> I16
    [] kind = "long" -> I64
    [] OTHER -> I32

\* The bits of the unit that bit-fields of a type are kept in.
node_kind_bit_width(kind) ==
  CASE kind \in {"void", "char"} -> ByteBits
    [] kind = "short" -> 2 * ByteBits
    [] kind = "long" -> 8 * ByteBits
    [] OTHER -> 4 * ByteBits

\* A pointer of any depth is a pointer, and of an array only the elements' own type counts.
declarator_llvm_type(n, base) ==
  CASE KindAt(n) = "pointer" -> Ptr
    [] KindAt(n) = "array" -> ArrayType(base, ast[n].data)
    [] KindAt(n) = "func" /\ \E i \in DOMAIN Children(n) : KindAt(Children(n)[i]) = "pointer" -> Ptr
    [] OTHER -> base

\* The fields of a struct as they are added: their types, and where a name's bits are.  Bit-fields
\* of one kind share a unit while there is room in it.
NoFields == [types |-> <<>>, geps |-> [x \in {} |-> 0], group |-> "", used |-> 0]
AddField(l, name, kind, width, type) ==
  LET fits == width > 0 /\ l.group = kind /\ l.used + width <= node_kind_bit_width(kind)
      start == IF fits THEN l.used ELSE 0
      types == IF fits THEN l.types
                 ELSE Append(l.types, IF width > 0 THEN node_kind_to_llvm_type(kind) ELSE type)
  IN [types |-> types,
      geps |-> [x \in DOMAIN l.geps \cup {name} |->
                  IF x = name THEN [at |-> Len(types), bits |-> IF width > 0 THEN <<start, width>> ELSE <<>>]
                    ELSE l.geps[x]],
      group |-> IF width > 0 THEN kind ELSE "",
      used |-> start + width]

\* What nodes say of a member: the last of its specifiers and declarators count.
LastOf(nodes, kinds) ==
  LET found == SelectSeq(nodes, LAMBDA c : KindAt(c) \in kinds)
  IN IF found = <<>> THEN NULL ELSE found[Len(found)]
Lengths(nodes) ==
  LET Known(old, new) == IF new = {} THEN old ELSE new
      Length(l, c) == Known(l, IF KindAt(c) = "array" THEN infer_array_declarator_len(c) ELSE {})
  IN FoldLeft(Length, {}, nodes)
BaseKind(nodes, kinds) ==
  IF LastOf(nodes, kinds) = NULL THEN "int" ELSE KindAt(LastOf(nodes, kinds))
WidthIn(nodes) ==
  LET n == LastOf(SelectSeq(nodes, LAMBDA c : KindAt(c) = "bitfield" /\ ast[c].data > 0), {"bitfield"})
  IN IF n = NULL THEN 0 ELSE ast[n].data
HasPointer(nodes) == LastOf(nodes, {"pointer", "func"}) # NULL

Members(n) == SelectSeq(Children(n), LAMBDA m : KindAt(m) # "attribute")

\* A member has the name of the first of its declarators that is looked into: a pointer in an
\* array, or an array of pointers, is not.
IdentName(n) == IF KindAt(n) = "ident" THEN ast[n].name ELSE ""
FunctionName(f) ==
  LET NameAt(c) == IF KindAt(c) = "pointer" THEN FirstName(Children(c), IdentName) ELSE IdentName(c)
  IN FirstName(Children(f), NameAt)
MemberName(m) ==
  LET Inner(c) == IF KindAt(c) = "func" THEN FunctionName(c) ELSE IdentName(c)
      NameAt(c) ==
        CASE KindAt(c) = "bitfield" -> FirstName(Children(c), IdentName)
          [] KindAt(c) \in {"pointer", "array"} -> FirstName(Children(c), Inner)
          [] OTHER -> Inner(c)
  IN FirstName(Children(m), NameAt)
collect_struct_field_names(n) == [i \in DOMAIN Members(n) |-> MemberName(Members(n)[i])]

SizedType(lengths, base) == IF lengths = {} THEN base ELSE ArrayType(base, CHOOSE l \in lengths : TRUE)

\* The type of a struct from its members, where no tag has one, and that of a specifier.
RECURSIVE build_struct_llvm_type(_, _), specifier_to_llvm_type(_, _)
\* The registered type of a tag, or the one that the members make; a set.
struct_types(s, n) ==
  IF ast[n].name \in DOMAIN s.structs THEN {s.structs[ast[n].name].type}
    ELSE {t \in {build_struct_llvm_type(s, n)} : IsStruct(t)}
specifier_to_llvm_type(s, n) ==
  LET Choice(T) == IF T = {} THEN I32 ELSE CHOOSE t \in T : TRUE
  IN IF KindAt(n) \in RecordKinds THEN Choice(struct_types(s, n)) ELSE node_kind_to_llvm_type(KindAt(n))
MemberType(s, nodes, kind) ==
  IF kind \in RecordKinds THEN specifier_to_llvm_type(s, LastOf(nodes, RecordKinds))
    ELSE node_kind_to_llvm_type(kind)
build_struct_llvm_type(s, n) ==
  LET Type(c, kind) == IF HasPointer(c) THEN Ptr ELSE SizedType(Lengths(c), MemberType(s, c, kind))
      Record(fields) == IF fields = <<>> THEN I8 ELSE StructType(fields)
      Add(l, c, kind) == AddField(l, "", kind, WidthIn(c), Type(c, kind))
  IN Record(FoldLeft(LAMBDA l, m : Add(l, Children(m), BaseKind(Children(m), WideKinds \ {"va_list"})),
                     NoFields, Members(n)).types)

\* The names of the fields of a specifier's struct; none where it is no struct.
struct_info_for_spec(s, n) ==
  IF KindAt(n) \in RecordKinds
    THEN {[type |-> t, names |-> IF ast[n].name \in DOMAIN s.structs THEN s.structs[ast[n].name].names
                                   ELSE collect_struct_field_names(n)] : t \in struct_types(s, n)}
    ELSE {}

-----------------------------------------------------------------------------
(* Parameters and signatures.                                              *)

FnType(ret, params, more) == [ret |-> ret, params |-> params, more |-> more]

\* A parameter is taken for the declarator in front of its name.
ParamDeclarator(p) == LastOf(Children(p), DeclaratorKinds \cup {"ident"})
ParamName(p) ==
  LET name == find_ident_name(p) IN IF name = "" THEN "p" ELSE name
ParamType(s, p) ==
  declarator_llvm_type(ParamDeclarator(p), specifier_to_llvm_type(s, ast[p].child))

\* The parameters follow what a function declarator declares.
ParamsOf(func) == SelectSeq(Following(ast[func].child), LAMBDA p : KindAt(p) = "param")
ParamTypes(s, func) == [i \in DOMAIN ParamsOf(func) |-> ParamType(s, ParamsOf(func)[i])]

\* The type of the function that a declarator (*f)(...) points to, in a set.
function_type_from_declarator(s, n, base, kind) ==
  IF KindAt(n) = "func" /\ KindAt(ast[n].child) = "pointer"
    THEN {FnType(IF kind = "void" THEN Void ELSE base, ParamTypes(s, n), ast[n].data = 1)}
    ELSE {}

\* Of nested function declarators, the inner one is called if only it has parameters.
select_callable_function_decl(func) ==
  LET nested == find_function_declarator(ast[func].child)
  IN IF ast[ast[func].child].next = NULL /\ nested # NULL /\ ParamsOf(nested) # <<>>
       THEN nested ELSE func

-----------------------------------------------------------------------------
(* Structs.                                                                *)

\* The nodes of a member: all of one level before those below it, the last of them first.
RECURSIVE MemberNodes(_)
MemberNodes(stack) ==
  IF stack = <<>> THEN <<>> ELSE
  LET level == Siblings(Last(stack))
      below == SelectSeq([i \in DOMAIN level |-> ast[level[i]].child], LAMBDA c : c # NULL)
  IN level \o MemberNodes(Front(stack) \o below)

\* A member that points to a function, and that function's type.
FieldFunction(s, m) ==
  LET nodes == MemberNodes(<<ast[m].child>>)
      func == LastOf(nodes, {"func"})
      wrapped == \E i \in DOMAIN nodes : KindAt(nodes[i]) = "pointer" /\ KindAt(ast[nodes[i]].child) = "func"
      declared == SelectInSeq(Children(m), LAMBDA c : KindAt(c) \in DeclaratorKinds \cup {"ident"})
      kind == BaseKind(SubSeq(Children(m), 1, declared - 1), WideKinds)
  IN IF func = NULL THEN {}
     ELSE IF wrapped THEN function_type_from_declarator(s, func, Ptr, "pointer")
     ELSE function_type_from_declarator(s, func, node_kind_to_llvm_type(kind), kind)

\* The members of a struct as they are added.
AddMember(s, l, name, c, kind) ==
  AddField(l, name, kind, WidthIn(c), SizedType(Lengths(c), IF HasPointer(c) THEN Ptr ELSE MemberType(s, c, kind)))
AddNodes(s, l, name, c) == AddMember(s, l, name, c, BaseKind(c, WideKinds))
FieldsOfMembers(s, members, names) ==
  FoldLeft(LAMBDA l, i : AddNodes(s, l, names[i], MemberNodes(<<ast[members[i]].child>>)),
           NoFields, [i \in DOMAIN names |-> i])
FieldFunctions(s, members) == [i \in DOMAIN members |-> FieldFunction(s, members[i])]
FunctionsByName(names, fs) ==
  [x \in {names[i] : i \in {j \in DOMAIN fs : fs[j] # {}}} |->
     UNION {fs[i] : i \in {Min({j \in DOMAIN fs : fs[j] # {} /\ names[j] = x})}}]
StructEntry(names, all, fs) ==
  [type |-> StructType(all.types), names |-> names,
   geps |-> IF \E x \in DOMAIN all.geps : all.geps[x].bits # <<>> THEN all.geps ELSE [x \in {} |-> 0],
   fns |-> FunctionsByName(names, fs)]

\* A struct is registered under its tag; what is known of bit-fields only where it has some.
EnterStruct(s, tag, entry) ==
  IF entry.type.fields = <<>> THEN s
    ELSE [s EXCEPT !.structs = [t \in DOMAIN @ \cup {tag} |-> IF t = tag THEN entry ELSE @[t]]]
EnterMembers(s, tag, members, names) ==
  EnterStruct(s, tag, StructEntry(names, FieldsOfMembers(s, members, names), FieldFunctions(s, members)))
RegisterStruct(s, n) == EnterMembers(s, ast[n].name, Members(n), collect_struct_field_names(n))

\* Every struct that is defined below n, those in its members first.
RECURSIVE register_struct_types_in_node(_, _)
register_struct_types_in_node(s, n) ==
  LET Defines(m) == KindAt(m) \in RecordKinds /\ ast[m].name # "" /\ ast[m].child # NULL
      New(r, m) == Defines(m) /\ ast[m].name \notin DOMAIN r.structs
      Inner(r, m) ==
        IF \E c \in ToSet(Children(m)) : Defines(c) THEN register_struct_types_in_node(r, m) ELSE r
      Each(r, m) == IF New(r, m) THEN RegisterStruct(FoldLeft(Inner, r, Children(m)), m) ELSE r
  IN IF s.st = "ok" THEN FoldLeft(LAMBDA r, m : register_struct_types_in_node(Each(r, m), m), s, Children(n)) ELSE s

-----------------------------------------------------------------------------
(* Sizes.                                                                  *)

\* The size of a type, and that of a record, whose fields are laid out one behind the other.
RECURSIVE llvm_type_size_bytes(_), llvm_type_align(_)
llvm_type_align(t) ==
  CASE IsArray(t) -> llvm_type_align(t.of)
    [] IsStruct(t) -> FoldLeft(LAMBDA a, f : Larger(a, llvm_type_align(f)), 1, t.fields)
    [] OTHER -> llvm_type_size_bytes(t)
llvm_type_size_bytes(t) ==
  LET Behind(o, f) == AlignUp(o, llvm_type_align(f)) + llvm_type_size_bytes(f)
  IN CASE IsInt(t) -> Larger(t.bits, ByteBits) \div ByteBits
       [] IsPtr(t) -> 8
       [] IsArray(t) -> llvm_type_size_bytes(t.of) * t.n
       [] OTHER -> AlignUp(FoldLeft(Behind, 0, t.fields), llvm_type_align(t))

Extent(size, align) == [size |-> size, align |-> align]

\* Mutant: a field starts where the one in front of it ends.
RecordExtent_unaligned(extents, union) ==
  LET Aligned(size, align) == Extent(AlignUp(size, align), align)
      Add(o, e) == IF union THEN Larger(o, e.size) ELSE o + e.size
  IN Aligned(FoldLeft(Add, 0, extents), FoldLeft(LAMBDA a, e : Larger(a, e.align), 1, extents))

\* Fields of these extents in a struct, or over each other in a union.
RecordExtent(extents, union) ==
  LET Aligned(size, align) == Extent(AlignUp(size, align), align)
      Add(o, e) == IF union THEN Larger(o, e.size) ELSE AlignUp(o, Larger(e.align, 1)) + e.size
  IN Aligned(FoldLeft(Add, 0, extents), FoldLeft(LAMBDA a, e : Larger(a, e.align), 1, extents))

\* The extent of a specifier's type, in a set.
RECURSIVE ast_type_size_align(_, _), ast_record_size_align(_, _)

\* That of a member: the last of its specifiers that has one counts.
Sizeable == (WideKinds \ {"enum", "va_list"}) \cup {"_Bool"}
LastExtent(extents) == IF extents = <<>> THEN Extent(4, 4) ELSE CHOOSE e \in Last(extents) : TRUE
SpecExtents(s, specs) == [i \in DOMAIN specs |-> ast_type_size_align(s, specs[i])]
BaseExtent(s, c) ==
  IF \E m \in ToSet(c) : KindAt(m) = "pointer" THEN Extent(8, 8)
    ELSE LastExtent(SelectSeq(SpecExtents(s, SelectSeq(c, LAMBDA m : KindAt(m) \in Sizeable)), LAMBDA e : e # {}))
Repeated(e, lengths) == Extent(e.size * (IF lengths = {} THEN 1 ELSE CHOOSE l \in lengths : TRUE), e.align)

\* A bit-field takes the bytes of its bits.
InBytes(e, bits) ==
  IF bits = NULL THEN e ELSE Extent(Min({(ast[bits].data + ByteBits - 1) \div ByteBits, Larger(e.size, 1)}), e.align)
MemberExtent(s, c) == InBytes(Repeated(BaseExtent(s, c), Lengths(c)), LastOf(c, {"bitfield"}))
MemberExtents(s, members) == [i \in DOMAIN members |-> MemberExtent(s, Children(members[i]))]
FieldExtents(fields) ==
  [i \in DOMAIN fields |-> Extent(llvm_type_size_bytes(fields[i]), llvm_type_align(fields[i]))]
ast_record_size_align(s, n) ==
  RecordExtent(IF ast[n].child = NULL /\ ast[n].name \in DOMAIN s.structs
                 THEN FieldExtents(s.structs[ast[n].name].type.fields) ELSE MemberExtents(s, Members(n)),
               KindAt(n) = "union")
ast_type_size_align(s, n) ==
  LET k == KindAt(n)
  IN CASE k = "void" -> {Extent(0, 1)}
       [] k \in {"int", "signed", "unsigned"} -> {Extent(4, 4)}
       [] k \in {"char", "_Bool"} -> {Extent(1, 1)}
       [] k \in {"pointer", "long", "va_list"} -> {Extent(8, 8)}
       [] k = "short" -> {Extent(2, 2)}
       [] k \in RecordKinds -> {ast_record_size_align(s, n)}
       [] OTHER -> IF IsNode(n) /\ ast[n].child # NULL THEN ast_type_size_align(s, ast[n].child) ELSE {}

\* The first specifier counts, and what stands for no size is looked for below it and behind it.
RECURSIVE sizeof_type_from_ast(_, _)
sizeof_type_from_ast(s, n) ==
  LET k == KindAt(n)
      below == IF ast[n].child = NULL THEN 0 ELSE sizeof_type_from_ast(s, ast[n].child)
      behind == IF ast[n].next = NULL THEN 0 ELSE sizeof_type_from_ast(s, ast[n].next)
  IN CASE ~IsNode(n) -> 4
       [] k = "void" -> below
       [] k \in {"int", "signed", "unsigned"} -> 4
       [] k \in {"char", "_Bool"} -> 1
       [] k = "short" -> 2
       [] k = "long" -> 8
       [] k \in RecordKinds -> ast_record_size_align(s, n).size
       [] below # 0 -> below
       [] behind # 0 -> behind
       [] OTHER -> 8
=============================================================================
