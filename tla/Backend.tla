------------------------------- MODULE Backend -------------------------------
(***************************************************************************)
(* A translation unit in backend/llvm.rs: the functions that are reached,  *)
(* the signatures of functions, the variables of the file, the bodies of   *)
(* functions, and the bodies of those that have none.  Attributes of       *)
(* functions and variables, but for what they say of reachability, are     *)
(* left out.                                                               *)
(***************************************************************************)
EXTENDS Statements, Reachability

\* The external declarations of the tree.
file == Siblings(root.first)

-----------------------------------------------------------------------------
(* The functions that are compiled.                                        *)

Has(n, kind) == \E i \in DOMAIN Children(n) : KindAt(Children(n)[i]) = kind

\* The name of a function is that in its last declarator, if it is there right away.
function_signature_name(n) ==
  LET Declared0(c) == KindAt(c) \in DeclaratorKinds /\ KindAt(ast[find_function_declarator(c)].child) = "ident"
      found == SelectSeq(Children(n), LAMBDA c : find_function_declarator(c) # NULL /\ Declared0(c))
  IN IF found = <<>> THEN "func" ELSE ast[ast[find_function_declarator(Last(found))].child].name

\* A function that is static is kept for its attributes only.
KeptFor == {"section", "__section__", "constructor", "__constructor__", "destructor", "__destructor__",
            "used", "__used__"}
IsRoot(n) ==
  \/ ~Has(n, "static")
  \/ \E m \in ToSet(Children(n)) : KindAt(m) = "attribute" /\ ast[m].name \in KeptFor

collect_direct_callees(n) ==
  {ast[m].name : m \in {k \in ToSet(Below(ast, LastOf(Children(n), {"compound"}))) : KindAt(k) = "ident"}}

\* Of several definitions of a name the last counts.
Definitions ==
  LET Def(n) == [root |-> IsRoot(n), callees |-> collect_direct_callees(n)]
  IN FoldLeft(LAMBDA d, n : Put(d, function_signature_name(n), Def(n)), Empty0,
              SelectSeq(file, LAMBDA n : KindAt(n) = "func_def"))

-----------------------------------------------------------------------------
(* Signatures.                                                             *)

\* A specifier or a declarator is added to what is known of a function's signature.
NoSignature == [void |-> FALSE, ret |-> {}, found |-> NULL, more |-> FALSE, name |-> "func", params |-> <<>>]
Declarator(g, root0, callable) ==
  LET pointed == IsPtr(declarator_llvm_type(root0, I32))
      name == find_ident_name(callable)
  IN [g EXCEPT !.void = @ /\ ~pointed,
               !.ret = CASE ~g.void -> {declarator_llvm_type(root0, IF @ = {} THEN I32 ELSE The(@))}
                         [] pointed -> {Ptr}
                         [] OTHER -> @,
               !.found = callable,
               !.more = @ \/ ast[callable].data = 1,
               !.name = IF name = "" THEN @ ELSE name,
               !.params = @ \o ParamsOf(callable)]
Signature(s, n, kinds) ==
  FoldLeft(LAMBDA g, c :
             CASE KindAt(c) = "void" -> [g EXCEPT !.void = TRUE]
               [] KindAt(c) \in SpecKinds -> [g EXCEPT !.void = FALSE, !.ret = {specifier_to_llvm_type(s, c)}]
               [] KindAt(c) \in kinds /\ find_function_declarator(c) # NULL ->
                    Declarator(g, find_function_declarator_root(c),
                               select_callable_function_decl(find_function_declarator(c)))
               [] OTHER -> g,
           NoSignature, Children(n))

SignatureType(s, g) ==
  FnType(IF g.void THEN Void ELSE IF g.ret = {} THEN I32 ELSE The(g.ret),
         [i \in DOMAIN g.params |-> ParamType(s, g.params[i])], g.more)

\* A function that is static and inline is left out if it is not reached.
Unreached(s, n, name) == Has(n, "static") /\ Has(n, "inline") /\ s.reach # {} /\ name \notin s.reach

\* Mutant: the function is added to the module and not to the names.
GetFunction_unnamed(s, name, type) ==
  [s EXCEPT !.fns = IF name \in DOMAIN @ THEN @ ELSE Put(@, name, NewFunction(type, <<>>))]

GetFunction(s, name, type) ==
  [s EXCEPT !.fns = IF name \in DOMAIN @ THEN @ ELSE Put(@, name, NewFunction(type, <<>>)),
            !.callable = @ \cup {name}]

RegisterDefinition(s, n, g) ==
  LET known == IF Has(n, "static") THEN [s EXCEPT !.statics = @ \cup {g.name}] ELSE s
  IN CASE g.found = NULL \/ g.name = "func" -> s
       [] Unreached(s, n, g.name) -> known
       [] OTHER -> GetFunction(known, g.name, SignatureType(s, g))
pre_register_func_def(s, n) == RegisterDefinition(s, n, Signature(s, n, DeclaratorKinds))

RegisterDeclaration(s, n, g) ==
  IF g.found = NULL \/ Unreached(s, n, g.name) \/ g.name \in DOMAIN s.fns THEN s
    ELSE GetFunction(s, g.name, SignatureType(s, g))
lower_func_decl(s, n) ==
  IF Fine(s) THEN RegisterDeclaration(s, n, Signature(s, n, DeclaratorKinds \cup {"var_decl", "func_decl"})) ELSE s

-----------------------------------------------------------------------------
(* Variables of the file.                                                  *)

\* A name that is taken gets a number.
Fresh(s, name) ==
  LET taken == DOMAIN s.fns \cup DOMAIN s.globals
      Numbered(k) == name \o "." \o ToString(k)
  IN IF name \in taken THEN Numbered(CHOOSE k \in 1 .. Cardinality(taken) + 1 :
                                       /\ Numbered(k) \notin taken
                                       /\ \A j \in 1 .. k - 1 : Numbered(j) \in taken)
       ELSE name

AddGlobal(s, name, type, content, tags) ==
  LET global == Fresh(s, name)
      b == Binding(Global(global), type, {})
  IN IF ~Fine(s) THEN s
       ELSE [s EXCEPT !.globals = Put(@, global, content),
                      !.gtags = IF tags = {} THEN @ ELSE Put(@, name, The(tags)),
                      !.gvars = Put(@, name, b), !.vars = Put(@, name, b)]

TagSet(spec) == IF IsNode(spec) /\ Tagged(spec) THEN {ast[spec].name} ELSE {}

\* The nodes of a declaration, those of its initializer too, but not those below a specifier.
RECURSIVE Shape(_)
Shape(n) ==
  FlattenSeq([i \in DOMAIN Siblings(n) |->
                <<Siblings(n)[i]>>
                  \o (IF KindAt(Siblings(n)[i]) \in BaseKinds THEN <<>> ELSE Shape(ast[Siblings(n)[i]].child))])

\* Mutant: the first element of an array is left out.
ArrayContent_from1(type, items) ==
  FlattenSeq([i \in 1 .. type.n |->
                LET constant == i < Len(items) /\ KindAt(items[i + 1]) \in {"int_const", "char_const"}
                IN IF constant /\ IsInt(type.of) THEN Bytes(ast[items[i + 1]].data, type.of)
                     ELSE ZeroGlobal(type.of).bytes])

\* The constants that an array starts with; what else is among them is zero.
ArrayContent(type, items) ==
  FlattenSeq([i \in 1 .. type.n |->
                LET constant == i <= Len(items) /\ KindAt(items[i]) \in {"int_const", "char_const"}
                IN IF constant /\ IsInt(type.of) THEN Bytes(ast[items[i]].data, type.of)
                     ELSE ZeroGlobal(type.of).bytes])

\* What is known of a variable of the file: the first name, array length and value in its nodes.
GlobalVariable(s, name, type, init, tags) ==
  LET Values(q) == SubSeq(q, 1, (SelectInSeq(Append(q, NULL), LAMBDA m : KindAt(m) # "string")) - 1)
      Text0(q) == Append(FlattenSeq([i \in DOMAIN q |-> Texts[ast[q[i]].name]]), 0)
      String(bytes) == AddGlobal(s, name, ArrayType(I8, Len(bytes)), GlobalOf(bytes), {})
  IN CASE KindAt(init) = "string" -> String(Text0(Values(Siblings(init))))
       [] IsNode(init) /\ IsArray(type) ->
            AddGlobal(s, name, type, GlobalOf(ArrayContent(type, Siblings(init))), {})
       [] KindAt(init) \in {"int_const", "char_const"} /\ IsInt(type) ->
            AddGlobal(s, name, type, GlobalOf(Bytes(ast[init].data, type)), tags)
       [] OTHER -> AddGlobal(s, name, type, ZeroGlobal(type), tags)

\* Nodes are those of the declaration; names, lengths and starts are the ones of its declarators.
GlobalType(nodes, base, lengths, init) ==
  CASE \E m \in nodes : KindAt(m) = "pointer" -> Ptr
    [] \E m \in nodes : KindAt(m) = "array" ->
         ArrayType(base, Larger(IF lengths = {} THEN Len(Siblings(init)) ELSE The(lengths), 1))
    [] OTHER -> base
TypedGlobal(s, name, spec, nodes, lengths, init) ==
  GlobalVariable(s, name, GlobalType(nodes, IF spec = NULL THEN I32 ELSE specifier_to_llvm_type(s, spec), lengths, init),
                 init, TagSet(spec))
ShapedGlobal(s, spec, shape) ==
  LET Of(kind) == SelectSeq(shape, LAMBDA m : KindAt(m) = kind)
      names == SelectSeq(Of("ident"), LAMBDA m : ast[m].name # "")
      before == SelectSeq(shape, LAMBDA m : KindAt(m) \in {"ident", "pointer", "array"} /\ ast[m].next # NULL)
  IN IF names = <<>> THEN s
       ELSE TypedGlobal(s, ast[names[1]].name, spec, ToSet(shape),
                        UNION {infer_array_declarator_len(m) : m \in ToSet(Of("array"))},
                        IF before = <<>> THEN NULL ELSE ast[before[1]].next)
lower_global_var(s, n) ==
  IF Fine(s) THEN ShapedGlobal(s, First(SelectSeq(Children(n), LAMBDA c : KindAt(c) \in SpecKinds)), Shape(ast[n].child))
    ELSE s

\* What may stand in front of the word typedef.
LeadingKinds == TypeKinds \cup DeclaratorKinds \cup {"inline", "noreturn", "const", "restrict", "volatile", "enum"}

\* The specifiers in front of the declarators.
FrontSpecs(all) ==
  LET end == SelectInSeq(all, LAMBDA c : KindAt(c) \notin SpecKinds \cup {"typedef", "extern", "static", "const", "restrict", "volatile"})
  IN SelectSeq(IF end = 0 THEN all ELSE SubSeq(all, 1, end - 1), LAMBDA c : KindAt(c) \in SpecKinds)

\* A name is a variable if it follows a specifier; one behind a qualifier is an int.
GlobalName(s, all, i, front) ==
  LET type == IF front = <<>> THEN I32 ELSE specifier_to_llvm_type(s, First(front))
      tags == IF front # <<>> /\ KindAt(Last(front)) \in RecordKinds THEN TagSet(First(front)) ELSE {}
      typed == \E j \in 1 .. i - 1 : KindAt(all[j]) \in SpecKinds
  IN CASE KindAt(all[i]) = "var_decl" -> lower_global_var(s, all[i])
       [] KindAt(all[i]) = "ident" /\ typed /\ ast[all[i]].name # "" ->
            AddGlobal(s, ast[all[i]].name, type, ZeroGlobal(type), tags)
       [] OTHER -> s

lower_global_decl(s, n) ==
  LET all == Children(n)
      leading == SelectInSeq(all, LAMBDA c : KindAt(c) \notin LeadingKinds)
      typedefs == {i \in DOMAIN all : KindAt(all[i]) = "typedef" /\ (leading = 0 \/ i < leading)}
      aliases == {find_ident_name(all[i]) : i \in {j \in DOMAIN all : j > Min(typedefs)}} \ {""}
  IN IF typedefs # {} THEN [s EXCEPT !.aliases = @ \cup aliases]
       ELSE FoldLeft(LAMBDA r, i : GlobalName(r, all, i, FrontSpecs(all)),
                     lower_func_decl(s, n), [i \in DOMAIN all |-> i])

-----------------------------------------------------------------------------
(* Bodies.                                                                 *)

\* What a function returns that says nothing else.
DefaultReturn(s) == IF s.ret = Void THEN RetVoid(s) ELSE Ret(s, Zero(s.ret))

\* A parameter is stored into a variable, which p points to; one that the function does not have
\* is an error.
KnowParameter(s, name, b, info) ==
  [s EXCEPT !.vars = Put(@, name, b),
            !.bytep = IF IsPtr(b.type) /\ name \in ZNames THEN @ \cup {name} ELSE @,
            !.fields = IF info = {} THEN @ ELSE Put(@, name, The(info).names),
            !.ptrs = IF info # {} /\ IsPtr(b.type) THEN Put(@, name, The(info).type) ELSE @]
StoreParameter(s, i, p) ==
  LET given == s.fns[s.fn].params
  IN CASE ~Fine(s) -> s
       [] i \in DOMAIN given -> StoreAt(s, Reg(given[i], i), p)
       [] OTHER -> Error(s)
BindParameter(s, name, b, spec, i) ==
  LET stored == StoreParameter(s, i, b.ptr)
  IN IF Fine(stored) THEN KnowParameter(stored, name, b, struct_info_for_spec(stored, spec)) ELSE stored
NewParameter(s, p, type, i) ==
  BindParameter(s, ParamName(p),
                Binding(s.v, type, function_type_from_declarator(s, ParamDeclarator(p), specifier_to_llvm_type(s, ast[p].child),
                                                                 KindAt(ast[p].child))),
                ast[p].child, i)
Parameter(s, p, i) ==
  IF Fine(s) THEN NewParameter(Emit(s, "alloca", ParamType(s, p), <<>>, "", <<>>), p, ParamType(s, p), i) ELSE s

\* Every block ends in a terminator.
CloseBlock(s, b) ==
  LET r == [s EXCEPT !.at = b]
  IN CASE ~Fine(s) \/ Ended(s, b) -> s
       [] b = 1 /\ ~IsRecord(s.ret) -> DefaultReturn(r)
       [] OTHER -> Perform(r, "unreachable", <<>>, <<>>)

\* A block that no other goes to, and that starts with unreachable, is removed.
Targets(blocks) ==
  LET To(ins) == IF ins.op \in Terminators THEN ToSet(ins.to) ELSE {}
  IN UNION {UNION {To(blocks[b][i]) : i \in DOMAIN blocks[b]} : b \in DOMAIN blocks}
DeleteBlock(s, b) ==
  LET dead == Blocks(s)[b] # <<>> /\ Blocks(s)[b][1].op = "unreachable" /\ b \notin Targets(Blocks(s))
  IN IF Fine(s) /\ b # 1 /\ dead THEN [s EXCEPT !.fns[s.fn].blocks[b] = <<>>] ELSE s

\* The body is the compound statement, or what else stands behind the declarator.
BodyOf(n) ==
  LET all == Children(n)
      func == SelectInSeq(all, LAMBDA c : KindAt(c) \in DeclaratorKinds /\ find_function_declarator(c) # NULL)
      other == SelectSeq([i \in DOMAIN all |-> IF func > 0 /\ i > func THEN all[i] ELSE NULL],
                         LAMBDA c : c # NULL /\ KindAt(c) \notin SpecKinds \cup DeclaratorKinds \cup StorageWords \cup {"const", "restrict", "volatile"})
      compound == LastOf(all, {"compound"})
  IN IF compound # NULL THEN compound ELSE First(other)

\* A new block of function name, with the variables of the file and the parameters.
Entered(s, name) ==
  [s EXCEPT !.fns[name].blocks = Append(@, <<>>), !.fn = name, !.at = Len(s.fns[name].blocks) + 1,
            !.vars = s.gvars, !.fields = Empty0, !.ptrs = Empty0, !.bytep = {}, !.tags = s.gtags,
            !.labels = Empty0, !.ret = s.fns[name].ret]
EnterFunction(s, g) ==
  FoldLeft(LAMBDA q, i : Parameter(q, g.params[i], i), Entered(GetFunction(s, g.name, SignatureType(s, g)), g.name),
           [i \in DOMAIN g.params |-> i])

\* What fails among the statements is left out.
Statements1(s, body) == IF Fine(s) THEN FoldLeft(LAMBDA r, c : Dropped(Exec("stmt", r, c)), s, Siblings(body)) ELSE s
Returning(s) == IF Fine(s) /\ ~Ended(s, s.at) THEN DefaultReturn(s) ELSE s
EveryBlock(s) == [b \in DOMAIN Blocks(s) |-> b]
Closed(s) == IF Fine(s) THEN FoldLeft(CloseBlock, s, EveryBlock(s)) ELSE s
Cleaned(s) == IF Fine(s) THEN [FoldLeft(DeleteBlock, s, EveryBlock(s)) EXCEPT !.ret = Void] ELSE s

\* A function whose parameters fail is left as it is.
DefineFunction(s, n, g) ==
  IF s.reach # {} /\ g.name \notin s.reach THEN s
    ELSE Cleaned(Closed(Returning(Statements1(EnterFunction(s, g), BodyOf(n)))))
lower_func_def(s, n) ==
  IF Fine(s)
    THEN DefineFunction([s EXCEPT !.breaks = <<>>, !.continues = <<>>], n, Signature(s, n, DeclaratorKinds))
    ELSE s

\* A function without a body: one for the name of a type returns what it is given.
materialize_missing_function_body(s, name, return_first_arg) ==
  LET f == s.fns[name]
      r == [s EXCEPT !.fn = name, !.at = 1, !.ret = f.ret, !.fns[name].blocks = << <<>> >>]
      arg == Reg(f.params[1], 1)
      Given(q) == Ret(q, q.v)
      Filled ==
        CASE ~return_first_arg \/ f.params = <<>> \/ f.ret = Void -> DefaultReturn(r)
          [] f.ret = arg.t -> Ret(r, arg)
          [] IsInt(f.ret) /\ IsInt(arg.t) -> Given(Resize(r, "zext", arg, f.ret))
          [] OTHER -> DefaultReturn(r)
  IN IF name \in DOMAIN s.fns /\ f.blocks = <<>> /\ Fine(s) THEN [Filled EXCEPT !.ret = s.ret] ELSE s

-----------------------------------------------------------------------------
(* The names of types and of static functions.                             *)

collect_typedef_aliases ==
  UNION {LET all == Children(n)
             first == SelectInSeq(all, LAMBDA c : KindAt(c) = "typedef")
         IN {find_ident_name(all[i]) : i \in {j \in DOMAIN all : first > 0 /\ j > first}} \ {""} :
           n \in {m \in ToSet(file) : KindAt(m) = "decl"}}

collect_static_function_names ==
  {find_ident_name(n) : n \in {m \in ToSet(file) : KindAt(m) \in {"decl", "func_decl", "func_def"} /\ Has(m, "static")}}
    \ {""}

-----------------------------------------------------------------------------
(* The file is gone through declaration by declaration.                    *)

VARIABLES
  backend,  \* the backend's state
  pass,     \* "parse", "reach", "declare" (pass 1), "define" (pass 2), "materialize", "done"
  rest      \* the external declarations that the pass has still to do

stages == <<backend, pass, rest, reachVars>>

BackendInit ==
  backend = BackendStart(<<>>) /\ pass = "parse" /\ rest = <<>> /\ defs = Empty0 /\ reached = {} /\ worklist = {}

\* compute_reachable_functions: the definitions, and then what they lead to.
CollectDefinitions ==
  /\ pass = "parse" /\ ~Reading /\ Ok(parser)
  /\ Begin(Definitions)
  /\ pass' = "reach" /\ UNCHANGED <<backend, rest>>
Search == pass = "reach" /\ ReachNext /\ UNCHANGED <<backend, pass, rest>>

\* The start of lower_translation_unit, with the hash maps in some order.
Collect(orders) ==
  /\ pass = "reach" /\ worklist = {}
  /\ \E order \in orders :
       backend' = FoldLeft(register_struct_types_in_node,
                           [BackendStart(order) EXCEPT !.reach = reached,
                                                       !.aliases = collect_typedef_aliases,
                                                       !.statics = collect_static_function_names],
                           file)
  /\ pass' = "declare" /\ rest' = file /\ UNCHANGED reachVars

\* What a declaration fails at is dropped.
Declare ==
  /\ pass = "declare" /\ rest # <<>>
  /\ \E n \in {Head(rest)} :
       backend' = CASE KindAt(n) = "func_def" -> pre_register_func_def(backend, n)
                    [] KindAt(n) \in {"decl", "func_decl"} -> lower_func_decl(backend, n)
                    [] OTHER -> backend
  /\ rest' = Tail(rest) /\ UNCHANGED <<pass, reachVars>>

Define ==
  /\ pass = "define" /\ rest # <<>>
  /\ \E n \in {Head(rest)} :
       backend' = CASE KindAt(n) = "decl" -> Dropped(lower_global_decl(backend, n))
                    [] KindAt(n) = "var_decl" -> Dropped(lower_global_var(backend, n))
                    [] KindAt(n) = "func_decl" -> lower_func_decl(backend, n)
                    [] KindAt(n) = "func_def" -> Dropped(lower_func_def(backend, n))
                    [] OTHER -> backend
  /\ rest' = Tail(rest) /\ UNCHANGED <<pass, reachVars>>

NextPass ==
  /\ pass \in {"declare", "define"} /\ rest = <<>>
  /\ IF pass = "declare" THEN pass' = "define" /\ rest' = file ELSE pass' = "materialize" /\ rest' = <<>>
  /\ UNCHANGED <<backend, reachVars>>

\* Types first, then static functions, each in the order of a hash set, which does not matter.
Materialize ==
  /\ pass = "materialize"
  /\ LET Type(s, name) == materialize_missing_function_body(s, name, TRUE)
         Static(s, name) == materialize_missing_function_body(s, name, FALSE)
     IN backend' = Static(FoldLeft(Static, FoldLeft(Type, backend, SetToSeq(backend.aliases)),
                                   SetToSeq(backend.statics)), "sqlite3OsDlSym")
  /\ pass' = "done" /\ UNCHANGED <<rest, reachVars>>

BackendNext(orders) == CollectDefinitions \/ Search \/ Collect(orders) \/ Declare \/ Define \/ NextPass \/ Materialize
=============================================================================
