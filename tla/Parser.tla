------------------------------- MODULE Parser -------------------------------
(***************************************************************************)
(* The parser of src/src/frontend/parser.rs, with the parse functions of   *)
(* gnu_extensions.rs and inline_asm.rs: recursive descent over the tokens, *)
(* building nodes in the arena that are linked in place.                   *)
(*                                                                         *)
(* A parse function takes a state of the parser and returns the state it   *)
(* leaves, its result in field n.  A failed state passes through every     *)
(* later call unchanged, as ? returns at once; what a failed function did  *)
(* to the arena and the typedef tables stays.                              *)
(***************************************************************************)
EXTENDS Integers, Sequences, SequencesExt, Bitwise

CONSTANTS
  Literals,      \* Literals[t]: kind and value of literal token t
  Builtins,      \* the identifiers that start with __builtin_
  OwnLexer,      \* whether the tokens come from Parser::lex, or from the preprocessor
  NodeCapacity,  \* what Arena::new is called with
  U32Max,        \* the largest u32
  ItemCap        \* items of a block that are read before the parser gives up

NULL == 0
EOF  == ""

\* The lists of keywords of the two lexers.
Keywords ==
  {"auto", "break", "case", "char", "const", "continue", "default", "do", "double", "else",
   "enum", "extern", "float", "for", "goto", "if", "inline", "int", "long", "register",
   "restrict", "return", "short", "signed", "sizeof", "static", "struct", "switch", "typedef",
   "union", "unsigned", "void", "volatile", "while", "_Bool", "_Complex", "_Imaginary"}
  \cup IF OwnLexer
         THEN {"_Atomic", "_Noreturn", "typeof", "__typeof__", "__attribute__", "__extension__",
               "__label__", "__asm__", "__asm", "asm", "__inline", "__inline__",
               "__volatile__", "__volatile", "__restrict", "__restrict__", "__const",
               "__const__", "__signed__", "__signed", "__noreturn__"} \cup Builtins
         ELSE {"_Thread_local", "__thread"}

Punctuators ==
  {"...", ">>=", "<<=", "+=", "-=", "*=", "/=", "%=", "&=", "^=", "|=", ">>", "<<", "++", "--",
   "->", "&&", "||", "<=", ">=", "==", "!=", ";", "{", "}", ",", ":", "=", "(", ")", "[", "]",
   ".", "&", "*", "+", "-", "~", "!", "/", "%", "<", ">", "^", "|", "?", "#"}

KindOf(t) ==
  CASE t = EOF -> "EOF"
    [] t \in DOMAIN Literals -> Literals[t].kind
    [] t \in Punctuators -> "Punctuator"
    [] t \in Keywords -> "Keyword"
    [] OTHER -> "Identifier"

-----------------------------------------------------------------------------
(* The parser's state.                                                     *)

\* toks: the tokens but EOF; at: current, from 1; nodes: the arena; strings: slots taken in
\* its string pool; kinds: typedef_names (the domain) and typedef_kinds; ints: constant_ints;
\* st: "ok", "err", or "hang" in a loop that never ends.  n is the result of the last call and
\* str the string it stored; while a function links a chain, n and last are its ends.
Start(toks) ==
  [toks |-> toks, at |-> 1, nodes |-> <<>>, strings |-> 0, kinds |-> [t \in {} |-> NULL],
   ints |-> [t \in {} |-> 0], st |-> "ok", n |-> NULL, last |-> NULL, str |-> ""]

Ok(s)       == s.st = "ok"
Fail(s)     == IF Ok(s) THEN [s EXCEPT !.st = "err"] ELSE s
Hang(s)     == IF Ok(s) THEN [s EXCEPT !.st = "hang"] ELSE s
Recover(s)  == IF s.st = "err" THEN [s EXCEPT !.st = "ok"] ELSE s
Give(s, n)  == [s EXCEPT !.n = n]
NoList(s)   == [s EXCEPT !.n = NULL, !.last = NULL]
Keep(s, l)  == [s EXCEPT !.n = l.n, !.last = l.last]

TokenAt(s, i)    == IF i <= Len(s.toks) THEN s.toks[i] ELSE EOF
current_token(s) == TokenAt(s, s.at)
Kind(s)          == KindOf(current_token(s))
is_at_end(s)     == Kind(s) = "EOF"

\* The current token is t; never so in a failed state.
At(s, t)   == Ok(s) /\ current_token(s) = t
AtIn(s, T) == Ok(s) /\ current_token(s) \in T
Word(s)    == Ok(s) /\ Kind(s) \in {"Keyword", "Identifier"}

advance(s) == IF Ok(s) /\ s.at <= Len(s.toks) + 1 THEN [s EXCEPT !.at = @ + 1] ELSE s
expect(s, t) == IF At(s, t) THEN advance(s) ELSE Fail(s)
skip(s, t) == IF At(s, t) THEN advance(s) ELSE s

-----------------------------------------------------------------------------
(* The arena.                                                              *)

store_string(s, text) ==
  CASE ~Ok(s) -> s
    [] s.strings < NodeCapacity \div 4 -> [s EXCEPT !.strings = @ + 1, !.str = text]
    [] OTHER -> [s EXCEPT !.str = ""]

\* Mutant: the last slot is not kept free.
alloc_past_end(s, kind, data, name, child, next) ==
  IF ~Ok(s) \/ Len(s.nodes) >= NodeCapacity THEN Give(s, NULL)
    ELSE [s EXCEPT !.n = Len(s.nodes) + 1,
                   !.nodes = Append(@, [kind |-> kind, data |-> data, name |-> name,
                                        child |-> child, next |-> next])]

\* data is a number or name a string of the node, as its kind has it.
alloc_node(s, kind, data, name, child, next) ==
  CASE ~Ok(s) -> s
    [] Len(s.nodes) + 1 >= NodeCapacity -> Give(s, NULL)
    [] OTHER -> [s EXCEPT !.n = Len(s.nodes) + 1,
                          !.nodes = Append(@, [kind |-> kind, data |-> data, name |-> name,
                                               child |-> child, next |-> next])]

Leaf(s, kind) == alloc_node(s, kind, 0, "", NULL, NULL)

\* A node with the result of s below it, and one with left's below it and s's behind it.
Node(s, kind) == alloc_node(s, kind, 0, "", s.n, NULL)
Pair(left, s, kind) == alloc_node(s, kind, 0, "", left.n, s.n)

\* A node whose name is the token before the current one.
NamedNode(s, kind, child) ==
  LET a == store_string(advance(s), current_token(s))
  IN alloc_node(a, kind, 0, a.str, child, NULL)

Exists(s, n) == n \in 1 .. Len(s.nodes)
SetNext(s, n, m)  == IF Ok(s) /\ Exists(s, n) THEN [s EXCEPT !.nodes[n].next = m] ELSE s
SetChild(s, n, m) == IF Ok(s) /\ Exists(s, n) THEN [s EXCEPT !.nodes[n].child = m] ELSE s

\* Mutant: the new node is linked behind the first of the chain.
link_first(s, l, n) ==
  CASE ~Ok(s) -> s
    [] n = NULL -> Keep(s, l)
    [] l.n = NULL -> [s EXCEPT !.n = n, !.last = n]
    [] OTHER -> [SetNext(s, l.n, n) EXCEPT !.n = l.n, !.last = n]

\* State s with node n behind the chain that l holds.
link_siblings(s, l, n) ==
  CASE ~Ok(s) -> s
    [] n = NULL -> Keep(s, l)
    [] l.n = NULL -> [s EXCEPT !.n = n, !.last = n]
    [] OTHER -> [SetNext(s, l.last, n) EXCEPT !.n = l.n, !.last = n]

RECURSIVE ChainEnd(_, _)
ChainEnd(s, n) ==
  IF Exists(s, n) /\ s.nodes[n].next # NULL THEN ChainEnd(s, s.nodes[n].next) ELSE n

\* The chain from first on gets m behind its end.
JoinEnd(s, first, m) == IF Ok(s) THEN SetNext(s, ChainEnd(s, first), m) ELSE s
Joined(s, first) == IF s.n # NULL THEN JoinEnd(s, first, s.n) ELSE s

\* The result of s behind the chain that l holds.
Link(l, s) == link_siblings(s, l, s.n)

\* The nodes of the chain that starts with n.
RECURSIVE Chain(_, _)
Chain(nodes, n) ==
  IF n \in 1 .. Len(nodes) THEN <<n>> \o Chain(nodes, nodes[n].next) ELSE <<>>

-----------------------------------------------------------------------------
(* Classes of tokens.                                                      *)

TypeWords ==
  {"void", "char", "int", "float", "double", "short", "long", "signed", "unsigned", "struct",
   "union", "enum", "_Bool", "_Complex", "_Imaginary", "typeof", "__typeof__", "__signed__",
   "__signed", "__builtin_va_list", "__gnuc_va_list", "va_list", "__int128", "__int128_t",
   "__uint128_t"}

is_type_specifier(s) ==
  Word(s) /\ (AtIn(s, TypeWords) \/ (Kind(s) = "Identifier" /\ AtIn(s, DOMAIN s.kinds)))

StorageWords  == {"typedef", "extern", "static", "auto", "register", "_Thread_local", "__thread"}
FunctionWords == {"inline", "__inline", "__inline__", "_Noreturn", "noreturn", "__noreturn__"}
QualifierWords ==
  {"const", "restrict", "volatile", "__const", "__const__", "__restrict", "__restrict__",
   "__volatile", "__volatile__", "_Atomic"}

is_storage_class_specifier(s) == Word(s) /\ AtIn(s, StorageWords)
is_function_specifier(s) == Word(s) /\ AtIn(s, FunctionWords)
is_type_qualifier(s) == Word(s) /\ AtIn(s, QualifierWords)

is_declarator_start(s) == Ok(s) /\ (Kind(s) = "Identifier" \/ AtIn(s, {"(", "*"}))

\* What the specifier nodes are of; restrict and volatile have other spellings that are const.
SpecifierKind(t) ==
  CASE t \in {"signed", "__signed__", "__signed"} -> "signed"
    [] t \in {"__builtin_va_list", "__gnuc_va_list", "va_list"} -> "va_list"
    [] t \in {"_Thread_local", "__thread"} -> "_Thread_local"
    [] t \in {"inline", "__inline", "__inline__"} -> "inline"
    [] t \in {"_Noreturn", "noreturn", "__noreturn__"} -> "noreturn"
    [] t \in QualifierWords \ {"restrict", "volatile"} -> "const"
    [] t \in {"void", "int", "char", "float", "double", "short", "long", "unsigned", "_Bool",
              "_Complex", "restrict", "volatile"} \cup StorageWords -> t
    [] OTHER -> "int"

SimpleSpecifier(s) == Leaf(advance(s), SpecifierKind(current_token(s)))

-----------------------------------------------------------------------------
(* Constant expressions.                                                   *)

\* i64 arithmetic, as far as the constants in use need it: no overflow, shifts below 32.
Quotient(a, b) ==
  LET q == (IF a < 0 THEN -a ELSE a) \div (IF b < 0 THEN -b ELSE b)
  IN IF (a < 0) = (b < 0) THEN q ELSE -q
BitWidth  == 2 ^ 20
Unsigned(a) == a % BitWidth
Signed(a)   == IF a >= BitWidth \div 2 THEN a - BitWidth ELSE a
Truth(b)    == IF b THEN 1 ELSE 0

Arith(op, a, b) ==
  CASE op = "+"  -> a + b
    [] op = "-"  -> a - b
    [] op = "*"  -> a * b
    [] op = "/"  -> IF b = 0 THEN 0 ELSE Quotient(a, b)
    [] op = "%"  -> IF b = 0 THEN 0 ELSE a - b * Quotient(a, b)
    [] op = "==" -> Truth(a = b)
    [] op = "!=" -> Truth(a # b)
    [] op = "<"  -> Truth(a < b)
    [] op = ">"  -> Truth(a > b)
    [] op = "<=" -> Truth(a <= b)
    [] op = ">=" -> Truth(a >= b)
    [] op = "&&" -> Truth(a # 0 /\ b # 0)
    [] op = "||" -> Truth(a # 0 \/ b # 0)
    [] op = "&"  -> Signed(Unsigned(a) & Unsigned(b))
    [] op = "|"  -> Signed(Unsigned(a) | Unsigned(b))
    [] op = "^"  -> Signed(Unsigned(a) ^^ Unsigned(b))
    [] op = "<<" -> a * 2 ^ (IF b < 0 THEN 0 ELSE b)
    [] op = ">>" -> a \div 2 ^ (IF b < 0 THEN 0 ELSE b)

\* The kinds of nodes that a type in front of a cast's operand may consist of.
TypeKinds ==
  {"void", "int", "char", "struct", "union", "enum", "pointer", "array", "func", "short", "long",
   "signed", "unsigned", "_Bool", "_Complex", "va_list", "float", "double", "typedef", "extern",
   "static", "auto", "register", "_Thread_local", "attribute"}


\* The value of a constant expression, in a set, or the empty set.
RECURSIVE eval_constant_i64(_, _)
eval_constant_i64(s, n) ==
  IF ~Exists(s, n) THEN {} ELSE
  LET node == s.nodes[n]
      Eval(m) == eval_constant_i64(s, m)
  IN CASE node.kind = "ident" -> {s.ints[name] : name \in {node.name} \cap DOMAIN s.ints}
       [] node.kind = "int_const" -> {node.data}
       [] node.kind = "unop" ->
            {CASE node.name = "!" -> Truth(v = 0)
               [] node.name = "~" -> -v - 1
               [] OTHER -> v : v \in Eval(node.child)}  \* "-" has the code that is read as "+"
       [] node.kind = "binop" /\ Exists(s, node.child) ->
            LET wrapper == s.nodes[node.child]
            IN {Arith(node.name, a, b) : a \in Eval(wrapper.child), b \in Eval(wrapper.next)}
       [] node.kind = "ternary" /\ Exists(s, node.next) ->
            LET wrapper == s.nodes[node.next]
            IN UNION {Eval(IF c # 0 THEN wrapper.child ELSE wrapper.next) : c \in Eval(node.child)}
       [] node.kind = "cast" ->
            LET chain == Chain(s.nodes, node.child)
                operand == {i \in 2 .. Len(chain) : s.nodes[chain[i]].kind \notin TypeKinds}
            IN Eval(IF operand = {} THEN node.child ELSE chain[Min(operand)])
       [] node.kind = "comma" -> Eval(node.next)
       [] OTHER -> {}

\* unwrap_or(0), of an i64 and of a u32.
ValueOr0(V)  == IF V = {} THEN 0 ELSE CHOOSE v \in V : TRUE
constant_i64(s, n) == ValueOr0(eval_constant_i64(s, n))
constant_u32(s, n) == ValueOr0(eval_constant_i64(s, n) \cap 0 .. U32Max)

-----------------------------------------------------------------------------
(* The parse functions call each other through Parse, by the name of what  *)
(* they parse.                                                             *)

RECURSIVE Parse(_, _)
RECURSIVE Attributes(_)

parse_constant_expression(s) == Parse("conditional_expression", s)

\* What is tried and, where it fails, dropped: the token it failed at is skipped.
Item(s, item) ==
  IF item.st = "err" THEN Keep(advance(Recover(item)), s) ELSE link_siblings(item, s, item.n)

(* Attributes and assembler names.                                         *)

RECURSIVE AttributeArguments(_)
AttributeArguments(s) ==
  IF ~Ok(s) \/ At(s, ")") THEN s ELSE
  LET word == current_token(s)
      arg == CASE Kind(s) = "StringLiteral" -> NamedNode(s, "string", NULL)
               [] Kind(s) = "IntConstant" ->
                    alloc_node(advance(s), "int_const", Literals[word].value, "", NULL, NULL)
               [] OTHER -> Parse("expression", s)
      next == Link(s, arg)
  IN IF At(next, ",") THEN AttributeArguments(advance(next)) ELSE next

\* The name of an attribute is kept where a node's parent would be.
parse_single_attribute(s) ==
  IF ~Word(s) THEN Fail(s) ELSE
  LET name == store_string(advance(s), current_token(s))
      args == IF At(name, "(")
                THEN expect(AttributeArguments(NoList(advance(name))), ")")
                ELSE NoList(name)
  IN alloc_node(args, "attribute", 0, name.str, args.n, NULL)

RECURSIVE SingleAttributes(_)
SingleAttributes(s) ==
  LET Rest(next) == IF At(next, ",") THEN SingleAttributes(advance(next)) ELSE next
  IN IF ~Ok(s) \/ At(s, ")") THEN s ELSE Rest(Link(s, parse_single_attribute(s)))

parse_attribute_list(s) ==
  LET attrs == SingleAttributes(NoList(expect(expect(s, "("), "(")))
  IN Node(expect(expect(attrs, ")"), ")"), "attribute")

Attributes(s) ==
  IF At(s, "__attribute__")
    THEN Attributes(Link(s, Parse("attribute_list", advance(s)))) ELSE s

\* An attribute that is read and forgotten, even if it cannot be read.
DropAttribute(s) == Keep(Recover(Parse("attribute_list", advance(s))), s)

AsmWords == {"asm", "__asm__", "__asm"}

RECURSIVE SkipParentheses(_, _, _)
SkipParentheses(s, depth, left) ==
  CASE ~Ok(s) \/ is_at_end(s) \/ left = 0 -> s
    [] At(s, "(") -> SkipParentheses(advance(s), depth + 1, left - 1)
    [] At(s, ")") /\ depth = 1 -> advance(s)
    [] At(s, ")") -> SkipParentheses(advance(s), depth - 1, left - 1)
    [] OTHER -> SkipParentheses(advance(s), depth, left - 1)

skip_asm_label(s) ==
  LET a == advance(s)
  IN CASE ~(Word(s) /\ AtIn(s, AsmWords)) -> s
       [] At(a, "(") -> SkipParentheses(advance(a), 1, 200)
       [] OTHER -> a

\* Behind a declarator: assembler names are skipped, attributes linked into the chain.
DeclaratorEnd(s) == skip_asm_label(Attributes(skip_asm_label(s)))

-----------------------------------------------------------------------------
(* Declaration specifiers.                                                 *)

parse_typeof_expr(s) ==
  LET a == expect(s, "(")
  IN Node(expect(Parse(IF is_type_specifier(a) THEN "declaration_specifiers" ELSE "expression", a), ")"),
          "typeof")

RECURSIVE StructMembers(_)
StructMembers(s) ==
  CASE ~Ok(s) -> s
    [] At(s, "}") -> advance(s)
    [] is_at_end(s) -> s
    [] OTHER -> StructMembers(Link(s, Parse("struct_declaration", s)))

\* parse_struct_specifier and parse_union_specifier.
parse_struct_specifier(s, kind) ==
  LET a == Attributes(NoList(s))
      tag == IF Ok(a) /\ Kind(a) = "Identifier"
               THEN store_string(advance(a), current_token(a))
               ELSE [a EXCEPT !.str = ""]
      b == Attributes(tag)
      c == IF At(b, "{") THEN StructMembers(advance(b)) ELSE b
  IN alloc_node(c, kind, 0, tag.str, c.n, NULL)

\* A member's declarator, or the width of a bit-field without a name.
BitField(s, width, declarator) ==
  alloc_node(width, "bitfield", constant_u32(width, width.n), "", declarator, NULL)

StructDeclarator(s) ==
  LET Member(d) == IF At(d, ":") THEN BitField(s, parse_constant_expression(advance(d)), d.n) ELSE d
      Marked(m) == IF At(m, "__attribute__") THEN DropAttribute(m) ELSE m
      Moved(m) == IF m.at = s.at THEN advance(m) ELSE m
  IN Moved(Marked(Link(s, Member(Parse("declarator", s)))))

RECURSIVE StructDeclarators(_, _)
StructDeclarators(s, left) ==
  CASE ~Ok(s) -> s
    [] At(s, ";") -> advance(s)
    [] is_at_end(s) \/ left = 0 -> s
    [] OTHER -> StructDeclarators(
         CASE At(s, ",") -> advance(s)
           [] At(s, ":") -> Link(s, BitField(s, parse_constant_expression(advance(s)), NULL))
           [] At(s, "__attribute__") -> DropAttribute(s)
           [] OTHER -> StructDeclarator(s), left - 1)

parse_struct_declaration(s) ==
  LET specs == Parse("declaration_specifiers", skip(s, "__extension__"))
      decls == Joined(StructDeclarators(NoList(specs), 500), specs.n)
  IN alloc_node(decls, "struct_decl", 0, "", specs.n, NULL)

\* The constant after an enumerator: its own value, or the one before it and one.
RECURSIVE EnumConstants(_, _)
EnumConstants(s, value) ==
  LET name == current_token(s)
      Constant(e, v) ==
        LET known == IF Ok(e) THEN [e EXCEPT !.ints = [x \in DOMAIN @ \cup {name} |->
                                                       IF x = name THEN v ELSE @[x]]] ELSE e
        IN alloc_node(store_string(known, name), "enum_const", v % (U32Max + 1), "", NULL, NULL)
      Named(c) ==
        LET ident == alloc_node(c, "ident", 0, c.str, NULL, NULL)
        IN link_siblings(SetChild(ident, c.n, ident.n), s, c.n)
      Rest(next, v) ==
        IF At(next, "}") THEN advance(next) ELSE EnumConstants(skip(next, ","), v + 1)
      Valued(e) == Rest(Named(Constant(e, constant_i64(e, e.n))), constant_i64(e, e.n))
  IN CASE ~Ok(s) -> s
       [] At(s, "}") -> advance(s)
       [] Kind(s) # "Identifier" -> s
       [] At(advance(s), "=") -> Valued(parse_constant_expression(advance(advance(s))))
       [] OTHER -> Rest(Named(Constant(advance(s), value)), value)

parse_enum_specifier(s) ==
  LET a == NoList(IF Ok(s) /\ Kind(s) = "Identifier" THEN advance(s) ELSE s)
      b == IF At(a, "{") THEN EnumConstants(advance(a), 0) ELSE a
  IN alloc_node(b, "enum", 0, "", b.n, NULL)

\* A typedef name stands for the kind of type it was declared with.
parse_type_specifier(s) ==
  LET t == current_token(s)
      k == s.kinds[t]
  IN CASE t \in {"struct", "union"} -> parse_struct_specifier(advance(s), t)
       [] t = "enum" -> parse_enum_specifier(advance(s))
       [] t \in {"typeof", "__typeof__"} -> parse_typeof_expr(advance(s))
       [] t \in DOMAIN s.kinds /\ t \notin TypeWords \ {"_Imaginary"} ->
            alloc_node(advance(s), k.kind, 0, k.tag, NULL, NULL)
       [] OTHER -> SimpleSpecifier(s)

RECURSIVE Specifiers(_, _)
Specifiers(s, typed) ==
  LET Linked(t) == link_siblings(t, s, t.n)
  IN CASE ~Ok(s) -> s
       [] At(s, "__attribute__") -> Specifiers(Linked(Parse("attribute_list", advance(s))), typed)
       [] At(s, "__extension__") -> Specifiers(advance(s), typed)
       [] is_storage_class_specifier(s) -> Specifiers(Linked(SimpleSpecifier(s)), typed)
       [] is_type_specifier(s) -> Specifiers(Linked(parse_type_specifier(s)), TRUE)
       [] is_type_qualifier(s) \/ is_function_specifier(s) ->
            Specifiers(Linked(SimpleSpecifier(s)), typed)
       [] OTHER -> IF s.n = NULL /\ ~typed THEN Fail(s) ELSE s

parse_declaration_specifiers(s) == Specifiers(NoList(s), FALSE)

-----------------------------------------------------------------------------
(* Declarators.                                                            *)

RECURSIVE Qualifiers(_), Stars(_)
Qualifiers(s) == IF is_type_qualifier(s) THEN Qualifiers(SimpleSpecifier(s)) ELSE s
Stars(s) == IF At(s, "*") THEN Stars(Qualifiers(advance(s))) ELSE s

parse_parameter_declaration(s) ==
  LET specs == Parse("declaration_specifiers", s)
      decl == IF is_declarator_start(specs) THEN Parse("declarator", specs) ELSE Give(specs, NULL)
  IN IF is_type_specifier(s) \/ is_type_qualifier(s) \/ is_storage_class_specifier(s)
       THEN alloc_node(Joined(decl, specs.n), "param", 0, "", specs.n, NULL)
       ELSE Leaf(s, "param")

RECURSIVE Parameters(_)
Parameters(s) ==
  LET Rest(next) ==
        CASE ~At(next, ",") -> next
          [] At(advance(next), "...") -> advance(advance(next))
          [] OTHER -> Parameters(advance(next))
  IN IF AtIn(s, {")", "{"}) THEN s ELSE Rest(Link(s, parse_parameter_declaration(s)))

parse_parameter_list(s) ==
  IF At(s, "void") /\ At(advance(s), ")") THEN NoList(advance(s)) ELSE Parameters(NoList(s))

\* The arrays and functions behind declarator n.
RECURSIVE DeclaratorSuffixes(_)
DeclaratorSuffixes(s) ==
  LET a == advance(s)
      Sized(size) == alloc_node(expect(size, "]"), "array", constant_u32(size, size.n), "", s.n, NULL)
      Taking(params) ==
        LET end == expect(params, ")")
        IN alloc_node(IF params.n # NULL THEN SetNext(end, s.n, params.n) ELSE end, "func",
                      Truth(TokenAt(params, params.at - 1) = "..."), "", s.n, NULL)
  IN CASE At(s, "[") ->
            DeclaratorSuffixes(Sized(IF At(a, "]") THEN Give(a, NULL) ELSE parse_constant_expression(a)))
       [] At(s, "(") ->
            DeclaratorSuffixes(Taking(IF At(a, ")") THEN NoList(a) ELSE parse_parameter_list(a)))
       [] OTHER -> s

parse_direct_declarator(s) ==
  IF ~Ok(s) THEN s ELSE
  DeclaratorSuffixes(CASE Kind(s) = "Identifier" -> NamedNode(s, "ident", NULL)
                       [] At(s, "(") -> expect(Parse("declarator", advance(s)), ")")
                       [] OTHER -> Give(s, NULL))

\* One node for all the stars in front of a declarator.
parse_declarator(s) ==
  LET p == Stars(s)
      stars == Cardinality({i \in s.at .. p.at - 1 : TokenAt(s, i) = "*"})
      Pointer(d) == IF stars > 0 THEN alloc_node(d, "pointer", stars, "", d.n, NULL) ELSE d
  IN Pointer(parse_direct_declarator(p))

-----------------------------------------------------------------------------
(* Typedef names.                                                          *)

RECURSIVE Below(_, _)
\* The nodes that are reached from n, n itself first, in the order of the program.
Below(nodes, n) ==
  IF n \notin 1 .. Len(nodes) THEN <<>>
    ELSE <<n>> \o Below(nodes, nodes[n].child) \o Below(nodes, nodes[n].next)

declarator_contains_pointer(s, n) ==
  \E m \in ToSet(Below(s.nodes, n)) : s.nodes[m].kind = "pointer"

\* The specifiers of a type name one of the kinds the backend knows; the last word that is a
\* type wins, but int does not win over long, and what is unsigned or signed keeps its width.
resolve_specifier_chain_kind(s, n) ==
  LET chain == [i \in DOMAIN Chain(s.nodes, n) |-> s.nodes[Chain(s.nodes, n)[i]]]
      Has(k) == \E i \in DOMAIN chain : chain[i].kind = k
      Next(base, node) ==
        CASE node.kind = "int" -> IF base.kind = "long" THEN base ELSE [base EXCEPT !.kind = "int"]
          [] node.kind \in {"char", "short", "long", "float", "double", "void", "_Bool",
                            "va_list"} -> [base EXCEPT !.kind = node.kind]
          [] node.kind \in {"struct", "union"} -> [kind |-> node.kind, tag |-> node.name]
          [] OTHER -> base
      base == FoldLeft(Next, [kind |-> "int", tag |-> ""], chain)
      longs == Cardinality({i \in DOMAIN chain : chain[i].kind = "long"})
      wide == {"char", "short", "long"}
  IN CASE Has("pointer") -> [kind |-> "pointer", tag |-> ""]
       [] Has("struct") \/ Has("union") -> base
       [] longs >= 2 -> [kind |-> "long", tag |-> ""]
       [] Has("unsigned") /\ base.kind \notin wide -> [kind |-> "unsigned", tag |-> ""]
       [] Has("signed") /\ ~Has("unsigned") /\ base.kind \notin wide -> [kind |-> "int", tag |-> ""]
       [] OTHER -> [kind |-> base.kind, tag |-> ""]

\* The name that declarator s.n declares becomes a typedef name.
register_typedef(s, specs) ==
  LET idents == SelectSeq(Below(s.nodes, s.n), LAMBDA m : s.nodes[m].kind = "ident")
      name == s.nodes[Head(idents)].name
      k == resolve_specifier_chain_kind(s, specs)
      kind == IF declarator_contains_pointer(s, s.n) THEN [k EXCEPT !.kind = "pointer"] ELSE k
  IN IF ~Ok(s) \/ s.n = NULL \/ idents = <<>> THEN s
       ELSE [s EXCEPT !.kinds = [t \in DOMAIN @ \cup {name} |-> IF t = name THEN kind ELSE @[t]]]

-----------------------------------------------------------------------------
(* Declarations and initializers.                                          *)

parse_designated_init(s) ==
  LET a == advance(s)
      Field(f) ==
        LET value == Parse("initializer", expect(f, "="))
        IN alloc_node(value, "designated", 0, f.str, value.n, NULL)
      Element(index) ==
        LET value == Parse("initializer", expect(expect(index, "]"), "="))
        IN alloc_node(value, "designated", 1, "", index.n, value.n)
  IN CASE At(s, ".") /\ Kind(a) = "Identifier" -> Field(store_string(advance(a), current_token(a)))
       [] At(s, "[") -> Element(parse_constant_expression(a))
       [] OTHER -> Parse("initializer", skip(s, "."))

Initializer(s) == IF AtIn(s, {".", "["}) THEN parse_designated_init(s) ELSE Parse("initializer", s)

\* The elements of a braced list, in one chain with whatever an element is the first of.
RECURSIVE Elements(_)
Elements(s) ==
  LET ToEnd(l) == IF Ok(l) THEN [l EXCEPT !.last = ChainEnd(l, l.last)] ELSE l
      Rest(next) ==
        CASE At(next, "}") -> advance(next)
          [] At(next, ",") -> Elements(advance(next))
          [] OTHER -> next
  IN Rest(ToEnd(Link(s, Initializer(s))))

parse_initializer(s) ==
  IF At(s, "{") THEN Elements(NoList(advance(s))) ELSE Parse("assignment_expression", s)

\* The declarators of a declaration in a block.  An initializer follows the declarator it is
\* of, and an init-declarator holds both.
RECURSIVE InitDeclarators(_, _, _)
InitDeclarators(s, specs, typedef) ==
  LET Named(d) == IF typedef THEN register_typedef(d, specs) ELSE d
      Value(v, d) == alloc_node(SetNext(v, d, v.n), "assign", 0, "=", d, NULL)
      Init(a, d) == IF At(a, "=") THEN Value(Initializer(advance(a)), d) ELSE Give(a, d)
      Linked(a, d) == Link(a, Init(a, d))
      Declared(d) == Linked(DeclaratorEnd(Keep(Named(d), s)), d.n)
      Rest(next) ==
        CASE At(next, ";") -> advance(next)
          [] At(next, ",") -> InitDeclarators(advance(next), specs, typedef)
          [] OTHER -> next
  IN Rest(Declared(Parse("declarator", s)))

parse_declaration(s) ==
  LET specs == Parse("declaration_specifiers", s)
      inits == IF At(specs, ";") THEN NoList(advance(specs))
                 ELSE InitDeclarators(NoList(specs), specs.n, At(s, "typedef"))
  IN alloc_node(Joined(inits, specs.n), "var_decl", 0, "", specs.n, NULL)

-----------------------------------------------------------------------------
(* GNU extensions and inline assembly.                                     *)

RECURSIVE StatementExprItems(_, _)
StatementExprItems(s, left) ==
  LET item == Parse(IF is_type_specifier(s) \/ is_storage_class_specifier(s)
                      THEN "declaration" ELSE "expression", s)
      Moved(next) == IF next.at = s.at THEN advance(next) ELSE next
  IN CASE ~Ok(s) \/ left = 0 \/ is_at_end(s) \/ At(s, "}") -> s
       [] At(s, ";") -> StatementExprItems(Link(s, Leaf(advance(s), "empty")), left - 1)
       [] OTHER -> StatementExprItems(skip(Moved(Item(s, item)), ";"), left - 1)

parse_statement_expr(s) ==
  LET items == StatementExprItems(NoList(expect(expect(s, "("), "{")), ItemCap)
  IN Node(expect(expect(items, "}"), ")"), "stmt_expr")

parse_extension_wrapper(s) ==
  LET a == advance(s)
      spec == Parse("declaration_specifiers", a)
      Declared(d) == alloc_node(d, "decl", 0, "", spec.n, d.n)
  IN Node(CASE ~(is_type_specifier(a) \/ is_storage_class_specifier(a)) -> Parse("expression", a)
            [] is_declarator_start(spec) -> Declared(Parse("declarator", spec))
            [] OTHER -> spec, "extension")

\* The arguments of a builtin that are types.
TypeArgument(name, index) ==
  \/ name = "__builtin_types_compatible_p" /\ index < 2
  \/ name = "__builtin_offsetof" /\ index = 0
  \/ name = "__builtin_va_arg" /\ index = 1

RECURSIVE SkipQualifiers(_), PointerStars(_)
SkipQualifiers(s) == IF AtIn(s, QualifierWords) THEN SkipQualifiers(advance(s)) ELSE s
PointerStars(s) == IF At(s, "*") THEN PointerStars(SkipQualifiers(advance(s))) ELSE s

parse_type_argument(s) ==
  LET spec == Parse("declaration_specifiers", s)
      p == PointerStars(spec)
      depth == Cardinality({i \in spec.at .. p.at - 1 : TokenAt(s, i) = "*"})
  IN IF depth > 0 THEN alloc_node(p, "pointer", depth, "", spec.n, NULL) ELSE p

RECURSIVE BuiltinArguments(_, _, _)
BuiltinArguments(s, name, index) ==
  LET arg == IF TypeArgument(name, index) /\ (is_type_specifier(s) \/ AtIn(s, QualifierWords))
               THEN parse_type_argument(s) ELSE Parse("assignment_expression", s)
      Rest(next) == IF At(next, ",") THEN BuiltinArguments(advance(next), name, index + 1) ELSE next
  IN Rest(Link(s, arg))

parse_builtin_call(s, name) ==
  LET a == NoList(expect(store_string(s, name), "("))
      args == IF At(a, ")") \/ ~Ok(a) THEN a ELSE BuiltinArguments(a, name, 0)
      stored == store_string(s, name)
  IN alloc_node(expect(args, ")"), "builtin", 0, stored.str, args.n, NULL)

\* An operand of an asm statement.  The tokens of strings from the preprocessor have their
\* quotes, so that the = or + of a constraint is never its first character.
AsmOperand(s, kind) ==
  LET expr == Parse("assignment_expression", expect(advance(s), "("))
  IN [state |-> expect(expr, ")"), op |-> [kind |-> kind, name |-> current_token(s), child |-> expr.n]]

\* The sections of an asm statement, one after the other: the operands that have been read.
RECURSIVE parse_asm_operands(_, _, _)
parse_asm_operands(s, section, ops) ==
  LET More(t, sec, new) == parse_asm_operands(skip(t, ","), sec, ops \o new)
      Done(t) == [state |-> t, ops |-> ops]
      Name(kind, t) == [kind |-> kind, name |-> current_token(t), child |-> NULL]
      Label(b, a) ==
        CASE Kind(b) = "Identifier" -> More(advance(b), 4, <<Name("asm_label", b)>>)
          [] At(a, "&&") -> More(b, 4, <<>>)
          [] OTHER -> Done(a)
      Operand(o, sec) == More(o.state, sec, <<o.op>>)
      In(sec, a) ==
        CASE sec = 0 -> IF At(a, ",") THEN More(a, 0, <<>>) ELSE Done(Hang(a))
          [] sec \in {1, 2} /\ Kind(a) = "StringLiteral" ->
               Operand(AsmOperand(a, IF sec = 1 THEN "asm_output" ELSE "asm_input"), sec)
          [] sec = 3 /\ Kind(a) = "StringLiteral" -> More(advance(a), 3, <<Name("asm_clobber", a)>>)
          [] sec = 4 -> Label(skip(a, "&&"), a)
          [] OTHER -> Done(a)
      Section(a) == IF AtIn(a, {":", ")"}) THEN More(a, section + 1, <<>>) ELSE In(section + 1, a)
  IN CASE ~Ok(s) \/ At(s, ")") -> Done(s)
       [] At(s, ":") -> Section(advance(s))
       [] OTHER -> In(section, s)

\* The operands follow the asm statement itself, where other nodes have the statement behind.
parse_asm_stmt(s) ==
  LET volatile == AtIn(advance(s), {"volatile", "__volatile__"})
      AddOperand(t, op) ==
        LET b == store_string(t, op.name)
        IN Link(t, alloc_node(b, op.kind, 0, b.str, op.child, NULL))
      Linked(t, ops) ==
        LET c == FoldLeft(AddOperand, NoList(t), ops)
            jumps == \E i \in DOMAIN ops : ops[i].kind = "asm_label"
        IN alloc_node(c, "asm", Truth(volatile) + 2 * Truth(jumps), t.str, NULL, c.n)
      Read(read, template) ==
        Linked(store_string(skip(expect(read.state, ")"), ";"), template), read.ops)
      Body(a) ==
        Read(parse_asm_operands(IF Ok(a) /\ Kind(a) = "StringLiteral" THEN advance(a) ELSE Fail(a),
                                0, <<>>), current_token(a))
  IN Body(expect(IF volatile THEN advance(advance(s)) ELSE advance(s), "("))

-----------------------------------------------------------------------------
(* Statements.                                                             *)

RECURSIVE BlockItems(_, _)
BlockItems(s, left) ==
  LET item == Parse(IF is_type_specifier(s) \/ is_storage_class_specifier(s)
                      THEN "declaration" ELSE "statement", s)
      Moved(next) == IF next.at = s.at THEN advance(next) ELSE next
  IN CASE ~Ok(s) -> s
       [] At(s, "}") -> advance(s)
       [] left = 0 \/ is_at_end(s) -> s
       [] At(s, ";") -> BlockItems(Link(s, Leaf(advance(s), "empty")), left - 1)
       [] OTHER -> BlockItems(Moved(Item(s, item)), left - 1)

parse_compound_statement(s) == Node(BlockItems(NoList(s), ItemCap), "compound")

parse_case_label(s) ==
  LET low == parse_constant_expression(expect(s, "case"))
      Upto(high) == alloc_node(expect(high, ":"), "case_range", high.n, "", low.n, NULL)
  IN IF At(low, "...") THEN Upto(parse_constant_expression(advance(low)))
       ELSE Node(expect(low, ":"), "case")

parse_default_label(s) == Leaf(expect(expect(s, "default"), ":"), "default")

parse_if_statement(s) ==
  LET cond == Parse("expression", expect(expect(s, "if"), "("))
      Else(then) ==
        Pair(then, IF At(then, "else") THEN Parse("statement", advance(then)) ELSE Give(then, NULL),
             "wrap")
  IN Node(Pair(cond, Else(Parse("statement", expect(cond, ")"))), "wrap"), "if")

\* Mutant: the body follows the statement, too.
while_and_body(s, kind) ==
  LET cond == Parse("expression", expect(expect(s, kind), "("))
      body == Parse("statement", expect(cond, ")"))
      cond_wrap == Pair(cond, body, "wrap")
  IN Pair(cond_wrap, Give(cond_wrap, body.n), kind)

\* while and switch: a condition and a body.
parse_while_statement(s, kind) ==
  LET cond == Parse("expression", expect(expect(s, kind), "("))
  IN Node(Pair(cond, Parse("statement", expect(cond, ")")), "wrap"), kind)

\* The condition follows the body.
parse_do_statement(s) ==
  LET body == Parse("statement", expect(s, "do"))
      cond == Parse("expression", expect(expect(body, "while"), "("))
      Linked(end) == SetNext(end, body.n, end.n)
  IN alloc_node(Linked(skip(expect(cond, ")"), ";")), "while", 1, "", body.n, NULL)

parse_for_statement(s) ==
  LET Init(a) ==
        CASE is_type_specifier(a) -> Parse("declaration", a)
          [] At(a, ";") -> Leaf(advance(a), "empty")
          [] OTHER -> skip(Parse("expression", a), ";")
      Condition(init) ==
        IF At(init, ";") THEN alloc_node(advance(init), "int_const", 1, "", NULL, NULL)
          ELSE skip(Parse("expression", init), ";")
      Increment(cond) ==
        IF At(cond, ")") THEN Give(advance(cond), NULL) ELSE skip(Parse("expression", cond), ")")
      WithBody(incr) == Pair(incr, Parse("statement", incr), "wrap")
      Incremented(cond) == Pair(cond, WithBody(Increment(cond)), "wrap")
      Conditioned(init) == Pair(init, Incremented(Condition(init)), "wrap")
  IN Node(Conditioned(Init(expect(expect(s, "for"), "("))), "for")

parse_goto_statement(s) ==
  LET a == expect(s, "goto")
  IN CASE At(a, "*") -> Node(skip(Parse("expression", advance(a)), ";"), "goto")
       [] Ok(a) /\ Kind(a) = "Identifier" -> skip(NamedNode(a, "goto", NULL), ";")
       [] OTHER -> Leaf(skip(a, ";"), "goto")

\* return, and a statement that is an expression.
OptionalExpression(s, kind) ==
  Node(IF At(s, ";") THEN Give(advance(s), NULL) ELSE skip(Parse("expression", s), ";"), kind)

parse_return_statement(s) == OptionalExpression(expect(s, "return"), "return")
parse_expression_statement(s) == OptionalExpression(s, "expr_stmt")

RECURSIVE SkipLabelNames(_)
SkipLabelNames(s) ==
  CASE At(s, ";") -> advance(s)
    [] is_at_end(s) -> s
    [] OTHER -> SkipLabelNames(advance(s))

parse_labeled_statement(s) ==
  LET name == store_string(advance(advance(s)), current_token(s))
      stmt == Parse("statement", name)
  IN alloc_node(stmt, "label", 0, name.str, stmt.n, NULL)

parse_statement(s) ==
  CASE ~Ok(s) -> s
    [] At(s, "{") -> Parse("compound_statement", advance(s))
    [] At(s, "__attribute__") -> Leaf(skip(DropAttribute(s), ";"), "empty")
    [] At(s, "if") -> parse_if_statement(s)
    [] AtIn(s, {"while", "switch"}) -> parse_while_statement(s, current_token(s))
    [] At(s, "for") -> parse_for_statement(s)
    [] At(s, "return") -> parse_return_statement(s)
    [] AtIn(s, {"break", "continue"}) -> Leaf(skip(advance(s), ";"), current_token(s))
    [] At(s, "goto") -> parse_goto_statement(s)
    [] At(s, "do") -> parse_do_statement(s)
    [] At(s, "case") -> parse_case_label(s)
    [] At(s, "default") -> parse_default_label(s)
    [] At(s, "__extension__") -> Parse("statement", advance(s))
    [] At(s, "__label__") -> Leaf(SkipLabelNames(advance(s)), "empty")
    [] AtIn(s, AsmWords) -> parse_asm_stmt(s)
    [] Kind(s) = "Identifier" /\ At(advance(s), ":") -> parse_labeled_statement(s)
    [] OTHER -> parse_expression_statement(s)

-----------------------------------------------------------------------------
(* Expressions.                                                            *)

parse_expression(s) ==
  LET left == Parse("assignment_expression", s)
  IN IF At(left, ",") THEN Pair(left, Parse("expression", advance(left)), "comma") ELSE left

AssignmentOps == {"=", "+=", "-=", "*=", "/=", "%=", "&=", "^=", "|=", ">>=", "<<="}

parse_assignment_expression(s) ==
  LET left == Parse("conditional_expression", s)
      Assigned(right) == alloc_node(right, "assign", 0, current_token(left), left.n, right.n)
  IN IF AtIn(left, AssignmentOps) THEN Assigned(Parse("assignment_expression", advance(left)))
       ELSE left

\* What an operand to the right of an operator of strength prec may not contain.
RightStrength(prec) == prec - 1

get_binary_operator(s) ==
  CASE AtIn(s, {"||"}) -> 1
    [] AtIn(s, {"&&"}) -> 2
    [] AtIn(s, {"|"}) -> 3
    [] AtIn(s, {"^"}) -> 4
    [] AtIn(s, {"&"}) -> 5
    [] AtIn(s, {"==", "!="}) -> 6
    [] AtIn(s, {"<", ">", "<=", ">="}) -> 7
    [] AtIn(s, {"<<", ">>"}) -> 8
    [] AtIn(s, {"+", "-"}) -> 9
    [] AtIn(s, {"*", "/", "%"}) -> 10
    [] OTHER -> 0

RECURSIVE parse_binary_op(_, _), BinaryRest(_, _)
BinaryRest(left, precedence) ==
  LET prec == get_binary_operator(left)
      right == parse_binary_op(advance(left), RightStrength(prec))
      Operation(operands) == alloc_node(operands, "binop", 0, current_token(left), operands.n, NULL)
  IN IF prec = 0 \/ prec <= precedence THEN left
       ELSE BinaryRest(Operation(Pair(left, right, "wrap")), precedence)

parse_binary_op(s, precedence) == BinaryRest(Parse("cast_expression", s), precedence)

\* The branches of a conditional are in a wrapper that follows it.
parse_conditional_expression(s) ==
  LET Else(then) == Pair(then, Parse("conditional_expression", expect(then, ":")), "wrap")
      Then(cond) == Pair(cond, Else(Parse("expression", advance(cond))), "ternary")
      Rest(cond) == IF At(cond, "?") THEN Then(cond) ELSE cond
  IN Rest(parse_binary_op(s, 0))

parse_cast_expression(s) ==
  LET a == advance(s)
      typed == is_type_specifier(a) \/ is_type_qualifier(a)
      type == Parse("declaration_specifiers", a)
      stars == IF At(type, "*") THEN Parse("declarator", type) ELSE Give(type, NULL)
      Literal(list) == alloc_node(list, "compound_literal", list.n, "", type.n, NULL)
      Operand(e) == alloc_node(JoinEnd(e, type.n, e.n), "cast", 0, "", type.n, NULL)
      Typed(joined) ==
        CASE ~Ok(joined) -> joined
          [] ~At(joined, ")") -> expect(Parse("expression", joined), ")")
          [] At(advance(joined), "{") -> Literal(Parse("initializer", advance(joined)))
          [] OTHER -> Operand(Parse("cast_expression", advance(joined)))
  IN CASE ~At(s, "(") -> Parse("unary_expression", s)
       [] typed -> Typed(Joined(stars, type.n))
       [] OTHER -> expect(Parse("expression", a), ")")

parse_sizeof_expression(s) ==
  LET a == advance(s)
      Operand(e) == alloc_node(e, "sizeof", 1, "", e.n, NULL)
  IN CASE At(a, "(") /\ is_type_specifier(advance(a)) ->
            Node(expect(Parse("declaration_specifiers", advance(a)), ")"), "sizeof")
       [] At(a, "(") -> Operand(expect(Parse("expression", advance(a)), ")"))
       [] OTHER -> Operand(Parse("unary_expression", a))

RECURSIVE Arguments(_), Postfixes(_)
\* Each argument is in a wrapper of its own.
Arguments(s) ==
  LET next == Link(s, Node(Parse("assignment_expression", s), "arg"))
  IN IF At(next, ",") THEN Arguments(advance(next)) ELSE next

parse_argument_expression_list(s) == IF At(s, ")") THEN NoList(s) ELSE Arguments(NoList(s))

\* What follows the expression s.n.  Postfix and prefix ++ make the same node.
Postfixes(s) ==
  LET a == advance(s)
      Callee(args) == IF args.n # NULL THEN SetNext(args, s.n, args.n) ELSE args
      Called(args) == alloc_node(Callee(expect(args, ")")), "call", 0, "", s.n, NULL)
      Member(named) ==
        alloc_node(named, "member", Truth(At(s, "->")), named.str, s.n, NULL)
  IN CASE At(s, "[") -> Postfixes(Pair(s, expect(Parse("expression", a), "]"), "index"))
       [] At(s, "(") -> Postfixes(Called(parse_argument_expression_list(a)))
       [] AtIn(s, {".", "->"}) /\ Kind(a) = "Identifier" ->
            Postfixes(Member(store_string(advance(a), current_token(a))))
       [] AtIn(s, {".", "->"}) -> Postfixes(a)
       [] AtIn(s, {"++", "--"}) -> Postfixes(alloc_node(a, "unop", 0, current_token(s), s.n, NULL))
       [] OTHER -> s

\* The strings that follow a string are one with it.
RECURSIVE AdjacentStrings(_, _)
AdjacentStrings(s, text) ==
  IF Ok(s) /\ Kind(s) = "StringLiteral"
    THEN AdjacentStrings(advance(s), text \o current_token(s))
    ELSE LET a == store_string(s, text) IN alloc_node(a, "string", 0, a.str, NULL, NULL)

\* A constant with a fraction is none of these, nor is any other token: the result is NULL.
parse_primary_expression(s) ==
  LET t == current_token(s)
      Constant(kind, v) == alloc_node(advance(s), kind, v, "", NULL, NULL)
  IN CASE ~Ok(s) -> s
       [] At(s, "(") /\ At(advance(s), "{") -> parse_statement_expr(s)
       [] t \in {"typeof", "__typeof__"} -> parse_typeof_expr(s)
       [] t = "__extension__" -> parse_extension_wrapper(s)
       [] t \in Builtins -> parse_builtin_call(advance(s), t)
       [] Kind(s) = "Identifier" -> NamedNode(s, "ident", NULL)
       [] Kind(s) = "IntConstant" ->
            Constant("int_const", IF Literals[t].value <= U32Max THEN Literals[t].value ELSE 0)
       [] Kind(s) = "CharConstant" -> Constant("char_const", Literals[t].value)
       [] Kind(s) = "StringLiteral" -> AdjacentStrings(s, "")
       [] At(s, "(") -> expect(Parse("expression", advance(s)), ")")
       [] OTHER -> Give(s, NULL)

parse_unary_expression(s) ==
  LET op == current_token(s)
      Operation(e) == alloc_node(e, "unop", 0, op, e.n, NULL)
  IN CASE At(s, "sizeof") -> parse_sizeof_expression(s)
       [] AtIn(s, {"++", "--", "+", "-"}) -> Operation(Parse("unary_expression", advance(s)))
       [] AtIn(s, {"!", "~", "&", "*"}) -> Operation(Parse("cast_expression", advance(s)))
       [] OTHER -> Postfixes(parse_primary_expression(s))

-----------------------------------------------------------------------------
(* The translation unit.                                                   *)

\* The specifiers are a chain already, and what follows is linked behind it.
FirstDeclarator(specs, typedef) ==
  LET chain == [specs EXCEPT !.last = ChainEnd(specs, specs.n)]
      Named(d) == IF typedef THEN register_typedef(d, specs.n) ELSE d
      Variable(init, value, d) ==
        LET v == alloc_node(SetNext(init, d, value.n), "var_decl", 0, "", specs.n, NULL)
        IN [JoinEnd(v, specs.n, init.n) EXCEPT !.n = v.n, !.last = v.n]
      Initialized(value, d) == Variable(alloc_node(value, "assign", 0, "", d, NULL), value, d)
      Rest(a, d) ==
        IF At(a, "=") THEN Initialized(Parse("initializer", advance(a)), d)
          ELSE link_siblings(a, a, d)
      Declared(d) == Rest(DeclaratorEnd(Keep(Named(d), chain)), d.n)
  IN IF is_declarator_start(specs) THEN Declared(Parse("declarator", specs)) ELSE chain

RECURSIVE MoreDeclarators(_)
MoreDeclarators(s) ==
  IF At(s, ",") THEN MoreDeclarators(DeclaratorEnd(Link(s, Parse("declarator", advance(s))))) ELSE s

parse_external_declaration(s) ==
  LET start == skip(s, "__extension__")
      Rest(head) ==
        IF At(head, "{") THEN Node(Link(head, Parse("compound_statement", advance(head))), "func_def")
          ELSE Node(skip(head, ";"), "decl")
  IN IF At(s, "__extension__") /\ Kind(s) = "Keyword" THEN parse_extension_wrapper(s)
     ELSE Rest(MoreDeclarators(FirstDeclarator(Parse("declaration_specifiers", start),
                                               At(start, "typedef"))))

Parse(form, s) ==
  CASE form = "expression" -> parse_expression(s)
    [] form = "assignment_expression" -> parse_assignment_expression(s)
    [] form = "conditional_expression" -> parse_conditional_expression(s)
    [] form = "cast_expression" -> parse_cast_expression(s)
    [] form = "unary_expression" -> parse_unary_expression(s)
    [] form = "statement" -> parse_statement(s)
    [] form = "declaration" -> parse_declaration(s)
    [] form = "declaration_specifiers" -> parse_declaration_specifiers(s)
    [] form = "declarator" -> parse_declarator(s)
    [] form = "initializer" -> parse_initializer(s)
    [] form = "attribute_list" -> parse_attribute_list(s)
    [] form = "struct_declaration" -> parse_struct_declaration(s)
    [] form = "compound_statement" -> parse_compound_statement(s)
    [] form = "external_declaration" -> parse_external_declaration(s)

VARIABLES
  parser,  \* the parser's state
  root     \* first_decl and last_decl, the ends of the chain of declarations

vars == <<parser, root>>

Reading == Ok(parser) /\ ~is_at_end(parser)

\* A declaration is linked behind the last one.
ExternalDeclaration ==
  /\ Reading
  /\ \E r \in {Parse("external_declaration", parser)} :
       /\ Ok(r)
       /\ IF root.first = NULL
            THEN root' = [first |-> r.n, last |-> r.n] /\ parser' = r
            ELSE root' = [root EXCEPT !.last = r.n] /\ parser' = SetNext(r, root.last, r.n)

\* Mutant: the token is not skipped.
SkipNothing ==
  /\ Reading
  /\ \E r \in {Parse("external_declaration", parser)} : r.st = "err" /\ parser' = Recover(r)
  /\ UNCHANGED root

\* Where no declaration can be read, the token it failed at is skipped; the error is dropped.
SkipToken ==
  /\ Reading
  /\ \E r \in {Parse("external_declaration", parser)} : r.st = "err" /\ parser' = advance(Recover(r))
  /\ UNCHANGED root

\* A loop that never ends.
Loop ==
  /\ Reading
  /\ \E r \in {Parse("external_declaration", parser)} : r.st = "hang" /\ parser' = r
  /\ UNCHANGED root

Next == ExternalDeclaration \/ SkipToken \/ Loop

InitWith(toks) == parser = Start(toks) /\ root = [first |-> NULL, last |-> NULL]
=============================================================================
