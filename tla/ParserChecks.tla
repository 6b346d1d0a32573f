---------------------------- MODULE ParserChecks ----------------------------
(***************************************************************************)
(* What the parser owes to those who read its tree: that the program can   *)
(* be read back from the nodes, and that the nodes form trees.             *)
(***************************************************************************)
EXTENDS Parser, CSyntax

CONSTANTS
  Programs,  \* programs, as sequences of external declarations
  Inputs     \* sequences of tokens that need not be programs

VARIABLE program  \* the trees whose text is parsed; none, where the input is only tokens

ProgramText(p) == FlattenSeq([i \in DOMAIN p |-> Text(p[i])])

Init ==
  \/ \E p \in Programs : program = p /\ InitWith(ProgramText(p))
  \/ \E i \in Inputs : program = <<>> /\ InitWith(i)

Spec == Init /\ [][Next /\ UNCHANGED program]_<<vars, program>>

-----------------------------------------------------------------------------
(* The tree, read by the layouts that the parser's comments and the        *)
(* backend's lowering functions agree on.                                  *)

nodes == parser.nodes

RECURSIVE Read(_)

ReadAll(c) == [i \in DOMAIN c |-> Read(c[i])]

\* A chain that starts with specifiers: the word of the type, and what is behind the type.
Words == TypeKinds \ {"pointer", "array", "func"}
TypeOf(first) ==
  LET c == SelectSeq(Chain(nodes, first), LAMBDA n : nodes[n].kind \notin StorageWords)
  IN nodes[c[1]].kind
Behind(first) ==
  SelectSeq(Chain(nodes, first), LAMBDA n : /\ nodes[n].kind \notin Words
                                            /\ nodes[n].kind # "pointer" \/ nodes[n].child # NULL)

ReadDeclarator(n) ==
  LET node == nodes[n]
      inner == IF Exists(parser, node.child) THEN Read(node.child) ELSE Absent
  IN CASE node.kind = "pointer" -> IF node.data = 2 THEN Pointer(Pointer(inner)) ELSE Pointer(inner)
       [] node.kind = "array" -> Array(inner, Num(ToString(node.data)))
       [] node.kind = "bitfield" -> Tree("bits", "", <<inner, Num(ToString(node.data))>>)
       [] node.kind = "param" ->
            Tree("param", TypeOf(node.child), ReadAll(Behind(node.child)))

\* An init-declarator: the value follows the declarator, the elements of a list each other.
ReadInit(n) ==
  LET c == Chain(nodes, nodes[n].child)
      d == Read(c[1])
  IN IF d.op = "array" THEN InitOf(d, InitList(ReadAll(Tail(c))))
       ELSE InitOf(d, Read(c[2]))

ReadDeclarators(first) ==
  LET c == Behind(first)
  IN [i \in DOMAIN c |-> IF nodes[c[i]].kind = "assign" THEN ReadInit(c[i]) ELSE Read(c[i])]

ReadDeclaration(n) ==
  LET c == nodes[n].child
      body == Behind(c)
      func == Chain(nodes, nodes[body[1]].child)
  IN CASE nodes[n].kind = "decl" /\ nodes[c].kind \in {"struct", "enum"} /\ nodes[c].next = NULL ->
            Tree(nodes[c].kind, nodes[c].name, ReadAll(Chain(nodes, nodes[c].child)))
       [] nodes[n].kind = "enum_const" ->
            Enumerator(nodes[c].name, <<Num(ToString(nodes[n].data))>>)
       [] nodes[n].kind \in {"var_decl", "struct_decl"} -> Decl(TypeOf(c), ReadDeclarators(c))
       [] nodes[n].kind = "func_def" ->
            Tree("function", TypeOf(c),
                 <<Read(func[1]), Tree("params", "", ReadAll(Tail(func))), Read(body[2])>>)
       [] nodes[n].kind = "decl" /\ nodes[c].kind = "var_decl" -> Read(c)
       [] nodes[n].kind = "decl" ->
            Tree(IF nodes[c].kind = "typedef" THEN "typedef" ELSE "decl", TypeOf(c), ReadAll(body))

ReadStatement(n) ==
  LET node == nodes[n]
      cond == nodes[node.child]
      third == nodes[nodes[cond.next].next]
  IN CASE node.kind = "compound" -> Block(ReadAll(Chain(nodes, node.child)))
       [] node.kind = "expr_stmt" -> IF node.child = NULL THEN Empty ELSE Expr(Read(node.child))
       [] node.kind = "return" -> Return(Read(node.child))
       [] node.kind = "if" ->
            LET wrap == nodes[cond.next]
            IN Tree("if", "", ReadAll(SelectSeq(<<cond.child, wrap.child, wrap.next>>,
                                                LAMBDA m : m # NULL)))
       [] node.kind = "while" /\ node.data = 1 -> Do(Read(node.child), Read(cond.next))
       [] node.kind \in {"while", "switch"} ->
            Tree(node.kind, "", <<Read(cond.child), Read(cond.next)>>)
       [] node.kind = "for" ->
            LET init == Read(cond.child)
            IN For(IF init = Empty THEN Absent ELSE init, Read(nodes[cond.next].child),
                   Read(third.child), Read(third.next))
       [] node.kind = "case" -> Case(Read(node.child))
       [] node.kind = "case_range" -> CaseRange(Read(node.child), Read(node.data))
       [] node.kind = "label" -> Label(node.name, Read(node.child))
       [] node.kind = "goto" -> Goto(node.name)
       [] node.kind \in {"default", "break", "continue", "empty"} -> Tree(node.kind, "", <<>>)

ReadExpression(n) ==
  LET node == nodes[n]
      wrap == nodes[node.child]
  IN CASE node.kind = "int_const" -> Num(ToString(node.data))
       [] node.kind = "binop" -> Bin(node.name, Read(wrap.child), Read(wrap.next))
       [] node.kind = "unop" -> Pre(node.name, Read(node.child))
       [] node.kind = "ternary" ->
            Cond(Read(node.child), Read(nodes[node.next].child), Read(nodes[node.next].next))
       [] node.kind = "assign" -> Assign(node.name, Read(node.child), Read(node.next))
       [] node.kind = "comma" -> Comma(Read(node.child), Read(node.next))
       [] node.kind = "call" -> Call(Read(node.child), ReadAll(Chain(nodes, wrap.next)))
       [] node.kind = "arg" -> Read(node.child)
       [] node.kind = "index" -> Index(Read(node.child), Read(node.next))
       [] node.kind = "member" ->
            Member(IF node.data = 1 THEN "->" ELSE ".", Read(node.child), node.name)
       [] node.kind = "cast" -> Cast(TypeOf(node.child), Read(Behind(node.child)[1]))
       [] node.kind = "sizeof" ->
            IF node.data = 0 THEN SizeofType(TypeOf(node.child)) ELSE SizeofExpr(Read(node.child))

\* Identifiers are names in declarators and operands elsewhere: Plain makes them one.
Read(n) ==
  CASE ~Exists(parser, n) -> Absent
    [] nodes[n].kind = "ident" -> Id(nodes[n].name)
    [] nodes[n].kind \in {"pointer", "array", "param", "bitfield"} -> ReadDeclarator(n)
    [] nodes[n].kind \in {"var_decl", "decl", "func_def", "struct_decl", "enum_const"} -> ReadDeclaration(n)
    [] nodes[n].kind \in {"int_const", "binop", "unop", "ternary", "assign", "comma", "call", "arg",
                          "index", "member", "cast", "sizeof"} -> ReadExpression(n)
    [] OTHER -> ReadStatement(n)

\* The values of enumerators: of the expression, or one more than that of the last.
numbers == [t \in DOMAIN Literals |-> Literals[t].value]
RECURSIVE EnumValues(_, _, _)
EnumValues(cs, next, names) ==
  IF cs = <<>> THEN names ELSE
  LET c == Head(cs)
      V == IF c.kids = <<>> THEN next ELSE Constant(c.kids[1], numbers, names)
  IN EnumValues(Tail(cs), {v + 1 : v \in V}, [x \in DOMAIN names \cup {c.name} |->
                                                IF x = c.name THEN V ELSE names[x]])
ValuesOf(p) ==
  FoldLeft(LAMBDA names, t : IF t.op = "enum" THEN EnumValues(t.kids, {0}, names) ELSE names,
           [x \in {} |-> {}], p)

\* A program with the values of its constant expressions for the expressions.
RECURSIVE Evaluated(_, _)
Evaluated(t, names) ==
  LET kids == [i \in DOMAIN t.kids |-> Evaluated(t.kids[i], names)]
      Value(e) == Num(ToString(CHOOSE v \in Constant(e, numbers, names) : TRUE))
  IN CASE t.op \in {"array", "bits"} -> Tree(t.op, t.name, <<kids[1], Value(t.kids[2])>>)
       [] t.op = "enumerator" -> Enumerator(t.name, <<Value(Id(t.name))>>)
       [] OTHER -> Tree(t.op, t.name, kids)

\* A program with its typedef names replaced by what they are declared as, and the condition
\* that a for does not have by one that holds.
RECURSIVE Plain(_, _)
Plain(t, types) ==
  Tree(IF t.op = "name" THEN "id" ELSE t.op,
       IF t.op \in {"decl", "param", "cast", "sizeof", "typedef", "function"}
          /\ t.name \in DOMAIN types THEN types[t.name] ELSE t.name,
       [i \in DOMAIN t.kids |->
          IF t.op = "for" /\ i = 2 /\ t.kids[i] = Absent THEN Num("1") ELSE Plain(t.kids[i], types)])

\* The types of typedefs of names and of pointers.
TypesOf(p) ==
  LET defs == SelectSeq(p, LAMBDA t : t.op = "typedef")
      NameOf(d) == IF d.op = "pointer" THEN d.kids[1].name ELSE d.name
  IN [x \in {NameOf(defs[i].kids[1]) : i \in DOMAIN defs} |->
        LET t == CHOOSE t \in ToSet(defs) : NameOf(t.kids[1]) = x
        IN IF t.kids[1].op = "pointer" THEN "pointer" ELSE t.name]

\* Expressions that the parser reads as C has it.  It takes operators of the same strength from
\* the right, ends an expression at a closing parenthesis whatever follows it, and does not look
\* for a cast behind + or -.
RECURSIVE Tame(_)
Tame(t) ==
  /\ t.op = "bin" /\ t.kids[1].op = "bin" => Level(t.kids[1]) # Level(t)
  /\ t.op \in {"call", "index", "member"} => Level(t.kids[1]) >= PostfixLevel
  /\ t.op = "pre" /\ t.name \in {"+", "-", "++", "--"} => t.kids[1].op # "cast"
  /\ \A i \in DOMAIN t.kids : Tame(t.kids[i])

-----------------------------------------------------------------------------
\* The arena had room for every node and every name.
HasRoom == Len(nodes) + 1 < NodeCapacity /\ parser.strings < NodeCapacity \div 4

\* The parser stays within its tokens and the arena within its capacity, and links are to nodes.
TypeOK ==
  /\ parser.at \in 1 .. Len(parser.toks) + 2
  /\ parser.st \in {"ok", "hang"}
  /\ parser.strings \in 0 .. NodeCapacity \div 4
  /\ Len(nodes) < NodeCapacity
  /\ \A i \in DOMAIN nodes : nodes[i].child \in 0 .. Len(nodes) /\ nodes[i].next \in 0 .. Len(nodes)

\* A program of the subset is read back, once it is parsed, from the nodes by the layouts that
\* the backend relies on: no operand, statement, declarator, argument or member is lost to a
\* link that was written over, operators bind as the grammar of C has it, and enumerators,
\* array bounds and widths have the values of their expressions.
ReadsBack ==
  (program # <<>> /\ ~Reading /\ HasRoom) =>
     ReadAll(Chain(nodes, root.first))
       = [i \in DOMAIN program |->
            Plain(Evaluated(program[i], ValuesOf(program)), TypesOf(program))]

\* Whatever the input, the nodes under the root form trees: no node is linked from two places
\* and no chain runs into itself, so that the functions that walk it end.
NodesFormTrees == IsInjective(Below(nodes, root.first))

\* Whatever the input, every step of the parser passes a token, so that it comes to the end of
\* them, also where it cannot read what it finds.  (The operands of asm are another matter.)
Advances ==
  [][ToSet(parser.toks) \cap AsmWords = {} => parser'.at > parser.at /\ parser'.st = "ok"]_<<vars, program>>
=============================================================================
