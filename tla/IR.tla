--------------------------------- MODULE IR ---------------------------------
(***************************************************************************)
(* What backend/llvm.rs asks of LLVM: types and their layout on x86-64,    *)
(* integers of a width, and what a module does when it runs.  Widths are   *)
(* scaled: a byte has ByteBits bits.                                       *)
(***************************************************************************)
EXTENDS Integers, Sequences, SequencesExt, FiniteSets, Bitwise

CONSTANTS
  ByteBits,  \* bits of a byte
  Gap,       \* addresses from one object to the next
  Fuel       \* instructions that a run may take

-----------------------------------------------------------------------------
(* Types.                                                                  *)

IntType(bits)   == [t |-> "int", bits |-> bits]
I1              == IntType(1)
I8              == IntType(ByteBits)
I16             == IntType(2 * ByteBits)
I32             == IntType(4 * ByteBits)
I64             == IntType(8 * ByteBits)
Ptr             == [t |-> "ptr"]
Void            == [t |-> "void"]
ArrayType(e, n) == [t |-> "array", of |-> e, n |-> n]
StructType(fs)  == [t |-> "struct", fields |-> fs]

IsInt(t)    == t.t = "int"
IsPtr(t)    == t.t = "ptr"
IsArray(t)  == t.t = "array"
IsStruct(t) == t.t = "struct"
IsRecord(t) == IsArray(t) \/ IsStruct(t)

Larger(a, b)  == IF a < b THEN b ELSE a
AlignUp(n, a) == ((n + a - 1) \div a) * a

\* The bytes of a value of type t in memory, and the multiple they start at.
RECURSIVE SizeOf(_), AlignOf(_), FieldStart(_, _)
AlignOf(t) ==
  CASE IsInt(t) -> Larger(t.bits \div ByteBits, 1)
    [] IsPtr(t) -> 8
    [] IsArray(t) -> AlignOf(t.of)
    [] IsStruct(t) -> FoldLeft(LAMBDA a, f : Larger(a, AlignOf(f)), 1, t.fields)
FieldStart(fs, i) ==
  IF i = 1 THEN 0 ELSE AlignUp(FieldStart(fs, i - 1) + SizeOf(fs[i - 1]), AlignOf(fs[i]))
SizeOf(t) ==
  CASE IsInt(t) -> Larger(t.bits \div ByteBits, 1)
    [] IsPtr(t) -> 8
    [] IsArray(t) -> t.n * SizeOf(t.of)
    [] IsStruct(t) ->
         LET n == Len(t.fields)
         IN IF n = 0 THEN 0 ELSE AlignUp(FieldStart(t.fields, n) + SizeOf(t.fields[n]), AlignOf(t))

-----------------------------------------------------------------------------
(* Integers of w bits, as the numbers that two's complement makes of them: *)
(* an i1 is 0 or -1.                                                       *)

Pattern(v, w) == v % 2 ^ w
Wrap(v, w) == ((v + 2 ^ (w - 1)) % 2 ^ w) - 2 ^ (w - 1)
Divide(a, b) ==
  LET Size(x) == IF x < 0 THEN -x ELSE x
  IN IF (a < 0) = (b < 0) THEN Size(a) \div Size(b) ELSE -(Size(a) \div Size(b))

\* The result of an instruction on integers of w bits, in a set; none where it is undefined.
Comparisons == {"eq", "ne", "slt", "sgt", "sle", "sge", "ult", "ugt", "ule", "uge"}
Exact(o, w, a, b, ua, ub) ==
  CASE o = "add" -> {a + b}
    [] o = "sub" -> {a - b}
    [] o = "mul" -> {a * b}
    [] o = "sdiv" -> IF b = 0 THEN {} ELSE {Divide(a, b)}
    [] o = "srem" -> IF b = 0 THEN {} ELSE {a - b * Divide(a, b)}
    [] o = "and" -> {ua & ub}
    [] o = "or" -> {ua | ub}
    [] o = "xor" -> {ua ^^ ub}
    [] o = "shl" -> IF ub >= w THEN {} ELSE {a * 2 ^ ub}
    [] o = "lshr" -> IF ub >= w THEN {} ELSE {ua \div 2 ^ ub}
Holding1(o, a, b, ua, ub) ==
  CASE o = "eq" -> a = b
    [] o = "ne" -> a # b
    [] o = "slt" -> a < b
    [] o = "sgt" -> a > b
    [] o = "sle" -> a <= b
    [] o = "sge" -> a >= b
    [] o = "ult" -> ua < ub
    [] o = "ugt" -> ua > ub
    [] o = "ule" -> ua <= ub
    [] o = "uge" -> ua >= ub
Calculate(o, w, a, b) ==
  IF o \in Comparisons THEN {IF Holding1(o, a, b, Pattern(a, w), Pattern(b, w)) THEN -1 ELSE 0}
    ELSE {Wrap(v, w) : v \in Exact(o, w, a, b, Pattern(a, w), Pattern(b, w))}

\* The bits that are set in an integer, and what the intrinsic functions make of it.
BitsOf(a, w) == {k \in 0 .. w - 1 : (Pattern(a, w) \div 2 ^ k) % 2 = 1}
Intrinsic(o, w, a) ==
  LET bits == BitsOf(a, w)
      Reversed(k) == w - ByteBits - ByteBits * (k \div ByteBits) + (k % ByteBits)
  IN CASE o = "ctpop" -> {Wrap(Cardinality(bits), w)}
       [] o = "bswap" -> {Wrap(FoldSet(LAMBDA k, n : n + 2 ^ Reversed(k), 0, bits), w)}
       [] bits = {} -> IF o = "cttz0" THEN {w} ELSE {}
       [] o = "ctlz" -> {CHOOSE z \in 0 .. w - 1 : w - 1 - z \in bits /\ \A k \in bits : k <= w - 1 - z}
       [] OTHER -> {CHOOSE k \in bits : \A j \in bits : k <= j}

\* A conversion between integers (a pointer is one of 64 bits).
WidthOf(t) == IF IsPtr(t) THEN I64.bits ELSE t.bits
Convert(o, v, from, to) ==
  Wrap(IF o \in {"zext", "ptrtoint", "inttoptr"} THEN Pattern(v, WidthOf(from)) ELSE v, WidthOf(to))

-----------------------------------------------------------------------------
(* Operands and instructions.                                              *)

Value(k, t, n, name) == [k |-> k, t |-> t, n |-> n, name |-> name]
NoValue     == Value("none", Void, 0, "")
Const(t, n) == Value("const", t, Wrap(n, WidthOf(t)), "")
Zero(t)     == Value("const", t, 0, "")
Reg(t, n)   == Value("reg", t, n, "")
Global(x)   == Value("global", Ptr, 0, x)

\* Instruction op of type t, whose result is in register reg.
Instr(op, t, reg, args, name, to) ==
  [op |-> op, t |-> t, reg |-> reg, args |-> args, name |-> name, to |-> to]
Terminators == {"br", "condbr", "switch", "ret", "unreachable"}

\* A global: its first bytes, and the names whose addresses are in it, by where they are.
GlobalOf(bytes) == [bytes |-> bytes, refs |-> [x \in {} |-> ""]]
ZeroGlobal(t)   == GlobalOf([k \in 1 .. SizeOf(t) |-> 0])

-----------------------------------------------------------------------------
(* A module [fns, globals] at work.  An object is a sequence of bytes.     *)

Unset == -1
RECURSIVE Number(_, _)
Number(bytes, k) ==
  IF k > Len(bytes) THEN 0 ELSE bytes[k] * 2 ^ (ByteBits * (k - 1)) + Number(bytes, k + 1)

\* A value of type t as bytes; that of an array or a struct is bytes already.
Bytes(v, t) ==
  IF IsRecord(t) THEN v
    ELSE [k \in 1 .. SizeOf(t) |->
            (Pattern(v, WidthOf(t)) \div 2 ^ (ByteBits * (k - 1))) % 2 ^ ByteBits]
ZeroOf(t) == IF IsRecord(t) THEN [k \in 1 .. SizeOf(t) |-> 0] ELSE 0

\* objects: the memory; names: the addresses of globals and functions; st: "ok", or how the run
\* went wrong; v: the last result; left: instructions it may still take.
Stop(m, why)  == [m EXCEPT !.st = why]
Holding(m, v) == [m EXCEPT !.v = v]
Obj(a)        == a \div Gap
Within(m, a, n) == Obj(a) \in DOMAIN m.objects /\ (a % Gap) + n <= Len(m.objects[Obj(a)])
Allocate(m, t) ==
  [m EXCEPT !.objects = Append(@, [k \in 1 .. SizeOf(t) |-> Unset]), !.v = (Len(m.objects) + 1) * Gap]

LoadFrom(m, t, a) ==
  LET bytes == SubSeq(m.objects[Obj(a)], (a % Gap) + 1, (a % Gap) + SizeOf(t))
  IN CASE ~Within(m, a, SizeOf(t)) -> Stop(m, "outside")
       [] IsRecord(t) -> Holding(m, bytes)
       [] Unset \in ToSet(bytes) -> Stop(m, "not set")
       [] OTHER -> Holding(m, Wrap(Number(bytes, 1), WidthOf(t)))

StoreTo(m, t, v, a) ==
  LET bytes == Bytes(v, t)
      Over(o) == [k \in DOMAIN o |-> IF k - (a % Gap) \in DOMAIN bytes THEN bytes[k - (a % Gap)] ELSE o[k]]
  IN IF Within(m, a, SizeOf(t)) THEN [m EXCEPT !.objects[Obj(a)] = Over(@)] ELSE Stop(m, "outside")

ValueOf(m, regs, x) ==
  CASE x.k = "const" -> IF x.n = 0 THEN ZeroOf(x.t) ELSE x.n
    [] x.k = "reg" -> regs[x.n]
    [] x.k = "global" -> m.names[x.name]

RECURSIVE Execute(_, _, _, _, _, _)

\* Function f is called with values of these types; v is what it returns, of type t.
Enter(p, m, f, types, args, t) ==
  IF f \notin DOMAIN p.fns \/ p.fns[f].blocks = <<>> THEN Stop(m, "not defined")
  ELSE IF Len(args) # Len(p.fns[f].params) \/ types # p.fns[f].params \/ p.fns[f].ret # t
    THEN Stop(m, "signature")
  ELSE Execute(p, m, f, [r \in 1 .. p.fns[f].regs |-> IF r \in DOMAIN args THEN args[r] ELSE 0], 1, 1)

\* The effect of an instruction that is not a terminator on memory m, and its result; V are the
\* values of its operands.
Effect(p, m, ins, V) ==
  LET T == [k \in DOMAIN ins.args |-> ins.args[k].t]
      Rest(q) == SubSeq(q, 2, Len(q))
      Result(R) == IF R = {} THEN Stop(m, "arithmetic") ELSE Holding(m, CHOOSE r \in R : TRUE)
      Callee(g) == IF g = {} THEN "" ELSE CHOOSE f \in g : TRUE
  IN CASE ins.op = "alloca" -> Allocate(m, IF V = <<>> THEN ins.t ELSE ArrayType(ins.t, V[1]))
       [] ins.op = "load" -> LoadFrom(m, ins.t, V[1])
       [] ins.op = "store" -> StoreTo(m, T[1], V[1], V[2])
       [] ins.op = "gep" -> Holding(m, Wrap(V[1] + ins.to[1] * V[2], I64.bits))
       [] ins.op = "select" -> Holding(m, IF V[1] # 0 THEN V[2] ELSE V[3])
       [] ins.op = "bin" -> Result(Calculate(ins.name, WidthOf(T[1]), V[1], V[2]))
       [] ins.op = "intrinsic" -> Result(Intrinsic(ins.name, WidthOf(T[1]), V[1]))
       [] ins.op = "trap" -> Stop(m, "trap")
       [] ins.op = "cast" -> Holding(m, Convert(ins.name, V[1], T[1], ins.t))
       [] ins.op = "call" -> Enter(p, m, ins.name, T, V, ins.t)
       [] ins.op = "indirect" ->
            Enter(p, m, Callee({g \in DOMAIN p.fns : m.names[g] = V[1]}), Rest(T), Rest(V), ins.t)

\* The instructions of block b of function f from the i-th on.
Execute(p, m, f, regs, b, i) ==
  LET ins == p.fns[f].blocks[b][i]
      V == [k \in DOMAIN ins.args |-> ValueOf(m, regs, ins.args[k])]
      n == [m EXCEPT !.left = @ - 1]
      On(r) == Execute(p, r, f, IF ins.reg = 0 THEN regs ELSE [regs EXCEPT ![ins.reg] = r.v], b, i + 1)
      Hits == {k \in 2 .. Len(V) : V[k] = V[1]}
      Go(k) == Execute(p, n, f, regs, ins.to[k], 1)
  IN CASE m.st # "ok" -> m
       [] m.left = 0 -> Stop(m, "slow")
       [] i > Len(p.fns[f].blocks[b]) -> Stop(m, "no terminator")
       [] ins.op = "br" -> Go(1)
       [] ins.op = "condbr" -> Go(IF V[1] # 0 THEN 1 ELSE 2)
       [] ins.op = "switch" -> Go(IF Hits = {} THEN 1 ELSE CHOOSE k \in Hits : TRUE)
       [] ins.op = "ret" -> Holding(n, IF V = <<>> THEN 0 ELSE V[1])
       [] ins.op = "unreachable" -> Stop(n, "unreachable")
       [] OTHER -> On(Effect(p, n, ins, V))

\* Memory as a module starts with it: its globals, some of whose bytes are the addresses of others,
\* and, as objects without bytes, its functions.
Loaded(p) ==
  LET all == SetToSeq(DOMAIN p.globals) \o SetToSeq(DOMAIN p.fns)
      names == [x \in ToSet(all) |-> (CHOOSE k \in DOMAIN all : all[k] = x) * Gap]
      Within0(k, refs) == {at \in DOMAIN refs : k - at \in 1 .. 8}
      Byte(k, bytes, refs) ==
        IF Within0(k, refs) = {} THEN bytes[k]
          ELSE LET at == CHOOSE x \in Within0(k, refs) : TRUE IN Bytes(names[refs[at]], Ptr)[k - at]
      Content(g) == [k \in DOMAIN g.bytes |-> Byte(k, g.bytes, g.refs)]
  IN [objects |-> [k \in DOMAIN all |-> IF all[k] \in DOMAIN p.globals THEN Content(p.globals[all[k]]) ELSE <<>>],
      names |-> names, st |-> "ok", v |-> 0, left |-> Fuel]

\* What calling f does: how it ended, and the value it returned.
Outcome(m) == [st |-> m.st, v |-> IF m.st = "ok" THEN m.v ELSE 0]
Run(p, f, args) == Outcome(Enter(p, Loaded(p), f, p.fns[f].params, args, p.fns[f].ret))
=============================================================================
