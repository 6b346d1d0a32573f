---------------------------- MODULE BackendChecks ----------------------------
(***************************************************************************)
(* What the parser and the backend owe to a program together: that the     *)
(* module they make of it is one that LLVM accepts, and that calling its   *)
(* functions does what the program says.                                   *)
(***************************************************************************)
EXTENDS Backend, CSemantics

CONSTANTS
  Programs,   \* programs, as sequences of external declarations, with a function f
  ArgValues,  \* what its parameters are given
  Orders      \* sequences of the tags of structs

VARIABLES
  program,  \* the program that is compiled
  result    \* what calling f has done, by the arguments

all == <<vars, stages, program, result>>

ProgramText(p) == FlattenSeq([i \in DOMAIN p |-> Text(p[i])])
Entry(p) == The({p[i] : i \in {j \in DOMAIN p : p[j].op = "function" /\ p[j].kids[1].name = "f"
                                                 /\ p[j].kids[3] # Absent}})
Inputs(p) == [1 .. Len(Entry(p).kids[2].kids) -> ArgValues]

module == [fns |-> backend.fns, globals |-> backend.globals]

Init ==
  \E p \in Programs :
    /\ program = p /\ result = <<>>
    /\ InitWith(ProgramText(p)) /\ BackendInit

\* The program is run with every input.
RunAll ==
  /\ pass = "done" /\ result = <<>> /\ backend.st = "ok"
  /\ result' = [args \in Inputs(program) |->
                  [got |-> Run(module, "f", args), meant |-> Means(program, "f", args)]]
  /\ UNCHANGED <<vars, stages, program>>

CompileNext ==
  \/ ExternalDeclaration /\ UNCHANGED <<stages, program, result>>
  \/ BackendNext(Orders) /\ UNCHANGED <<vars, program, result>>
  \/ RunAll

SearchStep == Search /\ UNCHANGED <<vars, program, result>>

Spec == Init /\ [][CompileNext]_all

\* One thread compiles a file, and nothing makes it wait.
FairSpec == Spec /\ WF_all(SearchStep)

-----------------------------------------------------------------------------
(* What LLVM's verifier asks of a function.                                *)

SameInts(T) == \A i \in DOMAIN T : IsInt(T[i]) /\ T[i] = T[1]

\* The operands of an instruction have the types that it takes.
Fits(fns, f, ins) ==
  LET T == [i \in DOMAIN ins.args |-> ins.args[i].t]
      Takes(g) == Len(T) >= Len(g.params) /\ SubSeq(T, 1, Len(g.params)) = g.params
                    /\ (g.more \/ Len(T) = Len(g.params))
  IN CASE ins.op = "load" -> IsPtr(T[1]) /\ ins.t # Void
       [] ins.op = "store" -> T[1] # Void /\ IsPtr(T[2])
       [] ins.op = "gep" -> IsPtr(T[1]) /\ IsInt(T[2])
       [] ins.op = "bin" -> SameInts(T)
       [] ins.op = "select" -> T[1] = I1 /\ T[2] = T[3]
       [] ins.op = "cast" -> /\ ins.name \in {"sext", "zext"} => T[1].bits < ins.t.bits
                             /\ ins.name = "trunc" => T[1].bits > ins.t.bits
       [] ins.op = "condbr" -> T[1] = I1
       [] ins.op = "switch" -> SameInts(T) /\ \A i \in 2 .. Len(T) : IsConst(ins.args[i])
       [] ins.op = "ret" -> IF T = <<>> THEN f.ret = Void ELSE T[1] = f.ret
       [] ins.op = "call" -> Takes(fns[ins.name]) /\ ins.t = fns[ins.name].ret
       [] OTHER -> TRUE

\* A block ends in its only terminator, which goes to blocks that are there, but not to the first.
BlockFits(fns, f, block) ==
  /\ \A i \in DOMAIN block : (block[i].op \in Terminators) = (i = Len(block)) /\ Fits(fns, f, block[i])
  /\ block # <<>> => \A b \in ToSet(Last(block).to) : b # 1 /\ f.blocks[b] # <<>>
FunctionFits(fns, f) == \A b \in DOMAIN f.blocks : BlockFits(fns, f, f.blocks[b])

-----------------------------------------------------------------------------
\* Blocks, functions and structs that the backend's state refers to are there.
TypeOK ==
  /\ pass \in {"parse", "reach", "declare", "define", "materialize", "done"}
  /\ backend.st \in {"ok", "panic"}
  /\ backend.callable = DOMAIN backend.fns
  /\ \A x \in DOMAIN backend.vars : backend.vars[x].ptr.k = "global" => backend.vars[x].ptr.name \in DOMAIN backend.globals

\* Between two declarations no scope is open, and no loop or switch is.
NothingOpen ==
  (pass = "define" /\ backend.st = "ok") =>
     backend.scopes = <<>> /\ backend.breaks = <<>> /\ backend.continues = <<>> /\ backend.ret = Void

\* A module is one that LLVM's verifier accepts.
Verifies == (pass = "done" /\ backend.st = "ok") => \A f \in DOMAIN backend.fns : FunctionFits(backend.fns, backend.fns[f])

\* Calling f does what the program says, wherever C says what it does.
RunsAsC ==
  \A args \in DOMAIN result :
    result[args].meant.st = "ok" => result[args].got = result[args].meant

\* The sizes that sizeof gives structs without bit-fields are those of their types in LLVM.
SizesAgree ==
  pass = "declare" =>
    \A n \in DOMAIN ast :
      (KindAt(n) \in RecordKinds /\ ast[n].name \in DOMAIN backend.structs
         /\ \A m \in ToSet(Below(ast, ast[n].child)) : KindAt(m) # "bitfield") =>
        LET t == backend.structs[ast[n].name].type
        IN ast_record_size_align(backend, n) = Extent(SizeOf(t), AlignOf(t))

\* The search for the functions that are reached ends, though they call each other in circles.
SearchEnds == pass = "reach" ~> worklist = {}
=============================================================================
