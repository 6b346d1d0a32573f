# OpticC in TLA+

This directory holds TLA+ models of OpticC, a C-to-LLVM compiler written in Rust
(`src/src`), with the TLC configurations that check them and proofs that TLAPS
checks. `PROJECT.json` maps every definition to the lines it models.

    tlc -workers 2 -config build_shared.cfg MCOpticBuild.tla
    tlapm BuildPromiseProofs.tla

## 1. The system

| component | source | state it keeps | operations | works with |
|---|---|---|---|---|
| build pipeline | `build/mod.rs` | temp dir of a build, intermediate files, the object cache in `temp_dir()/opticc-cache`, database and arena file of each compilation | `Builder::build`, `compile_all`, `compile_source_to_object_with_stats_impl`, `restore_cached_object`, `store_cached_object`, `clear_compile_cache` | rayon pool; runs everything below for each source; `llc`, `clang`, `ar` as processes |
| arena | `arena.rs` | memory-mapped slots, node and string counters | `alloc`, `get`, `get_mut`, `store_string`, `get_string`, `store_payload`, `get_payload` | parser writes, backend and analysis read |
| preprocessor | `frontend/preprocessor.rs` | macro table, conditional stack, include stack | `process`, `resolve_includes`, `process_define`, `expand_macro_tokens_with_stack`, `expand_and_evaluate` | database; its tokens go to the parser |
| parser | `frontend/parser.rs` | token position, typedef names, error list, arena | `parse_translation_unit` and one function per construct | preprocessor, arena |
| lexer, legacy macro expander | `frontend/lexer.rs`, `macro_expander.rs` | scan position; macro map | `next_token`, `expand_macros` | tests, benchmark |
| types | `types/*.rs` | type table | `add_type`, `size_of`, `resolve_*` | held by the backend, which does not read it |
| LLVM backend | `backend/llvm.rs` | module, maps from names to types and places, scopes, loops around, labels, current block | `compile`, `lower_*` | arena, inkwell |
| alias analysis | `analysis/alias.rs` | provenance and taint of nodes | `trace_provenance`, `mark_freed`, `detect_uaf` | arena, VFS |
| VFS | `vfs/mod.rs` | node table behind an `RwLock` | `lookup`, `read`, `add_file` | analysis; compiled out in `lib.rs` |
| database | `db.rs` | two redb tables | `record_file_hash`, `store_macro`, ... | preprocessor |
| drivers | `main.rs`, `benchmark/`, `integration/` | - | command line, timings, downloads | build pipeline |

What is hard in it: the pool's workers and several `opticc` processes share files
without locks; the cache decides by name what an object was made from; errors and
panics leave at many points; includes, conditionals and macros nest and recurse;
fixed-size pools (arena nodes, strings) run full; error recovery in the parser must
make progress. What makes each component correct:

* build: an output is made of the objects of its own sources, hit or miss; a failure
  is reported for the first bad source and changes no output; the cache never names
  an object wrongly; nothing is left behind; every build ends.
* arena: what was stored under an offset is read back until it is overwritten, nodes
  and strings never share a slot, a full pool says so and stays usable.
* preprocessor: exactly the active groups are processed, no text is
  included twice and no file within itself, macro expansion ends.
* parser: child and sibling links form a tree in source order; each recovery step
  consumes a token.
* `#if`: an expression has the value that C gives it, or is refused.
* backend: the module is valid and does what the program says; the functions that are
  needed are compiled, each block leaves the names as they were, no loop stays open.
* alias analysis: a freed allocation is reported on each later use, once marked.
* VFS: no set of readers and writers waits for itself.

## 2. Modules

### Build pipeline

`BuildPromise` is the abstract specification: a build is idle, runs, and in one step
either replaces its output by the image of its sources or fails and leaves it alone.

`OpticBuild` is the pipeline. A task `<<b, i>>` is the compilation of source `i` of
build `b` on a pool worker; its `pc` follows the code of
`compile_source_to_object_with_stats_impl`:

    queued -BuildKey-> keyed -Lookup-> hit -RestoreOpen-> restoring -RestoreCopy-> ok
                              \-> missed -ReadSource-> reading -FrontEnd-> compiled
        -CreateLl-> creating -WriteLl-> ll -LlcObj---------------------> emitting
                                         \-LlcAsm-> asm -RewriteAsm-> rewritten -Assemble-^
        emitting -Emitted-> mkdir -StoreMkdir-> store -StoreOpen-> storing -StoreCopy-> ok

with edges to `err`, `panic` (front end) and `killed`. A step is one access to state
that others share: a file read, the truncation of a file, the write of its content, a
test for existence. Texts, headers and flags are opaque values; a file holds the
record of what it was made from, or `Absent`, or `Damaged` (truncated, not yet
written). `fs::copy` and the tools open their target in one step and fill it in
another; the rewritten assembly file, which only a task of the same stem could see
half written, and the final output are written in one step. A cache entry that is
removed while a task has it open lives on as `pinned[t]`. The builder's `bpc` goes
`idle`, `compiling`, `linking`, `linked`, `done`, or ends in `failed`, `panicked`,
`killed`. The environment edits files, kills a process and runs
`clear_compile_cache`, whose `remove_dir_all` is split into list, unlink, rmdir.

`HeaderOf[s]` stands for what the `#include`s of source `s` resolve to: one header is
enough to tell a key that covers headers from one that does not.
`Broken`, `Panicking` and `Rejected` say which texts fail where: in the front end, by a panic
there, or in `llc` or the assembler, for the result of `verify` is ignored. A file that is
truncated while `llc` reads it may parse (as a prefix) or be refused: both are allowed.

`MCOpticBuild` holds the instances; `OpticBuildProofs` the theorems that need no schedule,
`BuildPromiseProofs` those about what a build returns, links and promises.

### Arena

`Arena` is the mapped file as slots. `Slots` are those of the file as `Arena::new` sizes it, and
`mapped` the bytes of it in memory, whole pages: the last slot of the string pool lies behind
the file, and what is mapped there depends on where the file's last page ends. A store with
bytes that are not mapped is the end of what the model says (`intact`): the process faults, or
has written over memory that is not the arena's. A slot holds a part of the value written over it
last: a node fills a slot, a blob (string or payload) the slots its bytes reach behind
the four bytes of its length (`Parts`, from the pointer writes), which need not be the
slots that are set aside for it (`SlotsNeeded`, from the rounding in `store_string`).
`alloc`, `set` (the owner's write through `get_mut`), `store` (`store_string` and
`store_payload`) and `refuse` are the actions; `get`, `get_string` and `get_payload`
are operators on the state. `held` is no state of the code: it is what each owner of an
offset stored there last, which the properties compare with what reading finds.
`MCArena` gives the lengths, `ArenaProofs` the theorems.

### Preprocessor

`Preprocessor` is the work of `resolve_includes` on the directives. Its calls, one for
each file that is open, are the sequence `frames`; the innermost reads a line in each
step. `in_if_stack`, `branch_taken`, `pending`, `result` of a frame are the locals of the
call; `include_stack`, `macros` and `hashes` (the database) belong to the preprocessor. A
line is a directive with its operand; a macro's replacement is 0 or 1, and a condition
asks for one macro, so that what is left is the control: which lines are read, when the
pending text is expanded, what an error leaves behind. `Found` is what the search path
finds for each name in each file. A frame's `saw` and `expected` are no state of the code:
they record the macros before each line and the text the reading so far should give.
`setting` is `allow_missing_includes`, which only callers of the library set, and whether
the database works, since its errors are dropped (`unwrap_or`).

`Reached`, `Chosen`, `InGroup` and `EarlierGroup` are the reference: what the nesting of
`#if` ... `#endif` says of a line, from the text alone and without a stack.
`MCPreprocessor` holds the files, `PreprocessorProofs` the theorems about calls, stacks and
the database, `PreprocessorGroupsProofs` those that compare with the reference.

### Macro expansion

`MacroExpansion` is the rest of the preprocessor: `process_define` with its eager
expansion (`expand_tokens_in_macro`), and `expand_macro_tokens_with_stack` with the
functions it calls. The recursion is the sequence `calls`, with one step for each token:
a call has its tokens, its place `i`, its `result`, the macro it was made for, and `args`
while it is a call of `expand_function_macro_tokens`. `expanding` is the hide stack of the
code. A token is the sequence of its pieces, so that `##` makes `<<"A", "1">>` of `<<"A">>`
and `<<"1">>`; white space is a token, as in the code. Text between two directives is one
line, as `pending` is.

`CMacros` is the reference, the expansion of the C standard (6.10.3) by hide sets, written
independently of the code, and `Tame`: what a file must be for the code to agree with it.
Its conjuncts are also the list of where the code does not: macros that lead to each other
or a redefinition of what an earlier body mentions (bodies are expanded at `#define`),
`#` and `##` in macros that other bodies call (arguments are not expanded before they are
substituted), white space next to `##`, empty operands, an empty last variable argument,
and a function-like name at the end of a body whose arguments stand behind the call.
`MCMacroExpansion` holds the files, `MacroExpansionProofs` the theorems. `CMacros` declares
`RECURSIVE` operators and stays apart from what is proved.

### The expression of an `#if`

    IfReading <- IfExpression, IfGrammar <- IfChecks <- MCIfExpression
    IfReading <- IfGrammar <- IfGrammarProofs

`IfReading` is the parse functions from `parse_if_conditional` to `parse_if_primary`, which read and
evaluate in one go, on `Levels` (the table that the chain of `parse_if_or` ...
`parse_if_multiplicative` is). They call each other through one recursive function, `Reading`, of
the parts of a line: a level, a place, and the value of what the level's loop has read in front of
the place. An outcome is a value, an error, a panic, or `endless`, which stands for a recursion that
ends only with the stack. The arithmetic and the operands are parameters. `IfExpression` gives them:
the arithmetic of `i64`, `defined`, feature probes, numbers, and macros, which are evaluated on
their own where they stand; `ExpressionLine` is a line with its operands.

`IfGrammar` is what C makes of a line whose operands are given: a derivation of it by the grammar of
C, node by node, with what each node means (the set of its value, empty where C gives it none);
`IsDerivation` says what a derivation is, level by level as the standard has its sections, and knows
nothing of parse functions. Both `||` and `&&` mean there what C says, with the right side left out;
the other operators have the arithmetic that the reader has. `IfGrammar` has no recursion, so that
it can be proved about; `IfGrammarProofs` has the proofs.

`IfChecks` puts the two together, and adds what C makes of an expression with its macros: they are
replaced in the tree, and the tree has a value (`CSyntax`), with the arithmetic of C. Its lines are
those that `IfExpression` makes of the text of a tree, and `Derived` gives them the derivation that
belongs to the text. So what the theorems assume of lines and of arithmetic (`LinesAssumption`,
`ArithmeticAssumption`) is evaluated on what the code computes. `Tame` excludes what section 8 lists
as what `#if` does otherwise. `MCIfExpression` holds the expressions, macros and texts.

### Parser

`Parser` is `parser.rs` with the parsing parts of `gnu_extensions.rs` and
`inline_asm.rs`: one operator for each parse function, from a parser state (`pos`, the
arena's `nodes`, the `typedefs` and `enumerators`, the string pool's fill, and `ok`, the
`Result`) to the next. A function that returns a node leaves it in `node`. `Next` takes
one external declaration from the tokens, or skips a token where none can be parsed,
as `parse_translation_unit` does. Tokens are strings; `Literals` says what the
preprocessor made of literals. Nodes are records of kind, name, data, child, next; the
node's place in the arena is its offset, `NULL` is 0. `Hang` is a loop of the code that
does not move on: the state `hang` has no step but itself.

`CSyntax` is the grammar of C from the other side: trees, and the text of a tree with
only the parentheses it needs. `ParserChecks` reads a tree back from the nodes
(`Read...`), by the layout that the backend relies on. `Tame` there names what the parser
does not read as C: operators of equal strength in a row, a postfix operator behind
parentheses, calls of indexed and members of called expressions, negative enumerators.
`MCParser` holds the programs.

### LLVM backend

    IR <- BackendTypes <- Lowering <- Statements <- Backend <- BackendChecks <- MCBackend
          (and Parser)    (and Scopes)              (and Reachability)  (and CSemantics)

* `IR` is what the backend asks of LLVM: types and their layout, integers of a width,
  instructions, and `Run`, which executes a module. It is external: no line of the repository
  is behind it.
* `BackendTypes` is what specifiers and declarators become: `register_struct_types_in_node`,
  `build_struct_llvm_type`, `specifier_to_llvm_type`, `declarator_llvm_type`, `sizeof`.
* `Lowering` is expressions (`lower_expr` and what it calls) and `Statements` is
  `lower_stmt`, with local variables and their initializers. Both pass a record, the
  backend's state: the module so far (`fns`, `globals`), the block that is built (`fn`, `at`),
  the maps from names (`vars`, `tags`, `fields`, `ptrs`, ...), the open `scopes`, the `breaks`
  and `continues` of the loops around, and `st`, which is "ok", "err" after an `Err` and "panic".
  A function that lowers a node takes such a record and returns the next.
* `Scopes` is `push_scope`, `insert_scoped_variable` and `pop_scope`; `BackendProofs` adds the
  states they go through when they are called in any order.
* `Reachability` is `compute_reachable_functions` as a search of its own, with the theorems in
  `BackendProofs`.
* `Backend` takes the file through the passes of `compile` and `lower_translation_unit`:

      parse -CollectDefinitions-> reach -Search*-Collect-> declare -Declare*-NextPass->
      define -Define*-NextPass-> materialize -Materialize-> done

  One step is one external declaration, or one look at a function on the worklist.
  `BackendInit` is a new backend; what `lower_translation_unit` drops (`Dropped`) is dropped.
* `CSemantics` is the reference, an interpreter of the trees of `CSyntax` that knows no
  instructions. `BackendChecks` composes parser and backend on a program, runs what they made
  with all inputs and compares. `MCBackend` holds the programs.

`BackendProofs` takes `Scopes` and `Reachability` alone and stays apart from `Lowering`, which is
recursive. `insert_scoped_variable` is the only one that changes `variables` within a function;
parameters and the variables of the file are put there before any scope is open.

## 3. What the runs check

| run | question | result |
|---|---|---|
| `build_sequential` | Do ten builds with disjoint or successive use of the cache deliver what `BuildPromise` says (`KeepsPromise`), each from its own objects (`OwnObjects`), failing for the first bad source whichever worker failed first (`OutcomeByInputs`), with none of their files left when they return an output (`NothingLeft`), and do they all end under fairness (`BuildsEnd`)? | holds |
| `build_shared` | Two processes, equal sources and flags, one header edit, one kill, one clear: is every whole entry named by what it was made from (`CacheSound`), and is every half-written one being stored or of the key of a task that was killed (`DamagedHasWriter`)? Types (`TypeOK`) | holds |
| `build_stale_header` | Is a hit made from the header as it is (`HitsAreCurrent`)? `jules_prompts/14_build_system.md:34` says the key covers include files | violated: `build_cache_key` does not read them |
| `build_torn_hit` | Two sources of one text and two workers: is there one whole object for each source (`ObjectOfEachSource`)? `14_build_system.md:62` says `--jobs N` works correctly | violated: the second takes the entry that the first is still copying |
| `arena` | Both pools filled in every order, nodes overwritten in place, in a file that ends with a page, with a part of a slot mapped behind it, or with a slot: is what was stored within the mapping read back (`ReadBack`), does no offset serve two kinds (`KindsApart`), and does no store leave the mapping but one that takes the last slot of the string pool where less than a slot is mapped behind the file (`OnlyLastSlotOut`)? | holds |
| `arena_last_slot` | The arena of a build of a small source, 2048 nodes and pages of 4096 bytes: does every string lie in the file (`PoolsInFile`)? `jules_prompts/02_memory_infra.md:19` puts the two regions side by side in the arena's slots | violated: `string_start` is `node_capacity + 1`, the file has `node_capacity + string_capacity` slots counted from 0, and the string that takes the last slot is written behind the file and behind the mapping |
| `preproc` | One file of five lines out of ten kinds, and a file and two headers that include each other, with and without a working database, strict and lenient: are exactly the lines read whose groups are (`ActiveGroups`), is text expanded under the macros of its own line (`OutputAsExpected`), are errors those of bad lines, and is no bad line passed but an `#include` of a missing file that `allow_missing_includes` forgives or that names a file being read (`ErrorsExactly`), is no text included twice (`OncePerText`) and no file within itself (`NeverReentered`)? | holds |
| `macros` | 7215 files of four or five macros and calls of them: does the hide stack have the names of the calls at work, no two of which are of one macro (`NotReentered`), does each file end (`ExpansionEnds`), and are the tame ones expanded as in C (`TameAsC`)? | holds |
| `parser` | Every program of up to two levels of expressions, statements or declarators, and every three tokens, with GNU extensions: is a tame program read back from the nodes (`ReadsBack`), do the nodes form trees (`NodesFormTrees`), does every step pass a token (`Advances`)? | holds |
| `parser_left` | `return a - 1 - 1`: is it read as C reads it (`ReadsBack`)? | violated: as `a - (1 - 1)` |
| `backend` | 224 programs are parsed, compiled and executed with every input: is each module one that LLVM accepts (`Verifies`), does a call return what C says (`RunsAsC`), does `sizeof` agree with the layout (`SizesAgree`), are no scopes and loops left open (`NothingOpen`), and do exactly the functions that a root leads to get a body (`ExactlyReachable`), found by a search that looks at each once (`NeverAgain`) and ends (`SearchEnds`)? | holds |
| `if_expression` | 25866 pairs of macros and an expression, and 5602 texts of words: is a tame expression of which every part has a value evaluated as in C to the end of its line (`EvaluatesAsC`), and is no tame one given another value than that of C, refused only for a division by zero that C does not make (`RefusesOrAgrees`)? Given the operands, is each expression read as it is derived (`ReadsAsDerived`) and none given a value that its derivation does not have, or before its end (`NoOtherValue`)? Does what is read of any text end in the file, and on its line unless a macro call there goes on behind it (`TypeOK`)? | holds |

Seen on the way and not worth a run each: `x/u.c` and `y/u.c` in one build both write
`u.o` (`ObjectOfEachSource` fails there too); `##` joins the white space around it, so `x ## y` does not paste.

The programs of `backend` are families, each named for what it is about: `ExpressionPrograms`
(two operands and an operator), `CharPrograms` (what is cut and has its sign extended),
`LoopPrograms` and `NestedPrograms` (every loop, with `break`, `continue` and loops inside),
`SwitchPrograms` (fall through, `default` in each place, ranges), `GotoPrograms`,
`ShadowPrograms`, `FunctionPrograms` (calls, recursion, pointers to functions),
`ChainPrograms` (static functions that call each other), `GlobalPrograms`, `StaticPrograms`,
`ArrayPrograms`, `StructPrograms`, `ListPrograms` (initializers), `LiteralPrograms`,
`BuiltinPrograms`, `SizePrograms` and `MissingPrograms` (a function that nobody defines).

## 4. Bounds

* `MaxEdits`, `MaxCrashes`, `MaxClears` (0 or 1) bound the environment. One of each is
  enough for every pairing the properties are about: an edit between lookup and read,
  a kill during a store, a clear between the test and the copy.
* Two builds at a time with at most four sources and two workers: every shared file
  has at most two concurrent writers and a third party (the cleaner).
* `build_sequential` orders ten builds by `Turn`, so that later builds meet the cache
  and the outputs that earlier ones left.
* `node_capacity = 12` gives eleven nodes and three string slots: blobs of 1, 52, 53 and
  60 bytes fill a part of a slot, all of it, one byte more and two slots, so the pool
  ends exactly full, and is refused with one slot left. Contents are two nodes: enough
  to see one overwritten by another. `PageSizes` are 8 bytes (the file of 15 slots ends with a
  page), 16 and 128, which leave no byte, a part of a slot and a whole slot mapped
  behind it; the properties look at nothing else of a page's size. `arena_last_slot` has the
  numbers of a build: 2048 nodes, 512 slots of strings, pages of 4096 bytes, and two blobs, one of
  which takes all slots but one.
* `preproc` has files of five lines that begin with a definition or a conditional
  (text at the end stands for a shorter one): a conditional with two alternatives, or
  one within another, fits. Its other files have four lines and headers of two, enough
  for inclusion through each other, for a header named in two ways, and for each error
  in a header before and after its own includes. The name by which the main file was given is
  one of the operands: it leads to no file, but it is on `include_stack`, so that a strict run passes it
  where any other missing file is an error.
* `macros` has four names that are defined, A and B object-like, F and G function-like (and
  a fifth, `A1`, that only pasting spells), in two orders, with three to five bodies each
  that name the others, and calls with nested, parenthesised, empty, missing and unclosed
  arguments; the files with `A1` undefine A between two equal texts. Only files are taken
  in which no function-like macro leads to itself (`Ends`): the others recurse for ever,
  which is why `ExpansionEnds` asks for it. 1665 of the files are tame.
* `parser`: `NodeCapacity = 48` holds every program but the one written to overflow it;
  `U32Max` scales the width of offsets, `ItemCap` the caps on items of a list, which no
  program reaches. Two levels put each operator next to each other one on either side.
* `backend`: `ByteBits = 3` makes an `int` of 12 and a `char` of 3 bits, so that every value of
  a char occurs and overflow is near; `ArgValues` are -2, 0, 1 and 3. `Gap` keeps objects apart
  in memory (an address further off than any object is long), `Fuel = 200` instructions are more
  than any program of the run takes, and a run that takes more is an outcome of its own.
  `NodeCapacity = 400` holds every program. `MAX_CASE_RANGE_EXPANSION = 4` stands for the 256 of
  the code. `Orders` has both orders of the two tags, for what goes through a hash map.
* `if_expression`: `IntBits = 8` for the 64 of the code, with the edges of that width among the
  numbers; two operators in every pair and order, and unary ones, with at most one of them in a macro
  where there are macros; M and F (which takes an argument) have bodies with and without parentheses,
  and V is a number or what M leads to. 14 thousand of the inputs are tame, and 25 thousand are lines
  with a derivation and no rows. The line behind each of them begins with the parenthesis
  that would close a call. The other inputs, for `TypeOK`, are every text of up to four words of seven
  (a number, parentheses, `-`, `?`, `:`, the end of a line), and `F (` with up to four of the words
  that a call may have: calls that are closed on their line, on a later one, and not at all. `StaysInLine`, `ReadsWhatIsDerived` and
  `ReadsNoOtherValue` have none of these bounds.

## 5. Fairness

`FairSpec` gives weak fairness to the process of every build that has been started (`Process`: its
builder and the workers of its pool): the operating system runs a process that has something to do,
rayon leaves no source of a pool unstarted while workers have nothing else (a panic excepted), and preprocessing, parsing, code generation and the external tools are taken to
return. Nobody has to start a build, save a file, kill a process or clear the cache, so these have
no fairness. The preprocessor is one thread that nothing waits for, so `MacroExpansion` has weak
fairness of `Next`; `Stop` and `Panic` end it. So is the backend: `BackendChecks` has weak fairness
of `SearchStep`, the loop over the worklist, in which nothing blocks. Liveness is checked by TLC
only.

## 6. What is proved

All theorems hold for every set of builds, sources, texts and flags, any number of
workers, edits, kills and clears, from `ConstantsAssumption` alone unless stated.

* `TypeCorrect`: `Spec => []TypeOK`. `TypeOK` is not inductive: what a task writes
  comes from its memory, and what it copies must still exist. `StructInv` adds what a
  task holds in each state (`MemoryOK`), that it has its key (`KeyKnown`), that builds
  link after their tasks ended (`TasksEnded`), that an object about to be stored
  exists (`ObjThere`) and that an open entry is in the directory or pinned
  (`CacheOpen`, `CacheThere`). One step per action.
* `NothingIsLeft`: `Spec => []NothingLeft`, by `LeftInv`: a build that links has only
  successful tasks, and a successful task has removed its database and arena.
* `CacheIsSound`: `Spec => []CacheSound` if the sources of a build have distinct stems
  (`DistinctStems`) and the user saves headers only (`SourcesUnedited`). Both
  assumptions are needed: a second task of the same stem can replace the object
  between compilation and store, and a source saved between the two reads of a task is
  stored under the key of its old text. `SoundInv` says of every file, value in memory
  and pinned entry of a task that it fits the key the task computed.
* `OnlyWritersDamage`: `Spec => []DamagedHasWriter` if stems are distinct, by
  `WriterInv`: what a task relies on is whole, and the writer of a half-written entry
  still has it open or was killed.

`TaskFrame` (a task's step touches only its own memory and files) is the lemma the
last three rest on.

`BuildPromiseProofs` is about what the caller of a build gets. Its theorems name what they
assume, with operators that stand behind `DistinctStems` in `OpticBuild`:

| theorem | assumes |
|---|---|
| `OutcomeIsOfInputs`: `Spec => []OutcomeByInputs` | `DistinctStems`, `TreeAtRest`, `ToolsThere`, `KeysTell` |
| `LinksOwnObjects`: `Spec => []OwnObjects` | these, `NoCrashes`, `SameKeyApart` |
| `BuildsKeepPromise`: `Spec => KeepsPromise` | these, and `Installed = Tools` |

`TreeAtRest`: nothing is saved or cleared meanwhile. `ToolsThere`: `llc` and `clang` are installed
(`ar` and the linker too for the last one). `KeysTell`: sources of equal key make equal objects;
headers are no part of the key, so sources of equal text must include the same header, and flags are
joined without a separator. `SameKeyApart`: of builds that overlap no two sources share a key. What
goes wrong without `TreeAtRest`, `SameKeyApart` and `DistinctStems` is what `build_stale_header`,
`build_torn_hit` and the remark in section 3 on `x/u.c` and `y/u.c` show. That all of them hold
together is `SequentialAssumption`, which TLC evaluates for the builds of `build_sequential`, seven
turns with hits of one turn on what another stored. `Turn` orders builds in the model as their
callers do, and builds of one turn overlap freely; the first theorem does not use it and allows
kills.

* `OutcomeInv` says that an ended task ended as the text of its source asks and that one at work has
  passed only what its text passes (`TaskTells`), that a builder has collected exactly this
  (`BuildTells`), and that an entry of the cache has the key of a source that compiles
  (`CacheTells`), so that a hit happens only where compilation would succeed. It needs that the tree
  is still as it was (`Settled`) and the three invariants above. A half-written entry stays
  half-written or is finished; that `fs::copy` may hand out its prefix does not change a result.
* `PromiseInv` adds `TurnInv` (of builds at work only one turn's) and `OwnInv`: the files and the
  memory of a task hold its own object (`TaskOwns`), an entry of the cache that nobody writes is
  whole and is the object of every source of its key (`CacheWhole`). `OneWorker` is why the
  hypotheses suffice: of two tasks at work with one key there is one, so whoever finds an entry
  (`HitIsOwn`) finds no half-written one.
* The refinement maps each build to what its caller sees (`Seen`). `PromisedBegin`,
  `PromisedCollect`, `PromisedProduce` and `PromisedRefusal` are the four steps that show; every
  other action leaves the mapped state alone (`MovesNowhere`), and `RowIsImage` says that what
  `Produce` writes is what `BuildPromise` asks for.

`ArenaProofs`, for every capacity, every set of blobs of any lengths and pages of any size, and the file
as `Arena::new` sizes it (`ArenaAssumption`):

* `StoredIsReadBack`: `Spec => []ReadBack`. `ReadBack` is not inductive: nothing in it
  keeps the blob of one offset from reaching into the next. `HeldInv` says where each
  offset lies (a node below `node_allocated`, a blob with all of its parts between
  `string_start` and the first free slot), that its bytes are mapped, and that each slot of it
  holds its part;
  a later store begins where all earlier ones end, since `Parts` needs no more slots
  than `SlotsNeeded` (the lemma on the rounded division).
* `KindsStayApart`: `Spec => []KindsApart`, from the same invariant, and
  `ArenaTypeCorrect`: `Spec => []TypeOK`: the counters stay in their pools, and every byte of what
  is held is mapped.
* `OnlyLastSlotIsOut`: `Spec => OnlyLastSlotOut`. The mapping covers the file (`FileIsMapped`), and
  a blob that does not take the last slot ends within the file, so that the one slot by which
  `string_start` is too far is the only way out. The three theorems above hold because a store that goes out
  stores nothing under an offset: the model ends there (`intact`), as nothing can be said of the process
  after it. That this happens is `arena_last_slot`.

`PreprocessorProofs`, for every set of files and whatever they hold:

* `PreprocessorTypeCorrect`: `Spec => []TypeOK`, with one lemma for each way an action
  changes the calls (`FlushStep`, `TextStep`, `OpenStep`, ..., `EnterStep`,
  `ReturnStep`).
* `PreprocessorNeverReentered`: `Spec => []NeverReentered`. A call that fails leaves its
  name on `include_stack`, and the next `pop` then removes the wrong name, so "the stack
  holds the open files" has to be said with depths: `OpenOnStack` says that the file of
  the `i`-th call stands at least as far below the top as that call does.
* `PreprocessorOncePerText`: `Spec => []OncePerText`, from `Remembered`: the texts of the
  files that were included are in the database.

`PreprocessorGroupsProofs`, for every set of files, of any length and nested in any way:

* `PreprocessorActiveGroups`: `Spec => []ActiveGroups`. The reference counts depths over the text
  from its start; the code keeps two stacks. `GroupsOK` connects them: for each level of the stack
  there is one line that began the group which is open there (`Nested`), that line was chosen
  exactly if the level says that it is read, and `branch_taken` says of the level whether the group or
  an earlier one of its conditional was chosen (`Remembered`). `DepthStep` is the one induction
  step over lines; `GroupNext`, `OpenerFirst` and `AlternativeEarlier` turn it into what a group, its
  opener and its earlier groups are one line further on. Then one lemma for each kind of
  directive (`OpenLevels`, `AlternativeLevels`, `EndifLevels`, `SameLevels`).
* `PreprocessorOutputAsExpected`: `Spec => []OutputAsExpected`. Not inductive, since text waits in
  `pending`: what is invariant is that flushing now would give what is expected, and that
  outer calls have nothing pending (`OuterSettled`).
* `PreprocessorErrorsExactly`: `Spec => []ErrorsExactly`, by `PassedOK` (of what was passed only
  an `#include` may be bad), `Verdict` (what the status says of the line reached) and
  `PassedWell` (which `#include` it may be). The last needs `StrictStack`: in a strict run an error
  ends everything, so that `include_stack` holds the names of the files being read, each at its
  place and no other. Without it a stale name could excuse a missing file. `Moves` says
  what a step does to the calls: the innermost reads a line that it may pass, calls are left, or
  one is entered.

`MacroExpansionProofs`, for every file, also one whose expansion never ends, from
`NoneAssumption` (no macro has the name that stands for no macro) and, for types,
`ProgramsAssumption` (lines, bodies and parameters are sequences, as they are vectors in the code):

* `StackHoldsCallsAtWork`: `Spec => []NotReentered`. An object-like macro is at work until its text
  is expanded, so none is expanded within itself. A function-like macro is at work until its
  arguments are put in; its name is dropped before the result is scanned again
  (`preprocessor.rs:2766`), where it may be called once more, and of that the theorem says nothing. The invariant `HideStack` says that
  `expanding` is the names of the named calls in their order (`IsStackOf`, by a bijection
  that keeps the order) and holds nothing twice (`NoneTwice`); that an argument call has a
  name is needed for what `Rescan` pops. `StackStays`, `StackGrows` and `StackShrinks` are
  what can happen to such a stack, `StepWithin`, `StepCall` and `StepPop` the three kinds
  of step.
* `MacrosTypeCorrect`: `Spec => []TypeOK`: the token a call reads is there, also after a call
  of a macro that nothing closes, behind a `#` at the end and with arguments missing. `TypeInv` adds
  that what calls work on and return are sequences, that a call with arguments is of a macro that
  takes some, and that calls are at work only for a line the file has (`LineOK`); with
  `HideStack` it is inductive. The work is in what the operators return: `NextPlaceIs` and
  `ClosePlaceIs` bound the parentheses, `CollectedArgs`, `ReplacementIs` and `BodyIs` say that
  arguments, replacements and bodies are sequences. `FlattenIs` is an induction over data
  after all: `FlattenSeq` chooses a recursive function, which exists and has sequences as values since
  there is no least place where it fails (`FlattensSome`, `FlattensAll`).

`IfGrammarProofs`, for every line of any length, every derivation of it, whatever its operands read as,
and every arithmetic that stays within the values and has 0 and 1 (`ArithmeticAssumption`):

* `StaysInLine`: `Spec => []TypeOK`. Nothing in the definition of `Reading` says that there is such
  a function: it calls itself at other levels of the same place. `Rank` orders the parts of a line,
  by place and then by level, and `StepFits` says that each parse function asks only for parts of a
  lower rank, and fits if these do. So a function that reads all parts below a rank can be continued
  by one rank (`ReadsOneMore`), there is no least rank without one (`SomeReads`), and `Reading` is
  one (`ReadingIs`): the parse functions end. `Limit` is how far a part may be read: to the end of
  the line that it is on if every operand on the line ends there (`OperandsEnd`), else to the end of
  the file. That they stay within it needs that the end of a line is no operator. Without
  `OperandsEnd` the line may be left: an operand that is a call of a function-like macro takes tokens
  of later lines up to its parenthesis, or the rest of the file.
* `ReadsWhatIsDerived`: `Spec => []ReadsAsDerived`, and `ReadsNoOtherValue`: `Spec =>
  []NoOtherValue`. Both follow from `NodesAreRead`, an induction over the nodes of a derivation by
  the least node that is not read as it is derived. What must hold of a node for the induction to go
  through is `ReadsNode`: its outcome ends where the node does and is its value, or some node of the
  line has no value (`FitsNode`); and every level that may begin at the node's first token reads it
  and goes on with its own loop behind it (`LevelReads`), as long as no tighter operator stands
  there that would continue the node (`Closed`). `LooserReads` carries this from the node's own
  level down to the loosest, `RightIsRead` is where levels with a loop and the two without one
  differ, and where `NoRows` is needed is the left operand of such a level.

The operands are taken to end within the file (`IsLine`), as all of them do. The text that is read goes on
behind the line of the expression, as the tokens that `parse_if_expression` is given do; a derivation
(`IsDerivation`) is one of that line. What a macro's value is, is an operand to these theorems, and what arithmetic computes is theirs
as it is the reader's: both stay with `if_expression`. `NoRows` leaves out what section 8 says of
equalities and comparisons in a row.

`BackendProofs`, for every set of definitions, whatever they call and in any order that a
hash map hands the worklist out:

* `FindsExactlyReachable`: `ReachSpec => []ExactlyReachable`: when the worklist is empty, the
  functions found are the least set with the roots that is closed under calls. The invariant
  says that what is found is defined (`FoundDefined`), that what a function names has been found
  unless the function is still on the worklist (`LookedAt`), and that whatever was found is in
  every closed set with the roots (`FoundNeeded`).
* `LooksOnce`: `ReachSpec => NeverAgain`, from the same invariant.

and for every order of blocks and declarations, under any names:

* `BlocksRestore`: `ScopesSpec => EndsAsItBegan`. `outer` records the variables when each open
  block began and is no state of the code. The invariant `EachKeeps` says of each open scope that
  what it saved is what names meant when it began, and that every other name still meant that
  when the next scope within it began (`After`), or means it now. `RestoresBefore` is what the
  pop then computes; `DeclarationKeeps` is why only the first of several declarations may save.

## 7. What is only model-checked

`BuildsEnd` is liveness, and `TameAsC` and `ExpansionEnds` of macro expansion are recursion and
liveness. Parser, the macros of an `#if` and lowering are recursive in the code and `RECURSIVE` in
the model: `ReadsBack`, `NodesFormTrees`, `Advances`, `EvaluatesAsC`, `RefusesOrAgrees`, `Verifies`,
`RunsAsC`, `SizesAgree`, `NothingOpen` and the `TypeOK` of `ParserChecks` and `BackendChecks` stay with TLC, and
so does `SearchEnds` (liveness). Every other property of a passing run is a theorem. `EndsAsItBegan`
is proved and has no run of its own; what it means for programs is in `RunsAsC`, with
`ShadowPrograms`.

## 8. What is not modelled

* Build: `compile_single_file` (IR of one file, no cache), the benchmark entry points
  (the same pipeline on one thread), directory discovery, the debug copies
  `/tmp/optic_last_ir.ll` and `/tmp/optic_last_tokens.txt`, `jobs = 0` (rayon then uses
  one worker per core), tools of the same name in several versions, full disks.
* Arena: flushing, capacities near 2^32. Reopening a file (nothing does). What happens after a store behind
  the mapping.
* Preprocessor: comments, `__LINE__`, `__FILE__` and predefined macros, keywords
  as macro names, the search of include paths
  (a directory or an unreadable file in the way counts as not found), `#` in the middle of
  a line (the code takes it for a directive), and what is collected but not read:
  pragmas, warnings, `include_guards`, `current_file`.
* Parser: its own lexer (`Parser::lex`, used when no preprocessed tokens are given), line
  numbers, functions that nothing calls.
* `#if`: white space (skipped in front of each token) and the characters of numbers. The name in
  angle brackets of `__has_include` is one token (in the code, all tokens up to `>`, on whatever line that is).
* Backend: floating point, packed structs, inline assembly, computed gotos, atomics, `va_arg`,
  attributes and linkage but for what they say of reachability, and the optimizer and emitter
  of LLVM.
* Lexer and legacy macro expander: nothing on the way from a source to an object calls them.
  `types`: the build makes an empty `TypeSystem` and only `to_llvm_type` reads it, which nothing
  else calls. VFS: compiled out of `lib.rs`; alias analysis: nothing calls it but the VFS and its
  own tests. Database: two of its calls are made in a build, and are part of `Preprocessor`.
* The command line, the benchmark and the integration driver are loops of timing, downloads and
  reports around the build.

### What the parser does otherwise

Programs that are not tame are parsed as the code does it, with no claim. Besides operators of
equal strength (`parser_left`): `(g).x`, `(a)[i]` and `(f)(x)` lose what stands behind the
parentheses, `({ ... })` is never taken for a statement expression, and some operands of `asm`
keep the loop of `inline_asm.rs:157` where it is (the state `hang`).

### What `#if` does otherwise

Equalities in a row are read from the right, and of comparisons in a row only the first two
operands; a macro is a value, so that with `#define N 1 + 1` the value of `N * 2` is 4; a `?:` at
the top of a macro is cut off; the name of a function-like macro without parentheses is 1; the rest
of a line behind an expression is ignored; a macro that leads to itself recurses until the stack is
full; a number that does not fit an `i64` is 0 and a suffix `u` has no effect; the least value
divided by -1 panics; both sides of `&&`, `||` and `?:` are evaluated, so that `defined(V) && 10 /
V` is an error where V is 0; a call of a function-like macro that is not closed on its line takes
tokens of the next ones, up to its parenthesis or the end of the file (`collect_pp_macro_args` does
not stop at the end of the line). Elsewhere in the
preprocessor, `#x` in a call with fewer arguments than parameters panics (`preprocessor.rs:2878`).

### What the backend does otherwise

The programs of the run keep away from these; the model has the code's behaviour for each of the
modelled forms, so that a program of the kind can be tried.

* Control: statements behind a jump in the same block leave instructions behind a terminator (the
  result of `verify` is dropped, `build/mod.rs:1119`); `&&` and `||` evaluate both sides and are
  bitwise; `?:` evaluates both arms and returns the first if the types differ; labels of a `switch`
  in inner blocks are ignored; an error in the condition of a loop leaves `break_stack` and
  `continue_stack` as they were; the variable of a `for` stays visible behind it.
* Arithmetic: two chars are computed in the width of a char; `>>` is logical; a comparison is -1
  when it is widened; casts do nothing; unary `+` and operators of a pointer and `&&` drop the
  statement; pointers count bytes; through an `int *` eight bytes are written; `char c = 1;` writes
  four; arguments are zero-extended; functions of type `long`, `short` and `unsigned` return `i32`.
* Names: enumerators are not found; `int a, b;` in a struct is one member, and with `static` one
  variable; `int f(int);` in a block is a variable; `int (*fp)(int) = g;` in a file declares a
  function; pointers, arrays, `long` and `unsigned` without an initializer in a file are not
  created; two tentative definitions are two variables; two tags of one layout are mixed up by the
  order of a hash map; a static function that only an initializer names gets the body of one that
  is missing, `int f();` in front of a definition with parameters leaves it half built.
* Structs and initializers: members of a union do not overlap; `sizeof` of a struct with bit-fields
  is too small (`SizesAgree` leaves them out), bit-fields are read unsigned and `++` on one counts
  its whole unit; `offsetof` is 0; the builtins `*_overflow` never report one; initializers of
  static locals are ignored, of other globals they are zero unless they are integer constants;
  `struct s a = {1, 2};` in a block stores nothing, with designators what is not named stays unset;
  arrays are passed by value.

## 9. Plan

Done, in this order: `OpticBuild` and `BuildPromise`; `Arena`; `Preprocessor`, `MacroExpansion` and
`CMacros`; `Parser` with `CSyntax`; the backend from `IR` to `BackendChecks`; `IfExpression`;
`Reachability` and `Scopes` with their proofs; `PreprocessorGroupsProofs` and `BuildPromiseProofs`;
`IfReading`, taken out of `IfExpression` without recursive operators, and `IfGrammar` with its
proofs.

What is left, by what it would add:

1. Backend: more of the programs of section 8 as runs of their own, computed gotos, packed structs.
2. `AliasAnalysis` and the locks of the VFS, once something calls them.
3. Proofs about `Parser` and `Lowering`, once their recursion is written with recursive functions, as
   `IfReading` is: `IfGrammarProofs` shows how far the argument by derivations carries.
